--------------------------- MODULE PoolFeedProofs ---------------------------
(***************************************************************************)
(* For every pool, bridge, policy and sequence of events: what the client   *)
(* builds from a snapshot connects, asks for no stale minimum, and goes     *)
(* through pools and mints that are those the snapshot stands for.          *)
(***************************************************************************)
EXTENDS PoolFeed, TLAPS

-----------------------------------------------------------------------------
(* The snapshot.                                                            *)

(* The cached quote is of the snapshot as it is now.                        *)
Fresh(s) == s.expected # NONE => s.expected = quote_of(s, s.quoted_mint, s.quoted_in)

(* What the snapshot says of the two sides is what they are on chain, or    *)
(* nothing yet, and so is the configuration of a CPMM pool; only the mint   *)
(* of a curve is taken from the caller.                                     *)
TheirConfig(s) ==
    \/ s.config = UNSET
    \/ \E p \in {Pool, Wild[Pool]} : s.id = p.id /\ s.config = p.config

Sides(s, mint) ==
    /\ TheirConfig(s)
    /\ s.pa \in {UNSET, Pool.pa} /\ s.pb \in {UNSET, Pool.pb}
    /\ s.dex \notin {"clmm", "whirlpool"} => s.pa = Pool.pa /\ s.pb = Pool.pb
    /\ s.b = Pool.b \/ (s.dex = "amm_v4" /\ s.b = UNSET)
    /\ \/ s.a = Pool.a
       \/ s.dex = "amm_v4" /\ s.a = UNSET
       \/ /\ s.dex \in {"launchlab", "pumpfun"}
          /\ mint = s.a /\ mint \notin {UNSET, WSOL_MINT}

Recorded(s) ==
    s = [ dex |-> s.dex, id |-> s.id, a |-> s.a, b |-> s.b, pa |-> s.pa, pb |-> s.pb,
          config |-> s.config, use_v2 |-> s.use_v2, clamps |-> s.clamps,
          stonk |-> s.stonk, known |-> s.known, arrays |-> s.arrays,
          quoted_in |-> s.quoted_in,
          quoted_mint |-> s.quoted_mint, expected |-> s.expected,
          version |-> s.version ]

OneOfTwo(id) == id \in {Pool.id, Wild[Pool].id}

ArraysOK(arrays, id) == arrays = NONE \/ Whole(arrays, id)

Snapped(s) ==
    /\ Recorded(s)
    /\ s.dex = Pool.dex /\ OneOfTwo(s.id)
    /\ s.version = applied
    /\ ArraysOK(s.arrays, s.id)

MarketOK ==
    \/ market = NoMarket
    \/ /\ market = [pool |-> market.pool, bridge |-> market.bridge]
       /\ Snapped(market.pool) /\ Sides(market.pool, asked) /\ Fresh(market.pool)
       /\ market.bridge \subseteq Bridges
       /\ \A b, c \in market.bridge : b = c

FeedInv ==
    /\ target \in Targets /\ policy \in Policies
    /\ range \in 0 .. MaxRange /\ applied \in 0 .. MaxApplied
    /\ asked \in AllMints \cup {UNSET}
    /\ MarketOK

(* Nothing has been observed and no market is held.                         *)
LEMMA InitFeed == Init => FeedInv
<1> SUFFICES ASSUME Init PROVE FeedInv
  OBVIOUS
<1>1. 0 \in 0 .. MaxRange /\ 0 \in 0 .. MaxApplied
  <2>1. MaxRange \in Nat /\ MaxApplied \in Nat
    BY PoolFeedConstants, Zenon
  <2> QED
    BY <2>1, SMT
<1> QED
  BY <1>1, Zenon DEF Init, FeedInv, MarketOK

(* The pool a bot watches and the wild one differ in their address only.    *)
LEMMA TwoPools ==
    ASSUME target \in Targets, NEW p \in {Pool, Wild[Pool]}
    PROVE  /\ p = OnChainPool(p)
           /\ p.dex = Pool.dex /\ p.dex \in Dexes /\ OneOfTwo(p.id)
           /\ p.a = Pool.a /\ p.b = Pool.b /\ p.pa = Pool.pa /\ p.pb = Pool.pb
           /\ Sides(p, UNSET)
<1>1. /\ Pool = OnChainPool(Pool) /\ Pool.dex \in Dexes
      /\ Wild[Pool] = [Pool EXCEPT !.id = Wild[Pool].id, !.config = Wild[Pool].config,
                                    !.stonk = Wild[Pool].stonk]
  BY PoolFeedConstants DEF Pool, ChainPool
<1>2. CASE p = Pool
  BY <1>1, <1>2 DEF OneOfTwo, Sides, TheirConfig
<1>3. CASE p = Wild[Pool]
  <2> DEFINE w == Wild[Pool]
             o == Pool
  <2>1. o = [ dex |-> o.dex, id |-> o.id, a |-> o.a, b |-> o.b, pa |-> o.pa, pb |-> o.pb,
              config |-> o.config, use_v2 |-> o.use_v2, clamps |-> o.clamps, stonk |-> o.stonk ]
        /\ w = [o EXCEPT !.id = w.id, !.config = w.config, !.stonk = w.stonk]
    BY <1>1, Zenon DEF OnChainPool
  <2> HIDE DEF w, o
  <2>2. /\ w.dex = o.dex /\ w.a = o.a /\ w.b = o.b /\ w.pa = o.pa /\ w.pb = o.pb
        /\ w = [ dex |-> w.dex, id |-> w.id, a |-> w.a, b |-> w.b, pa |-> w.pa, pb |-> w.pb,
                 config |-> w.config, use_v2 |-> w.use_v2, clamps |-> w.clamps, stonk |-> w.stonk ]
    BY <2>1
  <2> QED
    BY <1>1, <1>3, <2>2, Zenon DEF w, o, OneOfTwo, Sides, TheirConfig, OnChainPool
<1> QED
  BY <1>2, <1>3

(* A caller may leave the configuration of either out.                      *)
LEMMA NamedPools ==
    ASSUME target \in Targets, NEW o \in Named(Pool) \cup Named(Wild[Pool])
    PROVE  /\ o = OnChainPool(o)
           /\ o.dex = Pool.dex /\ o.dex \in Dexes /\ OneOfTwo(o.id)
           /\ o.a = Pool.a /\ o.b = Pool.b /\ o.pa = Pool.pa /\ o.pb = Pool.pb
           /\ Sides(o, UNSET)
<1>1. PICK p \in {Pool, Wild[Pool]} : o \in Named(p)
  OBVIOUS
<1>2. CASE o = p
  BY <1>2, TwoPools
<1>3. CASE o # p
  <2>1. o = [p EXCEPT !.config = UNSET]
    BY <1>1, <1>3 DEF Named
  <2>2. /\ p = [ dex |-> p.dex, id |-> p.id, a |-> p.a, b |-> p.b, pa |-> p.pa, pb |-> p.pb,
                 config |-> p.config, use_v2 |-> p.use_v2, clamps |-> p.clamps,
                 stonk |-> p.stonk ]
        /\ p.dex = Pool.dex /\ p.dex \in Dexes /\ OneOfTwo(p.id)
        /\ p.a = Pool.a /\ p.b = Pool.b /\ p.pa = Pool.pa /\ p.pb = Pool.pb
    BY TwoPools, Zenon DEF OnChainPool
  <2>3. /\ o.dex = p.dex /\ o.id = p.id /\ o.a = p.a /\ o.b = p.b /\ o.pa = p.pa
        /\ o.pb = p.pb /\ o.config = UNSET
        /\ o = [ dex |-> o.dex, id |-> o.id, a |-> o.a, b |-> o.b, pa |-> o.pa, pb |-> o.pb,
                 config |-> o.config, use_v2 |-> o.use_v2, clamps |-> o.clamps,
                 stonk |-> o.stonk ]
    BY <2>1, <2>2
  <2> QED
    BY <2>2, <2>3, Zenon DEF Sides, TheirConfig, OnChainPool
<1> QED
  BY <1>2, <1>3

(* A new snapshot, from an event or from parameters.                        *)
LEMMA ReceivedKeeps ==
    ASSUME FeedInv, NEW p, NEW known, NEW arrays, NEW quoted_in, NEW bridge, NEW mint,
           bridge \in Carried \cup {{}}, mint \in AllMints \cup {UNSET},
           p.dex = Pool.dex, OneOfTwo(p.id), Sides(p, mint), ArraysOK(arrays, p.id),
           Received(Snapshot(p, known, arrays, quoted_in), bridge, mint)
    PROVE  FeedInv'
<1> SUFFICES ASSUME NEW s, s = Snapshot(p, known, arrays, quoted_in) PROVE FeedInv'
  OBVIOUS
<1>1. /\ applied < MaxApplied /\ market' = [pool |-> s, bridge |-> bridge]
      /\ asked' = mint /\ applied' = applied + 1
      /\ UNCHANGED <<target, range, policy>>
  BY DEF Received
<1>2. /\ s.dex = p.dex /\ s.id = p.id /\ s.a = p.a /\ s.b = p.b /\ s.pa = p.pa
      /\ s.pb = p.pb /\ s.config = p.config /\ s.arrays = arrays /\ s.expected = NONE
      /\ s.version = applied + 1 /\ Recorded(s)
  BY DEF Snapshot, Observed, Recorded
<1>3. /\ market'.pool = s /\ market'.bridge = bridge
      /\ market' = [pool |-> market'.pool, bridge |-> market'.bridge]
  BY <1>1
<1>4. Pool' = Pool /\ Bridges' = Bridges /\ AllMints' = AllMints
  BY <1>1 DEF Pool, Bridges, Named, AllMints, BridgeSnapshot
<1>5. applied' \in 0 .. MaxApplied
  <2>1. applied \in 0 .. MaxApplied /\ MaxApplied \in Nat
    BY PoolFeedConstants DEF FeedInv
  <2> QED
    BY <1>1, <2>1, SMT
<1>6. Snapped(s)'
  BY <1>1, <1>2, <1>4, Zenon DEF Snapped, OneOfTwo, ArraysOK, Whole, Recorded
<1>7. Sides(s, mint)'
  BY <1>1, <1>2, <1>4, Zenon DEF Sides, TheirConfig
<1>8. Fresh(s)'
  BY <1>2 DEF Fresh
<1>9. bridge \subseteq Bridges /\ \A b, c \in bridge : b = c
  BY DEF Carried
<1>10. MarketOK'
  BY <1>1, <1>3, <1>4, <1>6, <1>7, <1>8, <1>9, Zenon DEF MarketOK
<1> QED
  BY <1>1, <1>4, <1>5, <1>10, Zenon DEF FeedInv

(* What an event may say of the arrays of its pool.                         *)
LEMMA Heard ==
    ASSUME target \in Targets, NEW e \in Events
    PROVE  /\ e.of \in {Pool, Wild[Pool]} /\ e.pool = e.of.id
           /\ \/ ArraysOK(e.arrays, e.pool)
              \/ e.arrays = Partial(e.pool, range) /\ Pool.dex = "whirlpool"
<1>1. PICK p \in {Pool, Wild[Pool]} : e \in SwapEvents(p)
  BY DEF Events
<1>2. PICK amount \in {NONE, spend, other_size},
           arrays \in {NONE} \cup {Triplet(p.id, r) : r \in 0 .. range}
                      \cup (IF p.dex = "whirlpool" THEN {Partial(p.id, range)} ELSE {}),
           sides \in SUBSET {"a", "b"} :
        e = SwapEvent(p, amount, arrays, sides)
  BY <1>1, SMT DEF SwapEvents
<1>3. e.of = p /\ e.pool = p.id /\ e.arrays = arrays
  BY <1>2 DEF SwapEvent
<1>4. p.dex = Pool.dex
  BY TwoPools
<1>5. \/ ArraysOK(arrays, p.id)
      \/ arrays = Partial(p.id, range) /\ Pool.dex = "whirlpool"
  BY <1>2, <1>4, Zenon DEF ArraysOK, Whole
<1> QED
  BY <1>1, <1>3, <1>5, Zenon

(* An event that carries three arrays carries those of one range of its pool.*)
LEMMA WholeEvent ==
    ASSUME target \in Targets, NEW e \in Events, Len(e.arrays) = 3,
           UNSET \notin {e.arrays[i] : i \in DOMAIN e.arrays}
    PROVE  Whole(e.arrays, e.pool)
<1>1. CASE e.arrays = NONE
  BY <1>1 DEF NONE
<1>2. CASE e.arrays = Partial(e.pool, range)
  <2>1. 3 \in DOMAIN e.arrays /\ e.arrays[3] = UNSET
    BY <1>2 DEF Partial
  <2> QED
    BY <2>1
<1> QED
  BY <1>1, <1>2, Heard DEF ArraysOK

(* Every event makes its own kind of snapshot.                              *)
LEMMA EventSnapshot ==
    ASSUME target \in Targets, NEW e \in Events, NEW s \in market_from_dex_event(e)
    PROVE  \E p, known, arrays, quoted_in :
              /\ s = Snapshot(p, known, arrays, quoted_in)
              /\ p.dex = Pool.dex /\ OneOfTwo(p.id) /\ Sides(p, UNSET)
              /\ ArraysOK(arrays, p.id)
<1> DEFINE o == e.of
<1>1. /\ o \in {Pool, Wild[Pool]} /\ e.pool = o.id
      /\ o = OnChainPool(o) /\ o.dex = Pool.dex /\ o.dex \in Dexes /\ OneOfTwo(o.id)
      /\ o.a = Pool.a /\ o.b = Pool.b /\ o.pa = Pool.pa /\ o.pb = Pool.pb
      /\ Sides(o, UNSET)
  <2>1. o \in {Pool, Wild[Pool]} /\ e.pool = o.id
    BY Heard
  <2> HIDE DEF o
  <2> QED
    BY <2>1, TwoPools
<1>2. ArraysOK(NONE, o.id)
  BY DEF ArraysOK
<1> DEFINE Made(p, known, arrays, quoted_in) ==
              /\ s = Snapshot(p, known, arrays, quoted_in)
              /\ p.dex = Pool.dex /\ OneOfTwo(p.id) /\ Sides(p, UNSET)
              /\ ArraysOK(arrays, p.id)
<1>3. CASE o.dex = "whirlpool"
  <2>1. s \in whirlpool_from_swap(e)
    BY <1>3 DEF market_from_dex_event
  <2>2. /\ Len(e.arrays) = 3 /\ UNSET \notin {e.arrays[i] : i \in DOMAIN e.arrays}
        /\ s = Snapshot(e.of, {}, e.arrays, e.amount)
    BY <2>1, Zenon DEF whirlpool_from_swap
  <2>3. ArraysOK(e.arrays, o.id)
    BY <1>1, <2>2, WholeEvent DEF ArraysOK
  <2>4. Made(o, {}, e.arrays, e.amount)
    BY <1>1, <2>2, <2>3
  <2> QED
    BY <2>4, Zenon
<1>4. CASE o.dex = "dlmm"
  <2>1. s \in dlmm_from_swap(e)
    BY <1>4 DEF market_from_dex_event
  <2>2. s = Snapshot(e.of, {}, e.arrays, e.amount)
    BY <2>1, Zenon DEF dlmm_from_swap
  <2>3. ArraysOK(e.arrays, o.id)
    BY <1>1, <1>4, Heard
  <2>4. Made(o, {}, e.arrays, e.amount)
    BY <1>1, <2>2, <2>3
  <2> QED
    BY <2>4, Zenon
<1>5. CASE o.dex = "clmm"
  <2>1. s \in clmm_from_swap(e)
    BY <1>5 DEF market_from_dex_event
  <2>2. PICK pa \in {known_mint_token_program(o.a)} \cup (IF o.pa = "t22" THEN {"t22"} ELSE {}),
             pb \in {known_mint_token_program(o.b)} \cup (IF o.pb = "t22" THEN {"t22"} ELSE {}) :
               s = Snapshot(WithPrograms(o, pa, pb), {}, e.arrays, e.amount)
    BY <2>1, SMT DEF clmm_from_swap
  <2> DEFINE p == WithPrograms(o, pa, pb)
  <2>3. pa \in {UNSET, Pool.pa} /\ pb \in {UNSET, Pool.pb}
    <3>1. /\ Pool.a \in {WSOL_MINT, USDC_MINT} => Pool.pa = "spl"
          /\ Pool.b \in {WSOL_MINT, USDC_MINT} => Pool.pb = "spl"
      BY PoolFeedConstants, Zenon DEF Pool, ChainPool
    <3> QED
      BY <1>1, <2>2, <3>1, Zenon DEF known_mint_token_program
  <2>4. /\ p.dex = o.dex /\ p.id = o.id /\ p.a = o.a /\ p.b = o.b /\ p.pa = pa /\ p.pb = pb
        /\ p.config = o.config
    <3>1. o = [ dex |-> o.dex, id |-> o.id, a |-> o.a, b |-> o.b, pa |-> o.pa, pb |-> o.pb,
                config |-> o.config, use_v2 |-> o.use_v2, clamps |-> o.clamps, stonk |-> o.stonk ]
      BY <1>1, Zenon DEF OnChainPool
    <3> HIDE DEF o
    <3> QED
      BY <3>1 DEF WithPrograms
  <2>5. ArraysOK(e.arrays, o.id)
    BY <1>1, <1>5, Heard
  <2> HIDE DEF p
  <2>6. Sides(p, UNSET)
    BY <1>1, <1>5, <2>3, <2>4, Zenon DEF Sides, TheirConfig
  <2>7. s = Snapshot(p, {}, e.arrays, e.amount)
    BY <2>2 DEF p
  <2>8. Made(p, {}, e.arrays, e.amount)
    BY <1>1, <2>4, <2>5, <2>6, <2>7
  <2> QED
    BY <2>8, Zenon
<1>6. CASE o.dex = "damm_v2"
  <2>1. Made(o, {}, NONE, e.amount)
    BY <1>1, <1>2, <1>6 DEF market_from_dex_event, damm_v2_from_swap
  <2> QED
    BY <2>1, Zenon
<1>7. CASE o.dex = "amm_v4"
  <2> DEFINE p == [o EXCEPT !.a = UNSET, !.b = UNSET]
  <2>1. s = Snapshot(p, {}, NONE, NONE)
    BY <1>7 DEF market_from_dex_event, amm_v4_from_swap
  <2>2. /\ p.dex = o.dex /\ p.id = o.id /\ p.a = UNSET /\ p.b = UNSET
        /\ p.pa = o.pa /\ p.pb = o.pb /\ p.config = o.config
    <3>1. o = [ dex |-> o.dex, id |-> o.id, a |-> o.a, b |-> o.b, pa |-> o.pa, pb |-> o.pb,
                config |-> o.config, use_v2 |-> o.use_v2, clamps |-> o.clamps, stonk |-> o.stonk ]
      BY <1>1, Zenon DEF OnChainPool
    <3> HIDE DEF o
    <3> QED
      BY <3>1
  <2> HIDE DEF p
  <2>3. Sides(p, UNSET)
    BY <1>1, <1>7, <2>2, Zenon DEF Sides, TheirConfig
  <2>4. Made(p, {}, NONE, NONE)
    BY <1>1, <1>2, <2>1, <2>2, <2>3
  <2> QED
    BY <2>4, Zenon
<1>8. CASE o.dex \in {"launchlab", "cpmm"}
  <2>1. Made(o, {}, NONE, NONE)
    BY <1>1, <1>2, <1>8
       DEF market_from_dex_event, launchlab_from_trade, cpmm_from_pool_state
  <2> QED
    BY <2>1, Zenon
<1>9. CASE o.dex = "pumpfun"
  <2>1. PICK known \in {{}, mints(o)} : s = Snapshot(o, known, NONE, NONE)
    BY <1>9 DEF market_from_dex_event, try_pumpfun_from_trade
  <2>2. Made(o, known, NONE, NONE)
    BY <1>1, <1>2, <2>1
  <2> QED
    BY <2>2, Zenon
<1>10. CASE o.dex = "pumpswap"
  <2>1. Made(o, {o.b}, NONE, NONE)
    BY <1>1, <1>2, <1>10 DEF market_from_dex_event, pumpswap_from_trade
  <2> QED
    BY <2>1, Zenon
<1> QED
  BY <1>1, <1>3, <1>4, <1>5, <1>6, <1>7, <1>8, <1>9, <1>10
     DEF Dexes, Oriented, Concentrated

-----------------------------------------------------------------------------
(* No step loses what FeedInv says.                                         *)

(* FromEvent: market_from_dex_event.                                        *)
LEMMA FromEventKeeps == FeedInv /\ FromEvent => FeedInv'
<1> SUFFICES ASSUME FeedInv, FromEvent PROVE FeedInv'
  OBVIOUS
<1>1. PICK e \in Events :
        \E s \in market_from_dex_event(e), bridge \in Carried : Received(s, bridge, UNSET)
  BY Zenon DEF FromEvent
<1>2. PICK s \in market_from_dex_event(e), bridge \in Carried : Received(s, bridge, UNSET)
  BY <1>1, Zenon
<1>3. target \in Targets
  BY Zenon DEF FeedInv
<1>4. PICK p, known, arrays, quoted_in :
        /\ s = Snapshot(p, known, arrays, quoted_in)
        /\ p.dex = Pool.dex /\ OneOfTwo(p.id) /\ Sides(p, UNSET)
        /\ ArraysOK(arrays, p.id)
  BY <1>3, EventSnapshot
<1>5. Received(Snapshot(p, known, arrays, quoted_in), bridge, UNSET)
  BY <1>2, <1>4, Zenon
<1> QED
  BY <1>4, <1>5, ReceivedKeeps

(* The mints in play are all known.                                         *)
LEMMA MintsAreSet ==
    ASSUME target \in Targets
    PROVE  UNSET \notin AllMints
<1>1. UNSET \notin mints(Pool) /\ \A b \in target.bridge : UNSET \notin mints(b)
  BY PoolFeedConstants, Zenon DEF Pool, ChainPool
<1>2. UNSET # WSOL_MINT
  BY MintConstants
<1> DEFINE theirs == UNION {mints(b) : b \in target.bridge}
<1>3. UNSET \notin theirs
  BY <1>1, SMT
<1>4. AllMints = {WSOL_MINT} \cup mints(Pool) \cup theirs
  BY DEF AllMints
<1> HIDE DEF theirs
<1> QED
  BY <1>1, <1>2, <1>3, <1>4

(* FromAccount: whirlpool_from_account and clmm_from_pool_state.            *)
LEMMA FromAccountKeeps == FeedInv /\ FromAccount => FeedInv'
<1> SUFFICES ASSUME FeedInv, FromAccount PROVE FeedInv'
  OBVIOUS
<1> DEFINE o == Pool
           pa == known_mint_token_program(o.a)
           pb == known_mint_token_program(o.b)
           p == WithPrograms(o, pa, pb)
<1>1. target \in Targets
  BY Zenon DEF FeedInv
<1>2. PICK bridge \in Carried : /\ o.dex \in {"whirlpool", "clmm"}
                                 /\ Received(Snapshot(p, {}, NONE, NONE), bridge, UNSET)
  BY DEF FromAccount, from_account
<1>3. o = OnChainPool(o) /\ OneOfTwo(o.id) /\ Sides(o, UNSET)
  BY <1>1, TwoPools
<1>4. pa \in {UNSET, o.pa} /\ pb \in {UNSET, o.pb}
  <2>1. /\ Pool.a \in {WSOL_MINT, USDC_MINT} => Pool.pa = "spl"
        /\ Pool.b \in {WSOL_MINT, USDC_MINT} => Pool.pb = "spl"
    BY <1>1, PoolFeedConstants, Zenon DEF Pool, ChainPool
  <2> QED
    BY <2>1, Zenon DEF known_mint_token_program
<1>5. /\ p.dex = o.dex /\ p.id = o.id /\ p.a = o.a /\ p.b = o.b /\ p.pa = pa /\ p.pb = pb
      /\ p.config = o.config
  <2>1. o = [ dex |-> o.dex, id |-> o.id, a |-> o.a, b |-> o.b, pa |-> o.pa, pb |-> o.pb,
              config |-> o.config, use_v2 |-> o.use_v2, clamps |-> o.clamps, stonk |-> o.stonk ]
    BY <1>3, Zenon DEF OnChainPool
  <2> HIDE DEF o
  <2> QED
    BY <2>1 DEF WithPrograms
<1> HIDE DEF p, pa, pb
<1>6. Sides(p, UNSET)
  BY <1>2, <1>3, <1>4, <1>5, Zenon DEF Sides, TheirConfig
<1>7. ArraysOK(NONE, p.id) /\ p.dex = Pool.dex /\ OneOfTwo(p.id)
  BY <1>3, <1>5 DEF ArraysOK
<1> QED
  BY <1>2, <1>6, <1>7, ReceivedKeeps

(* FromParams: to_routed_market_for_user, with the mint of the call in a    *)
(* LaunchLab or PumpFun curve.                                              *)
LEMMA ParamsSnapshot ==
    ASSUME target \in Targets, range \in Nat, NEW mint \in AllMints, mint # WSOL_MINT,
           NEW o \in Named(Pool) \cup Named(Wild[Pool])
    PROVE  \E p, known, arrays, quoted_in :
              /\ pool_from_params(o, mint) = Snapshot(p, known, arrays, quoted_in)
              /\ p.dex = Pool.dex /\ OneOfTwo(p.id) /\ Sides(p, mint)
              /\ ArraysOK(arrays, p.id)
<1> DEFINE Made(p, known, arrays, quoted_in) ==
              /\ pool_from_params(o, mint) = Snapshot(p, known, arrays, quoted_in)
              /\ p.dex = Pool.dex /\ OneOfTwo(p.id) /\ Sides(p, mint)
              /\ ArraysOK(arrays, p.id)
<1>1. /\ o = OnChainPool(o) /\ o.dex = Pool.dex /\ o.dex \in Dexes /\ OneOfTwo(o.id)
      /\ Sides(o, mint) /\ Sides(o, UNSET) /\ TheirConfig(o)
      /\ o.b = Pool.b /\ o.pa = Pool.pa /\ o.pb = Pool.pb
  BY NamedPools, Zenon DEF Sides
<1>2. o = [ dex |-> o.dex, id |-> o.id, a |-> o.a, b |-> o.b, pa |-> o.pa, pb |-> o.pb,
            config |-> o.config, use_v2 |-> o.use_v2, clamps |-> o.clamps, stonk |-> o.stonk ]
  BY <1>1, Zenon DEF OnChainPool
<1>3. ArraysOK(NONE, o.id) /\ ArraysOK(Triplet(o.id, range), o.id)
  <2>1. range \in 0 .. range
    BY SMT
  <2> QED
    BY <2>1, Zenon DEF ArraysOK, Whole
<1>4. mint # UNSET
  BY MintsAreSet
<1>5. CASE o.dex = "launchlab"
  <2> DEFINE p == [o EXCEPT !.a = mint]
  <2>1. pool_from_params(o, mint) = Snapshot(p, mints(o) \cup {mint}, NONE, NONE)
    BY <1>5 DEF pool_from_params, Concentrated
  <2>2. /\ p.dex = o.dex /\ p.id = o.id /\ p.a = mint /\ p.b = o.b
        /\ p.pa = o.pa /\ p.pb = o.pb /\ p.config = o.config
    BY <1>2
  <2> HIDE DEF p
  <2>3. Sides(p, mint)
    BY <1>1, <1>4, <1>5, <2>2, Zenon DEF Sides, TheirConfig
  <2>4. Made(p, mints(o) \cup {mint}, NONE, NONE)
    BY <1>1, <1>3, <2>1, <2>2, <2>3
  <2> QED
    BY <2>4, Zenon
<1>6. CASE o.dex = "pumpfun"
  <2> DEFINE p == [o EXCEPT !.a = mint, !.use_v2 = (o.b # WSOL_MINT)]
  <2>1. pool_from_params(o, mint) = Snapshot(p, {}, NONE, NONE)
    BY <1>6 DEF pool_from_params, Concentrated
  <2>2. /\ p.dex = o.dex /\ p.id = o.id /\ p.a = mint /\ p.b = o.b
        /\ p.pa = o.pa /\ p.pb = o.pb /\ p.config = o.config
    BY <1>2
  <2> HIDE DEF p
  <2>3. Sides(p, mint)
    BY <1>1, <1>4, <1>6, <2>2, Zenon DEF Sides, TheirConfig
  <2>4. Made(p, {}, NONE, NONE)
    BY <1>1, <1>3, <2>1, <2>2, <2>3
  <2> QED
    BY <2>4, Zenon
<1>7. CASE o.dex = "pumpswap"
  <2>1. Made(o, {o.b}, NONE, NONE)
    BY <1>1, <1>3, <1>7 DEF pool_from_params, Concentrated
  <2> QED
    BY <2>1, Zenon
<1>8. CASE o.dex \in {"cpmm", "amm_v4"}
  <2>1. Made(o, mints(o), NONE, NONE)
    BY <1>1, <1>3, <1>8 DEF pool_from_params, Concentrated
  <2> QED
    BY <2>1, Zenon
<1>9. CASE o.dex = "damm_v2"
  <2>1. Made(o, {}, NONE, NONE)
    BY <1>1, <1>3, <1>9 DEF pool_from_params, Concentrated
  <2> QED
    BY <2>1, Zenon
<1>10. CASE o.dex \in Concentrated
  <2>1. pool_from_params(o, mint) = Snapshot(o, {}, Triplet(o.id, range), NONE)
    BY <1>10 DEF pool_from_params, Concentrated
  <2>2. Made(o, {}, Triplet(o.id, range), NONE)
    BY <1>1, <1>3, <2>1
  <2> QED
    BY <2>2, Zenon
<1> QED
  BY <1>1, <1>5, <1>6, <1>7, <1>8, <1>9, <1>10 DEF Dexes, Oriented

(* A market made from caller parameters is as good as the caller says.      *)
LEMMA FromParamsKeeps == FeedInv /\ FromParams => FeedInv'
<1> SUFFICES ASSUME FeedInv, FromParams PROVE FeedInv'
  OBVIOUS
<1>1. PICK o \in Named(Pool) \cup Named(Wild[Pool]), mint \in AllMints,
           bridge \in bridge_from_params :
        mint # WSOL_MINT /\ Received(pool_from_params(o, mint), bridge, mint)
  BY Zenon DEF FromParams
<1>2. target \in Targets /\ range \in Nat
  BY DEF FeedInv
<1>3. PICK p, known, arrays, quoted_in :
        /\ pool_from_params(o, mint) = Snapshot(p, known, arrays, quoted_in)
        /\ p.dex = Pool.dex /\ OneOfTwo(p.id) /\ Sides(p, mint)
        /\ ArraysOK(arrays, p.id)
  BY <1>1, <1>2, ParamsSnapshot
<1>4. Received(Snapshot(p, known, arrays, quoted_in), bridge, mint)
  BY <1>1, <1>3, Zenon
<1>5. bridge \in Carried \cup {{}} /\ mint \in AllMints \cup {UNSET}
  BY DEF bridge_from_params
<1> QED
  BY <1>3, <1>4, <1>5, ReceivedKeeps

(* A pool is known by its address.                                          *)
LEMMA OnChainIs ==
    ASSUME target \in Targets
    PROVE  /\ OnChain(Pool.id) = Pool /\ OnChain(Wild[Pool].id) = Wild[Pool]
           /\ \A b \in target.bridge : OnChain(b.id) = b
<1> DEFINE o == Pool
           w == Wild[Pool]
<1>1. /\ w.id # o.id
      /\ \A b \in target.bridge : b.id \notin {o.id, w.id}
      /\ \A b, c \in target.bridge : b = c
  BY PoolFeedConstants, Zenon DEF Pool
<1> HIDE DEF o, w
<1> DEFINE all == {o, w} \cup target.bridge
<1>2. \A p, q \in all : p.id = q.id => p = q
  BY <1>1, SMT
<1>3. \A q \in all : OnChain(q.id) = q
  <2> SUFFICES ASSUME NEW q \in all PROVE OnChain(q.id) = q
    OBVIOUS
  <2>1. OnChain(q.id) = CHOOSE p \in all : p.id = q.id
    BY Zenon DEF OnChain, o, w
  <2> HIDE DEF all
  <2>2. \E p \in all : p.id = q.id
    OBVIOUS
  <2>3. OnChain(q.id) \in all /\ OnChain(q.id).id = q.id
    BY <2>1, <2>2, Zenon
  <2> QED
    BY <1>2, <2>3, Zenon
<1> QED
  BY <1>3, Zenon DEF o, w

(* Steps that leave everything but the snapshot's contents alone.           *)
LEMMA SnapshotKept ==
    ASSUME FeedInv, HasMarket, NEW s, NEW v,
           market' = [market EXCEPT !.pool = s],
           UNCHANGED <<target, range, asked, policy>>,
           applied' = v, v \in 0 .. MaxApplied,
           Recorded(s), s.dex = Pool.dex, OneOfTwo(s.id), s.version = v,
           ArraysOK(s.arrays, s.id), Sides(s, asked), Fresh(s)
    PROVE  FeedInv'
<1>1. /\ market = [pool |-> market.pool, bridge |-> market.bridge]
      /\ market.bridge \subseteq Bridges /\ \A b, c \in market.bridge : b = c
  BY Zenon DEF FeedInv, MarketOK, HasMarket
<1>2. /\ market'.pool = s /\ market'.bridge = market.bridge
      /\ market' = [pool |-> market'.pool, bridge |-> market'.bridge]
  BY <1>1
<1>3. Pool' = Pool /\ Bridges' = Bridges /\ AllMints' = AllMints
  BY DEF Pool, Bridges, Named, AllMints, BridgeSnapshot
<1>4. Snapped(s)'
  BY <1>3, Zenon DEF Snapped, OneOfTwo, ArraysOK, Whole, Recorded
<1>5. Sides(s, asked)' /\ Fresh(s)'
  BY <1>3, Zenon DEF Sides, TheirConfig, Fresh
<1>6. MarketOK'
  BY <1>1, <1>2, <1>3, <1>4, <1>5, Zenon DEF MarketOK
<1> QED
  BY <1>3, <1>6, Zenon DEF FeedInv

(* What a merge leaves of a snapshot.                                       *)
MergedWith(p, arrays, a, pa, b, pb, quoted_in, version) ==
    [Without(p) EXCEPT !.arrays = arrays, !.a = a, !.pa = pa, !.b = b, !.pb = pb,
                       !.quoted_in = quoted_in, !.version = version]

(* What a merge replaces in a snapshot, and what it keeps.                  *)
LEMMA Merged ==
    ASSUME NEW p, Recorded(p), NEW arrays, NEW a, NEW pa, NEW b, NEW pb,
           NEW quoted_in, NEW version, NEW s,
           s = MergedWith(p, arrays, a, pa, b, pb, quoted_in, version)
    PROVE  /\ s.dex = p.dex /\ s.id = p.id /\ s.arrays = arrays /\ s.a = a /\ s.pa = pa
           /\ s.b = b /\ s.pb = pb /\ s.version = version /\ s.expected = NONE
           /\ s.config = p.config /\ Recorded(s)
<1> SUFFICES ASSUME NEW u, u = Without(p)
             PROVE  /\ s.dex = p.dex /\ s.id = p.id /\ s.arrays = arrays /\ s.a = a
                    /\ s.pa = pa /\ s.b = b /\ s.pb = pb /\ s.version = version
                    /\ s.expected = NONE /\ s.config = p.config /\ Recorded(s)
  OBVIOUS
<1>1. /\ u.expected = NONE /\ u.dex = p.dex /\ u.id = p.id /\ u.config = p.config
      /\ Recorded(u)
  BY DEF Recorded, Without
<1>2. s = [u EXCEPT !.arrays = arrays, !.a = a, !.pa = pa, !.b = b,
                    !.pb = pb, !.quoted_in = quoted_in, !.version = version]
  BY DEF MergedWith
<1>3. Recorded(s) /\ s.arrays = arrays /\ s.a = a
  BY <1>1, <1>2 DEF Recorded
<1>4. s.pa = pa /\ s.b = b /\ s.pb = pb /\ s.version = version
  BY <1>1, <1>2 DEF Recorded
<1>5. s.dex = u.dex /\ s.id = u.id /\ s.expected = u.expected /\ s.config = u.config
  BY <1>1, <1>2 DEF Recorded
<1> QED
  BY <1>1, <1>3, <1>4, <1>5

(* Merge: merge_whirlpool_swap and merge_clmm_swap.                         *)
LEMMA MergeKeeps == FeedInv /\ Merge => FeedInv'
<1> SUFFICES ASSUME FeedInv, Merge PROVE FeedInv'
  OBVIOUS
<1> DEFINE p == market.pool
<1>1. PICK e \in Events :
        /\ HasMarket /\ p.dex \in {"whirlpool", "clmm"} /\ applied < MaxApplied
        /\ market' = [market EXCEPT !.pool =
                        IF @.dex = "whirlpool" THEN merge_whirlpool_swap(@, e)
                        ELSE merge_clmm_swap(@, e)]
        /\ applied' = IF e.pool = p.id THEN applied + 1 ELSE applied
        /\ UNCHANGED <<target, range, asked, policy>>
  BY Zenon DEF Merge
<1>2. /\ target \in Targets /\ Snapped(p) /\ Sides(p, asked) /\ Fresh(p)
      /\ market = [pool |-> p, bridge |-> market.bridge]
  BY <1>1, Zenon DEF FeedInv, MarketOK, HasMarket
<1>3. applied \in 0 .. MaxApplied /\ MaxApplied \in Nat
  BY PoolFeedConstants DEF FeedInv
<1> DEFINE s == IF p.dex = "whirlpool" THEN merge_whirlpool_swap(p, e)
                ELSE merge_clmm_swap(p, e)
<1>4. market' = [market EXCEPT !.pool = s]
  BY <1>1, <1>2
<1>5. CASE e.pool # p.id
  <2>1. s = p /\ applied' = applied
    BY <1>1, <1>5 DEF merge_whirlpool_swap, merge_clmm_swap
  <2> HIDE DEF s
  <2> QED
    BY <1>1, <1>2, <1>3, <1>4, <2>1, SnapshotKept DEF Snapped
<1>6. CASE e.pool = p.id
  <2>1. applied' = applied + 1 /\ applied + 1 \in 0 .. MaxApplied
    BY <1>1, <1>3, <1>6, SMT
  <2>2. /\ e.of.a = Pool.a /\ e.of.b = Pool.b /\ e.of.pa = Pool.pa /\ e.of.pb = Pool.pb
        /\ \/ ArraysOK(e.arrays, p.id)
           \/ e.arrays = Partial(p.id, range) /\ Pool.dex = "whirlpool"
    BY <1>2, <1>6, Heard, TwoPools
  <2> DEFINE q == Without(p)
  <2> SUFFICES ASSUME NEW p1, p1 = p PROVE FeedInv'
    OBVIOUS
  <2>3. p1 = [ dex |-> p1.dex, id |-> p1.id, a |-> p1.a, b |-> p1.b, pa |-> p1.pa, pb |-> p1.pb,
               config |-> p1.config, use_v2 |-> p1.use_v2, clamps |-> p1.clamps, stonk |-> p1.stonk,
               known |-> p1.known, arrays |-> p1.arrays, quoted_in |-> p1.quoted_in,
               quoted_mint |-> p1.quoted_mint, expected |-> p1.expected,
               version |-> p1.version ]
    BY <1>2, Zenon DEF Snapped, Recorded
  <2>4. CASE p.dex = "whirlpool"
    <3> DEFINE whole == /\ Len(e.arrays) = 3
                        /\ UNSET \notin {e.arrays[i] : i \in DOMAIN e.arrays}
               arrays == IF whole THEN e.arrays ELSE p1.arrays
               a == IF "a" \in e.sides THEN e.of.a ELSE p1.a
               pa == IF "a" \in e.sides THEN e.of.pa ELSE p1.pa
               b == IF "b" \in e.sides THEN e.of.b ELSE p1.b
               pb == IF "b" \in e.sides THEN e.of.pb ELSE p1.pb
               quoted_in == IF e.amount = NONE THEN p1.quoted_in ELSE e.amount
    <3>1. s = MergedWith(p1, arrays, a, pa, b, pb, quoted_in, p1.version + 1)
      BY <1>6, <2>3, <2>4 DEF merge_whirlpool_swap, Without, MergedWith
    <3> HIDE DEF s, arrays, a, pa, b, pb, quoted_in
    <3>2. /\ s.dex = p1.dex /\ s.id = p1.id /\ s.version = p1.version + 1
          /\ s.expected = NONE /\ s.arrays = arrays
          /\ s.a = a /\ s.pa = pa /\ s.b = b /\ s.pb = pb /\ s.config = p1.config
          /\ Recorded(s)
      <4>1. Recorded(p1)
        BY <2>3, Zenon DEF Recorded
      <4> QED
        BY <3>1, <4>1, Merged
    <3>3. \/ s.arrays = p1.arrays
          \/ /\ s.arrays = e.arrays /\ Len(e.arrays) = 3
             /\ UNSET \notin {e.arrays[i] : i \in DOMAIN e.arrays}
      BY <3>2, Zenon DEF arrays
    <3>4. ArraysOK(s.arrays, s.id)
      <4>1. CASE s.arrays = p1.arrays
        BY <1>2, <3>2, <4>1, Zenon DEF Snapped
      <4>2. CASE /\ s.arrays = e.arrays /\ Len(e.arrays) = 3
                 /\ UNSET \notin {e.arrays[i] : i \in DOMAIN e.arrays}
        <5>1. Whole(e.arrays, e.pool)
          BY <1>2, <4>2, WholeEvent
        <5> QED
          BY <1>6, <3>2, <4>2, <5>1, Zenon DEF ArraysOK
      <4> QED
        BY <3>3, <4>1, <4>2, Zenon
    <3>5. Sides(s, asked)
      <4>1. TheirConfig(s)
        BY <1>2, <3>2, Zenon DEF Sides, TheirConfig
      <4> QED
        BY <1>2, <2>2, <2>4, <3>2, <4>1, SMT DEF Sides, a, pa, b, pb
    <3>6. s.version = applied + 1 /\ s.dex = Pool.dex /\ OneOfTwo(s.id) /\ Fresh(s)
      BY <1>2, <3>2 DEF Snapped, Fresh
    <3> QED
      BY <1>1, <1>4, <2>1, <3>2, <3>4, <3>5, <3>6, SnapshotKept
  <2>5. CASE p.dex # "whirlpool"
    <3>1. s = [Without(p1) EXCEPT
            !.arrays = IF e.arrays = NONE THEN @ ELSE e.arrays,
            !.quoted_in = IF e.amount = NONE THEN @ ELSE e.amount,
            !.version = @ + 1]
      BY <1>6, <2>5 DEF merge_clmm_swap
    <3> HIDE DEF s
    <3>2. /\ s.dex = p1.dex /\ s.id = p1.id /\ s.version = p1.version + 1
          /\ s.expected = NONE /\ s.config = p1.config
          /\ s.a = p1.a /\ s.pa = p1.pa /\ s.b = p1.b /\ s.pb = p1.pb
          /\ s.arrays \in {p1.arrays, e.arrays} /\ Recorded(s)
      BY <2>3, <3>1 DEF Without, Recorded
    <3>3. Pool.dex # "whirlpool"
      BY <1>2, <2>5, Zenon DEF Snapped
    <3>4. ArraysOK(s.arrays, s.id)
      BY <1>2, <2>2, <3>2, <3>3, Zenon DEF Snapped
    <3>5. Sides(s, asked)
      BY <1>2, <3>2, Zenon DEF Sides, TheirConfig
    <3>6. s.version = applied + 1 /\ s.dex = Pool.dex /\ OneOfTwo(s.id) /\ Fresh(s)
      BY <1>2, <3>2 DEF Snapped, Fresh
    <3> QED
      BY <1>1, <1>4, <2>1, <3>2, <3>4, <3>5, <3>6, SnapshotKept
  <2> QED
    BY <2>4, <2>5
<1> QED
  BY <1>5, <1>6

(* Overlay: what is read of the pool's accounts; clmm_apply_token_programs. *)
LEMMA OverlayKeeps == FeedInv /\ Overlay => FeedInv'
<1> SUFFICES ASSUME FeedInv, Overlay PROVE FeedInv'
  OBVIOUS
<1> SUFFICES ASSUME NEW p, p = market.pool PROVE FeedInv'
  OBVIOUS
<1> DEFINE t == OnChain(p.id)
<1>1. /\ HasMarket /\ asked = UNSET
      /\ market' = [market EXCEPT !.pool =
              [@ EXCEPT !.a = t.a, !.b = t.b, !.pa = t.pa, !.pb = t.pb,
                        !.known = mints(t)]]
      /\ UNCHANGED <<target, range, asked, applied, policy>>
  BY Zenon DEF Overlay
<1>2. /\ target \in Targets /\ Snapped(p) /\ Sides(p, asked) /\ Fresh(p)
      /\ market = [pool |-> p, bridge |-> market.bridge]
  BY <1>1, Zenon DEF FeedInv, MarketOK, HasMarket
<1>3. t.a = Pool.a /\ t.b = Pool.b /\ t.pa = Pool.pa /\ t.pb = Pool.pb
  <2>1. t \in {Pool, Wild[Pool]}
    BY <1>2, OnChainIs, Zenon DEF Snapped, OneOfTwo
  <2> HIDE DEF t
  <2> QED
    BY <1>2, <2>1, TwoPools
<1>4. p = [ dex |-> p.dex, id |-> p.id, a |-> p.a, b |-> p.b, pa |-> p.pa, pb |-> p.pb,
            config |-> p.config, use_v2 |-> p.use_v2, clamps |-> p.clamps, stonk |-> p.stonk,
            known |-> p.known, arrays |-> p.arrays, quoted_in |-> p.quoted_in,
            quoted_mint |-> p.quoted_mint, expected |-> p.expected,
            version |-> p.version ]
  BY <1>2, Zenon DEF Snapped, Recorded
<1> SUFFICES ASSUME NEW known, known = mints(t),
                    NEW s, s = [p EXCEPT !.a = t.a, !.b = t.b, !.pa = t.pa, !.pb = t.pb,
                                         !.known = known]
             PROVE  FeedInv'
  OBVIOUS
<1> HIDE DEF t
<1>5. /\ s.dex = p.dex /\ s.id = p.id /\ s.version = p.version
      /\ s.expected = p.expected /\ s.quoted_mint = p.quoted_mint
      /\ s.quoted_in = p.quoted_in /\ s.arrays = p.arrays /\ s.config = p.config
      /\ s.a = t.a /\ s.pa = t.pa /\ s.b = t.b /\ s.pb = t.pb /\ Recorded(s)
  BY <1>4 DEF Recorded
<1>6. market' = [market EXCEPT !.pool = s]
  BY <1>1, <1>2 DEF t
<1>7. Sides(s, asked) /\ Fresh(s)
  BY <1>2, <1>3, <1>5, Zenon DEF Sides, TheirConfig, Fresh, quote_of
<1>8. /\ s.version = applied /\ s.dex = Pool.dex /\ OneOfTwo(s.id)
      /\ ArraysOK(s.arrays, s.id) /\ applied \in 0 .. MaxApplied
  BY <1>2, <1>5, Zenon DEF Snapped, FeedInv
<1> QED
  BY <1>1, <1>5, <1>6, <1>7, <1>8, SnapshotKept

(* Quote: the caller's quote is of the snapshot as it is.                   *)
LEMMA QuoteKeeps == FeedInv /\ Quote => FeedInv'
<1> SUFFICES ASSUME FeedInv, Quote PROVE FeedInv'
  OBVIOUS
<1> SUFFICES ASSUME NEW p, p = market.pool PROVE FeedInv'
  OBVIOUS
<1>1. PICK input, amount :
        market' = [market EXCEPT !.pool =
             [@ EXCEPT !.quoted_in = amount, !.quoted_mint = input,
                       !.expected = quote_of(p, input, amount)]]
  BY Zenon DEF Quote
<1>2. HasMarket /\ UNCHANGED <<target, range, asked, applied, policy>>
  BY Zenon DEF Quote
<1>3. /\ target \in Targets /\ Snapped(p) /\ Sides(p, asked)
      /\ market = [pool |-> p, bridge |-> market.bridge]
  BY <1>2, Zenon DEF FeedInv, MarketOK, HasMarket
<1>4. p = [ dex |-> p.dex, id |-> p.id, a |-> p.a, b |-> p.b, pa |-> p.pa, pb |-> p.pb,
            config |-> p.config, use_v2 |-> p.use_v2, clamps |-> p.clamps, stonk |-> p.stonk,
            known |-> p.known, arrays |-> p.arrays, quoted_in |-> p.quoted_in,
            quoted_mint |-> p.quoted_mint, expected |-> p.expected,
            version |-> p.version ]
  BY <1>3, Zenon DEF Snapped, Recorded
<1> SUFFICES ASSUME NEW q, q = quote_of(p, input, amount), NEW s,
                    s = [p EXCEPT !.quoted_in = amount, !.quoted_mint = input, !.expected = q]
             PROVE  FeedInv'
  OBVIOUS
<1>5. market' = [market EXCEPT !.pool = s]
  BY <1>1, <1>3
<1>6. /\ s.dex = p.dex /\ s.id = p.id /\ s.version = p.version
      /\ s.expected = q /\ s.quoted_mint = input
      /\ s.quoted_in = amount /\ s.arrays = p.arrays /\ s.config = p.config
      /\ s.a = p.a /\ s.pa = p.pa /\ s.b = p.b /\ s.pb = p.pb /\ Recorded(s)
  BY <1>4 DEF Recorded
<1>7. Sides(s, asked) /\ Fresh(s)
  BY <1>3, <1>6, Zenon DEF Sides, TheirConfig, Fresh, quote_of
<1>8. /\ s.version = applied /\ s.dex = Pool.dex /\ OneOfTwo(s.id)
      /\ ArraysOK(s.arrays, s.id) /\ applied \in 0 .. MaxApplied
  BY <1>3, <1>6, Zenon DEF Snapped, FeedInv
<1> QED
  BY <1>2, <1>5, <1>6, <1>7, <1>8, SnapshotKept

(* Move: arrays that belonged together still do.                            *)
LEMMA MoveKeeps == FeedInv /\ Move => FeedInv'
<1> SUFFICES ASSUME FeedInv, Move PROVE FeedInv'
  OBVIOUS
<1>1. range < MaxRange /\ range' = range + 1 /\ UNCHANGED <<target, market, asked, applied, policy>>
  BY DEF Move
<1>2. range \in 0 .. MaxRange /\ MaxRange \in Nat
  BY PoolFeedConstants DEF FeedInv
<1>3. range' \in 0 .. MaxRange /\ \A r \in 0 .. range : r \in 0 .. range'
  BY <1>1, <1>2, SMT
<1>4. Pool' = Pool /\ Bridges' = Bridges /\ AllMints' = AllMints
  BY <1>1 DEF Pool, Bridges, Named, AllMints, BridgeSnapshot
<1>5. \A arrays, id : ArraysOK(arrays, id) => ArraysOK(arrays, id)'
  BY <1>3, Zenon DEF ArraysOK, Whole, Triplet
<1>6. MarketOK'
  <2>1. CASE market = NoMarket
    BY <1>1, <2>1 DEF MarketOK, NoMarket
  <2>2. CASE market # NoMarket
    <3>1. /\ market = [pool |-> market.pool, bridge |-> market.bridge]
          /\ Snapped(market.pool) /\ Sides(market.pool, asked) /\ Fresh(market.pool)
          /\ market.bridge \subseteq Bridges /\ \A b, c \in market.bridge : b = c
      BY <2>2, Zenon DEF FeedInv, MarketOK
    <3>2. Snapped(market.pool)' /\ Sides(market.pool, asked)' /\ Fresh(market.pool)'
      BY <1>1, <1>4, <1>5, <3>1, Zenon
         DEF Snapped, Recorded, OneOfTwo, Sides, TheirConfig, Fresh, quote_of
    <3> QED
      BY <1>1, <1>4, <3>1, <3>2, Zenon DEF MarketOK
  <2> QED
    BY <2>1, <2>2
<1> QED
  BY <1>1, <1>3, <1>4, <1>6, Zenon DEF FeedInv

(* Every event, parameter set and quote keeps FeedInv.                      *)
LEMMA NextFeed == FeedInv /\ [Next]_vars => FeedInv'
<1> SUFFICES ASSUME FeedInv, [Next]_vars PROVE FeedInv'
  OBVIOUS
<1>1. CASE UNCHANGED vars
  <2>1. UNCHANGED <<target, range, market, asked, applied, policy>>
    BY <1>1 DEF vars
  <2>2. Pool' = Pool /\ Bridges' = Bridges /\ AllMints' = AllMints
    BY <2>1 DEF Pool, Bridges, Named, AllMints, BridgeSnapshot
  <2>3. MarketOK'
    BY <2>1, <2>2 DEF FeedInv, MarketOK, Snapped, Recorded, OneOfTwo, ArraysOK, Whole,
       Sides, TheirConfig, Fresh, quote_of, NoMarket, Triplet
  <2> QED
    BY <2>1, <2>2, <2>3 DEF FeedInv
<1> QED
  BY <1>1, FromEventKeeps, FromAccountKeeps, FromParamsKeeps, MergeKeeps, OverlayKeeps,
     QuoteKeeps, MoveKeeps DEF Next

(* Whatever events and parameters arrive in whatever order, the snapshot    *)
(* says of its pool nothing the chain does not, except a mint of the        *)
(* caller's, counts the events applied to it and holds no stale quote       *)
(* (merge_whirlpool_swap, merge_clmm_swap).                                 *)
THEOREM FeedInvariant == Spec => []FeedInv
<1> QED
  BY InitFeed, NextFeed, PTL DEF Spec

(* The feed's state is well formed, whatever is delivered: the snapshot is  *)
(* of a pool of the feed and has seen exactly the events applied to it.     *)
THEOREM FeedTypeCorrect == Spec => []TypeOK
<1>1. FeedInv => TypeOK
  BY Zenon DEF FeedInv, MarketOK, TypeOK, HasMarket, Snapped, OneOfTwo
<1> QED
  BY <1>1, FeedInvariant, PTL

-----------------------------------------------------------------------------
(* The legs of a swap, whatever the market.                                 *)

Coin(m) == <<meme_mint(m), meme_token_program(m)>>

Purse(m, o) ==
    IF o.asset = "sol" /\ is_native_sol_quote(m.pool) THEN LAMPORTS
    ELSE IF o.asset \in Cash THEN WSOL_ATA
    ELSE <<o.asset, quote_token_program(m)>>

Between(m) == <<quote_mint(m), quote_token_program(m)>>

(* A leg through a pool from one of its mints to the other; where a Pump    *)
(* curve settles in lamports, one end is not a token account.               *)
LegThrough(l, p, input) ==
    /\ l.pool = p.id /\ leg_ok(p, input) /\ input_mint(l) = input
    /\ l.from \in {ata(p, input), LAMPORTS}
    /\ l.to \in {ata(p, other_mint(p, input)), LAMPORTS}

LastMin(o, p, input, l) ==
    l.min = (IF o.fixed THEN fixed_output
             ELSE IF o.min = "caller" THEN caller_min
             ELSE slipped(quote_of(p, input, l.amount)))

FirstMin(m, p, input, l) ==
    \/ l.min = quote_of(p, input, l.amount)
    \/ /\ l.min = still_taken(m.pool)
       /\ l.amount = <<"input_for", l.pool, l.min>>

OneLeg(m, o, l) ==
    /\ \E input : LegThrough(l, m.pool, input) /\ LastMin(o, m.pool, input, l)
    /\ <<l.from, l.to>> = IF o.side = "buy" THEN <<Purse(m, o), Coin(m)>>
                          ELSE <<Coin(m), Purse(m, o)>>

TwoLegs(m, o, l1, l2) ==
    \E b \in m.bridge : \E p1, p2, i1, i2 :
        /\ <<p1, p2>> = IF o.side = "buy" THEN <<b, m.pool>> ELSE <<m.pool, b>>
        /\ LegThrough(l1, p1, i1) /\ LegThrough(l2, p2, i2)
        /\ FirstMin(m, p1, i1, l1) /\ LastMin(o, p2, i2, l2)
        /\ l1.to = Between(m) /\ l2.from = Between(m) /\ l1.min = l2.amount
        /\ quote_mint(m) # WSOL_MINT
        /\ <<l1.from, l2.to>> = IF o.side = "buy" THEN <<WSOL_ATA, Coin(m)>>
                                ELSE <<Coin(m), WSOL_ATA>>

(* What building asks of a snapshot.                                        *)
Sound(m) ==
    /\ m.pool.dex \in Dexes /\ Fresh(m.pool)
    /\ \/ m.pool.a # m.pool.b
       \/ m.pool.dex \in {"launchlab", "pumpfun"}
       \/ m.pool.dex = "amm_v4" /\ UNSET \in mints(m.pool)
    /\ m.pool.a = WSOL_MINT => m.pool.b # WSOL_MINT
    /\ \A b \in m.bridge : b.a # b.b /\ b.dex \in {"cpmm", "amm_v4"}
    /\ \A b, c \in m.bridge : b = c

(* quote_out: a quote is computed, or cached for this direction and size.   *)
LEMMA QuoteIs ==
    ASSUME NEW p, Fresh(p) \/ p.dex \in Quotable, NEW input, NEW amount,
           NEW q \in quote_out(p, input, amount)
    PROVE  q = quote_of(p, input, amount)
<1>1. CASE p.dex \notin Quotable
  <2>1. q \in snapshot_quote(p, input, amount)
    BY <1>1, Zenon DEF quote_out
  <2>2. p.quoted_mint = input /\ p.quoted_in = amount /\ p.expected # NONE /\ q = p.expected
    BY <2>1 DEF snapshot_quote
  <2> QED
    BY <1>1, <2>2, Zenon DEF Fresh
<1>2. CASE p.dex \in Quotable
  BY <1>2 DEF quote_out
<1> QED
  BY <1>1, <1>2

(* A minimum is the caller's, or the slippage tolerance of the one quote.   *)
LEMMA MinIs ==
    ASSUME NEW o, NEW eager, NEW quotes, NEW q, \A x \in quotes : x = q,
           NEW min \in min_out(o, eager, quotes)
    PROVE  min = IF o.min = "caller" THEN caller_min ELSE slipped(q)
<1>1. CASE o.min = "caller"
  BY <1>1 DEF min_out
<1>2. CASE o.min # "caller"
  BY <1>2 DEF min_out
<1> QED
  BY <1>1, <1>2

(* An address of a token account is not the lamports of a wallet.           *)
LEMMA AtaIsNoWallet ==
    ASSUME NEW mint, NEW program
    PROVE  <<mint, program>> # LAMPORTS /\ <<mint, program>>[1] = mint
BY DEF LAMPORTS

(* swap_leg goes from the account of its input to that of the other mint.   *)
LEMMA SwapLegIs ==
    ASSUME NEW p, NEW input, NEW amount, NEW min,
           NEW l \in swap_leg(p, input, amount, min)
    PROVE  /\ l.from = ata(p, input) /\ l.to = ata(p, other_mint(p, input))
           /\ l.amount = amount /\ l.min = min
           /\ LegThrough(l, p, input)
<1>1. leg_ok(p, input) /\ l = leg(p, input, amount, min)
  BY DEF swap_leg
<1>2. /\ l.pool = p.id /\ l.from = ata(p, input) /\ l.to = ata(p, other_mint(p, input))
      /\ l.amount = amount /\ l.min = min
  BY <1>1 DEF leg
<1>3. input_mint(l) = input
  BY <1>2, AtaIsNoWallet DEF input_mint, ata
<1> QED
  BY <1>1, <1>2, <1>3, Zenon DEF LegThrough

(* A route of one leg, with the caller's amount or a fixed output.          *)
LEMMA OneLegIs ==
    ASSUME NEW p, Fresh(p), NEW input, NEW o, NEW eager,
           NEW legs \in one_leg(p, input, o, eager)
    PROVE  \E l : /\ legs = <<l>> /\ LegThrough(l, p, input) /\ LastMin(o, p, input, l)
                  /\ l.from = ata(p, input) /\ l.to = ata(p, other_mint(p, input))
<1>1. CASE o.fixed
  <2>1. legs \in Then(swap_leg(p, input, spend, fixed_output))
    BY <1>1 DEF one_leg
  <2>2. PICK l \in swap_leg(p, input, spend, fixed_output) : legs = <<l>>
    BY <2>1 DEF Then
  <2>3. /\ l.from = ata(p, input) /\ l.to = ata(p, other_mint(p, input))
        /\ LegThrough(l, p, input) /\ l.min = fixed_output
    BY <2>2, SwapLegIs
  <2> QED
    BY <1>1, <2>2, <2>3, Zenon DEF LastMin
<1>2. CASE ~o.fixed
  <2>1. PICK min \in min_out(o, eager, quote_out(p, input, spend)) :
                legs \in Then(swap_leg(p, input, spend, min))
    BY <1>2 DEF one_leg
  <2>2. PICK l \in swap_leg(p, input, spend, min) : legs = <<l>>
    BY <2>1 DEF Then
  <2>3. /\ l.from = ata(p, input) /\ l.to = ata(p, other_mint(p, input))
        /\ LegThrough(l, p, input) /\ l.amount = spend /\ l.min = min
    BY <2>2, SwapLegIs
  <2>4. min = IF o.min = "caller" THEN caller_min ELSE slipped(quote_of(p, input, spend))
    <3>1. \A x \in quote_out(p, input, spend) : x = quote_of(p, input, spend)
      BY QuoteIs
    <3> QED
      BY <2>1, <3>1, MinIs
  <2>5. LastMin(o, p, input, l)
    BY <1>2, <2>3, <2>4 DEF LastMin
  <2> QED
    BY <2>2, <2>3, <2>5, Zenon
<1> QED
  BY <1>1, <1>2

-----------------------------------------------------------------------------
(* The two sides of a routed market.                                        *)

(* RoutedMarket::meme_mint and quote_mint are the two mints of its pool.    *)
LEMMA MemeAndQuote ==
    ASSUME NEW m, Sound(m), m.pool.dex = "amm_v4" => UNSET \notin mints(m.pool)
    PROVE  /\ other_mint(m.pool, meme_mint(m)) = quote_mint(m)
           /\ other_mint(m.pool, quote_mint(m)) = meme_mint(m)
<1> DEFINE p == m.pool
<1>1. CASE p.dex \in Oriented
  <2>1. meme_mint(m) = p.a /\ quote_mint(m) = p.b
    BY <1>1 DEF meme_mint, base_mint, quote_mint, pool_quote_mint, Oriented
  <2> QED
    BY <2>1 DEF other_mint
<1>2. CASE p.dex \notin Oriented
  <2>1. p.a # p.b
    BY <1>2 DEF Sound, Oriented
  <2>2. CASE p.dex = "cpmm"
    <3>1. meme_mint(m) \in {p.a, p.b}
      BY <2>2 DEF meme_mint, other_mint, base_mint, cpmm_meme_mint, Oriented
    <3>2. quote_mint(m) = other_mint(p, meme_mint(m))
      BY <2>2 DEF quote_mint
    <3> QED
      BY <2>1, <3>1, <3>2 DEF other_mint
  <2>3. CASE p.dex # "cpmm"
    <3>1. meme_mint(m) = pair_base(p.a, p.b) /\ quote_mint(m) = pair_quote(p.a, p.b)
      BY <1>2, <2>3 DEF meme_mint, base_mint, quote_mint, pool_quote_mint
    <3> QED
      BY <2>1, <3>1, MintConstants DEF other_mint, pair_base, pair_quote
  <2> QED
    BY <2>2, <2>3
<1> QED
  BY <1>1, <1>2

(* Without a bridge, what is paid is the quote of the market.               *)
LEMMA PaidIsQuote ==
    ASSUME NEW m, Sound(m), NEW o, accepted(m, o), ~needs_bridge(m, o)
    PROVE  paid_mint(o) = quote_mint(m)
<1> DEFINE p == m.pool
<1>1. CASE o.asset \notin Cash
  <2>1. o.asset = quote_mint(m)
    BY <1>1, Zenon DEF accepted, validate_asset
  <2> QED
    BY <1>1, <2>1 DEF paid_mint
<1>2. CASE o.asset \in Cash
  <2>1. ~needs_sol_bridge(p) /\ paid_mint(o) = WSOL_MINT
    BY <1>2 DEF needs_bridge, paid_mint
  <2>2. CASE p.dex \in Oriented
    BY <2>1, <2>2 DEF needs_sol_bridge, quote_mint, pool_quote_mint, Oriented
  <2>3. CASE p.dex \notin Oriented
    <3>1. WSOL_MINT \in {p.a, p.b} /\ (p.a = WSOL_MINT => p.b # WSOL_MINT)
      BY <2>1, <2>3 DEF needs_sol_bridge, mints, Sound
    <3>2. CASE p.dex = "cpmm"
      <4>1. meme_mint(m) = cpmm_meme_mint(p) /\ quote_mint(m) = other_mint(p, meme_mint(m))
        BY <2>1, <2>3, <3>2 DEF meme_mint, base_mint, quote_mint
      <4> QED
        BY <2>1, <3>1, <4>1 DEF cpmm_meme_mint, other_mint
    <3>3. CASE p.dex # "cpmm"
      <4>1. quote_mint(m) = pair_quote(p.a, p.b)
        BY <2>3, <3>3 DEF quote_mint, pool_quote_mint
      <4> QED
        BY <2>1, <3>1, <4>1 DEF pair_quote
    <3> QED
      BY <3>2, <3>3
  <2> QED
    BY <2>2, <2>3
<1> QED
  BY <1>1, <1>2

(* WSOL is always in its classic account.                                   *)
LEMMA WsolAta ==
    ASSUME NEW p, require_mint_programs(p), WSOL_MINT \in mints(p)
    PROVE  ata(p, WSOL_MINT) = WSOL_ATA
<1>1. CASE p.a = WSOL_MINT
  <2>1. p.pa = "spl"
    BY <1>1, SMT DEF require_mint_programs
  <2> QED
    BY <1>1, <2>1 DEF ata, token_program_for, WSOL_ATA
<1>2. CASE p.a # WSOL_MINT
  <2>1. p.b = WSOL_MINT /\ p.pb = "spl"
    BY <1>2, SMT DEF require_mint_programs, mints
  <2> QED
    BY <1>2, <2>1 DEF ata, token_program_for, WSOL_ATA
<1> QED
  BY <1>1, <1>2

(* What the caller pays from, or is paid to, without a bridge.              *)
LEMMA PurseIs ==
    ASSUME NEW m, Sound(m), NEW o, accepted(m, o), ~needs_bridge(m, o),
           ~(o.asset = "sol" /\ is_native_sol_quote(m.pool)),
           NEW input, leg_ok(m.pool, input)
    PROVE  Purse(m, o) = ata(m.pool, quote_mint(m)) /\ quote_mint(m) \in mints(m.pool)
<1> DEFINE p == m.pool
<1>1. paid_mint(o) = quote_mint(m)
  BY PaidIsQuote
<1>2. quote_mint(m) \in mints(p)
  BY DEF quote_mint, pool_quote_mint, other_mint, pair_quote, mints
<1>3. CASE o.asset \notin Cash
  <2>1. o.asset = quote_mint(m)
    BY <1>1, <1>3 DEF paid_mint
  <2>2. Purse(m, o) = <<o.asset, quote_token_program(m)>>
    BY <1>3, Zenon DEF Purse
  <2> QED
    BY <1>2, <2>1, <2>2, Zenon DEF ata, quote_token_program
<1>4. CASE o.asset \in Cash
  <2>1. Purse(m, o) = WSOL_ATA /\ quote_mint(m) = WSOL_MINT
    BY <1>1, <1>4 DEF Purse, paid_mint
  <2>2. CASE p.dex # "pumpfun"
    <3>1. require_mint_programs(p)
      <4>1. p.dex = "launchlab" => require_mint_programs(p)
        BY DEF accepted, validate_inner_market_programs
      <4> QED
        BY <2>2, <4>1, Zenon DEF leg_ok
    <3> QED
      BY <1>2, <2>1, <3>1, WsolAta
  <2>3. CASE p.dex = "pumpfun"
    <3>1. quote_mint(m) = p.b
      BY <2>3 DEF quote_mint, pool_quote_mint, Oriented
    <3>2. is_native_sol_quote(p) /\ o.asset # "sol"
      BY <2>1, <2>3, <3>1 DEF is_native_sol_quote
    <3>3. p.pb = "spl"
      BY <2>3, <3>2 DEF accepted, validate_inner_market_programs
    <3>4. p.a # WSOL_MINT
      BY <2>1, <3>1, Zenon DEF Sound
    <3> QED
      BY <1>2, <2>1, <3>1, <3>3, <3>4 DEF ata, token_program_for, WSOL_ATA
  <2> QED
    BY <2>2, <2>3
<1> QED
  BY <1>3, <1>4

(* The bridge is between WSOL and the quote, with the market's program.     *)
LEMMA BridgeSides ==
    ASSUME NEW m, Sound(m), NEW b \in m.bridge, validate_bridge_quote_program(m),
           connects(b, quote_mint(m)), NEW input, leg_ok(b, input)
    PROVE  /\ ata(b, WSOL_MINT) = WSOL_ATA /\ ata(b, quote_mint(m)) = Between(m)
           /\ other_mint(b, WSOL_MINT) = quote_mint(m)
           /\ other_mint(b, quote_mint(m)) = WSOL_MINT
           /\ quote_mint(m) # WSOL_MINT
<1> DEFINE q == quote_mint(m)
<1>1. b.a # b.b /\ b.dex \in {"cpmm", "amm_v4"}
  BY Zenon DEF Sound
<1>2. {b.a, b.b} = {WSOL_MINT, q} /\ q # WSOL_MINT
  BY DEF connects, mints
<1>3. token_program_for(b, q) = quote_token_program(m)
  BY Zenon DEF validate_bridge_quote_program
<1>4. require_mint_programs(b)
  BY <1>1 DEF leg_ok
<1>5. ata(b, WSOL_MINT) = WSOL_ATA
  <2>1. WSOL_MINT \in mints(b)
    BY <1>2 DEF mints
  <2> QED
    BY <1>4, <2>1, WsolAta
<1>6. ata(b, q) = Between(m)
  BY <1>3, Zenon DEF ata, Between
<1> HIDE DEF q
<1>7. other_mint(b, WSOL_MINT) = q /\ other_mint(b, q) = WSOL_MINT
  BY <1>1, <1>2, SMT DEF other_mint
<1> QED
  BY <1>2, <1>5, <1>6, <1>7 DEF q

(* The accounts of a pool's two sides.                                      *)
LEMMA SidesOfLeg ==
    ASSUME NEW m
    PROVE  ata(m.pool, meme_mint(m)) = Coin(m) /\ ata(m.pool, quote_mint(m)) = Between(m)
BY Zenon DEF ata, Coin, Between, meme_token_program, quote_token_program

-----------------------------------------------------------------------------
(* Routes of one leg.                                                       *)

(* A buy that needs no bridge is one leg from the purse to the coin.        *)
LEMMA DirectBuy ==
    ASSUME NEW m, Sound(m), NEW o, accepted(m, o), ~needs_bridge(m, o), o.side = "buy",
           m.pool.dex # "pumpfun", NEW l, LegThrough(l, m.pool, quote_mint(m)),
           LastMin(o, m.pool, quote_mint(m), l),
           l.from = ata(m.pool, quote_mint(m)),
           l.to = ata(m.pool, other_mint(m.pool, quote_mint(m)))
    PROVE  OneLeg(m, o, l)
<1>1. leg_ok(m.pool, quote_mint(m)) /\ (m.pool.dex = "amm_v4" => UNSET \notin mints(m.pool))
  BY Zenon DEF LegThrough, leg_ok
<1>2. l.from = Purse(m, o)
  BY <1>1, PurseIs DEF is_native_sol_quote
<1>3. l.to = Coin(m)
  BY <1>1, MemeAndQuote, SidesOfLeg
<1>4. <<l.from, l.to>> = IF o.side = "buy" THEN <<Purse(m, o), Coin(m)>>
                         ELSE <<Coin(m), Purse(m, o)>>
  BY <1>2, <1>3
<1> QED
  BY <1>4, Zenon DEF OneLeg

(* A sale that needs no bridge is one leg from the coin to the purse.       *)
LEMMA DirectSell ==
    ASSUME NEW m, Sound(m), NEW o, accepted(m, o), ~needs_bridge(m, o), o.side # "buy",
           m.pool.dex # "pumpfun", NEW l,
           NEW input \in {meme_mint(m), other_mint(m.pool, quote_mint(m))},
           LegThrough(l, m.pool, input), LastMin(o, m.pool, input, l),
           l.from = ata(m.pool, input), l.to = ata(m.pool, other_mint(m.pool, input))
    PROVE  OneLeg(m, o, l)
<1>1. leg_ok(m.pool, input) /\ (m.pool.dex = "amm_v4" => UNSET \notin mints(m.pool))
  BY Zenon DEF LegThrough, leg_ok
<1>2. input = meme_mint(m) /\ other_mint(m.pool, input) = quote_mint(m)
  BY <1>1, MemeAndQuote
<1>3. l.to = Purse(m, o)
  BY <1>1, <1>2, PurseIs DEF is_native_sol_quote
<1>4. l.from = Coin(m)
  BY <1>2, SidesOfLeg
<1>5. <<l.from, l.to>> = IF o.side = "buy" THEN <<Purse(m, o), Coin(m)>>
                         ELSE <<Coin(m), Purse(m, o)>>
  BY <1>3, <1>4
<1> QED
  BY <1>5, Zenon DEF OneLeg

(* build_buy_legs without a bridge. *)
LEMMA SingleBuy ==
    ASSUME NEW m, Sound(m), NEW o, accepted(m, o), ~needs_bridge(m, o), o.side = "buy",
           NEW legs \in single_buy(m, o)
    PROVE  \E l : legs = <<l>> /\ OneLeg(m, o, l)
<1> DEFINE p == m.pool
           q == quote_mint(m)
<1>1. paid_mint(o) = q /\ Fresh(p) /\ p.dex \in Dexes
  BY PaidIsQuote DEF Sound
<1>2. p.dex \in {"launchlab", "pumpfun"} => ~o.fixed
  BY DEF accepted, fixed_output_supported
<1>3. p.dex \in Oriented => q = p.b
  BY DEF quote_mint, pool_quote_mint, Oriented
<1>4. CASE p.dex = "launchlab"
  <2> DEFINE taken == launchlab_takes(p, spend)
  <2>1. legs \in buy_launchlab_with_quote(p, o)
    BY <1>4 DEF single_buy
  <2>2. PICK min \in min_out(o, TRUE, quote_out(p, p.b, taken)) :
                legs \in Then(swap_leg(p, p.b, taken, min))
    BY <2>1, Zenon DEF buy_launchlab_with_quote
  <2>3. PICK l \in swap_leg(p, p.b, taken, min) : legs = <<l>>
    BY <2>2 DEF Then
  <2>4. /\ l.from = ata(p, p.b) /\ l.to = ata(p, other_mint(p, p.b))
        /\ LegThrough(l, p, p.b) /\ l.amount = taken /\ l.min = min
    BY <2>3, SwapLegIs
  <2>5. LastMin(o, p, p.b, l)
    <3>1. \A x \in quote_out(p, p.b, taken) : x = quote_of(p, p.b, taken)
      BY <1>1, QuoteIs
    <3>2. min = IF o.min = "caller" THEN caller_min ELSE slipped(quote_of(p, p.b, taken))
      BY <2>2, <3>1, MinIs
    <3> QED
      BY <1>2, <1>4, <2>4, <3>2 DEF LastMin
  <2>6. q = p.b
    BY <1>3, <1>4 DEF Oriented
  <2> HIDE DEF p, q
  <2>7. OneLeg(m, o, l)
    BY <1>4, <2>4, <2>5, <2>6, DirectBuy DEF p, q
  <2> QED
    BY <2>3, <2>7, Zenon
<1>5. CASE p.dex = "pumpfun"
  <2>1. PICK min \in min_out(o, FALSE, quote_out(p, p.b, spend)) :
          legs = <<IF o.asset = "sol" THEN native_leg(p, "buy", min) ELSE leg(p, p.b, spend, min)>>
    BY <1>5 DEF single_buy, buy_pumpfun
  <2> DEFINE l == IF o.asset = "sol" THEN native_leg(p, "buy", min) ELSE leg(p, p.b, spend, min)
  <2>2. /\ l.pool = p.id /\ l.to = ata(p, other_mint(p, p.b)) /\ l.amount = spend /\ l.min = min
        /\ l.from = IF o.asset = "sol" THEN LAMPORTS ELSE ata(p, p.b)
    BY DEF native_leg, leg
  <2>3. q = p.b
    BY <1>3, <1>5 DEF Oriented
  <2>4. o.asset = "sol" => p.b = WSOL_MINT /\ is_native_sol_quote(p)
    BY <1>1, <1>5, <2>3 DEF paid_mint, Cash, is_native_sol_quote
  <2>5. leg_ok(p, p.b)
    BY <1>5 DEF leg_ok, mints, Concentrated
  <2>6. LastMin(o, p, p.b, l)
    <3>1. \A x \in quote_out(p, p.b, spend) : x = quote_of(p, p.b, spend)
      BY <1>1, QuoteIs
    <3>2. min = IF o.min = "caller" THEN caller_min ELSE slipped(quote_of(p, p.b, spend))
      BY <2>1, <3>1, MinIs
    <3> HIDE DEF l
    <3> QED
      BY <1>2, <1>5, <2>2, <3>2 DEF LastMin
  <2>7. legs = <<l>>
    BY <2>1
  <2> HIDE DEF l
  <2>8. input_mint(l) = p.b
    BY <2>2, <2>4, AtaIsNoWallet DEF input_mint, ata
  <2>9. LegThrough(l, p, p.b)
    BY <2>2, <2>5, <2>8 DEF LegThrough
  <2>10. l.from = Purse(m, o)
    <3>1. CASE o.asset = "sol"
      BY <2>2, <2>4, <3>1 DEF Purse
    <3>2. CASE o.asset # "sol"
      BY <2>2, <2>3, <2>5, <3>2, PurseIs
    <3> QED
      BY <3>1, <3>2
  <2>11. l.to = Coin(m)
    BY <1>5, <2>2, <2>3, MemeAndQuote, SidesOfLeg
  <2>12. OneLeg(m, o, l)
    <3>1. <<l.from, l.to>> = IF o.side = "buy" THEN <<Purse(m, o), Coin(m)>>
                             ELSE <<Coin(m), Purse(m, o)>>
      BY <2>10, <2>11
    <3> QED
      BY <2>6, <2>9, <3>1, Zenon DEF OneLeg
  <2> QED
    BY <2>7, <2>12, Zenon
<1>6. CASE p.dex \notin {"launchlab", "pumpfun"}
  <2>1. \E eager : legs \in one_leg(p, q, o, eager)
    BY <1>1, <1>3, <1>6 DEF single_buy, buy_pumpswap_with_quote, buy_cpmm_with_mint,
       buy_raydium_v4_with_mint, buy_meteora_v2_with_mint, buy_concentrated_with_mint,
       Oriented
  <2>2. PICK eager : legs \in one_leg(p, q, o, eager)
    BY <2>1
  <2>3. PICK l : /\ legs = <<l>> /\ LegThrough(l, p, q) /\ LastMin(o, p, q, l)
                 /\ l.from = ata(p, q) /\ l.to = ata(p, other_mint(p, q))
    BY <1>1, <2>2, OneLegIs
  <2>4. OneLeg(m, o, l)
    BY <1>6, <2>3, DirectBuy
  <2> QED
    BY <2>3, <2>4, Zenon
<1> QED
  BY <1>4, <1>5, <1>6

(* build_sell_legs without a bridge. *)
LEMMA SingleSell ==
    ASSUME NEW m, Sound(m), NEW o, accepted(m, o), ~needs_bridge(m, o), o.side # "buy",
           o.side = "sell", NEW legs \in single_sell(m, o)
    PROVE  \E l : legs = <<l>> /\ OneLeg(m, o, l)
<1> DEFINE p == m.pool
           q == quote_mint(m)
           c == meme_mint(m)
<1>1. paid_mint(o) = q /\ Fresh(p) /\ p.dex \in Dexes
  BY PaidIsQuote DEF Sound
<1>2. p.dex \in {"launchlab", "pumpfun"} => ~o.fixed
  BY DEF accepted, fixed_output_supported
<1>3. p.dex \in Oriented => q = p.b /\ c = p.a
  BY DEF quote_mint, pool_quote_mint, meme_mint, base_mint, Oriented
<1>4. CASE p.dex = "pumpfun"
  <2>1. PICK min \in min_out(o, FALSE, quote_out(p, p.a, spend)) :
          legs = <<IF o.asset = "sol" THEN native_leg(p, "sell", min) ELSE leg(p, p.a, spend, min)>>
    BY <1>4 DEF single_sell, sell_pumpfun
  <2> DEFINE l == IF o.asset = "sol" THEN native_leg(p, "sell", min) ELSE leg(p, p.a, spend, min)
  <2>2. /\ l.pool = p.id /\ l.from = ata(p, p.a) /\ l.amount = spend /\ l.min = min
        /\ l.to = IF o.asset = "sol" THEN LAMPORTS ELSE ata(p, other_mint(p, p.a))
    BY DEF native_leg, leg
  <2>3. q = p.b /\ c = p.a
    BY <1>3, <1>4 DEF Oriented
  <2>4. o.asset = "sol" => p.b = WSOL_MINT /\ is_native_sol_quote(p)
    BY <1>1, <1>4, <2>3 DEF paid_mint, Cash, is_native_sol_quote
  <2>5. leg_ok(p, p.a)
    BY <1>4 DEF leg_ok, mints, Concentrated
  <2>6. LastMin(o, p, p.a, l)
    <3>1. \A x \in quote_out(p, p.a, spend) : x = quote_of(p, p.a, spend)
      BY <1>1, QuoteIs
    <3>2. min = IF o.min = "caller" THEN caller_min ELSE slipped(quote_of(p, p.a, spend))
      BY <2>1, <3>1, MinIs
    <3> HIDE DEF l
    <3> QED
      BY <1>2, <1>4, <2>2, <3>2 DEF LastMin
  <2>7. legs = <<l>>
    BY <2>1
  <2> HIDE DEF l
  <2>8. input_mint(l) = p.a
    BY <2>2, AtaIsNoWallet DEF input_mint, ata
  <2>9. LegThrough(l, p, p.a)
    BY <2>2, <2>5, <2>8 DEF LegThrough
  <2>10. other_mint(p, p.a) = q
    BY <2>3 DEF other_mint
  <2>11. l.to = Purse(m, o)
    <3>1. CASE o.asset = "sol"
      BY <2>2, <2>4, <3>1 DEF Purse
    <3>2. CASE o.asset # "sol"
      BY <2>2, <2>5, <2>10, <3>2, PurseIs
    <3> QED
      BY <3>1, <3>2
  <2>12. l.from = Coin(m)
    BY <2>2, <2>3, SidesOfLeg
  <2>13. OneLeg(m, o, l)
    <3>1. <<l.from, l.to>> = IF o.side = "buy" THEN <<Purse(m, o), Coin(m)>>
                             ELSE <<Coin(m), Purse(m, o)>>
      BY <2>11, <2>12
    <3> QED
      BY <2>6, <2>9, <3>1, Zenon DEF OneLeg
  <2> QED
    BY <2>7, <2>13, Zenon
<1>5. CASE p.dex # "pumpfun"
  <2>1. \E eager, input : /\ input \in {c, other_mint(p, q)}
                          /\ legs \in one_leg(p, input, o, eager)
    BY <1>1, <1>3, <1>5 DEF single_sell, sell_launchlab_to_quote, sell_pumpswap_to_quote,
       sell_cpmm_to_mint, sell_raydium_v4_to_mint, sell_meteora_v2_to_mint,
       sell_concentrated_to_mint, Oriented
  <2>2. PICK eager, input : /\ input \in {c, other_mint(p, q)}
                            /\ legs \in one_leg(p, input, o, eager)
    BY <2>1
  <2>3. PICK l : /\ legs = <<l>> /\ LegThrough(l, p, input) /\ LastMin(o, p, input, l)
                 /\ l.from = ata(p, input) /\ l.to = ata(p, other_mint(p, input))
    BY <1>1, <2>2, OneLegIs
  <2>4. OneLeg(m, o, l)
    BY <1>5, <2>2, <2>3, DirectSell
  <2> QED
    BY <2>3, <2>4, Zenon
<1> QED
  BY <1>4, <1>5

-----------------------------------------------------------------------------
(* Routes of two legs.                                                      *)

(* A route of two legs is one of each.                                      *)
LEMMA JoinIs ==
    ASSUME NEW F, NEW S, NEW legs \in Join(F, S)
    PROVE  \E l1 \in F, l2 \in S : legs = <<l1, l2>>
BY DEF Join

(* buy_bridge *)
LEMMA BridgedBuyIs ==
    ASSUME NEW m, Sound(m), NEW o, o.side = "buy", NEW b \in m.bridge,
           validate_bridge_quote_program(m), connects(b, quote_mint(m)),
           NEW amount, NEW hop, NEW min,
           NEW l1 \in swap_leg(b, WSOL_MINT, amount, hop),
           NEW l2 \in swap_leg(m.pool, quote_mint(m), hop, min),
           FirstMin(m, b, WSOL_MINT, l1), LastMin(o, m.pool, quote_mint(m), l2)
    PROVE  TwoLegs(m, o, l1, l2)
<1> DEFINE p == m.pool
           q == quote_mint(m)
<1>1. /\ l1.from = ata(b, WSOL_MINT) /\ l1.to = ata(b, other_mint(b, WSOL_MINT))
      /\ l1.min = hop /\ LegThrough(l1, b, WSOL_MINT)
  BY SwapLegIs
<1>2. /\ l2.from = ata(p, q) /\ l2.to = ata(p, other_mint(p, q))
      /\ l2.amount = hop /\ LegThrough(l2, p, q)
  BY SwapLegIs
<1>3. /\ leg_ok(b, WSOL_MINT)
      /\ leg_ok(p, q) /\ (p.dex = "amm_v4" => UNSET \notin mints(p))
  BY <1>1, <1>2, Zenon DEF LegThrough, leg_ok
<1>4. /\ ata(b, WSOL_MINT) = WSOL_ATA /\ ata(b, q) = Between(m)
      /\ other_mint(b, WSOL_MINT) = q /\ q # WSOL_MINT
  BY <1>3, BridgeSides
<1>5. l2.to = Coin(m) /\ l2.from = Between(m)
  BY <1>2, <1>3, MemeAndQuote, SidesOfLeg
<1>6. <<b, p>> = IF o.side = "buy" THEN <<b, m.pool>> ELSE <<m.pool, b>>
  OBVIOUS
<1>7. <<l1.from, l2.to>> = IF o.side = "buy" THEN <<WSOL_ATA, Coin(m)>>
                           ELSE <<Coin(m), WSOL_ATA>>
  BY <1>1, <1>4, <1>5
<1>8. l1.to = Between(m) /\ l1.min = l2.amount
  BY <1>1, <1>2, <1>4
<1> QED
  BY <1>1, <1>2, <1>4, <1>5, <1>6, <1>7, <1>8, Zenon DEF TwoLegs

(* sell_bridge *)
LEMMA BridgedSellIs ==
    ASSUME NEW m, Sound(m), NEW o, o.side # "buy", NEW b \in m.bridge, ~o.fixed,
           validate_bridge_quote_program(m),
           NEW input \in {meme_mint(m), other_mint(m.pool, quote_mint(m))},
           NEW legs \in sell_bridge(m.pool, input, b, o)
    PROVE  \E l1, l2 : legs = <<l1, l2>> /\ TwoLegs(m, o, l1, l2)
<1> DEFINE p == m.pool
           quote == other_mint(p, input)
           second(hop) == UNION {swap_leg(b, quote, hop, min) :
                                   min \in min_out(o, TRUE, quote_out(b, quote, hop))}
<1>1. connects(b, quote)
  BY Zenon DEF sell_bridge
<1>2. PICK hop \in quote_out(p, input, spend) :
        legs \in Join(swap_leg(p, input, spend, hop), second(hop))
  BY <1>1 DEF sell_bridge, bridge_intermediate_min_out
<1>3. PICK l1 \in swap_leg(p, input, spend, hop), l2 \in second(hop) : legs = <<l1, l2>>
  <2> HIDE DEF second
  <2> QED
    BY <1>2, JoinIs
<1>4. PICK min \in min_out(o, TRUE, quote_out(b, quote, hop)) :
        l2 \in swap_leg(b, quote, hop, min)
  BY <1>3
<1> HIDE DEF second
<1>5. Fresh(p) /\ b.dex \in {"cpmm", "amm_v4"}
  BY Zenon DEF Sound
<1>6. hop = quote_of(p, input, spend)
  BY <1>2, <1>5, QuoteIs
<1>7. min = IF o.min = "caller" THEN caller_min ELSE slipped(quote_of(b, quote, hop))
  <2>1. \A x \in quote_out(b, quote, hop) : x = quote_of(b, quote, hop)
    BY <1>5, QuoteIs DEF Quotable
  <2> QED
    BY <1>4, <2>1, MinIs
<1>8. /\ l1.from = ata(p, input) /\ l1.to = ata(p, quote) /\ l1.amount = spend
      /\ l1.min = hop /\ LegThrough(l1, p, input)
  BY <1>3, SwapLegIs
<1>9. /\ l2.from = ata(b, quote) /\ l2.to = ata(b, other_mint(b, quote))
      /\ l2.amount = hop /\ l2.min = min /\ LegThrough(l2, b, quote)
  BY <1>4, SwapLegIs
<1>10. /\ leg_ok(b, quote)
       /\ (p.dex = "amm_v4" => UNSET \notin mints(p))
  BY <1>8, <1>9, Zenon DEF LegThrough, leg_ok
<1>11. input = meme_mint(m) /\ quote = quote_mint(m)
  BY <1>10, MemeAndQuote
<1>12. /\ ata(b, WSOL_MINT) = WSOL_ATA /\ ata(b, quote) = Between(m)
       /\ other_mint(b, quote) = WSOL_MINT /\ quote_mint(m) # WSOL_MINT
  BY <1>1, <1>10, <1>11, BridgeSides
<1>13. l1.from = Coin(m) /\ l1.to = Between(m)
  BY <1>8, <1>11, SidesOfLeg
<1>14. l2.from = Between(m) /\ l2.to = WSOL_ATA
  BY <1>9, <1>12
<1>15. FirstMin(m, p, input, l1) /\ LastMin(o, b, quote, l2)
  BY <1>6, <1>7, <1>8, <1>9 DEF FirstMin, LastMin
<1>16. <<p, b>> = IF o.side = "buy" THEN <<b, m.pool>> ELSE <<m.pool, b>>
  OBVIOUS
<1>17. <<l1.from, l2.to>> = IF o.side = "buy" THEN <<WSOL_ATA, Coin(m)>>
                            ELSE <<Coin(m), WSOL_ATA>>
  BY <1>13, <1>14
<1>18. l1.min = l2.amount
  BY <1>8, <1>9
<1>19. TwoLegs(m, o, l1, l2)
  BY <1>8, <1>9, <1>12, <1>13, <1>14, <1>15, <1>16, <1>17, <1>18, Zenon DEF TwoLegs
<1> QED
  BY <1>3, <1>19, Zenon

(* shared_mint_with_bridge is the quote of a CPMM market behind a bridge.   *)
LEMMA SharedIsQuote ==
    ASSUME NEW m, Sound(m), m.pool.dex = "cpmm", needs_sol_bridge(m.pool),
           NEW b \in m.bridge, NEW stock \in shared_mint_with_bridge(m.pool, b)
    PROVE  quote_mint(m) = stock
<1> DEFINE p == m.pool
           all == UNION {shared_mint_with_bridge(p, c) : c \in m.bridge}
<1>1. \A c \in m.bridge : c = b
  BY Zenon DEF Sound
<1>2. all = shared_mint_with_bridge(p, b)
  BY <1>1
<1>3. shared_mint_with_bridge(p, b) = {stock} /\ stock \in {p.a, p.b}
  BY DEF shared_mint_with_bridge
<1>4. meme_mint(m) = other_mint(p, CHOOSE s \in all : TRUE)
  BY <1>2, <1>3 DEF meme_mint
<1>5. (CHOOSE s \in all : TRUE) = stock
  <2> HIDE DEF all
  <2> QED
    BY <1>2, <1>3
<1>6. p.a # p.b
  BY DEF Sound
<1>7. quote_mint(m) = other_mint(p, other_mint(p, stock))
  BY <1>4, <1>5, Zenon DEF quote_mint
<1> HIDE DEF p
<1> QED
  BY <1>3, <1>6, <1>7 DEF other_mint

(* build_buy_legs through a bridge. *)
LEMMA BridgedBuy ==
    ASSUME NEW m, Sound(m), NEW o, accepted(m, o), needs_bridge(m, o), o.side = "buy",
           NEW b \in m.bridge, NEW legs \in bridged_buy(m, b, o)
    PROVE  \E l1, l2 : legs = <<l1, l2>> /\ TwoLegs(m, o, l1, l2)
<1> DEFINE p == m.pool
           q == quote_mint(m)
<1>1. /\ Fresh(p) /\ b.dex \in {"cpmm", "amm_v4"} /\ needs_sol_bridge(p)
      /\ ~o.fixed /\ validate_bridge_quote_program(m)
  BY Zenon DEF Sound, accepted, fixed_output_supported, needs_bridge
<1>2. \A x \in quote_out(b, WSOL_MINT, spend) : x = quote_of(b, WSOL_MINT, spend)
  BY <1>1, QuoteIs DEF Quotable
<1>3. CASE p.dex = "launchlab"
  <2> DEFINE last(amount) ==
            UNION {swap_leg(p, p.b, launchlab_takes(p, amount), min) :
                     min \in min_out(o, TRUE,
                                quote_out(p, p.b, launchlab_takes(p, amount)))}
  <2>1. q = p.b
    BY <1>3 DEF quote_mint, pool_quote_mint, Oriented
  <2>2. legs \in buy_via_bridge_launchlab(p, b, o)
    BY <1>3 DEF bridged_buy
  <2>3. connects(b, q)
    BY <2>1, <2>2, Zenon DEF buy_via_bridge_launchlab
  <2> DEFINE first(stock, taken) ==
               swap_leg(b, WSOL_MINT,
                        IF taken # stock THEN input_for(b, taken) ELSE spend, taken)
  <2>priced. PICK stock \in quote_out(b, WSOL_MINT, spend) :
           legs \in Join(first(stock, launchlab_takes(p, stock)),
                         last(launchlab_takes(p, stock)))
    BY <2>1, <2>2, <2>3
       DEF buy_via_bridge_launchlab, buy_bridge, bridge_intermediate_min_out
  <2> SUFFICES ASSUME NEW taken, taken = launchlab_takes(p, stock),
                      NEW wsol, wsol = IF taken # stock THEN input_for(b, taken) ELSE spend,
                      legs \in Join(swap_leg(b, WSOL_MINT, wsol, taken), last(taken))
               PROVE  \E l1, l2 : legs = <<l1, l2>> /\ TwoLegs(m, o, l1, l2)
    BY <2>priced
  <2>4. PICK l1 \in swap_leg(b, WSOL_MINT, wsol, taken), l2 \in last(taken) : legs = <<l1, l2>>
    <3> HIDE DEF last
    <3> QED
      BY JoinIs
  <2>5. launchlab_takes(p, taken) = taken
    BY DEF launchlab_takes
  <2>6. PICK min \in min_out(o, TRUE, quote_out(p, q, taken)) : l2 \in swap_leg(p, q, taken, min)
    BY <2>1, <2>4, <2>5
  <2> HIDE DEF last
  <2>7. l1.amount = wsol /\ l1.min = taken /\ l1.pool = b.id /\ l2.amount = taken /\ l2.min = min
    <3>1. l1.amount = wsol /\ l1.min = taken /\ LegThrough(l1, b, WSOL_MINT)
      BY <2>4, SwapLegIs
    <3>2. l2.amount = taken /\ l2.min = min
      BY <2>6, SwapLegIs
    <3> QED
      BY <3>1, <3>2, Zenon DEF LegThrough
  <2>8. FirstMin(m, b, WSOL_MINT, l1)
    <3>1. stock = quote_of(b, WSOL_MINT, spend)
      BY <1>2
    <3>2. CASE taken = stock
      BY <2>7, <3>1, <3>2 DEF FirstMin
    <3>3. CASE taken # stock
      <4>1. taken = still_taken(p)
        BY <3>3 DEF launchlab_takes
      <4> QED
        BY <2>7, <3>3, <4>1 DEF FirstMin, input_for
    <3> QED
      BY <3>2, <3>3
  <2>9. LastMin(o, p, q, l2)
    <3>1. \A x \in quote_out(p, q, taken) : x = quote_of(p, q, taken)
      BY <1>1, QuoteIs
    <3>2. min = IF o.min = "caller" THEN caller_min ELSE slipped(quote_of(p, q, taken))
      BY <2>6, <3>1, MinIs
    <3> QED
      BY <1>1, <2>7, <3>2 DEF LastMin
  <2>10. TwoLegs(m, o, l1, l2)
    BY <1>1, <2>3, <2>4, <2>6, <2>8, <2>9, BridgedBuyIs
  <2> QED
    BY <2>4, <2>10, Zenon
<1>4. CASE p.dex # "launchlab"
  <2> DEFINE Last(min, hop) ==
               \E eager, quotes : /\ \A x \in quotes : x = quote_of(p, q, hop)
                                  /\ min \in min_out(o, eager, quotes)
  <2>1. \A x, hop : x \in quote_out(p, q, hop) => x = quote_of(p, q, hop)
    BY <1>1, QuoteIs
  <2> SUFFICES ASSUME connects(b, q), NEW hop \in quote_out(b, WSOL_MINT, spend),
                      NEW l1 \in swap_leg(b, WSOL_MINT, spend, hop),
                      NEW min, Last(min, hop), NEW l2 \in swap_leg(p, q, hop, min),
                      legs = <<l1, l2>>
               PROVE  \E k1, k2 : legs = <<k1, k2>> /\ TwoLegs(m, o, k1, k2)
    <3>1. CASE p.dex = "cpmm"
      <4> DEFINE last(stock, amount) ==
                   UNION {swap_leg(p, stock, amount, min) :
                            min \in min_out(o, TRUE, quote_out(p, stock, amount))}
      <4>1. legs \in buy_via_bridge_cpmm(p, b, o)
        BY <3>1 DEF bridged_buy
      <4> DEFINE through(stock) ==
                   UNION {buy_bridge(b, spend, hop, last(stock, hop)) :
                            hop \in quote_out(b, WSOL_MINT, spend)}
      <4>2. PICK stock \in shared_mint_with_bridge(p, b) :
              legs \in IF ~connects(b, stock) THEN {} ELSE through(stock)
        BY <4>1 DEF buy_via_bridge_cpmm, bridge_intermediate_min_out
      <4>3. stock = q
        BY <1>1, <3>1, <4>2, SharedIsQuote
      <4>4. PICK hop \in quote_out(b, WSOL_MINT, spend) :
              legs \in Join(swap_leg(b, WSOL_MINT, spend, hop), last(stock, hop))
        <5> HIDE DEF last
        <5> QED
          BY <4>2 DEF buy_bridge
      <4>5. PICK l1 \in swap_leg(b, WSOL_MINT, spend, hop), l2 \in last(stock, hop) :
              legs = <<l1, l2>>
        <5> HIDE DEF last
        <5> QED
          BY <4>4, JoinIs
      <4>6. PICK min \in min_out(o, TRUE, quote_out(p, stock, hop)) :
              l2 \in swap_leg(p, stock, hop, min)
        BY <4>5
      <4>7. Last(min, hop)
        BY <2>1, <4>3, <4>6
      <4> QED
        BY <4>2, <4>3, <4>4, <4>5, <4>6, <4>7
    <3>2. CASE p.dex # "cpmm"
      <4> DEFINE last(amount) ==
                   UNION {swap_leg(p, q, amount, min) :
                            min \in bridged_min_out(p, o, quote_out(p, q, amount))}
      <4>1. q = pool_quote_mint(p) /\ legs \in buy_via_bridge_mainstream(p, b, o)
        BY <1>4, <3>2 DEF bridged_buy, quote_mint
      <4>2. connects(b, q)
        BY <4>1, Zenon DEF buy_via_bridge_mainstream
      <4>3. PICK hop \in quote_out(b, WSOL_MINT, spend) :
              legs \in Join(swap_leg(b, WSOL_MINT, spend, hop), last(hop))
        BY <4>1, <4>2 DEF buy_via_bridge_mainstream, buy_bridge, bridge_intermediate_min_out
      <4>4. PICK l1 \in swap_leg(b, WSOL_MINT, spend, hop), l2 \in last(hop) :
              legs = <<l1, l2>>
        <5> HIDE DEF last
        <5> QED
          BY <4>3, JoinIs
      <4>5. PICK min \in bridged_min_out(p, o, quote_out(p, q, hop)) :
              l2 \in swap_leg(p, q, hop, min)
        BY <4>4
      <4>6. Last(min, hop)
        BY <2>1, <4>5 DEF bridged_min_out
      <4> QED
        BY <4>2, <4>3, <4>4, <4>5, <4>6
    <3> QED
      BY <3>1, <3>2
  <2>2. PICK eager, quotes : /\ \A x \in quotes : x = quote_of(p, q, hop)
                             /\ min \in min_out(o, eager, quotes)
    OBVIOUS
  <2>3. min = IF o.min = "caller" THEN caller_min ELSE slipped(quote_of(p, q, hop))
    BY <2>2, MinIs
  <2>4. l1.amount = spend /\ l1.min = hop /\ l2.amount = hop /\ l2.min = min
    BY SwapLegIs
  <2>5. FirstMin(m, b, WSOL_MINT, l1) /\ LastMin(o, p, q, l2)
    BY <1>1, <1>2, <2>3, <2>4 DEF FirstMin, LastMin
  <2>6. TwoLegs(m, o, l1, l2)
    BY <1>1, <2>5, BridgedBuyIs
  <2> QED
    BY <2>6, Zenon
<1> QED
  BY <1>3, <1>4

(* build_sell_legs through a bridge. *)
LEMMA BridgedSell ==
    ASSUME NEW m, Sound(m), NEW o, accepted(m, o), needs_bridge(m, o), o.side # "buy",
           NEW b \in m.bridge, NEW legs \in bridged_sell(m, b, o)
    PROVE  \E l1, l2 : legs = <<l1, l2>> /\ TwoLegs(m, o, l1, l2)
<1> DEFINE p == m.pool
           q == quote_mint(m)
<1>1. needs_sol_bridge(p) /\ ~o.fixed /\ validate_bridge_quote_program(m)
  BY Zenon DEF accepted, fixed_output_supported, needs_bridge
<1>2. PICK input \in {meme_mint(m), other_mint(p, q)} : legs \in sell_bridge(p, input, b, o)
  <2>1. CASE p.dex = "launchlab"
    <3>1. meme_mint(m) = p.a
      BY <2>1 DEF meme_mint, base_mint, Oriented
    <3> QED
      BY <2>1, <3>1 DEF bridged_sell, sell_via_bridge_launchlab
  <2>2. CASE p.dex = "cpmm"
    <3>1. PICK stock \in shared_mint_with_bridge(p, b) :
            legs \in sell_bridge(p, other_mint(p, stock), b, o)
      BY <2>2 DEF bridged_sell, sell_via_bridge_cpmm
    <3>2. stock = q
      BY <1>1, <2>2, SharedIsQuote
    <3> QED
      BY <3>1, <3>2
  <2>3. CASE p.dex \notin {"launchlab", "cpmm"}
    <3>1. meme_mint(m) = base_mint(p)
      BY <2>3 DEF meme_mint
    <3> QED
      BY <2>3, <3>1 DEF bridged_sell, sell_via_bridge_mainstream
  <2> QED
    BY <2>1, <2>2, <2>3
<1> QED
  BY <1>1, <1>2, BridgedSellIs

(* What the client builds is one leg between the coin and the caller's      *)
(* money, or two with a bridge between them (buy_with_opts, sell_with_opts).*)
LEMMA BuiltLegs ==
    ASSUME NEW m, Sound(m), NEW o, o.side \in {"buy", "sell"}, NEW legs \in build(m, o)
    PROVE  /\ accepted(m, o)
           /\ \/ ~needs_bridge(m, o) /\ \E l : legs = <<l>> /\ OneLeg(m, o, l)
              \/ /\ needs_bridge(m, o)
                 /\ \E l1, l2 : legs = <<l1, l2>> /\ TwoLegs(m, o, l1, l2)
<1>1. accepted(m, o)
  BY Zenon DEF build
<1>2. CASE o.side = "buy"
  <2>1. legs \in build_buy_legs(m, o)
    BY <1>1, <1>2, Zenon DEF build
  <2>2. CASE needs_bridge(m, o)
    <3>1. PICK b \in m.bridge : legs \in bridged_buy(m, b, o)
      BY <2>1, <2>2 DEF build_buy_legs
    <3> QED
      BY <1>1, <1>2, <2>2, <3>1, BridgedBuy
  <2>3. CASE ~needs_bridge(m, o)
    BY <1>1, <1>2, <2>1, <2>3, SingleBuy DEF build_buy_legs
  <2> QED
    BY <1>1, <2>2, <2>3
<1>3. CASE o.side = "sell"
  <2>1. legs \in build_sell_legs(m, o)
    BY <1>1, <1>3 DEF build
  <2>2. CASE needs_bridge(m, o)
    <3>1. PICK b \in m.bridge : legs \in bridged_sell(m, b, o)
      BY <2>1, <2>2 DEF build_sell_legs
    <3> QED
      BY <1>1, <1>3, <2>2, <3>1, BridgedSell
  <2>3. CASE ~needs_bridge(m, o)
    BY <1>1, <1>3, <2>1, <2>3, SingleSell DEF build_sell_legs
  <2> QED
    BY <1>1, <2>2, <2>3
<1> QED
  BY <1>2, <1>3

-----------------------------------------------------------------------------
(* What is built from the snapshot of the feed.                             *)

(* A bridge is what it was when the bot was started.                        *)
LEMMA BridgeIs ==
    ASSUME target \in Targets, NEW b \in Bridges
    PROVE  /\ b.id \notin {Pool.id, Wild[Pool].id} /\ b.version = 0
           /\ b.dex \in {"cpmm", "amm_v4"} /\ b.a # b.b
           /\ OnChain(b.id).dex = b.dex /\ OnChain(b.id).id = b.id
           /\ OnChain(b.id).a = b.a /\ OnChain(b.id).pa = b.pa
           /\ OnChain(b.id).b = b.b /\ OnChain(b.id).pb = b.pb
           /\ b.config \in {UNSET, OnChain(b.id).config}
<1>1. PICK t \in target.bridge : \E n \in Named(t) : b = BridgeSnapshot(n)
  BY DEF Bridges
<1>2. PICK n \in Named(t) : b = BridgeSnapshot(n)
  BY <1>1
<1>3. /\ t.a # t.b /\ t.dex \in {"cpmm", "amm_v4"} /\ t.id \notin {Pool.id, Wild[Pool].id}
      /\ t = OnChainPool(t)
  BY PoolFeedConstants, Zenon DEF Pool, ChainPool
<1>4. /\ n.id = t.id /\ n.dex = t.dex /\ n.a = t.a /\ n.b = t.b /\ n.pa = t.pa
      /\ n.pb = t.pb /\ n.config \in {UNSET, t.config}
  <2>1. t = [ dex |-> t.dex, id |-> t.id, a |-> t.a, b |-> t.b, pa |-> t.pa, pb |-> t.pb,
              config |-> t.config, use_v2 |-> t.use_v2, clamps |-> t.clamps,
              stonk |-> t.stonk ]
    BY <1>3, Zenon DEF OnChainPool
  <2>2. n = t \/ n = [t EXCEPT !.config = UNSET]
    BY <1>2 DEF Named
  <2> QED
    BY <2>1, <2>2
<1>5. /\ b.id = n.id /\ b.dex = n.dex /\ b.a = n.a /\ b.b = n.b /\ b.pa = n.pa
      /\ b.pb = n.pb /\ b.config = n.config /\ b.version = 0
  BY <1>2 DEF BridgeSnapshot, Observed
<1>6. OnChain(t.id) = t
  BY OnChainIs
<1> QED
  BY <1>3, <1>4, <1>5, <1>6

(* What FeedInv says of the market that is held.                            *)
LEMMA Watched ==
    ASSUME FeedInv, HasMarket
    PROVE  /\ target \in Targets /\ Snapped(market.pool) /\ Sides(market.pool, asked)
           /\ Fresh(market.pool) /\ market.bridge \subseteq Bridges
           /\ Sound(market)
<1> DEFINE p == market.pool
<1>1. /\ target \in Targets /\ Snapped(p) /\ Sides(p, asked)
      /\ Fresh(p) /\ market.bridge \subseteq Bridges
      /\ \A b, c \in market.bridge : b = c
  BY Zenon DEF FeedInv, MarketOK, HasMarket
<1>2. Pool.a # Pool.b /\ Pool.dex \in Dexes /\ UNSET \notin {Pool.a, Pool.b}
  BY <1>1, PoolFeedConstants, Zenon DEF Pool, ChainPool, mints
<1>3. UNSET # WSOL_MINT
  BY MintConstants
<1>4. p.dex = Pool.dex
  BY <1>1, Zenon DEF Snapped
<1>5. /\ \/ p.a # p.b
         \/ p.dex \in {"launchlab", "pumpfun"}
         \/ p.dex = "amm_v4" /\ UNSET \in mints(p)
      /\ p.a = WSOL_MINT => p.b # WSOL_MINT
  <2> HIDE DEF p
  <2>1. Sides(p, asked)
    BY <1>1, Zenon DEF p
  <2>2. /\ p.b = Pool.b \/ (p.dex = "amm_v4" /\ p.b = UNSET)
        /\ \/ p.a = Pool.a
           \/ p.dex = "amm_v4" /\ p.a = UNSET
           \/ p.dex \in {"launchlab", "pumpfun"} /\ p.a # WSOL_MINT
    BY <2>1 DEF Sides
  <2> QED
    BY <1>2, <1>3, <2>2, SMT DEF mints
<1>6. \A b \in market.bridge : b.a # b.b /\ b.dex \in {"cpmm", "amm_v4"}
  BY <1>1, BridgeIs
<1> QED
  BY <1>1, <1>2, <1>4, <1>5, <1>6, Zenon DEF Sound

(* A route, and which pool each of its legs goes through.                   *)
LEMMA Routed ==
    ASSUME FeedInv, NEW o \in Orders, NEW legs \in Routes(o)
    PROVE  /\ HasMarket /\ assert_routed_market_ok(market, policy)
           /\ validate_requested_mint(o) /\ accepted(market, o)
           /\ o.side \in {"buy", "sell"}
           /\ \/ ~needs_bridge(market, o) /\ \E l : legs = <<l>> /\ OneLeg(market, o, l)
              \/ /\ needs_bridge(market, o)
                 /\ \E l1, l2 : legs = <<l1, l2>> /\ TwoLegs(market, o, l1, l2)
<1>1. /\ HasMarket /\ assert_routed_market_ok(market, policy)
      /\ validate_requested_mint(o) /\ legs \in build(market, o)
  BY Zenon DEF Routes
<1>2. o.side \in {"buy", "sell"}
  BY DEF Orders
<1>3. Sound(market)
  BY <1>1, Watched
<1> QED
  BY <1>1, <1>2, <1>3, BuiltLegs

(* Every leg of a route goes through the held pool or its bridge.           *)
LEMMA EachLeg ==
    ASSUME FeedInv, NEW o \in Orders, NEW legs \in Routes(o), NEW i \in DOMAIN legs
    PROVE  /\ HasMarket /\ assert_routed_market_ok(market, policy)
           /\ \E p \in {market.pool} \cup market.bridge : \E input :
                 LegThrough(legs[i], p, input)
<1>1. CASE \E l : legs = <<l>> /\ OneLeg(market, o, l)
  <2>1. PICK l : legs = <<l>> /\ OneLeg(market, o, l)
    BY <1>1
  <2>2. legs[i] = l
    BY <2>1
  <2>3. PICK input : LegThrough(l, market.pool, input)
    BY <2>1, Zenon DEF OneLeg
  <2> QED
    BY <2>2, <2>3, Routed
<1>2. CASE \E l1, l2 : legs = <<l1, l2>> /\ TwoLegs(market, o, l1, l2)
  <2>1. PICK l1, l2 : legs = <<l1, l2>> /\ TwoLegs(market, o, l1, l2)
    BY <1>2
  <2>2. legs[i] \in {l1, l2}
    BY <2>1
  <2>3. PICK b, p1, p2, i1, i2 :
          /\ b \in market.bridge
          /\ <<p1, p2>> = IF o.side = "buy" THEN <<b, market.pool>> ELSE <<market.pool, b>>
          /\ LegThrough(l1, p1, i1) /\ LegThrough(l2, p2, i2)
    BY <2>1, Zenon DEF TwoLegs
  <2>4. p1 \in {market.pool} \cup market.bridge /\ p2 \in {market.pool} \cup market.bridge
    BY <2>3
  <2> QED
    BY <2>2, <2>3, <2>4, Routed
<1> QED
  BY <1>1, <1>2, Routed

(* A quote a leg is built with is of its own pool as last seen.             *)
LEMMA QuoteTrue ==
    ASSUME FeedInv, HasMarket, NEW p \in {market.pool} \cup market.bridge,
           NEW l, NEW input, LegThrough(l, p, input)
    PROVE  quote_of(p, input, l.amount) = QuoteForLeg(l)
<1>1. l.pool = p.id /\ input_mint(l) = input
  BY Zenon DEF LegThrough
<1>2. /\ market.pool.version = applied /\ market.pool.id \in {Pool.id, Wild[Pool].id}
      /\ market.bridge \subseteq Bridges /\ target \in Targets
  BY Watched, Zenon DEF Snapped, OneOfTwo
<1>3. version_of(p.id) = p.version
  <2>1. CASE p = market.pool
    BY <1>2, <2>1 DEF version_of
  <2>2. CASE p \in market.bridge
    BY <1>2, <2>2, BridgeIs DEF version_of
  <2> QED
    BY <2>1, <2>2
<1> QED
  BY <1>1, <1>3 DEF quote_of, QuoteForLeg

(* Every minimum a leg is built with is the caller's or the quote of this   *)
(* very swap, whatever was merged into the snapshot since it was quoted     *)
(* (snapshot_expected_out, merge_whirlpool_swap, merge_clmm_swap).          *)
THEOREM NoStaleMinimum == Spec => []QuotesMatchLegs
<1>1. FeedInv => QuotesMatchLegs
  <2> SUFFICES ASSUME FeedInv, NEW o \in Orders, NEW legs \in Routes(o), NEW i \in DOMAIN legs
               PROVE  IF i = Len(legs)
                      THEN legs[i].min = (IF o.fixed THEN fixed_output
                              ELSE IF o.min = "caller" THEN caller_min
                              ELSE slipped(QuoteForLeg(legs[i])))
                      ELSE \/ legs[i].min = QuoteForLeg(legs[i])
                           \/ /\ legs[i].min = still_taken(market.pool)
                              /\ legs[i].amount = <<"input_for", legs[i].pool, legs[i].min>>
    BY Zenon DEF QuotesMatchLegs
  <2>1. CASE \E l : legs = <<l>> /\ OneLeg(market, o, l)
    <3>1. PICK l : legs = <<l>> /\ OneLeg(market, o, l)
      BY <2>1
    <3>2. PICK input : LegThrough(l, market.pool, input) /\ LastMin(o, market.pool, input, l)
      BY <3>1, Zenon DEF OneLeg
    <3>3. legs[i] = l /\ i = Len(legs)
      BY <3>1
    <3>4. quote_of(market.pool, input, l.amount) = QuoteForLeg(l)
      BY <3>2, QuoteTrue, Routed
    <3> HIDE DEF QuoteForLeg
    <3> QED
      BY <3>2, <3>3, <3>4 DEF LastMin
  <2>2. CASE \E l1, l2 : legs = <<l1, l2>> /\ TwoLegs(market, o, l1, l2)
    <3>1. PICK l1, l2 : legs = <<l1, l2>> /\ TwoLegs(market, o, l1, l2)
      BY <2>2
    <3>2. PICK b, p1, p2, i1, i2 :
            /\ b \in market.bridge
            /\ <<p1, p2>> = IF o.side = "buy" THEN <<b, market.pool>> ELSE <<market.pool, b>>
            /\ LegThrough(l1, p1, i1) /\ LegThrough(l2, p2, i2)
            /\ FirstMin(market, p1, i1, l1) /\ LastMin(o, p2, i2, l2)
      BY <3>1, Zenon DEF TwoLegs
    <3>3. p1 \in {market.pool} \cup market.bridge /\ p2 \in {market.pool} \cup market.bridge
      BY <3>2
    <3>4. /\ quote_of(p1, i1, l1.amount) = QuoteForLeg(l1)
          /\ quote_of(p2, i2, l2.amount) = QuoteForLeg(l2)
      BY <3>2, <3>3, QuoteTrue, Routed
    <3>5. Len(legs) = 2 /\ legs[1] = l1 /\ legs[2] = l2 /\ i \in {1, 2}
      BY <3>1
    <3>6. CASE i = 1
      BY <3>2, <3>4, <3>5, <3>6 DEF FirstMin
    <3>7. CASE i = 2
      BY <3>2, <3>4, <3>5, <3>7 DEF LastMin
    <3> QED
      BY <3>5, <3>6, <3>7
  <2> QED
    BY <2>1, <2>2, Routed
<1> QED
  BY <1>1, FeedInvariant, PTL

(* The legs connect, from what the caller pays to what the caller wants     *)
(* (buy_bridge, sell_bridge, one_leg).                                      *)
LEMMA Connected == FeedInv => LegsConnect
<1> SUFFICES ASSUME FeedInv, NEW o \in Orders, NEW legs \in Routes(o)
             PROVE  /\ \A i \in 1 .. Len(legs) - 1 :
                          legs[i].to = legs[i + 1].from /\ legs[i].min = legs[i + 1].amount
                    /\ <<legs[1].from, legs[Len(legs)].to>>
                          = IF o.side = "buy" THEN <<Purse(market, o), Coin(market)>>
                            ELSE <<Coin(market), Purse(market, o)>>
  BY Zenon DEF LegsConnect, Purse, Coin
<1>1. CASE \E l : legs = <<l>> /\ OneLeg(market, o, l)
  <2>1. PICK l : legs = <<l>> /\ OneLeg(market, o, l)
    BY <1>1
  <2>2. <<l.from, l.to>> = IF o.side = "buy" THEN <<Purse(market, o), Coin(market)>>
                           ELSE <<Coin(market), Purse(market, o)>>
    BY <2>1, Zenon DEF OneLeg
  <2>3. Len(legs) = 1 /\ legs[1] = l
    BY <2>1
  <2> QED
    BY <2>2, <2>3
<1>2. CASE /\ needs_bridge(market, o)
           /\ \E l1, l2 : legs = <<l1, l2>> /\ TwoLegs(market, o, l1, l2)
  <2>1. PICK l1, l2 : legs = <<l1, l2>> /\ TwoLegs(market, o, l1, l2)
    BY <1>2
  <2>2. /\ l1.to = Between(market) /\ l2.from = Between(market) /\ l1.min = l2.amount
        /\ <<l1.from, l2.to>> = IF o.side = "buy" THEN <<WSOL_ATA, Coin(market)>>
                                ELSE <<Coin(market), WSOL_ATA>>
    BY <2>1, Zenon DEF TwoLegs
  <2>3. Purse(market, o) = WSOL_ATA
    BY <1>2 DEF needs_bridge, needs_sol_bridge, is_native_sol_quote, Purse, Oriented
  <2>4. Len(legs) = 2 /\ legs[1] = l1 /\ legs[2] = l2
    BY <2>1
  <2> QED
    BY <2>2, <2>3, <2>4
<1> QED
  BY <1>1, <1>2, Routed

(* The legs of a route lie end to end between the coin and the asset that   *)
(* pays, and a second leg spends what the first must deliver (build_buy_legs,*)
(* build_sell_legs).                                                        *)
THEOREM RoutesConnect == Spec => []LegsConnect
BY Connected, FeedInvariant, PTL

(* A trade for a mint trades that mint: validate_requested_mint.            *)
THEOREM NoOtherMint == Spec => []RequestedMintTraded
<1>1. FeedInv => RequestedMintTraded
  <2> SUFFICES ASSUME FeedInv, asked # UNSET, NEW o \in Orders, NEW legs \in Routes(o)
               PROVE  asked = IF o.side = "buy" THEN legs[Len(legs)].to[1]
                              ELSE legs[1].from[1]
    BY Zenon DEF RequestedMintTraded
  <2>1. meme_mint(market) = asked
    BY Routed, Zenon DEF validate_requested_mint
  <2>2. <<legs[1].from, legs[Len(legs)].to>>
          = IF o.side = "buy" THEN <<Purse(market, o), Coin(market)>>
            ELSE <<Coin(market), Purse(market, o)>>
    BY Connected, Zenon DEF LegsConnect, Purse, Coin
  <2>3. Coin(market)[1] = asked
    BY <2>1 DEF Coin
  <2> QED
    BY <2>2, <2>3
<1> QED
  BY <1>1, FeedInvariant, PTL

(* The accounts prepared for a trade are those its legs move tokens in      *)
(* (TouchedAtas, buy_with_opts, sell_with_opts).                            *)
LEMMA OneLegPrepared ==
    ASSUME NEW m, Sound(m), NEW o, accepted(m, o), ~needs_bridge(m, o),
           o.side \in {"buy", "sell"}, NEW l, OneLeg(m, o, l)
    PROVE  touched(m, o) = {l.from, l.to} \ {LAMPORTS}
<1> DEFINE p == m.pool
<1>1. {l.from, l.to} = {Purse(m, o), Coin(m)}
  <2>1. <<l.from, l.to>> = IF o.side = "buy" THEN <<Purse(m, o), Coin(m)>>
                           ELSE <<Coin(m), Purse(m, o)>>
    BY Zenon DEF OneLeg
  <2> QED
    BY <2>1
<1>2. Coin(m) # LAMPORTS
  BY AtaIsNoWallet DEF Coin
<1> DEFINE money == IF o.asset = "sol" /\ is_native_sol_quote(p) THEN {}
                    ELSE IF o.asset \in Cash THEN {WSOL_ATA}
                    ELSE touch_quote(o.asset, quote_token_program(m))
<1>3. touched(m, o) = {Coin(m)} \cup money
  BY DEF touched, Coin
<1>4. money = {Purse(m, o)} \ {LAMPORTS}
  <2>1. CASE o.asset = "sol" /\ is_native_sol_quote(p)
    BY <2>1 DEF Purse
  <2>2. CASE ~(o.asset = "sol" /\ is_native_sol_quote(p)) /\ o.asset \in Cash
    <3>1. WSOL_ATA # LAMPORTS
      BY AtaIsNoWallet DEF WSOL_ATA
    <3> QED
      BY <2>2, <3>1, Zenon DEF Purse
  <2>3. CASE ~(o.asset = "sol" /\ is_native_sol_quote(p)) /\ o.asset \notin Cash
    <3>1. /\ Purse(m, o) = <<o.asset, quote_token_program(m)>>
          /\ money = touch_quote(o.asset, quote_token_program(m))
      BY <2>3, Zenon DEF Purse
    <3>2. Purse(m, o) # LAMPORTS
      BY <3>1, AtaIsNoWallet
    <3>3. CASE o.asset # WSOL_MINT
      BY <3>1, <3>2, <3>3 DEF touch_quote
    <3>4. CASE o.asset = WSOL_MINT
      <4>1. PICK input : leg_ok(p, input)
        BY Zenon DEF OneLeg, LegThrough
      <4>2. Purse(m, o) = ata(p, quote_mint(m)) /\ quote_mint(m) \in mints(p)
        BY <2>3, <4>1, PurseIs
      <4>3. quote_mint(m) = WSOL_MINT
        BY <2>3, <3>4, PaidIsQuote DEF paid_mint
      <4>4. p.dex # "pumpfun"
        <5>1. p.dex = "pumpfun" => quote_mint(m) = p.b
          BY DEF quote_mint, pool_quote_mint, Oriented
        <5>2. ~is_native_sol_quote(p)
          BY <2>3, Zenon DEF accepted, validate_asset, Cash
        <5> QED
          BY <4>3, <5>1, <5>2 DEF is_native_sol_quote
      <4>5. require_mint_programs(p)
        <5>1. p.dex = "launchlab" => require_mint_programs(p)
          BY DEF accepted, validate_inner_market_programs
        <5> QED
          BY <4>1, <4>4, <5>1, Zenon DEF leg_ok
      <4>6. Purse(m, o) = WSOL_ATA
        BY <4>2, <4>3, <4>5, WsolAta
      <4> QED
        BY <3>1, <3>2, <3>4, <4>6 DEF touch_quote
    <3> QED
      BY <3>3, <3>4
  <2> QED
    BY <2>1, <2>2, <2>3
<1> HIDE DEF money
<1> QED
  BY <1>1, <1>2, <1>3, <1>4

(* A bridged trade touches its two ends and the account between them.       *)
LEMMA TwoLegsPrepared ==
    ASSUME NEW m, NEW o, needs_bridge(m, o), NEW l1, NEW l2, TwoLegs(m, o, l1, l2)
    PROVE  touched(m, o) = ({l1.from, l1.to} \cup {l2.from, l2.to}) \ {LAMPORTS}
<1>1. /\ l1.to = Between(m) /\ l2.from = Between(m) /\ quote_mint(m) # WSOL_MINT
      /\ <<l1.from, l2.to>> = IF o.side = "buy" THEN <<WSOL_ATA, Coin(m)>>
                              ELSE <<Coin(m), WSOL_ATA>>
  BY Zenon DEF TwoLegs
<1>2. {l1.from, l2.to} = {WSOL_ATA, Coin(m)}
  BY <1>1
<1>3. Coin(m) # LAMPORTS /\ WSOL_ATA # LAMPORTS /\ Between(m) # LAMPORTS
  BY AtaIsNoWallet DEF Coin, WSOL_ATA, Between
<1>4. o.asset \in Cash /\ ~is_native_sol_quote(m.pool)
  BY DEF needs_bridge, needs_sol_bridge, is_native_sol_quote, Oriented
<1>5. touched(m, o) = {Coin(m)} \cup {WSOL_ATA} \cup {Between(m)}
  BY <1>1, <1>4, Zenon DEF touched, touch_quote, Coin, Between
<1> QED
  BY <1>1, <1>2, <1>3, <1>5

(* The accounts prepared for an order are those its legs use, no more and no*)
(* fewer (TouchedAtas against build_buy_legs and build_sell_legs).          *)
THEOREM NoAccountMissed == Spec => []AccountsPrepared
<1>1. FeedInv => AccountsPrepared
  <2> SUFFICES ASSUME FeedInv, NEW o \in Orders, NEW legs \in Routes(o)
               PROVE  touched(market, o)
                        = (UNION {{legs[i].from, legs[i].to} : i \in DOMAIN legs}) \ {LAMPORTS}
    BY Zenon DEF AccountsPrepared
  <2> DEFINE all == UNION {{legs[i].from, legs[i].to} : i \in DOMAIN legs}
  <2>1. Sound(market) /\ accepted(market, o) /\ o.side \in {"buy", "sell"}
    BY Routed, Watched
  <2>2. CASE ~needs_bridge(market, o) /\ \E l : legs = <<l>> /\ OneLeg(market, o, l)
    <3>1. PICK l : legs = <<l>> /\ OneLeg(market, o, l)
      BY <2>2
    <3>2. DOMAIN legs = {1} /\ legs[1] = l
      BY <3>1
    <3>3. all = {l.from, l.to}
      BY <3>2
    <3>4. touched(market, o) = {l.from, l.to} \ {LAMPORTS}
      BY <2>1, <2>2, <3>1, OneLegPrepared
    <3> QED
      BY <3>3, <3>4
  <2>3. CASE /\ needs_bridge(market, o)
             /\ \E l1, l2 : legs = <<l1, l2>> /\ TwoLegs(market, o, l1, l2)
    <3>1. PICK l1, l2 : legs = <<l1, l2>> /\ TwoLegs(market, o, l1, l2)
      BY <2>3
    <3>2. DOMAIN legs = {1, 2} /\ legs[1] = l1 /\ legs[2] = l2
      BY <3>1
    <3>3. all = {l1.from, l1.to} \cup {l2.from, l2.to}
      BY <3>2
    <3>4. touched(market, o) = ({l1.from, l1.to} \cup {l2.from, l2.to}) \ {LAMPORTS}
      BY <2>3, <3>1, TwoLegsPrepared
    <3> QED
      BY <3>3, <3>4
  <2> QED
    BY <2>2, <2>3, Routed
<1> QED
  BY <1>1, FeedInvariant, PTL

-----------------------------------------------------------------------------
(* The pools a trade goes through.                                          *)

(* What the chain says of the pool of a snapshot.                           *)
LEMMA ChainSays ==
    ASSUME target \in Targets, NEW id, OneOfTwo(id)
    PROVE  /\ OnChain(id).dex = Pool.dex
           /\ OnChain(id).a = Pool.a /\ OnChain(id).pa = Pool.pa
           /\ OnChain(id).b = Pool.b /\ OnChain(id).pb = Pool.pb
<1>1. OnChain(id) \in {Pool, Wild[Pool]}
  BY OnChainIs, Zenon DEF OneOfTwo
<1> QED
  BY <1>1, TwoPools

(* A curve that is not at the address of its mints is nowhere at a derived  *)
(* address; one that is, is there by its own mint and not by the caller's.  *)
LEMMA CurveIsDerived ==
    ASSUME target \in Targets, NEW p, NEW mint, OneOfTwo(p.id), Sides(p, mint),
           p.dex = Pool.dex, p.dex \in {"launchlab", "pumpfun"},
           p.id = IF p.dex = "launchlab" THEN launchlab_pool_pda(p.a, p.b)
                  ELSE pumpfun_bonding_curve_pda(p.a)
    PROVE  p.a = Pool.a /\ p.b = Pool.b
<1>1. /\ Pool.dex = "launchlab" => Pool.id = launchlab_pool_pda(Pool.a, Pool.b)
      /\ Pool.dex = "pumpfun" => Pool.id = pumpfun_bonding_curve_pda(Pool.a)
      /\ Wild[Pool].id[1] # "pda"
  BY PoolFeedConstants, Zenon DEF Pool
<1>2. p.id[1] = "pda"
  BY DEF launchlab_pool_pda, pumpfun_bonding_curve_pda
<1>3. p.id = Pool.id
  BY <1>1, <1>2, Zenon DEF OneOfTwo
<1>4. p.b = Pool.b
  BY Zenon DEF Sides
<1>5. CASE p.dex = "launchlab"
  <2>1. launchlab_pool_pda(p.a, p.b) = launchlab_pool_pda(Pool.a, Pool.b)
    BY <1>1, <1>3, <1>5
  <2> QED
    BY <1>4, <2>1 DEF launchlab_pool_pda
<1>6. CASE p.dex = "pumpfun"
  <2>1. pumpfun_bonding_curve_pda(p.a) = pumpfun_bonding_curve_pda(Pool.a)
    BY <1>1, <1>3, <1>6
  <2> QED
    BY <1>4, <2>1 DEF pumpfun_bonding_curve_pda
<1> QED
  BY <1>5, <1>6

(* assert_routed_market_ok: every leg goes through a pool the policy trusts,*)
(* one at its true address, or one the guard cannot tell, a CPMM pool held  *)
(* without its configuration among them (assert_cpmm_ok).                   *)
THEOREM NoWildPool == Spec => []GuardedPools
<1>1. FeedInv => GuardedPools
  <2> SUFFICES ASSUME FeedInv, policy.enabled, NEW o \in Orders, NEW legs \in Routes(o),
                      NEW i \in DOMAIN legs, NEW id, id = legs[i].pool,
                      NEW t, t = OnChain(id)
               PROVE  \/ id \in policy.trusted
                      \/ t.dex \in Oriented /\ Derived(t)
                      \/ ~policy.listed_only /\ (Derived(t) \/ Unseen(t))
    BY Zenon DEF GuardedPools
  <2>1. PICK p, input : /\ p \in {market.pool} \cup market.bridge
                         /\ LegThrough(legs[i], p, input)
    BY EachLeg
  <2>2. HasMarket /\ assert_market_ok(p, policy) /\ id = p.id
    BY <2>1, EachLeg, Zenon DEF assert_routed_market_ok, LegThrough
  <2>3. /\ t.id = id /\ p.dex = t.dex /\ p.dex \in Dexes
        /\ p.dex = "cpmm" => p.config \in {UNSET, t.config}
        /\ p.dex \in {"pumpswap", "cpmm"} => p.a = t.a /\ p.b = t.b
    <3>1. CASE p = market.pool
      <4>1. /\ Snapped(p) /\ Sides(p, asked) /\ target \in Targets /\ p.dex \in Dexes
        BY <2>2, <3>1, Watched DEF Sound
      <4>2. t \in {Pool, Wild[Pool]} /\ t.id = id /\ t.dex = Pool.dex /\ t.a = Pool.a /\ t.b = Pool.b
        BY <2>2, <4>1, OnChainIs, ChainSays, Zenon DEF Snapped, OneOfTwo
      <4>3. p.config \in {UNSET, t.config}
        BY <2>2, <4>1, OnChainIs, Zenon DEF Sides, TheirConfig
      <4>4. p.dex \in {"pumpswap", "cpmm"} => p.a = Pool.a /\ p.b = Pool.b
        BY <4>1 DEF Sides
      <4> QED
        BY <4>1, <4>2, <4>3, <4>4, Zenon DEF Snapped
    <3>2. CASE p \in market.bridge
      <4>1. p \in Bridges /\ target \in Targets
        BY <2>2, <3>2, Watched
      <4> QED
        BY <2>2, <4>1, BridgeIs DEF Dexes
    <3> QED
      BY <2>1, <3>1, <3>2
  <2>4. \/ p.id \in policy.trusted
        \/ /\ p.dex = "launchlab" /\ assert_launchlab_ok(p, policy)
        \/ /\ p.dex = "pumpfun" /\ assert_pumpfun_ok(p)
        \/ /\ p.dex = "pumpswap" /\ assert_pumpswap_ok(p, policy)
        \/ /\ p.dex = "cpmm" /\ assert_cpmm_ok(p, policy)
        \/ /\ p.dex \notin Oriented \cup {"cpmm"} /\ require_trusted_or(p, policy)
    BY <2>2 DEF assert_market_ok, Oriented
  <2>5. CASE p.dex \in {"launchlab", "pumpfun"} /\ p.id \notin policy.trusted
    <3>1. p.id = IF p.dex = "launchlab" THEN launchlab_pool_pda(p.a, p.b)
                 ELSE pumpfun_bonding_curve_pda(p.a)
      BY <2>4, <2>5 DEF assert_launchlab_ok, assert_pumpfun_ok, Oriented
    <3>2. p = market.pool
      <4>1. \A b \in market.bridge : b.dex \in {"cpmm", "amm_v4"}
        BY <2>2, Watched DEF Sound
      <4> QED
        BY <2>1, <2>5, <4>1
    <3>3. /\ Snapped(p) /\ Sides(p, asked) /\ target \in Targets
      BY <2>2, <3>2, Watched
    <3>4. p.a = Pool.a /\ p.b = Pool.b
      BY <2>5, <3>1, <3>3, CurveIsDerived DEF Snapped
    <3>5. t.a = Pool.a /\ t.b = Pool.b
      BY <2>2, <3>3, ChainSays DEF Snapped
    <3> QED
      BY <2>2, <2>3, <2>5, <3>1, <3>4, <3>5 DEF Derived, Oriented
  <2>6. CASE p.dex = "pumpswap" /\ assert_pumpswap_ok(p, policy)
    BY <2>2, <2>3, <2>6
       DEF assert_pumpswap_ok, require_trusted_or, Derived, Unseen, Oriented
  <2>7. CASE p.dex = "cpmm" /\ assert_cpmm_ok(p, policy)
    <3>1. ~policy.listed_only \/ p.id \in policy.trusted
      BY <2>7 DEF assert_cpmm_ok, require_trusted_or
    <3>2. CASE p.config = UNSET
      BY <2>1, <2>2, <2>3, <2>7, <3>1, <3>2, Zenon DEF Unseen
    <3>3. CASE p.config # UNSET
      BY <2>2, <2>3, <2>7, <3>1, <3>3 DEF assert_cpmm_ok, Derived
    <3> QED
      BY <3>2, <3>3
  <2>8. CASE p.dex \notin Oriented \cup {"cpmm"} /\ require_trusted_or(p, policy)
    BY <2>2, <2>3, <2>8 DEF require_trusted_or, Unseen, Dexes
  <2> QED
    BY <2>2, <2>4, <2>5, <2>6, <2>7, <2>8
<1> QED
  BY <1>1, FeedInvariant, PTL

(* What may have been said of a side, once it is said, is what the chain    *)
(* has; the mint the caller named is in the address of a curve.             *)
LEMMA SidesTrue ==
    ASSUME FeedInv, HasMarket, NEW input, leg_ok(market.pool, input),
           assert_market_ok(market.pool, policy),
           asked = UNSET \/ (policy.enabled /\ market.pool.id \notin policy.trusted)
    PROVE  /\ market.pool.a = Pool.a /\ market.pool.pa = Pool.pa
           /\ market.pool.b = Pool.b /\ market.pool.pb = Pool.pb
<1> SUFFICES ASSUME NEW p, p = market.pool
             PROVE  p.a = Pool.a /\ p.pa = Pool.pa /\ p.b = Pool.b /\ p.pb = Pool.pb
  OBVIOUS
<1>1. target \in Targets /\ Snapped(p) /\ Sides(p, asked)
  BY Watched
<1>2. UNSET \notin {"spl", "t22"}
  BY PoolFeedConstants
<1>3. p.pa = Pool.pa /\ p.pb = Pool.pb
  <2>1. CASE p.dex \notin {"clmm", "whirlpool"}
    BY <1>1, <2>1, Zenon DEF Sides
  <2>2. CASE p.dex \in {"clmm", "whirlpool"}
    <3>1. require_mint_programs(p)
      BY <2>2 DEF leg_ok
    <3>2. p.pa \in {"spl", "t22"} /\ p.pb \in {"spl", "t22"}
      BY <3>1, SMT DEF require_mint_programs
    <3> QED
      BY <1>1, <1>2, <3>2 DEF Sides
  <2> QED
    BY <2>1, <2>2
<1>4. p.dex = "amm_v4" => p.a # UNSET /\ p.b # UNSET
  BY DEF leg_ok, mints
<1>5. p.b = Pool.b
  BY <1>1, <1>4, Zenon DEF Sides
<1>6. p.a = Pool.a
  <2> SUFFICES ASSUME p.dex \in {"launchlab", "pumpfun"}, asked = p.a,
                      asked # UNSET
               PROVE  p.a = Pool.a
    BY <1>1, <1>4, Zenon DEF Sides
  <2>1. p.id = IF p.dex = "launchlab" THEN launchlab_pool_pda(p.a, p.b)
               ELSE pumpfun_bonding_curve_pda(p.a)
    BY DEF assert_market_ok, assert_launchlab_ok, assert_pumpfun_ok
  <2> QED
    BY <1>1, <2>1, CurveIsDerived DEF Snapped
<1> QED
  BY <1>3, <1>5, <1>6

(* An account of a leg is one of the pool's two sides.                      *)
LEMMA TwoAtas ==
    ASSUME NEW p, NEW input \in mints(p)
    PROVE  /\ ata(p, input) \in {<<p.a, p.pa>>, <<p.b, p.pb>>}
           /\ ata(p, other_mint(p, input)) \in {<<p.a, p.pa>>, <<p.b, p.pb>>}
BY DEF mints, ata, token_program_for, other_mint

(* However events were merged, a leg names the mints and token programs its *)
(* pool has on chain and liquidity arrays that belong together              *)
(* (merge_whirlpool_swap, merge_clmm_swap, require_mint_programs).          *)
THEOREM LegsNameTheirPool == Spec => []LegsTrue
<1>1. FeedInv => LegsTrue
  <2> SUFFICES ASSUME FeedInv, NEW o \in Orders, NEW legs \in Routes(o),
                      NEW i \in DOMAIN legs, NEW l, l = legs[i],
                      NEW t, t = OnChain(l.pool)
               PROVE  /\ asked = UNSET
                           \/ (policy.enabled /\ market.pool.id \notin policy.trusted)
                           => {l.from, l.to} \ {LAMPORTS}
                                \subseteq {<<t.a, t.pa>>, <<t.b, t.pb>>}
                      /\ l.pool = market.pool.id /\ market.pool.dex \in Concentrated
                           => Whole(market.pool.arrays, market.pool.id)
    BY Zenon DEF LegsTrue
  <2>1. PICK p, input : /\ p \in {market.pool} \cup market.bridge
                         /\ LegThrough(l, p, input)
    BY EachLeg
  <2>2. /\ HasMarket /\ assert_market_ok(p, policy)
        /\ l.pool = p.id /\ leg_ok(p, input)
        /\ l.from \in {ata(p, input), LAMPORTS}
        /\ l.to \in {ata(p, other_mint(p, input)), LAMPORTS}
    BY <2>1, EachLeg, Zenon DEF assert_routed_market_ok, LegThrough
  <2>3. {l.from, l.to} \ {LAMPORTS} \subseteq {<<p.a, p.pa>>, <<p.b, p.pb>>}
    <3>1. input \in mints(p)
      BY <2>2, Zenon DEF leg_ok
    <3>2. /\ ata(p, input) \in {<<p.a, p.pa>>, <<p.b, p.pb>>}
          /\ ata(p, other_mint(p, input)) \in {<<p.a, p.pa>>, <<p.b, p.pb>>}
      BY <3>1, TwoAtas
    <3> DEFINE from == ata(p, input)
               to == ata(p, other_mint(p, input))
    <3> HIDE DEF from, to
    <3> QED
      BY <2>2, <3>2 DEF from, to
  <2>4. CASE p = market.pool
    <3>1. target \in Targets /\ Snapped(p) /\ OneOfTwo(p.id)
      BY <2>2, <2>4, Watched, Zenon DEF Snapped
    <3>2. ASSUME asked = UNSET \/ (policy.enabled /\ market.pool.id \notin policy.trusted)
          PROVE  {l.from, l.to} \ {LAMPORTS} \subseteq {<<t.a, t.pa>>, <<t.b, t.pb>>}
      <4>1. p.a = Pool.a /\ p.pa = Pool.pa /\ p.b = Pool.b /\ p.pb = Pool.pb
        BY <2>2, <2>4, <3>2, SidesTrue
      <4>2. t.a = Pool.a /\ t.pa = Pool.pa /\ t.b = Pool.b /\ t.pb = Pool.pb
        BY <2>2, <3>1, ChainSays
      <4> QED
        BY <2>3, <4>1, <4>2, Zenon
    <3>3. ASSUME p.dex \in Concentrated PROVE Whole(p.arrays, p.id)
      <4>1. liquidity_arrays_ok(p)
        BY <2>2, <3>3, Zenon DEF leg_ok
      <4>2. p.arrays # NONE
        BY <4>1 DEF liquidity_arrays_ok, NONE
      <4> QED
        BY <3>1, <4>2, Zenon DEF Snapped, ArraysOK
    <3> QED
      BY <2>4, <3>2, <3>3, Zenon
  <2>5. CASE p \in market.bridge
    <3>1. target \in Targets /\ p \in Bridges /\ OneOfTwo(market.pool.id)
      BY <2>2, <2>5, Watched, Zenon DEF Snapped
    <3>2. /\ t.a = p.a /\ t.pa = p.pa /\ t.b = p.b /\ t.pb = p.pb
          /\ l.pool # market.pool.id
      BY <2>2, <3>1, BridgeIs DEF OneOfTwo
    <3> QED
      BY <2>3, <3>2, Zenon
  <2> QED
    BY <2>1, <2>4, <2>5
<1> QED
  BY <1>1, FeedInvariant, PTL
=============================================================================
