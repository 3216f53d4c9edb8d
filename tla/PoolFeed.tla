------------------------------ MODULE PoolFeed ------------------------------
(***************************************************************************)
(* A bot keeps one market snapshot and trades on it without asking the      *)
(* chain.  The snapshot comes from parser events (parser.rs) or from        *)
(* parameters (adapter/from_params.rs); later swap events are merged into   *)
(* it, and the caller adds quotes and token programs.  Events of this pool  *)
(* and of others are delivered late, twice, out of order or not at all.     *)
(*                                                                          *)
(* Building a trade changes nothing, so the properties are about every      *)
(* order the client could be given in a state.                              *)
(***************************************************************************)
EXTENDS TradePaths

CONSTANTS
    Targets,    \* the pools as they are on chain, with the bridge to them
    Wild,       \* a pool of the same mints nobody vouches for
    Policies,   \* the guard policies a bot may run with
    MaxRange,   \* bound: how often the price leaves the arrays in use
    MaxApplied  \* bound: the events applied to the snapshot

VARIABLES
    target,     \* the true pool and bridge
    range,      \* which liquidity arrays its swaps use now
    market,     \* the snapshot and its bridge, or NoMarket
    asked,      \* the mint the caller asked for, UNSET for event markets
    applied,    \* how many of the pool's own events the snapshot has seen
    policy      \* the guard policy, fixed

vars == <<target, range, market, asked, applied, policy>>

NoMarket == [pool |-> NONE]

Pool == target.pool
AllMints == {WSOL_MINT} \cup mints(Pool) \cup UNION {mints(b) : b \in target.bridge}

other_size == <<"other">>

(* A pool as it is on chain: its two sides, and what its kind of pool has;  *)
(* a CPMM pool has the configuration its address is derived from.           *)
OnChainPool(p) ==
    [ dex |-> p.dex, id |-> p.id, a |-> p.a, b |-> p.b, pa |-> p.pa, pb |-> p.pb,
      config |-> p.config, use_v2 |-> p.use_v2, clamps |-> p.clamps, stonk |-> p.stonk ]

(* A snapshot of it, with what was observed about it and no quote for it.   *)
Observed(p, known, arrays, quoted_in, version) ==
    [ dex |-> p.dex, id |-> p.id, a |-> p.a, b |-> p.b, pa |-> p.pa, pb |-> p.pb,
      config |-> p.config, use_v2 |-> p.use_v2, clamps |-> p.clamps, stonk |-> p.stonk,
      known |-> known, arrays |-> arrays, quoted_in |-> quoted_in,
      quoted_mint |-> UNSET, expected |-> NONE, version |-> version ]

Snapshot(p, known, arrays, quoted_in) ==
    Observed(p, known, arrays, quoted_in, applied + 1)

(* What a caller who writes a pool down itself may know of it: the          *)
(* configuration of a CPMM pool can be left out.                            *)
Named(p) == {p, [p EXCEPT !.config = UNSET]}

(* Bridges are cached by the caller, with everything their quote needs.     *)
BridgeSnapshot(p) == Observed(p, mints(p), NONE, NONE, 0)

Bridges == {BridgeSnapshot(p) : p \in UNION {Named(b) : b \in target.bridge}}

(* The bridge a market is given, if there is one. *)
Carried == IF target.bridge = {} THEN {{}} ELSE {{b} : b \in Bridges}

Init ==
    /\ target \in Targets
    /\ policy \in Policies
    /\ range = 0
    /\ market = NoMarket
    /\ asked = UNSET
    /\ applied = 0

-----------------------------------------------------------------------------
(* Events.                                                                  *)

Triplet(id, r) == <<<<id, r>>, <<id, r>>, <<id, r>>>>

Partial(id, r) == <<<<id, r>>, <<id, r>>, UNSET>>

(* What a swap event may say: a size or none, a full set of arrays of now   *)
(* or before, part of one or none, and the accounts of both sides, of one   *)
(* or of none.                                                              *)
SwapEvent(p, amount, arrays, sides) ==
    [pool |-> p.id, amount |-> amount, arrays |-> arrays, sides |-> sides, of |-> p]

SwapEvents(p) ==
    { SwapEvent(p, amount, arrays, sides) :
        amount \in {NONE, spend, other_size},
        arrays \in {NONE} \cup {Triplet(p.id, r) : r \in 0 .. range}
                    \cup (IF p.dex = "whirlpool" THEN {Partial(p.id, range)} ELSE {}),
        sides \in SUBSET {"a", "b"} }

Events == SwapEvents(Pool) \cup SwapEvents(Wild[Pool])

Filled(e) == e.sides = {"a", "b"}

WithPrograms(p, pa, pb) == [p EXCEPT !.pa = pa, !.pb = pb]

(* known_mint_token_program *)
known_mint_token_program(mint) ==
    IF mint \in {WSOL_MINT, USDC_MINT} THEN "spl" ELSE UNSET

(* whirlpool_from_swap needs all three arrays, dlmm_from_swap some; their   *)
(* programs come with the event.                                            *)
whirlpool_from_swap(e) ==
    IF Len(e.arrays) = 3 /\ UNSET \notin {e.arrays[i] : i \in DOMAIN e.arrays}
    THEN {Snapshot(e.of, {}, e.arrays, e.amount)} ELSE {}

dlmm_from_swap(e) ==
    IF e.arrays # NONE THEN {Snapshot(e.of, {}, e.arrays, e.amount)} ELSE {}

(* clmm_from_swap: the event names no token program; a transfer fee shows   *)
(* a Token-2022 mint.                                                       *)
clmm_from_swap(e) ==
    LET shown(mint, program) ==
            {known_mint_token_program(mint)}
              \cup (IF program = "t22" THEN {"t22"} ELSE {})
    IN  { Snapshot(WithPrograms(e.of, pa, pb), {}, e.arrays, e.amount) :
            pa \in shown(e.of.a, e.of.pa), pb \in shown(e.of.b, e.of.pb) }

damm_v2_from_swap(e) == {Snapshot(e.of, {}, NONE, e.amount)}

(* amm_v4_from_swap: the instruction has no mints, nor reserves. *)
amm_v4_from_swap(e) ==
    {Snapshot([e.of EXCEPT !.a = UNSET, !.b = UNSET], {}, NONE, NONE)}

(* launchlab_from_trade, cpmm_from_pool_state: no fee rates, no quote.      *)
launchlab_from_trade(e) == {Snapshot(e.of, {}, NONE, NONE)}
cpmm_from_pool_state(e) == {Snapshot(e.of, {}, NONE, NONE)}

(* try_pumpfun_from_trade: the event of a trade carries the rates charged,  *)
(* except that of some instructions.                                        *)
try_pumpfun_from_trade(e) ==
    {Snapshot(e.of, known, NONE, NONE) : known \in {{}, mints(e.of)}}

(* pumpswap_from_buy, pumpswap_from_sell: the fees the pool keeps reserved  *)
(* are not in the event.                                                    *)
pumpswap_from_trade(e) == {Snapshot(e.of, {e.of.b}, NONE, NONE)}

market_from_dex_event(e) ==
    CASE e.of.dex = "whirlpool" -> whirlpool_from_swap(e)
      [] e.of.dex = "dlmm" -> dlmm_from_swap(e)
      [] e.of.dex = "clmm" -> clmm_from_swap(e)
      [] e.of.dex = "damm_v2" -> damm_v2_from_swap(e)
      [] e.of.dex = "amm_v4" -> amm_v4_from_swap(e)
      [] e.of.dex = "launchlab" -> launchlab_from_trade(e)
      [] e.of.dex = "cpmm" -> cpmm_from_pool_state(e)
      [] e.of.dex = "pumpfun" -> try_pumpfun_from_trade(e)
      [] e.of.dex = "pumpswap" -> pumpswap_from_trade(e)

(* whirlpool_from_account, clmm_from_pool_state: no arrays yet, and only    *)
(* the token programs of mints everybody knows.                             *)
from_account(p) ==
    Snapshot(WithPrograms(p, known_mint_token_program(p.a),
                             known_mint_token_program(p.b)), {}, NONE, NONE)

Without(p) == [p EXCEPT !.expected = NONE, !.quoted_mint = UNSET]

(* Slips of a merge: the pool is not compared, arrays are taken one by one, *)
(* and the cached quote survives an event that says no size.                *)
merge_whirlpool_any_pool(p, e) ==
    [Without(p) EXCEPT !.arrays = IF UNSET \in {e.arrays[i] : i \in DOMAIN e.arrays}
                                     \/ e.arrays = NONE THEN @ ELSE e.arrays,
                       !.version = @ + 1]

merge_whirlpool_torn(p, e) ==
    IF e.pool # p.id THEN p
    ELSE [Without(p) EXCEPT
            !.arrays = IF e.arrays = NONE THEN @
                       ELSE [i \in DOMAIN e.arrays |->
                               IF e.arrays[i] = UNSET /\ i \in DOMAIN p.arrays
                               THEN p.arrays[i] ELSE e.arrays[i]],
            !.version = @ + 1]

merge_whirlpool_keeps_quote(p, e) ==
    IF e.pool # p.id THEN p
    ELSE [(IF e.amount = NONE THEN p ELSE Without(p)) EXCEPT !.version = @ + 1]

(* Only this pool's event counts; arrays change as a whole, a side is taken *)
(* over where the event has it, and the cached quote is gone in any case.   *)
merge_whirlpool_swap(p, e) ==
    IF e.pool # p.id THEN p
    ELSE [Without(p) EXCEPT
            !.arrays = IF Len(e.arrays) = 3
                            /\ UNSET \notin {e.arrays[i] : i \in DOMAIN e.arrays}
                       THEN e.arrays ELSE @,
            !.a = IF "a" \in e.sides THEN e.of.a ELSE @,
            !.pa = IF "a" \in e.sides THEN e.of.pa ELSE @,
            !.b = IF "b" \in e.sides THEN e.of.b ELSE @,
            !.pb = IF "b" \in e.sides THEN e.of.pb ELSE @,
            !.quoted_in = IF e.amount = NONE THEN @ ELSE e.amount,
            !.version = @ + 1]

(* CLMM swaps name their arrays as a list, and no mints. *)
merge_clmm_swap(p, e) ==
    IF e.pool # p.id THEN p
    ELSE [Without(p) EXCEPT
            !.arrays = IF e.arrays = NONE THEN @ ELSE e.arrays,
            !.quoted_in = IF e.amount = NONE THEN @ ELSE e.amount,
            !.version = @ + 1]

-----------------------------------------------------------------------------
(* Parameters: the caller names a mint and gives the pool's parameters.     *)

(* bonk_to_launchlab and pumpfun_from_params put the mint of the call in    *)
(* the pool; the rates of a Pump curve and the fees a PumpSwap pool keeps   *)
(* reserved are not in the parameters.                                      *)
pool_from_params(p, mint) ==
    CASE p.dex = "launchlab" ->
            Snapshot([p EXCEPT !.a = mint], mints(p) \cup {mint}, NONE, NONE)
      [] p.dex = "pumpfun" ->
            Snapshot([p EXCEPT !.a = mint, !.use_v2 = (p.b # WSOL_MINT)],
                     {}, NONE, NONE)
      [] p.dex = "pumpswap" -> Snapshot(p, {p.b}, NONE, NONE)
      [] p.dex \in {"cpmm", "amm_v4"} -> Snapshot(p, mints(p), NONE, NONE)
      [] p.dex = "damm_v2" -> Snapshot(p, {}, NONE, NONE)
      [] p.dex \in Concentrated -> Snapshot(p, {}, Triplet(p.id, range), NONE)

(* to_routed_market_for_user: only StonkFun's route through SOL, to a curve *)
(* or to the CPMM pool it graduates to, comes with a bridge.                *)
bridge_from_params == IF Pool.dex \in {"launchlab", "cpmm"} THEN Carried ELSE {{}}

-----------------------------------------------------------------------------
(* What happens.                                                            *)

HasMarket == market # NoMarket

Received(pool, bridge, mint) ==
    /\ applied < MaxApplied
    /\ market' = [pool |-> pool, bridge |-> bridge]
    /\ asked' = mint
    /\ applied' = applied + 1
    /\ UNCHANGED <<target, range, policy>>

(* A new snapshot of the event's pool; market_from_dex_event_checked drops  *)
(* one its guard refuses.  The accounts of the event have been filled in.   *)
FromEvent ==
    \E e \in Events :
        /\ Filled(e)
        /\ \E p \in market_from_dex_event(e), bridge \in Carried :
              Received(p, bridge, UNSET)

FromAccount ==
    /\ Pool.dex \in {"whirlpool", "clmm"}
    /\ \E bridge \in Carried : Received(from_account(Pool), bridge, UNSET)

(* TradingClient: the parameters may be those of the wild pool, and the     *)
(* mint of the call may not be the one of the pool.                         *)
FromParams ==
    \E p \in Named(Pool) \cup Named(Wild[Pool]), mint \in AllMints,
       bridge \in bridge_from_params :
        mint # WSOL_MINT /\ Received(pool_from_params(p, mint), bridge, mint)

Merge ==
    \E e \in Events :
        /\ HasMarket /\ market.pool.dex \in {"whirlpool", "clmm"}
        /\ applied < MaxApplied
        /\ market' = [market EXCEPT !.pool =
                        IF @.dex = "whirlpool" THEN merge_whirlpool_swap(@, e)
                        ELSE merge_clmm_swap(@, e)]
        /\ applied' = IF e.pool = market.pool.id THEN applied + 1 ELSE applied
        /\ UNCHANGED <<target, range, asked, policy>>

(* The pool a snapshot claims to be of, as it is on chain. *)
OnChain(id) ==
    CHOOSE p \in {Pool, Wild[Pool]} \cup target.bridge : p.id = id

(* clmm_apply_token_programs, and mints and fee rates read from accounts.   *)
Overlay ==
    /\ HasMarket /\ asked = UNSET
    /\ LET t == OnChain(market.pool.id)
       IN  market' = [market EXCEPT !.pool =
              [@ EXCEPT !.a = t.a, !.b = t.b, !.pa = t.pa, !.pb = t.pb,
                        !.known = mints(t)]]
    /\ UNCHANGED <<target, range, asked, applied, policy>>

(* The caller quotes a pool the client has no formula for, for a size of    *)
(* its own or what a bridge promises.                                       *)
Quote ==
    /\ HasMarket /\ market.pool.dex \notin Quotable
    /\ \E input \in mints(market.pool),
          amount \in {spend, other_size}
                       \cup {quote_of(b, WSOL_MINT, spend) : b \in market.bridge} :
          market' = [market EXCEPT !.pool =
             [@ EXCEPT !.quoted_in = amount, !.quoted_mint = input,
                       !.expected = quote_of(market.pool, input, amount)]]
    /\ UNCHANGED <<target, range, asked, applied, policy>>

(* The price leaves the arrays in use. *)
Move ==
    /\ range < MaxRange
    /\ range' = range + 1
    /\ UNCHANGED <<target, market, asked, applied, policy>>

Next ==
    \/ FromEvent \/ FromAccount \/ FromParams \/ Merge
    \/ Overlay \/ Quote \/ Move

Spec == Init /\ [][Next]_vars

-----------------------------------------------------------------------------
(* What the client would build now.                                         *)

Orders == [ side : {"buy", "sell"}, asset : Cash \cup AllMints,
            min : {"auto", "caller"}, fixed : BOOLEAN ]

(* A slip: the mint of the call is not compared with the market. *)
requested_any_mint(o) ==
    asked # UNSET => o.min = "auto" /\ o.asset # WSOL_MINT

(* validate_requested_mint, and what TradeBuyParams and TradeSellParams can *)
(* say: no minimum, and WSOL by its mint is WSOL.                           *)
validate_requested_mint(o) ==
    asked # UNSET => /\ meme_mint(market) = asked
                     /\ o.min = "auto" /\ o.asset # WSOL_MINT

Routes(o) ==
    IF HasMarket /\ assert_routed_market_ok(market, policy)
         /\ validate_requested_mint(o)
    THEN build(market, o) ELSE {}

-----------------------------------------------------------------------------

TypeOK ==
    /\ target \in Targets
    /\ range \in 0 .. MaxRange
    /\ applied \in 0 .. MaxApplied
    /\ asked \in AllMints \cup {UNSET}
    /\ policy \in Policies
    /\ HasMarket => /\ market.pool.id \in {Pool.id, Wild[Pool].id}
                    /\ market.pool.version = applied
                    /\ market.bridge \subseteq Bridges
                    /\ \A b, c \in market.bridge : b = c

input_mint(l) == IF l.from = LAMPORTS THEN WSOL_MINT ELSE l.from[1]

version_of(id) == IF id = market.pool.id THEN applied ELSE 0

QuoteForLeg(l) == <<"quote", l.pool, input_mint(l), l.amount, version_of(l.pool)>>

(* Every minimum a leg is built with is the caller's, or the quote of this  *)
(* very swap: of its pool, direction and size, and of the snapshot as the   *)
(* last applied event left it.  The last leg gives the tolerance; a leg     *)
(* before it asks for its quote in full, or for what a curve still takes    *)
(* (snapshot_expected_out, concentrated_min_out, bridged_concentrated_min_out, *)
(* bridge_intermediate_min_out, merge_whirlpool_swap, merge_clmm_swap).     *)
QuotesMatchLegs ==
    \A o \in Orders : \A legs \in Routes(o) : \A i \in DOMAIN legs :
        LET l == legs[i]
        IN  IF i = Len(legs)
            THEN l.min = (IF o.fixed THEN fixed_output
                          ELSE IF o.min = "caller" THEN caller_min
                          ELSE slipped(QuoteForLeg(l)))
            ELSE \/ l.min = QuoteForLeg(l)
                 \/ /\ l.min = still_taken(market.pool)
                    /\ l.amount = <<"input_for", l.pool, l.min>>

(* A second leg spends what the first must deliver, from the account the    *)
(* first pays into; the route starts with what the caller pays and ends     *)
(* with what the caller wants (buy_bridge, sell_bridge, one_leg).           *)
LegsConnect ==
    \A o \in Orders : \A legs \in Routes(o) :
        LET coin == <<meme_mint(market), meme_token_program(market)>>
            cash == IF o.asset = "sol" /\ is_native_sol_quote(market.pool)
                    THEN LAMPORTS
                    ELSE IF o.asset \in Cash THEN WSOL_ATA
                    ELSE <<o.asset, quote_token_program(market)>>
            first == legs[1].from
            last == legs[Len(legs)].to
        IN  /\ \A i \in 1 .. Len(legs) - 1 :
                  legs[i].to = legs[i + 1].from /\ legs[i].min = legs[i + 1].amount
            /\ <<first, last>> = IF o.side = "buy" THEN <<cash, coin>> ELSE <<coin, cash>>

(* The token accounts the policy creates and closes around a trade are      *)
(* those its legs move tokens in, with the token programs the legs use      *)
(* (TouchedAtas, buy_with_opts, sell_with_opts).                            *)
AccountsPrepared ==
    \A o \in Orders : \A legs \in Routes(o) :
        touched(market, o)
            = (UNION {{legs[i].from, legs[i].to} : i \in DOMAIN legs}) \ {LAMPORTS}

Whole(arrays, id) == \E r \in 0 .. range : arrays = Triplet(id, r)

(* However events of this and other pools were merged, a leg names the      *)
(* mints and token programs its pool has on chain, and liquidity arrays of  *)
(* this pool that belong together, unless the caller's mint was taken on    *)
(* trust (merge_whirlpool_swap, merge_clmm_swap, require_mint_programs,     *)
(* whirlpool_swap_leg).                                                     *)
LegsTrue ==
    \A o \in Orders : \A legs \in Routes(o) : \A i \in DOMAIN legs :
        LET t == OnChain(legs[i].pool)
        IN  /\ asked = UNSET \/ (policy.enabled /\ market.pool.id \notin policy.trusted)
                  => {legs[i].from, legs[i].to} \ {LAMPORTS}
                       \subseteq {<<t.a, t.pa>>, <<t.b, t.pb>>}
            /\ legs[i].pool = market.pool.id /\ market.pool.dex \in Concentrated
                  => Whole(market.pool.arrays, market.pool.id)

(* A pool on chain has the address that its program, its own mints and, for *)
(* CPMM, its own configuration lead to.                                     *)
Derived(t) ==
    CASE t.dex = "launchlab" -> t.id = launchlab_pool_pda(t.a, t.b)
      [] t.dex = "pumpfun" -> t.id = pumpfun_bonding_curve_pda(t.a)
      [] t.dex = "pumpswap" -> t.b = WSOL_MINT /\ t.id = pumpswap_canonical_pool_pda(t.a)
      [] t.dex = "cpmm" ->
            t.id \in {cpmm_pool_pda(t.config, t.a, t.b), cpmm_pool_pda(t.config, t.b, t.a)}
      [] OTHER -> FALSE

(* The pools the guard lets through unseen: those whose address says        *)
(* nothing, and a CPMM pool held without its configuration.                 *)
Unseen(t) ==
    \/ t.dex \in Concentrated \cup {"amm_v4", "damm_v2"}
    \/ t.dex = "pumpswap" /\ t.b # WSOL_MINT
    \/ t.dex = "cpmm"
         /\ \E s \in {market.pool} \cup market.bridge : s.id = t.id /\ s.config = UNSET

(* Whatever events arrive and whatever parameters are given, every leg goes *)
(* through a trusted pool, through a curve or the pool of a graduated Pump  *)
(* coin at its true address on chain, or, where listing is not required,    *)
(* through a CPMM pool at its true address or a pool the guard cannot tell  *)
(* (assert_routed_market_ok, assert_cpmm_ok).                               *)
GuardedPools ==
    policy.enabled =>
        \A o \in Orders : \A legs \in Routes(o) : \A i \in DOMAIN legs :
            LET t == OnChain(legs[i].pool)
            IN  \/ legs[i].pool \in policy.trusted
                \/ t.dex \in Oriented /\ Derived(t)
                \/ ~policy.listed_only /\ (Derived(t) \/ Unseen(t))

(* A trade for a mint trades that mint: a buy ends with it and a sale       *)
(* starts with it (validate_requested_mint, pool_from_params).              *)
RequestedMintTraded ==
    asked # UNSET =>
        \A o \in Orders : \A legs \in Routes(o) :
            asked = IF o.side = "buy" THEN legs[Len(legs)].to[1] ELSE legs[1].from[1]

(* README.md:142-164, "Prefer high-level params (same as trade-sdk)": a buy *)
(* of a Pump coin with SOL, from parameters, is built                       *)
(* (pumpfun_from_params).                                                   *)
ParamsBuyIsBuilt ==
    HasMarket /\ asked = Pool.a /\ is_native_sol_quote(Pool)
        => Routes([side |-> "buy", asset |-> "sol", min |-> "auto", fixed |-> FALSE]) # {}

(* A mint has one token program, and those everybody knows a classic one.   *)
ChainPool(p) ==
    /\ p = OnChainPool(p)
    /\ p.dex \in Dexes
    /\ p.a # p.b /\ UNSET \notin mints(p)
    /\ {p.pa, p.pb} \subseteq {"spl", "t22"}
    /\ p.a \in {WSOL_MINT, USDC_MINT} => p.pa = "spl"
    /\ p.b \in {WSOL_MINT, USDC_MINT} => p.pb = "spl"
    /\ p.dex = "cpmm" <=> p.config # UNSET

(* The program of a curve makes it at the address of its mints, so a wild   *)
(* curve's address is no derived one; a wild pool is another pool of the    *)
(* same kind and mints.  A bridge is a CPMM or an AMM V4 pool (BridgePool). *)
ASSUME PoolFeedConstants ==
    /\ MaxRange \in Nat /\ MaxApplied \in Nat
    /\ UNSET \notin {"spl", "t22"}
    /\ \A t \in Targets :
          /\ ChainPool(t.pool)
          /\ t.pool.dex = "launchlab" => t.pool.id = launchlab_pool_pda(t.pool.a, t.pool.b)
          /\ t.pool.dex = "pumpfun" => t.pool.id = pumpfun_bonding_curve_pda(t.pool.a)
          /\ t.pool \in DOMAIN Wild /\ Wild[t.pool].id # t.pool.id
          /\ Wild[t.pool] = [t.pool EXCEPT !.id = Wild[t.pool].id,
                                           !.config = Wild[t.pool].config,
                                           !.stonk = Wild[t.pool].stonk]
          /\ ChainPool(Wild[t.pool])
          /\ t.pool.dex \in {"launchlab", "pumpfun"} => Wild[t.pool].id[1] # "pda"
          /\ \A b \in t.bridge :
                /\ ChainPool(b) /\ b.dex \in {"cpmm", "amm_v4"}
                /\ b.id \notin {t.pool.id, Wild[t.pool].id}
          /\ \A b, c \in t.bridge : b = c
=============================================================================
