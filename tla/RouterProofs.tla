---------------------------- MODULE RouterProofs ----------------------------
(***************************************************************************)
(* Theorems about Router for every set of accounts, requests and fee rates, *)
(* and for legs that do whatever the chain lets them do.                    *)
(***************************************************************************)
EXTENDS Router, TLAPS

-----------------------------------------------------------------------------
(* The fee.                                                                 *)

(* checked_fee never charges more than the amount: the rate is at most the  *)
(* denominator (MAX_FEE_BPS against 10_000), whatever the floor drops.      *)
LEMMA FeeWithinAmount ==
    ASSUME NEW amount \in Nat, NEW bps \in 0 .. MAX_FEE_BPS
    PROVE  checked_fee(amount, bps) \in 0 .. amount
<1> DEFINE q == checked_fee(amount, bps)
<1>1. bps \in Nat /\ bps <= FEE_DENOM /\ FEE_DENOM \in Nat \ {0}
  BY RouterConstants, SMT
<1>2. amount * bps \in Nat /\ amount * bps <= amount * FEE_DENOM
  BY <1>1, SMT
<1>3. q \in Nat /\ FEE_DENOM * q <= amount * bps
  BY <1>1, <1>2, SMT DEF checked_fee
<1>4. FEE_DENOM * q <= amount * FEE_DENOM
  BY <1>1, <1>2, <1>3, SMT
<1> QED
  BY <1>1, <1>3, <1>4, SMT

-----------------------------------------------------------------------------
(* Types.                                                                   *)

(* The parts of a request have the types of RouteRequest.                   *)
LEMMA RequestParts ==
    ASSUME NEW req \in Requests
    PROVE  /\ req \in RouteRequest
           /\ req.mode \in Modes /\ req.user \in Wallets
           /\ req.amount_in \in Amounts /\ req.min_amount_out \in Amounts
           /\ req.exact_out \in BOOLEAN /\ req.fee_asset \in {0, 1}
           /\ req.fee_destination \in Accounts /\ req.fee_source \in Accounts
           /\ req.user_output \in Accounts
           /\ req.intermediate \in [1 .. 2 -> Accounts]
           /\ req.minimum \in [1 .. 2 -> Amounts]
           /\ req.legs \in Seq(Leg)
           /\ Hops(req) \subseteq 1 .. 2
  BY RouterConstants DEF RouteRequest, Modes, Hops

(* Balances are natural numbers, zero among them.                           *)
LEMMA AmountsAreNat == Amounts \subseteq Nat /\ 0 \in Amounts
  BY RouterConstants DEF Amounts

(* A wallet is an account that belongs to itself.                           *)
LEMMA WalletsAreAccounts ==
    /\ Wallets \subseteq Accounts
    /\ \A w \in Wallets : Holder[w] = w
    /\ \A a \in Accounts : Holder[a] \in Wallets
  BY RouterConstants

(* The fee leaves every balance a u64: the token and system programs refuse *)
(* a transfer that would not.                                               *)
LEMMA FeeTransferTyped ==
    ASSUME NEW req \in Requests, NEW fee \in Nat, NEW withheld \in 0 .. fee,
           ledger \in Ledgers, TransferFeePossible(req, fee, withheld)
    PROVE  FeeTransferred(ledger, req, fee, withheld) \in Ledgers
<1> DEFINE src == req.fee_source
           dst == req.fee_destination
<1>1. src \in Accounts /\ dst \in Accounts
  BY RequestParts
<1>2. ledger[src] \in Amounts /\ ledger[dst] \in Amounts
  BY <1>1 DEF Ledgers
<1>3. CASE dst = src
  BY <1>3 DEF FeeTransferred
<1>4. CASE dst # src
  <2>1. ledger[src] - fee \in Amounts
    BY <1>2, RouterConstants DEF TransferFeePossible, Amounts
  <2>2. ledger[dst] + fee - withheld \in Amounts
    BY <1>2, <1>4, RouterConstants DEF TransferFeePossible, Amounts
  <2>3. FeeTransferred(ledger, req, fee, withheld)
          = [ledger EXCEPT ![src] = @ - fee, ![dst] = @ + fee - withheld]
    BY <1>4 DEF FeeTransferred
  <2> QED
    BY <1>1, <1>2, <1>4, <2>1, <2>2, <2>3 DEF Ledgers
<1> QED
  BY <1>3, <1>4

(* What a CPI leaves behind, spread over the whole ledger. *)
After(post) ==
    [a \in Accounts |-> IF a \in DOMAIN post THEN post[a] ELSE ledger[a]]

(* Whatever a leg leaves in its accounts, the result is a ledger.           *)
LEMMA AfterTyped ==
    ASSUME ledger \in Ledgers, NEW t, NEW post \in LegPosts(t)
    PROVE  /\ After(post) \in Ledgers
           /\ DOMAIN post = t.req.legs[t.leg].writable
<1>1. /\ post \in [t.req.legs[t.leg].writable -> Amounts]
  BY DEF LegPosts
<1> QED
  BY <1>1 DEF After, Ledgers

(* What a hop received, once its minimum is met, is an amount.              *)
LEMMA ReceivedTyped ==
    ASSUME NEW t \in Running, NEW after \in Ledgers,
           enough_quote(t, after), t.leg <= t.req.mode
    PROVE  received_quote(t, after) \in Amounts
<1>1. t.req \in Requests /\ t.leg \in Nat \ {0} /\ t.before \in [1 .. 2 -> Amounts]
  BY DEF Running
<1>2. t.leg \in 1 .. 2
  BY <1>1, RequestParts DEF Modes
<1>3. /\ t.req.intermediate[t.leg] \in Accounts
      /\ t.req.minimum[t.leg] \in Amounts
      /\ t.before[t.leg] \in Amounts
  BY <1>1, <1>2, RequestParts
<1>4. after[t.req.intermediate[t.leg]] \in Amounts
  BY <1>3 DEF Ledgers
<1> QED
  BY <1>3, <1>4, RouterConstants DEF enough_quote, received_quote, Amounts

(* One step of process_inner keeps every variable in its type. *)
LEMMA StepTyped ==
    ASSUME RouteTypeOK, tx # NoTx, RouteStep, landed < MaxLanded
    PROVE  RouteTypeOK'
<1> USE DEF RouteTypeOK, configVars
<1>1. tx \in Running
  BY DEF Running
<1>2. /\ tx.saved \in Ledgers /\ tx.req \in Requests /\ tx.fee \in Nat
      /\ tx.before \in [1 .. 2 -> Amounts] /\ tx.leg \in Nat \ {0}
      /\ tx.quote_received \in Amounts
  BY <1>1 DEF Running
<1>3. ASSUME NEW balances \in Ledgers, NEW result \in {"committed", "reverted"},
             Finish(balances, result)
      PROVE  RouteTypeOK'
  BY <1>3, RouterBound DEF Finish, ConfigTypeOK
<1>4. ASSUME NEW balances \in Ledgers, NEW t \in Running, Continue(balances, t)
      PROVE  RouteTypeOK'
  BY <1>4 DEF Continue, ConfigTypeOK
<1>5. ASSUME Revert PROVE RouteTypeOK'
  BY <1>2, <1>3, <1>5 DEF Revert
<1>6. CASE PayFee
  <2>1. PICK withheld \in 0 .. tx.fee :
          /\ TransferFeePossible(tx.req, tx.fee, withheld)
          /\ Continue(FeeTransferred(ledger, tx.req, tx.fee, withheld),
                      [tx EXCEPT !.pc = "snapshot"])
    BY <1>6 DEF PayFee
  <2>2. FeeTransferred(ledger, tx.req, tx.fee, withheld) \in Ledgers
    BY <1>2, <2>1, FeeTransferTyped
  <2>3. [tx EXCEPT !.pc = "snapshot"] \in Running
    BY <1>1 DEF Running
  <2> QED
    BY <1>4, <2>1, <2>2, <2>3
<1>7. CASE SkipFee
  <2>1. [tx EXCEPT !.pc = "snapshot"] \in Running
    BY <1>1 DEF Running
  <2> QED
    BY <1>4, <1>7, <2>1 DEF SkipFee
<1>8. CASE Snapshot
  <2> DEFINE old == [i \in 1 .. 2 |->
                       IF i \in Hops(tx.req) THEN ledger[tx.req.intermediate[i]]
                       ELSE 0]
             t == [tx EXCEPT !.pc = "leg",
                             !.output_before = ledger[tx.req.user_output],
                             !.before = old]
  <2>1. old \in [1 .. 2 -> Amounts]
    BY <1>2, RequestParts, AmountsAreNat DEF Ledgers
  <2>2. ledger[tx.req.user_output] \in Amounts
    BY <1>2, RequestParts DEF Ledgers
  <2>3. t \in Running
    BY <1>1, <2>1, <2>2 DEF Running
  <2>4. Continue(ledger, t) \/ Revert
    BY <1>8 DEF Snapshot
  <2> QED
    BY <1>4, <1>5, <2>3, <2>4
<1>9. CASE RunLeg
  <2>1. PICK post \in LegPosts(tx) :
          IF enough_quote(tx, After(post))
          THEN Continue(After(post),
                 [tx EXCEPT
                    !.pc = IF tx.leg = Len(tx.req.legs) THEN "settle" ELSE @,
                    !.leg = @ + 1,
                    !.quote_received =
                       IF tx.leg <= tx.req.mode
                       THEN received_quote(tx, After(post)) ELSE @])
          ELSE Revert
    BY <1>9 DEF RunLeg, After
  <2>2. After(post) \in Ledgers
    BY AfterTyped
  <2> DEFINE q == IF tx.leg <= tx.req.mode
                  THEN received_quote(tx, After(post)) ELSE tx.quote_received
             t == [tx EXCEPT
                    !.pc = IF tx.leg = Len(tx.req.legs) THEN "settle" ELSE @,
                    !.leg = @ + 1, !.quote_received = q]
  <2>3. ASSUME enough_quote(tx, After(post)) PROVE t \in Running
    <3>1. q \in Amounts
      BY <1>1, <1>2, <2>2, <2>3, ReceivedTyped
    <3>2. tx.leg + 1 \in Nat \ {0}
      BY <1>2
    <3> QED
      BY <1>1, <3>1, <3>2 DEF Running
  <2>4. \/ enough_quote(tx, After(post)) /\ Continue(After(post), t)
        \/ Revert
    BY <2>1
  <2> QED
    BY <1>4, <1>5, <2>2, <2>3, <2>4
<1>10. CASE Settle
  BY <1>3, <1>5, <1>10 DEF Settle
<1>11. CASE FailFee \/ FailLeg
  BY <1>5, <1>11 DEF FailFee, FailLeg
<1> QED
  BY <1>6, <1>7, <1>8, <1>9, <1>10, <1>11 DEF RouteStep

-----------------------------------------------------------------------------
(* The inductive invariant.                                                 *)

(* What a step inside a route keeps of its record. *)
SameRoute(t, u) ==
    /\ u.req = t.req /\ u.saved = t.saved /\ u.fee = t.fee
    /\ u.fee_source_before = t.fee_source_before

(* The locals of a running route have the types of Running.                 *)
LEMMA RunningParts ==
    ASSUME RouteTypeOK, tx # NoTx
    PROVE  /\ tx \in Running
           /\ tx.req \in Requests /\ tx.saved \in Ledgers /\ tx.fee \in Nat
           /\ tx.fee_source_before \in Amounts /\ tx.output_before \in Amounts
           /\ tx.before \in [1 .. 2 -> Amounts] /\ tx.quote_received \in Amounts
           /\ tx.leg \in Nat \ {0} /\ tx.pc \in {"fee", "snapshot", "leg", "settle"}
<1>1. tx \in Running
  BY DEF RouteTypeOK
<1> QED
  BY <1>1 DEF Running

(* A route that is admitted starts with the ledger it saves. *)
LEMMA StartInv ==
    ASSUME IInv, NEW req \in Requests, Start(req)
    PROVE  IInv'
<1> DEFINE t == [ pc |-> "fee", req |-> req, saved |-> ledger,
                  fee |-> checked_fee(req.amount_in, config.fee_bps),
                  fee_source_before |-> ledger[req.fee_source],
                  output_before |-> 0, before |-> [i \in 1 .. 2 |-> 0],
                  quote_received |-> 0, leg |-> 1 ]
<1>1. /\ tx' = t /\ ledger' = ledger /\ accepted(req) /\ landed < MaxLanded
      /\ landed' = landed /\ outcome' = outcome
      /\ config' = config /\ caller' = caller
  BY DEF Start, Continue, configVars
<1>2. /\ ledger \in Ledgers /\ config \in ConfigType /\ ConfigTypeOK
  BY DEF IInv, RouteTypeOK, ConfigTypeOK
<1>3. /\ req.fee_source \in Accounts /\ req.amount_in \in Amounts
      /\ ledger[req.fee_source] \in Amounts /\ req.amount_in \in Nat
  BY <1>2, RequestParts, AmountsAreNat DEF Ledgers
<1>4. config.fee_bps \in 0 .. MAX_FEE_BPS
  BY <1>2 DEF ConfigType
<1>5. checked_fee(req.amount_in, config.fee_bps) \in Nat
  BY <1>3, <1>4, FeeWithinAmount
<1>6. t \in Running
  BY <1>2, <1>3, <1>5, AmountsAreNat DEF Running
<1>7. RouteTypeOK'
  BY <1>1, <1>2, <1>6 DEF IInv, RouteTypeOK, ConfigTypeOK
<1>8. RouteInv'
  <2>1. Admitted(tx)'
    BY <1>1 DEF Admitted, accepted, valid_header, valid_config, validate_output,
                valid_fee_source, Source, is_token_program, TokenPrograms, Hops
  <2> QED
    BY <1>1, <2>1 DEF RouteInv, Snapped
<1>9. HopsSpendOnlyDelivered'
  BY <1>1 DEF HopsSpendOnlyDelivered
<1> QED
  BY <1>7, <1>8, <1>9 DEF IInv

(* A finished route leaves the router idle. *)
LEMMA FinishInv ==
    ASSUME RouteTypeOK, landed < MaxLanded, NEW balances \in Ledgers,
           NEW result \in {"committed", "reverted"}, Finish(balances, result)
    PROVE  IInv'
  BY RouterBound
  DEF IInv, RouteTypeOK, RouteInv, HopsSpendOnlyDelivered, Finish, ConfigTypeOK,
      configVars

(* The program counter of no route is the idle one.                         *)
LEMMA NoTxIdle == tx = NoTx => tx.pc = "idle"
  BY DEF NoTx

(* Being admitted survives every step that keeps the route. *)
LEMMA AdmittedKept ==
    ASSUME Admitted(tx), SameRoute(tx, tx'), config' = config,
           tx'.pc # "fee" /\ tx.fee > 0 => valid_fee_accounts(tx.req)
    PROVE  Admitted(tx)'
  BY DEF Admitted, accepted, valid_header, valid_config, validate_output,
         valid_fee_source, valid_fee_accounts, Source, SameRoute,
         is_token_program, TokenPrograms, Hops

(* The fee moves nothing but itself. *)
LEMMA FeeMovesOnlyFee ==
    ASSUME NEW t \in Running, NEW withheld \in 0 .. t.fee, ledger = t.saved,
           TransferFeePossible(t.req, t.fee, withheld)
    PROVE  OnlyFeeMoved(t, FeeTransferred(ledger, t.req, t.fee, withheld))
<1> DEFINE now == FeeTransferred(ledger, t.req, t.fee, withheld)
           src == t.req.fee_source
           dst == t.req.fee_destination
<1>1. /\ t.req \in Requests /\ t.saved \in Ledgers /\ t.fee \in Nat
      /\ src \in Accounts /\ dst \in Accounts
  BY RequestParts DEF Running
<1>2. \A a \in Accounts : t.saved[a] \in Nat
  BY <1>1, AmountsAreNat DEF Ledgers
<1>3. CASE dst = src
  <2>1. now = t.saved
    BY <1>3 DEF FeeTransferred
  <2> QED
    BY <1>1, <1>2, <1>3, <2>1 DEF OnlyFeeMoved, FeeInto, Source, Destination
<1>4. CASE dst # src
  <2>1. now = [t.saved EXCEPT ![src] = @ - t.fee, ![dst] = @ + t.fee - withheld]
    BY <1>4 DEF FeeTransferred
  <2>2. /\ now[src] = t.saved[src] - t.fee
        /\ now[dst] = t.saved[dst] + t.fee - withheld
        /\ \A a \in Accounts \ {src, dst} : now[a] = t.saved[a]
        /\ t.saved \in [Accounts -> Amounts]
    BY <1>1, <1>4, <2>1 DEF Ledgers
  <2>3. Mint[src] \notin TransferFeeMints => withheld = 0
    BY DEF TransferFeePossible
  <2>4. \A a \in Accounts \ {src} : now[a] >= t.saved[a] + FeeInto(t, a)
    BY <1>1, <1>2, <1>4, <2>2, <2>3 DEF FeeInto, Source, Destination
  <2>5. t.fee = 0 => now = t.saved
    <3>1. t.fee = 0 => withheld = 0
      OBVIOUS
    <3> QED
      BY <1>1, <1>2, <2>1, <2>2, <3>1 DEF Ledgers
  <2>6. t.fee = 0 => now[dst] = t.saved[dst]
    BY <2>5
  <2> QED
    BY <1>1, <1>2, <2>2, <2>4, <2>5, <2>6 DEF OnlyFeeMoved, Source, Destination
<1> QED
  BY <1>3, <1>4

(* After the fee every other wallet is whole: the input account is the      *)
(* user's own.                                                              *)
LEMMA FeeLeavesOthersWhole ==
    ASSUME NEW t \in Running, NEW now \in Ledgers, OnlyFeeMoved(t, now),
           accepted(t.req), t.fee > 0 => valid_fee_accounts(t.req)
    PROVE  OthersWhole(t, now)
<1>1. /\ t.req \in Requests /\ t.saved \in Ledgers /\ t.fee \in Nat
      /\ t.req.user \in Wallets
  BY RequestParts DEF Running
<1>2. Holder[Source(t)] = t.req.user /\ Source(t) \in Accounts
  BY <1>1, RequestParts, WalletsAreAccounts DEF accepted, valid_fee_source, Source
<1>3. \A a \in Accounts :
         Holder[a] # t.req.user => now[a] >= t.saved[a] + FeeInto(t, a)
  BY <1>2 DEF OnlyFeeMoved
<1>4. {Source(t), Destination(t)} \subseteq Abstract!Named(t.req)
  BY DEF Abstract!Named, Source, Destination
<1>5. \A a \in Accounts \ Abstract!Named(t.req) : now[a] = t.saved[a]
  BY <1>4 DEF OnlyFeeMoved
<1> QED
  BY <1>3, <1>5 DEF OthersWhole

(* Paying the fee keeps the invariant: only the fee has moved.              *)
LEMMA PayFeeInv ==
    ASSUME IInv, tx # NoTx, PayFee \/ SkipFee
    PROVE  RouteInv'
<1>1. /\ RouteTypeOK /\ RouteInv /\ tx.pc = "fee"
      /\ Admitted(tx) /\ ledger = tx.saved /\ landed < MaxLanded
  BY DEF IInv, RouteInv, PayFee, SkipFee
<1>2. tx \in Running /\ tx.fee \in Nat /\ tx.saved \in Ledgers /\ ledger \in Ledgers
  BY <1>1, RunningParts DEF RouteTypeOK
<1>3. /\ tx' = [tx EXCEPT !.pc = "snapshot"] /\ landed' = landed
      /\ config' = config
      /\ tx.fee > 0 => valid_fee_accounts(tx.req)
  BY <1>2 DEF PayFee, SkipFee, Continue, configVars
<1>4. SameRoute(tx, tx') /\ tx'.pc = "snapshot" /\ tx' # NoTx
  <2>1. tx'.pc = "snapshot" /\ tx'.req = tx.req /\ tx'.saved = tx.saved
        /\ tx'.fee = tx.fee /\ tx'.fee_source_before = tx.fee_source_before
    BY <1>2, <1>3 DEF Running
  <2> QED
    BY <2>1 DEF SameRoute, NoTx
<1>5. Admitted(tx)'
  BY <1>1, <1>3, <1>4, AdmittedKept
<1>6. OnlyFeeMoved(tx, ledger')
  <2>1. CASE PayFee
    <3>1. PICK withheld \in 0 .. tx.fee :
            /\ TransferFeePossible(tx.req, tx.fee, withheld)
            /\ ledger' = FeeTransferred(ledger, tx.req, tx.fee, withheld)
      BY <2>1 DEF PayFee, Continue
    <3> QED
      BY <1>1, <1>2, <3>1, FeeMovesOnlyFee
  <2>2. CASE SkipFee
    <3>1. ledger' = tx.saved /\ tx.fee = 0
      BY <1>1, <2>2 DEF SkipFee, Continue
    <3>2. \A a \in Accounts : tx.saved[a] \in Nat
      BY <1>2, AmountsAreNat DEF Ledgers
    <3>3. Source(tx) \in Accounts
      BY <1>2, RunningParts, RequestParts DEF Source, Running
    <3> QED
      BY <3>1, <3>2, <3>3 DEF OnlyFeeMoved, FeeInto
  <2> QED
    BY <2>1, <2>2
<1>7. ledger' \in Ledgers
  <2>1. landed < MaxLanded /\ RouteStep
    BY <1>1 DEF RouteStep
  <2> QED
    BY <1>1, <2>1, StepTyped DEF RouteTypeOK
<1>8. OthersWhole(tx, ledger')
  BY <1>1, <1>2, <1>3, <1>6, <1>7, FeeLeavesOthersWhole DEF Admitted
<1>9. OnlyFeeMoved(tx, ledger)' /\ OthersWhole(tx, ledger)'
  BY <1>4, <1>6, <1>8
  DEF OnlyFeeMoved, OthersWhole, SameRoute, Source, Destination, FeeInto,
      Abstract!Named
<1> QED
  BY <1>1, <1>3, <1>4, <1>5, <1>9 DEF RouteInv

(* The snapshots are taken of the ledger in which only the fee moved.       *)
LEMMA SnapshotInv ==
    ASSUME IInv, tx # NoTx, Snapshot, valid_intermediates(tx.req)
    PROVE  RouteInv'
<1> DEFINE old == [i \in 1 .. 2 |->
                     IF i \in Hops(tx.req) THEN ledger[tx.req.intermediate[i]]
                     ELSE 0]
<1>1. /\ RouteTypeOK /\ RouteInv /\ tx.pc = "snapshot" /\ Admitted(tx)
      /\ OnlyFeeMoved(tx, ledger) /\ OthersWhole(tx, ledger)
      /\ landed < MaxLanded
  BY DEF IInv, RouteInv, Snapshot
<1>2. /\ tx \in Running /\ tx.req \in Requests /\ ledger \in Ledgers
      /\ tx.fee \in Nat /\ tx.saved \in Ledgers
  BY <1>1, RunningParts DEF RouteTypeOK
<1>3. /\ tx' = [tx EXCEPT !.pc = "leg",
                          !.output_before = ledger[tx.req.user_output],
                          !.before = old]
      /\ ledger' = ledger /\ landed' = landed /\ config' = config
  BY DEF Snapshot, Continue, configVars
<1>4. /\ tx'.pc = "leg" /\ tx'.req = tx.req /\ tx'.saved = tx.saved
      /\ tx'.fee = tx.fee /\ tx'.fee_source_before = tx.fee_source_before
      /\ tx'.output_before = ledger[tx.req.user_output] /\ tx'.before = old
      /\ tx'.leg = tx.leg
  BY <1>2, <1>3 DEF Running
<1>5. SameRoute(tx, tx') /\ tx' # NoTx
  BY <1>4 DEF SameRoute, NoTx
<1>6. tx'.pc # "fee" /\ tx.fee > 0 => valid_fee_accounts(tx.req)
  BY <1>1 DEF Admitted
<1>7. Admitted(tx)'
  BY <1>1, <1>3, <1>5, <1>6, AdmittedKept
<1>8. Snapped(tx)'
  <2>1. /\ tx.req.user_output \in Accounts /\ Source(tx) \in Accounts
        /\ Hops(tx.req) \subseteq 1 .. 2
        /\ \A i \in Hops(tx.req) :
              /\ tx.req.intermediate[i] \in Accounts \ {Source(tx)}
              /\ old[i] = ledger[tx.req.intermediate[i]]
    BY <1>2, RequestParts DEF valid_intermediates, Source
  <2>2. \A a \in Accounts : tx.saved[a] \in Nat /\ FeeInto(tx, a) \in Nat
    BY <1>2, AmountsAreNat DEF Ledgers, FeeInto
  <2>3. \A a \in Accounts : ledger[a] \in Nat
    BY <1>2, AmountsAreNat DEF Ledgers
  <2>4. \A i \in Hops(tx.req) :
          LET a == tx.req.intermediate[i]
          IN  /\ old[i] >= tx.saved[a]
              /\ a # Destination(tx) \/ tx.fee = 0 => old[i] = tx.saved[a]
    <3> SUFFICES ASSUME NEW i \in Hops(tx.req), NEW a,
                        a = tx.req.intermediate[i]
                 PROVE  /\ ledger[a] >= tx.saved[a]
                        /\ a # Destination(tx) \/ tx.fee = 0
                              => ledger[a] = tx.saved[a]
      BY <2>1
    <3>1. a \in Accounts \ {Source(tx)}
      BY <2>1
    <3>2. ledger[a] >= tx.saved[a] + FeeInto(tx, a)
      BY <1>1, <3>1 DEF OnlyFeeMoved
    <3>3. a # Destination(tx) \/ tx.fee = 0 => ledger[a] = tx.saved[a]
      BY <1>1, <3>1 DEF OnlyFeeMoved
    <3>4. tx.saved[a] \in Nat /\ FeeInto(tx, a) \in Nat /\ ledger[a] \in Nat
      BY <2>2, <2>3, <3>1
    <3> QED
      BY <3>2, <3>3, <3>4
  <2>5. LET out == tx.req.user_output
        IN  /\ out = Source(tx) => ledger[out] >= tx.saved[out] - tx.fee
            /\ out # Source(tx) => ledger[out] >= tx.saved[out] + FeeInto(tx, out)
    BY <1>1, <2>1 DEF OnlyFeeMoved
  <2> QED
    BY <1>4, <2>4, <2>5 DEF Snapped, Source, Destination, FeeInto, Hops
<1>9. (tx.leg \in DOMAIN tx.req.legs)'
  <2>1. tx.leg = 1
    BY <1>1 DEF RouteInv
  <2>2. Len(tx.req.legs) >= 1 /\ tx.req.legs \in Seq(Leg)
    BY <1>1, <1>2, RequestParts DEF Admitted, accepted, valid_header
  <2> QED
    BY <1>4, <2>1, <2>2
<1>10. OthersWhole(tx, ledger)'
  BY <1>1, <1>3, <1>4 DEF OthersWhole, Source, Destination, FeeInto, Abstract!Named
<1> QED
  BY <1>1, <1>3, <1>4, <1>5, <1>7, <1>8, <1>9, <1>10 DEF RouteInv

(* A leg takes nothing from another wallet and touches only what it names.  *)
LEMMA LegLeavesOthersWhole ==
    ASSUME NEW t \in Running, t.leg \in DOMAIN t.req.legs, ledger \in Ledgers,
           OthersWhole(t, ledger), NEW post \in LegPosts(t)
    PROVE  OthersWhole(t, After(post))
<1> DEFINE leg == t.req.legs[t.leg]
<1>1. /\ t.req \in Requests /\ t.saved \in Ledgers /\ t.fee \in Nat
  BY DEF Running
<1>2. /\ DOMAIN post = leg.writable /\ After(post) \in Ledgers
      /\ post \in [leg.writable -> Amounts]
      /\ \A a \in leg.writable :
            post[a] < ledger[a] => leg.user_signs /\ Holder[a] = t.req.user
  BY AfterTyped DEF LegPosts
<1>3. leg.writable \subseteq Abstract!Named(t.req)
  BY DEF Abstract!Named
<1>4. \A a \in Accounts \ Abstract!Named(t.req) : After(post)[a] = t.saved[a]
  BY <1>2, <1>3 DEF OthersWhole, After
<1>5. \A a \in Accounts : /\ t.saved[a] \in Nat /\ ledger[a] \in Nat
                         /\ After(post)[a] \in Nat /\ FeeInto(t, a) \in Nat
  BY <1>1, <1>2, AmountsAreNat DEF Ledgers, FeeInto
<1>6. ASSUME NEW a \in Accounts, Holder[a] # t.req.user
      PROVE  After(post)[a] >= t.saved[a] + FeeInto(t, a)
  <2>1. After(post)[a] >= ledger[a]
    <3>1. CASE a \in leg.writable
      <4>1. After(post)[a] = post[a]
        BY <1>2, <3>1 DEF After
      <4>2. ~(post[a] < ledger[a])
        BY <1>2, <1>6, <3>1, Zenon
      <4> HIDE DEF leg
      <4> QED
        BY <1>5, <1>6, <4>1, <4>2, SMT
    <3>2. CASE a \notin leg.writable
      <4>1. After(post)[a] = ledger[a]
        BY <1>2, <3>2 DEF After
      <4> QED
        BY <1>5, <1>6, <4>1, SMT
    <3> QED
      BY <3>1, <3>2
  <2>2. ledger[a] >= t.saved[a] + FeeInto(t, a)
    BY <1>6 DEF OthersWhole
  <2> QED
    BY <1>5, <2>1, <2>2
<1> QED
  BY <1>4, <1>6 DEF OthersWhole

(* A leg leaves the invariant as it found it, and the amount kept for the   *)
(* next hop is what it delivered.                                           *)
LEMMA RunLegInv ==
    ASSUME IInv, tx # NoTx, RunLeg, ~Revert
    PROVE  RouteInv' /\ HopsSpendOnlyDelivered'
<1>1. /\ RouteTypeOK /\ RouteInv /\ tx.pc = "leg" /\ Admitted(tx)
      /\ OthersWhole(tx, ledger) /\ Snapped(tx) /\ landed < MaxLanded
      /\ tx.leg \in DOMAIN tx.req.legs
  BY DEF IInv, RouteInv, RunLeg
<1>2. /\ tx \in Running /\ tx.req \in Requests /\ ledger \in Ledgers
      /\ tx.before \in [1 .. 2 -> Amounts] /\ tx.leg \in Nat \ {0}
  BY <1>1, RunningParts DEF RouteTypeOK
<1>3. PICK post \in LegPosts(tx) :
        /\ enough_quote(tx, After(post))
        /\ Continue(After(post),
             [tx EXCEPT
                !.pc = IF tx.leg = Len(tx.req.legs) THEN "settle" ELSE @,
                !.leg = @ + 1,
                !.quote_received =
                   IF tx.leg <= tx.req.mode
                   THEN received_quote(tx, After(post)) ELSE @])
  BY DEF RunLeg, After
<1>4. /\ ledger' = After(post) /\ landed' = landed /\ config' = config
      /\ tx'.pc = IF tx.leg = Len(tx.req.legs) THEN "settle" ELSE "leg"
      /\ tx'.req = tx.req /\ tx'.saved = tx.saved /\ tx'.fee = tx.fee
      /\ tx'.fee_source_before = tx.fee_source_before
      /\ tx'.output_before = tx.output_before /\ tx'.before = tx.before
      /\ tx'.leg = tx.leg + 1
      /\ tx.leg <= tx.req.mode
            => tx'.quote_received = received_quote(tx, After(post))
  BY <1>1, <1>2, <1>3 DEF Running, Continue, configVars
<1>5. SameRoute(tx, tx') /\ tx' # NoTx
  BY <1>4 DEF SameRoute, NoTx
<1>6. Admitted(tx)'
  <2>1. tx'.pc # "fee" /\ tx.fee > 0 => valid_fee_accounts(tx.req)
    BY <1>1 DEF Admitted
  <2> QED
    BY <1>1, <1>4, <1>5, <2>1, AdmittedKept
<1>7. Snapped(tx)'
  BY <1>1, <1>4 DEF Snapped, Source, Destination, FeeInto, Hops
<1>8. OthersWhole(tx, ledger)'
  <2>1. OthersWhole(tx, After(post))
    BY <1>1, <1>2, LegLeavesOthersWhole
  <2> QED
    BY <1>4, <2>1 DEF OthersWhole, Source, Destination, FeeInto, Abstract!Named
<1>9. Len(tx.req.legs) \in Nat /\ DOMAIN tx.req.legs = 1 .. Len(tx.req.legs)
  BY <1>2, RequestParts
<1>10. tx'.pc = "leg" => tx'.leg \in DOMAIN tx'.req.legs
  BY <1>1, <1>2, <1>4, <1>9
<1>11. RouteInv'
  BY <1>1, <1>4, <1>5, <1>6, <1>7, <1>8, <1>10 DEF RouteInv
<1>12. HopsSpendOnlyDelivered'
  <2> SUFFICES ASSUME tx'.pc = "leg", Patched(tx.req, tx.leg + 1)
               PROVE  LET a == tx.req.intermediate[tx.leg]
                      IN  /\ tx'.quote_received = After(post)[a] - tx.before[tx.leg]
                          /\ tx'.quote_received >= tx.req.minimum[tx.leg]
                          /\ tx'.quote_received > 0
    BY <1>2, <1>4 DEF HopsSpendOnlyDelivered, invoked_amount, Patched
  <2>1. valid_header(tx.req) /\ tx.req.mode \in 0 .. 2
    BY <1>1, <1>2, RequestParts DEF Admitted, accepted, Modes
  <2>2. tx.req.mode > 0 /\ Len(tx.req.legs) = tx.req.mode + 1
    BY <2>1 DEF Patched, valid_header
  <2>3. tx.leg \in Hops(tx.req) /\ tx.leg <= tx.req.mode
    BY <1>1, <1>2, <1>4, <1>9, <2>1, <2>2 DEF Hops
  <2>4. tx.req.minimum[tx.leg] > 0
    BY <2>1, <2>2, <2>3 DEF valid_header
  <2>5. received_quote(tx, After(post)) >= tx.req.minimum[tx.leg]
    BY <1>3, <2>3 DEF enough_quote
  <2>6. received_quote(tx, After(post)) \in Nat /\ tx.req.minimum[tx.leg] \in Nat
    BY <1>2, <1>3, <2>3, AfterTyped, ReceivedTyped, AmountsAreNat, RequestParts
  <2> QED
    BY <1>4, <2>3, <2>4, <2>5, <2>6 DEF received_quote
<1> QED
  BY <1>11, <1>12

-----------------------------------------------------------------------------
(* Configuration.                                                           *)

(* INITIALIZE and UPDATE_CONFIG keep the configuration in its type.         *)
LEMMA ConfigTyped ==
    ASSUME ConfigTypeOK, ConfigNext
    PROVE  ConfigTypeOK'
<1>1. CASE \E payer, recipient \in Wallets, bps \in BpsInputs :
             Initialize(payer, recipient, bps)
  BY <1>1, ConfigConstants, RouterConstants
  DEF ConfigTypeOK, ConfigType, Initialize
<1>2. CASE \E signer, recipient \in Wallets, bps \in BpsInputs,
              paused, update_recipient \in BOOLEAN :
             UpdateConfig(signer, bps, paused, update_recipient, recipient)
  <2>1. PICK signer \in Wallets, recipient \in Wallets, bps \in BpsInputs,
             paused \in BOOLEAN, update_recipient \in BOOLEAN :
          UpdateConfig(signer, bps, paused, update_recipient, recipient)
    BY <1>2
  <2>2. bps \in 0 .. MAX_FEE_BPS
    BY <2>1, ConfigConstants, RouterConstants DEF UpdateConfig
  <2> QED
    BY <2>1, <2>2 DEF ConfigTypeOK, ConfigType, UpdateConfig
<1> QED
  BY <1>1, <1>2 DEF ConfigNext

(* The invariant holds initially and every step keeps it. *)
LEMMA Inductive ==
    /\ Init => IInv
    /\ IInv /\ [Next]_vars => IInv'
<1>1. ASSUME Init PROVE IInv
  BY <1>1, RouterBound, RouterConstants
  DEF Init, RouterInit, ConfigInit, IInv, RouteTypeOK, ConfigTypeOK, ConfigType,
      RouteInv, HopsSpendOnlyDelivered
<1>2. ASSUME IInv, [Next]_vars PROVE IInv'
  <2>1. RouteTypeOK /\ RouteInv /\ landed \in 0 .. MaxLanded
    BY <1>2 DEF IInv, RouteTypeOK
  <2>2. CASE tx = NoTx /\ ConfigNext /\ UNCHANGED routeVars
    BY <2>1, <2>2, ConfigTyped
    DEF IInv, RouteTypeOK, RouteInv, HopsSpendOnlyDelivered, routeVars
  <2>3. ASSUME NEW req \in Requests, Start(req) PROVE IInv'
    BY <1>2, <2>3, StartInv
  <2>4. ASSUME NEW req \in Requests, Reject(req) PROVE IInv'
    BY <2>1, <2>4, FinishInv DEF Reject, RouteTypeOK
  <2>5. CASE RouteStep
    <3>1. tx # NoTx
      <4>1. tx.pc \in {"fee", "snapshot", "leg", "settle"}
        BY <2>5 DEF RouteStep, PayFee, SkipFee, FailFee, Snapshot, RunLeg,
                    FailLeg, Settle
      <4> QED
        BY <4>1, NoTxIdle
    <3>2. landed < MaxLanded /\ tx.saved \in Ledgers /\ ledger \in Ledgers
      BY <2>1, <3>1, RunningParts DEF RouteInv, RouteTypeOK
    <3>3. RouteTypeOK'
      BY <2>1, <2>5, <3>1, <3>2, StepTyped
    <3>4. ASSUME Revert PROVE IInv'
      BY <2>1, <3>2, <3>4, FinishInv DEF Revert
    <3>5. CASE PayFee \/ SkipFee
      <4>1. tx'.pc # "leg"
        <5>1. tx' = [tx EXCEPT !.pc = "snapshot"] /\ tx \in Running
          BY <2>1, <3>1, <3>5, RunningParts DEF PayFee, SkipFee, Continue
        <5> QED
          BY <5>1 DEF Running
      <4> QED
        BY <1>2, <3>1, <3>3, <3>5, <4>1, PayFeeInv DEF IInv, HopsSpendOnlyDelivered
    <3>6. CASE Snapshot
      <4>1. CASE valid_intermediates(tx.req)
        <5>1. RouteInv'
          BY <1>2, <3>1, <3>6, <4>1, SnapshotInv
        <5>2. tx'.leg = 1 /\ tx'.req = tx.req
          BY <2>1, <3>1, <3>6, <4>1, RunningParts
          DEF Snapshot, Continue, Running, RouteInv
        <5>3. HopsSpendOnlyDelivered'
          BY <5>2 DEF HopsSpendOnlyDelivered, Patched
        <5> QED
          BY <3>3, <5>1, <5>3 DEF IInv
      <4>2. CASE ~valid_intermediates(tx.req)
        BY <3>4, <3>6, <4>2 DEF Snapshot
      <4> QED
        BY <4>1, <4>2
    <3>7. CASE RunLeg
      BY <1>2, <3>1, <3>3, <3>4, <3>7, RunLegInv DEF IInv
    <3>8. CASE FailFee \/ FailLeg
      BY <3>4, <3>8 DEF FailFee, FailLeg
    <3>9. CASE Settle
      BY <2>1, <3>2, <3>4, <3>9, FinishInv DEF Settle
    <3> QED
      BY <2>5, <3>5, <3>6, <3>7, <3>8, <3>9 DEF RouteStep
  <2>6. CASE UNCHANGED vars
    BY <1>2, <2>6
    DEF IInv, RouteTypeOK, ConfigTypeOK, RouteInv, HopsSpendOnlyDelivered, vars,
        configVars, routeVars, Admitted, accepted, valid_header, valid_config,
        validate_output, valid_fee_source, valid_fee_accounts, OnlyFeeMoved,
        OthersWhole, Snapped, Source, Destination, FeeInto, Patched,
        invoked_amount
  <2> QED
    BY <1>2, <2>2, <2>3, <2>4, <2>5, <2>6 DEF Next
<1> QED
  BY <1>1, <1>2

(* Every variable stays in its type, whatever is submitted and whatever the *)
(* legs do: no balance leaves the range of a u64 and no step of             *)
(* process_inner runs without the snapshots it needs.                       *)
THEOREM TypeCorrect == Spec => []RouteTypeOK
<1>1. IInv => RouteTypeOK
  BY DEF IInv
<1> QED
  BY <1>1, Inductive, PTL DEF Spec

(* The invariant the settlement argument rests on holds always. *)
THEOREM RouteInvariant == Spec => []RouteInv
<1>1. IInv => RouteInv
  BY DEF IInv
<1> QED
  BY <1>1, Inductive, PTL DEF Spec

(* No hop of a dynamic route is ever told to spend anything but what the    *)
(* hop before it delivered on top of the user's old balance.                *)
THEOREM HopFunding == Spec => []HopsSpendOnlyDelivered
<1>1. IInv => HopsSpendOnlyDelivered
  BY DEF IInv
<1> QED
  BY <1>1, Inductive, PTL DEF Spec

-----------------------------------------------------------------------------
(* Settlement.                                                              *)

(* If the input account is also the output account, a positive minimum is   *)
(* never met: what the legs leave is at most what was there after the fee.  *)
LEMMA NoOutputFromInput ==
    ASSUME NEW saved \in Nat, NEW now \in Nat, NEW snap \in Nat, NEW fee \in Nat,
           NEW amount \in Nat, NEW exact_out \in BOOLEAN, fee <= amount,
           snap >= saved - fee, validate_spend(saved, now, amount, fee, exact_out)
    PROVE  now - snap <= 0
<1>1. CASE exact_out
  BY <1>1 DEF validate_spend
<1>2. CASE ~exact_out
  BY <1>2 DEF validate_spend
<1> QED
  BY <1>1, <1>2

(* A commit is one step of AtomicTrade. *)
LEMMA CommitIsTrade ==
    ASSUME IInv, tx # NoTx, tx.pc = "settle", settles(tx),
           Finish(ledger, "committed")
    PROVE  Abstract!Trade(tx.req)
<1> DEFINE req == tx.req
           src == req.fee_source
           dst == req.fee_destination
           out == req.user_output
<1>1. /\ RouteTypeOK /\ Admitted(tx) /\ Snapped(tx) /\ OthersWhole(tx, ledger)
      /\ tx.fee > 0 => valid_fee_accounts(req)
  BY DEF IInv, RouteInv, Admitted
<1>2. /\ req \in Requests /\ tx.saved \in Ledgers /\ ledger \in Ledgers
      /\ tx.fee \in Nat /\ tx.output_before \in Nat
      /\ tx.before \in [1 .. 2 -> Amounts]
  BY <1>1, RunningParts, AmountsAreNat DEF RouteTypeOK
<1>3. /\ src \in Accounts /\ dst \in Accounts /\ out \in Accounts
      /\ req.amount_in \in Nat /\ req.min_amount_out \in Nat
      /\ req.exact_out \in BOOLEAN /\ req.fee_asset \in {0, 1}
      /\ req.user \in Wallets
  BY <1>2, RequestParts, AmountsAreNat
<1>4. \A a \in Accounts : tx.saved[a] \in Nat /\ ledger[a] \in Nat
  BY <1>2, AmountsAreNat DEF Ledgers
<1>5. /\ tx.fee = checked_fee(req.amount_in, config.fee_bps)
      /\ tx.fee_source_before = tx.saved[src]
      /\ accepted(req)
  BY <1>1 DEF Admitted, Source
<1>6. tx.fee <= req.amount_in
  <2>1. config.fee_bps \in 0 .. MAX_FEE_BPS
    BY <1>1 DEF RouteTypeOK, ConfigTypeOK, ConfigType
  <2> QED
    BY <1>3, <1>5, <2>1, FeeWithinAmount
<1>7. ledger' = ledger /\ tx' = NoTx /\ config' = config
  BY DEF Finish, configVars
<1>8. /\ validate_spend(tx.saved[src], ledger[src], req.amount_in, tx.fee,
                        req.exact_out)
      /\ intermediates_restored(tx) /\ output_delivered(tx)
  BY <1>5 DEF settles
<1>9. req.signed /\ config.initialized /\ ~config.paused
  BY <1>5 DEF accepted, valid_config
<1> DEFINE before == IF tx = NoTx THEN ledger ELSE tx.saved
<1>10. before = tx.saved
  OBVIOUS
<1>11. Abstract!FeeOf(req) = tx.fee
  BY <1>5 DEF Abstract!FeeOf, Abstract!checked_fee, checked_fee
<1>12. Abstract!DebitDeclared(req, ledger)
  BY <1>8, <1>10, <1>11 DEF Abstract!DebitDeclared, validate_spend
<1>13. Abstract!FeePaid(req, ledger)
  <2> SUFFICES ASSUME tx.fee > 0
               PROVE  /\ IF req.fee_asset = 0 THEN dst = config.fee_recipient
                         ELSE /\ Holder[dst] = config.fee_recipient
                              /\ Mint[dst] = Mint[src]
                      /\ Holder[dst] # req.user /\ Mint[src] \notin TransferFeeMints
                            => ledger[dst] >= tx.saved[dst] + tx.fee
    BY <1>10, <1>11 DEF Abstract!FeePaid
  <2>1. IF req.fee_asset = 0 THEN dst = config.fee_recipient
        ELSE Holder[dst] = config.fee_recipient /\ Mint[dst] = Mint[src]
    BY <1>1, <1>3 DEF valid_fee_accounts
  <2>2. ASSUME Holder[dst] # req.user, Mint[src] \notin TransferFeeMints
        PROVE  ledger[dst] >= tx.saved[dst] + tx.fee
    <3>1. Holder[src] = req.user
      BY <1>3, <1>5, WalletsAreAccounts DEF accepted, valid_fee_source
    <3>2. FeeInto(tx, dst) = tx.fee
      BY <2>2, <3>1 DEF FeeInto, Source, Destination
    <3> QED
      BY <1>1, <1>3, <2>2, <3>2 DEF OthersWhole
  <2> QED
    BY <2>1, <2>2
<1>14. Abstract!OutputGained(req, ledger)
  <2> DEFINE fee_in == IF dst = out /\ Mint[src] \notin TransferFeeMints
                       THEN tx.fee ELSE 0
  <2>1. IF req.expected_mint = NativeMint THEN out = req.user
        ELSE Mint[out] = req.expected_mint
    BY <1>5 DEF accepted, validate_output
  <2>2. ASSUME req.min_amount_out > 0
        PROVE  out # src /\ ledger[out] >= tx.saved[out] + fee_in + req.min_amount_out
    <3>1. ledger[out] - tx.output_before >= req.min_amount_out
      BY <1>2, <1>3, <1>4, <1>8, <2>2 DEF output_delivered
    <3>2. ASSUME out = src PROVE FALSE
      <4>1. tx.output_before >= tx.saved[src] - tx.fee
        BY <1>1, <3>2 DEF Snapped, Source
      <4>2. ledger[src] - tx.output_before <= 0
        <5>1. tx.saved[src] \in Nat /\ ledger[src] \in Nat
          BY <1>3, <1>4
        <5>2. validate_spend(tx.saved[src], ledger[src], req.amount_in, tx.fee,
                             req.exact_out)
          BY <1>8
        <5>3. /\ tx.fee \in Nat /\ req.amount_in \in Nat /\ req.exact_out \in BOOLEAN
              /\ tx.output_before \in Nat
          BY <1>2, <1>3
        <5> HIDE DEF src, out, req
        <5>4. ASSUME NEW saved, saved = tx.saved[src], NEW now, now = ledger[src],
                     NEW snap, snap = tx.output_before
              PROVE  now - snap <= 0
          BY <1>6, <4>1, <5>1, <5>2, <5>3, <5>4, NoOutputFromInput
        <5> QED
          BY <5>4
      <4> QED
        BY <1>2, <1>3, <1>4, <2>2, <3>1, <3>2, <4>2
    <3>3. FeeInto(tx, out) = fee_in
      BY <3>2 DEF FeeInto, Source, Destination
    <3>4. tx.output_before >= tx.saved[out] + fee_in
      BY <1>1, <3>2, <3>3 DEF Snapped, Source
    <3>5. fee_in \in Nat
      BY <1>2
    <3> QED
      BY <1>2, <1>3, <1>4, <3>1, <3>2, <3>4, <3>5
  <2> QED
    BY <1>10, <1>11, <2>1, <2>2 DEF Abstract!OutputGained
<1>15. Abstract!OldBalancesKept(req, ledger)
  <2> SUFFICES ASSUME NEW i \in Hops(req), NEW a, a = req.intermediate[i]
               PROVE  /\ ledger[a] >= tx.saved[a]
                      /\ a # dst \/ tx.fee = 0 => ledger[a] = tx.saved[a]
    BY <1>10, <1>11 DEF Abstract!OldBalancesKept, Hops, Abstract!Hops
  <2>1. ledger[a] = tx.before[i]
    BY <1>8 DEF intermediates_restored
  <2> QED
    BY <1>1, <2>1 DEF Snapped, Destination
<1>16. Abstract!OthersKept(req, ledger)
  <2>1. \A a \in Accounts : FeeInto(tx, a) \in Nat
    BY <1>2 DEF FeeInto
  <2>2. \A a \in Accounts : Holder[a] # req.user => ledger[a] >= tx.saved[a]
    BY <1>1, <1>4, <2>1 DEF OthersWhole
  <2>3. \A a \in Accounts \ Abstract!Named(req) : ledger[a] = tx.saved[a]
    BY <1>1 DEF OthersWhole
  <2> QED
    BY <1>10, <2>2, <2>3 DEF Abstract!OthersKept
<1>17. Abstract!Settled(req, ledger)
  BY <1>9, <1>12, <1>13, <1>14, <1>15, <1>16 DEF Abstract!Settled
<1>18. (IF tx = NoTx THEN ledger ELSE tx.saved)' = ledger
  BY <1>7
<1>19. ledger \in Abstract!Ledgers
  BY <1>2 DEF Ledgers, Amounts, Abstract!Ledgers, Abstract!Amounts
<1> QED
  BY <1>7, <1>17, <1>18, <1>19 DEF Abstract!Trade

(* Every other step of a route is a stutter seen from AtomicTrade, where    *)
(* the balances are the saved ones, or refuses the trade.                   *)
LEMMA InFlightStutters ==
    ASSUME RouteTypeOK, tx # NoTx, RouteStep
    PROVE  \/ UNCHANGED Abstract!abstractVars
           \/ Abstract!Refuse
           \/ tx.pc = "settle" /\ settles(tx) /\ Finish(ledger, "committed")
<1>1. tx \in Running
  BY RunningParts
<1>2. ASSUME Revert PROVE Abstract!Refuse
  BY <1>2 DEF Revert, Finish, configVars, Abstract!Refuse
<1>4. CASE PayFee \/ SkipFee
  <2>1. tx' = [tx EXCEPT !.pc = "snapshot"] /\ config' = config
    BY <1>4 DEF PayFee, SkipFee, Continue, configVars
  <2>2. tx'.pc = "snapshot" /\ tx'.saved = tx.saved /\ tx'.req = tx.req
    BY <1>1, <2>1 DEF Running
  <2>3. tx' # NoTx
    BY <2>2 DEF NoTx
  <2> QED
    BY <2>1, <2>2, <2>3 DEF Abstract!abstractVars
<1>5. CASE Snapshot
  <2>1. CASE valid_intermediates(tx.req)
    <3>1. tx'.pc = "leg" /\ tx'.saved = tx.saved /\ tx'.req = tx.req
      BY <1>1, <1>5, <2>1 DEF Snapshot, Continue, Running
    <3>2. tx' # NoTx
      BY <3>1 DEF NoTx
    <3> QED
      BY <1>5, <2>1, <3>1, <3>2
      DEF Snapshot, Continue, configVars, Abstract!abstractVars
  <2>2. CASE ~valid_intermediates(tx.req)
    BY <1>2, <1>5, <2>2 DEF Snapshot
  <2> QED
    BY <2>1, <2>2
<1>6. CASE RunLeg
  <2>1. CASE Revert
    BY <1>2, <2>1
  <2>2. CASE ~Revert
    <3>1. /\ tx'.pc \in {"leg", "settle"} /\ tx'.saved = tx.saved
          /\ config' = config /\ tx'.req = tx.req
      BY <1>1, <1>6, <2>2 DEF RunLeg, Continue, Running, configVars
    <3>2. tx' # NoTx
      BY <3>1 DEF NoTx
    <3> QED
      BY <3>1, <3>2 DEF Abstract!abstractVars
  <2> QED
    BY <2>1, <2>2
<1>7. CASE FailFee \/ FailLeg
  BY <1>2, <1>7 DEF FailFee, FailLeg
<1>8. CASE Settle
  BY <1>2, <1>8 DEF Settle
<1> QED
  BY <1>4, <1>5, <1>6, <1>7, <1>8 DEF RouteStep

(* A configuration instruction is a Configure step of AtomicTrade. *)
LEMMA ConfigNextIsConfigure ==
    ASSUME RouteTypeOK, tx = NoTx, ConfigNext, UNCHANGED routeVars
    PROVE  Abstract!Configure
<1>1. config' \in ConfigType
  BY ConfigTyped DEF RouteTypeOK, ConfigTypeOK
<1>2. /\ config'.initialized
      /\ config.initialized => config'.authority = config.authority
  <2>1. CASE \E payer, recipient \in Wallets, bps \in BpsInputs :
               Initialize(payer, recipient, bps)
    BY <2>1 DEF Initialize
  <2>2. CASE \E signer, recipient \in Wallets, bps \in BpsInputs,
                paused, update_recipient \in BOOLEAN :
               UpdateConfig(signer, bps, paused, update_recipient, recipient)
    <3>1. config \in ConfigType
      BY DEF RouteTypeOK, ConfigTypeOK
    <3> QED
      BY <2>2, <3>1 DEF UpdateConfig, ConfigType
  <2> QED
    BY <2>1, <2>2 DEF ConfigNext
<1> QED
  BY <1>1, <1>2
  DEF Abstract!Configure, Abstract!ConfigType, ConfigType, routeVars

(* Router implements AtomicTrade: whatever programs the legs call and       *)
(* whatever those do to the accounts they are given, a route is one trade   *)
(* that settles as promised, or nothing.                                    *)
THEOREM Atomicity == Spec => TradesAreAtomic
<1>1. Init => Abstract!AtomicInit
  BY RouterConstants
  DEF Init, RouterInit, ConfigInit, Abstract!AtomicInit, Ledgers, Amounts,
      Abstract!Ledgers, Abstract!Amounts, Abstract!ConfigType
<1>2. IInv /\ [Next]_vars => [Abstract!AtomicNext]_(Abstract!abstractVars)
  <2> SUFFICES ASSUME IInv, [Next]_vars
               PROVE  Abstract!AtomicNext \/ UNCHANGED Abstract!abstractVars
    OBVIOUS
  <2>1. RouteTypeOK /\ (tx # NoTx => tx \in Running)
    BY RunningParts DEF IInv
  <2>2. CASE tx = NoTx /\ ConfigNext /\ UNCHANGED routeVars
    BY <2>1, <2>2, ConfigNextIsConfigure DEF Abstract!AtomicNext
  <2>3. ASSUME NEW req \in Requests, Start(req)
        PROVE  Abstract!AtomicNext
    <3>1. tx = NoTx /\ ledger' = ledger /\ config' = config
          /\ tx'.pc = "fee" /\ tx'.saved = ledger /\ tx'.req = req
      BY <2>3 DEF Start, Continue, configVars
    <3>2. tx' # NoTx
      BY <3>1 DEF NoTx
    <3>3. Abstract!Submit(req)
      BY <3>1, <3>2 DEF Abstract!Submit
    <3> QED
      BY <3>3 DEF Abstract!AtomicNext
  <2>4. ASSUME NEW req \in Requests, Reject(req)
        PROVE  UNCHANGED Abstract!abstractVars
    BY <2>4 DEF Reject, Finish, configVars, Abstract!abstractVars
  <2>5. CASE tx # NoTx /\ RouteStep
    <3>1. CASE tx.pc = "settle" /\ settles(tx) /\ Finish(ledger, "committed")
      <4>1. Abstract!Trade(tx.req)
        BY <2>5, <3>1, CommitIsTrade
      <4>2. tx.req \in Requests
        BY <2>1, <2>5, RunningParts
      <4> QED
        BY <4>1, <4>2 DEF Abstract!AtomicNext
    <3> QED
      BY <2>1, <2>5, <3>1, InFlightStutters DEF Abstract!AtomicNext
  <2>6. RouteStep => tx # NoTx
    <3>1. RouteStep => tx.pc \in {"fee", "snapshot", "leg", "settle"}
      BY DEF RouteStep, PayFee, SkipFee, FailFee, Snapshot, RunLeg, FailLeg, Settle
    <3> QED
      BY <3>1, NoTxIdle
  <2>7. CASE UNCHANGED vars
    BY <2>7 DEF vars, configVars, routeVars, Abstract!abstractVars
  <2> QED
    BY <2>2, <2>3, <2>4, <2>5, <2>6, <2>7 DEF Next
<1> QED
  BY <1>1, <1>2, Inductive, PTL DEF Spec, TradesAreAtomic, Abstract!AtomicSpec

(* Only the wallet that created the configuration ever changes it.          *)
THEOREM Control == Spec => ConfigControl
<1> DEFINE Kept == config.initialized =>
                     /\ config'.initialized
                     /\ config'.authority = config.authority
                     /\ config' # config => caller' = config.authority
<1>1. IInv /\ [Next]_vars => [Kept]_configVars
  <2> SUFFICES ASSUME IInv, [Next]_vars, ~UNCHANGED configVars PROVE Kept
    OBVIOUS
  <2>1. ConfigNext
    BY DEF Next, Start, Reject, RouteStep, PayFee, SkipFee, FailFee, Snapshot,
           RunLeg, FailLeg, Settle, Revert, Finish, Continue, vars
  <2>2. config \in ConfigType
    BY DEF IInv, RouteTypeOK, ConfigTypeOK
  <2> QED
    BY <2>1, <2>2 DEF ConfigNext, Initialize, UpdateConfig, ConfigType
<1> QED
  BY <1>1, Inductive, PTL DEF Spec, ConfigControl

-----------------------------------------------------------------------------
(* Honest legs.                                                             *)

(* An honest leg takes its amount from its input account and pays only into *)
(* its output account.                                                      *)
LEMMA HonestLegMoves ==
    ASSUME NEW t, NEW leg \in Leg, leg = t.req.legs[t.leg], leg.honest,
           NEW post \in LegPosts(t)
    PROVE  /\ After(post)[leg.input] = ledger[leg.input] - invoked_amount(t)
           /\ \A a \in Accounts \ {leg.input, leg.output} :
                 After(post)[a] = ledger[a]
<1>1. /\ DOMAIN post = leg.writable
      /\ HonestPost(leg, invoked_amount(t), ledger, post)
  BY DEF LegPosts
<1>2. leg.input \in Accounts
  BY DEF Leg
<1>3. /\ leg.input \in DOMAIN post
      /\ post[leg.input] = ledger[leg.input] - invoked_amount(t)
      /\ \A a \in leg.writable \ {leg.input, leg.output} : post[a] = ledger[a]
  BY <1>1, Zenon DEF HonestPost
<1> QED
  BY <1>1, <1>2, <1>3, Zenon DEF After

(* What a step that keeps the request and the fee keeps of a good build.    *)
LEMMA WellBuiltKept ==
    ASSUME SameRoute(tx, tx')
    PROVE  /\ WellBuilt(tx') <=> WellBuilt(tx)
           /\ Source(tx') = Source(tx) /\ Destination(tx') = Destination(tx)
  BY DEF SameRoute, WellBuilt, Source, Destination, HopOutput

(* A fee paid to another account leaves the input short of exactly the fee. *)
LEMMA HonestFee ==
    ASSUME IInv, tx # NoTx, PayFee \/ SkipFee
    PROVE  HonestProgress'
<1>1. /\ tx \in Running /\ tx.pc = "fee" /\ ledger = tx.saved /\ tx.leg = 1
      /\ tx.req \in Requests /\ tx.saved \in Ledgers
  BY RunningParts DEF IInv, RouteInv, PayFee, SkipFee
<1>2. tx' = [tx EXCEPT !.pc = "snapshot"]
  BY DEF PayFee, SkipFee, Continue
<1>3. /\ SameRoute(tx, tx') /\ tx'.pc = "snapshot" /\ tx'.leg = 1
      /\ tx'.saved = tx.saved /\ tx'.fee = tx.fee
  BY <1>1, <1>2 DEF Running, SameRoute
<1>4. Source(tx) \in Accounts /\ Destination(tx) \in Accounts
  BY <1>1, RequestParts DEF Source, Destination
<1>5. tx.saved[Source(tx)] \in Nat
  BY <1>1, <1>4, AmountsAreNat DEF Ledgers
<1>6. Destination(tx) # Source(tx)
        => ledger'[Source(tx)] = tx.saved[Source(tx)] - tx.fee
  <2>1. CASE PayFee
    <3>1. PICK withheld \in 0 .. tx.fee :
            ledger' = FeeTransferred(ledger, tx.req, tx.fee, withheld)
      BY <2>1 DEF PayFee, Continue
    <3> QED
      BY <1>1, <1>4, <3>1 DEF FeeTransferred, Source, Destination, Ledgers
  <2>2. CASE SkipFee
    <3>1. ledger' = tx.saved /\ tx.fee = 0
      BY <1>1, <2>2 DEF SkipFee, Continue
    <3> QED
      BY <1>5, <3>1
  <2> QED
    BY <2>1, <2>2
<1>7. PaidSoFar(tx') = tx.fee
  BY <1>3 DEF PaidSoFar
<1> QED
  BY <1>3, <1>6, <1>7, WellBuiltKept DEF HonestProgress

(* The snapshots see the intermediates as they are.                         *)
LEMMA HonestSnapshot ==
    ASSUME IInv, HonestProgress, tx # NoTx, Snapshot, valid_intermediates(tx.req)
    PROVE  HonestProgress'
<1> DEFINE old == [i \in 1 .. 2 |->
                     IF i \in Hops(tx.req) THEN ledger[tx.req.intermediate[i]]
                     ELSE 0]
<1>1. /\ tx \in Running /\ tx.pc = "snapshot" /\ tx.leg = 1
      /\ tx.req \in Requests
  BY RunningParts DEF IInv, RouteInv, Snapshot
<1>2. /\ tx' = [tx EXCEPT !.pc = "leg",
                          !.output_before = ledger[tx.req.user_output],
                          !.before = old]
      /\ ledger' = ledger
  BY DEF Snapshot, Continue
<1>3. /\ SameRoute(tx, tx') /\ tx'.pc = "leg" /\ tx'.leg = 1
      /\ tx'.saved = tx.saved /\ tx'.fee = tx.fee /\ tx'.req = tx.req
      /\ tx'.before = old
  BY <1>1, <1>2 DEF Running, SameRoute
<1>4. PaidSoFar(tx') = PaidSoFar(tx)
  BY <1>1, <1>3 DEF PaidSoFar
<1>5. \A i \in Hops(tx.req) : old[i] = ledger[tx.req.intermediate[i]]
  BY <1>1, RequestParts
<1>6. valid_intermediates(tx'.req)
  BY <1>3
<1> HIDE DEF old
<1> QED
  BY <1>1, <1>2, <1>3, <1>4, <1>5, <1>6, WellBuiltKept DEF HonestProgress

(* An honest leg of a well-built route pays what it was declared to pay and *)
(* leaves the intermediate it was fed from as the snapshot found it.        *)
LEMMA HonestRunLeg ==
    ASSUME IInv, HonestProgress, tx # NoTx, RunLeg, ~Revert,
           WellBuilt(tx), Destination(tx) # Source(tx)
    PROVE  HonestProgress'
<1> DEFINE leg == tx.req.legs[tx.leg]
           src == Source(tx)
           im  == tx.req.intermediate
<1>1. /\ tx \in Running /\ tx.pc = "leg" /\ tx.leg \in DOMAIN tx.req.legs
      /\ tx.req \in Requests /\ ledger \in Ledgers /\ tx.leg \in Nat \ {0}
      /\ tx.before \in [1 .. 2 -> Amounts] /\ tx.fee \in Nat
      /\ tx.saved \in Ledgers /\ Admitted(tx)
  BY RunningParts DEF IInv, RouteTypeOK, RouteInv, RunLeg
<1>2. PICK post \in LegPosts(tx) :
        Continue(After(post),
             [tx EXCEPT
                !.pc = IF tx.leg = Len(tx.req.legs) THEN "settle" ELSE @,
                !.leg = @ + 1,
                !.quote_received =
                   IF tx.leg <= tx.req.mode
                   THEN received_quote(tx, After(post)) ELSE @])
  BY DEF RunLeg, After
<1>3. /\ ledger' = After(post) /\ SameRoute(tx, tx') /\ tx'.req = tx.req
      /\ tx'.pc = IF tx.leg = Len(tx.req.legs) THEN "settle" ELSE "leg"
      /\ tx'.leg = tx.leg + 1 /\ tx'.before = tx.before /\ tx'.saved = tx.saved
  BY <1>1, <1>2 DEF Continue, Running, SameRoute
<1>4. /\ tx.req.legs \in Seq(Leg) /\ leg \in Leg /\ src \in Accounts
      /\ im \in [1 .. 2 -> Accounts] /\ Hops(tx.req) = 1 .. tx.req.mode
      /\ tx.req.mode \in 0 .. 2 /\ tx.req.amount_in \in Nat
  <2>1. /\ tx.req.legs \in Seq(Leg) /\ src \in Accounts
        /\ im \in [1 .. 2 -> Accounts]
        /\ tx.req.mode \in 0 .. 2 /\ tx.req.amount_in \in Nat
    BY <1>1, RequestParts, AmountsAreNat DEF Source, Modes
  <2>2. leg \in Leg
    BY <1>1, <2>1, SMT
  <2> QED
    BY <2>1, <2>2 DEF Hops
<1>5. /\ leg.honest
      /\ leg.output # src
      /\ tx.req.mode > 0 => leg.output = HopOutput(tx.req, tx.leg)
      /\ tx.leg > 1 => src \notin leg.writable
      /\ tx.leg = 1 => leg.input = src /\ leg.amount = tx.req.amount_in - tx.fee
  BY <1>1, <1>3 DEF WellBuilt, Source
<1>6. /\ ledger[src] = tx.saved[src] - PaidSoFar(tx)
      /\ valid_intermediates(tx.req)
      /\ \A i \in Hops(tx.req) \ {tx.leg - 1} : ledger[im[i]] = tx.before[i]
  BY <1>1 DEF HonestProgress
<1>7. /\ After(post)[leg.input] = ledger[leg.input] - invoked_amount(tx)
      /\ \A a \in Accounts \ {leg.input, leg.output} : After(post)[a] = ledger[a]
  BY <1>4, <1>5, HonestLegMoves
<1>8. /\ \A i \in Hops(tx.req) :
            im[i] \in Accounts /\ im[i] \notin {src, tx.req.user_output}
      /\ \A i, j \in Hops(tx.req) : i # j => im[i] # im[j]
  <2>1. \A i \in Hops(tx.req) : i \in 1 .. 2
    BY <1>4
  <2>2. tx.req.mode = 2 => im[1] # im[2]
    BY <1>6 DEF valid_intermediates
  <2>3. \A i, j \in Hops(tx.req) : i # j => tx.req.mode = 2
    BY <1>4
  <2>4. \A i \in Hops(tx.req) : im[i] \notin {src, tx.req.user_output}
    BY <1>6 DEF valid_intermediates, Source
  <2> QED
    BY <1>4, <2>1, <2>2, <2>3, <2>4
<1>9. ledger[src] \in Nat /\ tx.saved[src] \in Nat
  BY <1>1, <1>4, AmountsAreNat DEF Ledgers
<1>10. After(post)[src] = tx.saved[src] - tx.req.amount_in
  <2>1. CASE tx.leg = 1
    <3>1. invoked_amount(tx) = tx.req.amount_in - tx.fee
      BY <1>5, <2>1 DEF invoked_amount, Patched
    <3>2. ledger[src] = tx.saved[src] - tx.fee
      BY <1>6, <2>1 DEF PaidSoFar
    <3>3. After(post)[src] = ledger[src] - (tx.req.amount_in - tx.fee)
      BY <1>5, <1>7, <2>1, <3>1
    <3> HIDE DEF src
    <3> QED
      BY <1>1, <1>4, <1>9, <3>2, <3>3
  <2>2. CASE tx.leg # 1
    <3>1. ledger[src] = tx.saved[src] - tx.req.amount_in
      BY <1>6, <2>2 DEF PaidSoFar
    <3>2. src \notin DOMAIN post
      BY <1>1, <1>5, <2>2, AfterTyped
    <3> QED
      BY <1>4, <3>1, <3>2 DEF After
  <2> QED
    BY <2>1, <2>2
<1>11. ASSUME NEW i \in Hops(tx.req), i # tx.leg
       PROVE  After(post)[im[i]] = tx.before[i]
  <2>0. /\ im[i] \in Accounts /\ i \in 1 .. 2 /\ i <= tx.req.mode
        /\ tx.req.mode > 0
    BY <1>4, <1>8
  <2>1. leg.output = HopOutput(tx.req, tx.leg)
    BY <1>5, <2>0
  <2>2. im[i] # leg.output
    <3>1. CASE tx.leg <= tx.req.mode
      <4>1. leg.output = im[tx.leg] /\ tx.leg \in Hops(tx.req)
        BY <1>1, <1>4, <2>1, <3>1 DEF HopOutput
      <4> QED
        BY <1>8, <1>11, <4>1
    <3>2. CASE ~(tx.leg <= tx.req.mode)
      <4>1. leg.output = tx.req.user_output
        BY <2>1, <3>2 DEF HopOutput
      <4> QED
        BY <1>8, <4>1
    <3> QED
      BY <3>1, <3>2
  <2>3. CASE i = tx.leg - 1
    <3>1. tx.leg > 1 /\ Patched(tx.req, tx.leg)
      BY <1>1, <2>0, <2>3 DEF Patched
    <3>2. valid_patched_leg(tx.req, tx.leg)
      BY <3>1 DEF RunLeg, valid_leg
    <3>3. leg.input = im[i]
      BY <2>3, <3>2 DEF valid_patched_leg
    <3>4. invoked_amount(tx) = ledger[im[i]] - tx.before[i]
      BY <1>1, <2>3, <3>1 DEF IInv, HopsSpendOnlyDelivered
    <3>5. ledger[im[i]] \in Nat /\ tx.before[i] \in Nat
      BY <1>1, <2>0, AmountsAreNat DEF Ledgers
    <3>6. After(post)[im[i]] = ledger[im[i]] - (ledger[im[i]] - tx.before[i])
      BY <1>7, <3>3, <3>4
    <3> QED
      BY <3>5, <3>6
  <2>4. CASE i # tx.leg - 1
    <3>1. im[i] # leg.input
      <4>1. CASE tx.leg = 1
        BY <1>5, <1>8, <4>1
      <4>2. CASE tx.leg # 1
        <5>1. Patched(tx.req, tx.leg)
          BY <1>1, <2>0, <4>2 DEF Patched
        <5>2. leg.input = im[tx.leg - 1]
          BY <5>1 DEF RunLeg, valid_leg, valid_patched_leg
        <5>3. Len(tx.req.legs) = tx.req.mode + 1
          BY <1>1, <2>0 DEF Admitted, accepted, valid_header
        <5>4. tx.leg - 1 \in Hops(tx.req)
          BY <1>1, <1>4, <4>2, <5>3
        <5> QED
          BY <1>8, <2>4, <5>2, <5>4
      <4> QED
        BY <4>1, <4>2
    <3>2. After(post)[im[i]] = ledger[im[i]]
      BY <1>7, <2>0, <2>2, <3>1
    <3> QED
      BY <1>6, <2>4, <3>2
  <2> QED
    BY <2>3, <2>4
<1>12. PaidSoFar(tx') = tx.req.amount_in /\ tx'.leg - 1 = tx.leg
  BY <1>1, <1>3 DEF PaidSoFar
<1>13. /\ tx'.pc = "settle" => tx'.leg = Len(tx'.req.legs) + 1
       /\ Source(tx') = src
       /\ valid_intermediates(tx'.req)
       /\ \A i \in Hops(tx'.req) \ {tx'.leg - 1} :
             ledger'[tx'.req.intermediate[i]] = tx'.before[i]
  BY <1>3, <1>6, <1>11, <1>12, WellBuiltKept
<1> QED
  BY <1>3, <1>10, <1>12, <1>13 DEF HonestProgress

(* How far an honest route has come is kept by every step.                  *)
LEMMA HonestInductive ==
    /\ Init => HonestInv
    /\ HonestInv /\ [Next]_vars => HonestInv'
<1>1. ASSUME Init PROVE HonestInv
  BY <1>1, Inductive DEF Init, RouterInit, HonestInv, HonestProgress
<1>2. ASSUME HonestInv, [Next]_vars PROVE HonestInv'
  <2>1. IInv /\ HonestProgress
    BY <1>2 DEF HonestInv
  <2>2. IInv'
    BY <1>2, <2>1, Inductive
  <2> SUFFICES HonestProgress'
    BY <2>2 DEF HonestInv
  <2>3. ASSUME tx' = NoTx PROVE HonestProgress'
    BY <2>3 DEF HonestProgress
  <2>4. ASSUME NEW balances, NEW result, Finish(balances, result)
        PROVE  HonestProgress'
    BY <2>3, <2>4 DEF Finish
  <2>5. ASSUME Revert PROVE HonestProgress'
    BY <2>4, <2>5 DEF Revert
  <2>6. CASE tx = NoTx /\ ConfigNext /\ UNCHANGED routeVars
    BY <2>3, <2>6 DEF routeVars
  <2>7. ASSUME NEW req \in Requests, Start(req) PROVE HonestProgress'
    <3>1. tx'.pc = "fee"
      BY <2>7 DEF Start, Continue
    <3> QED
      BY <3>1 DEF HonestProgress
  <2>8. ASSUME NEW req \in Requests, Reject(req) PROVE HonestProgress'
    BY <2>4, <2>8 DEF Reject
  <2>9. CASE RouteStep
    <3>1. tx # NoTx
      <4>1. tx.pc \in {"fee", "snapshot", "leg", "settle"}
        BY <2>9 DEF RouteStep, PayFee, SkipFee, FailFee, Snapshot, RunLeg,
                    FailLeg, Settle
      <4> QED
        BY <4>1, NoTxIdle
    <3>2. CASE PayFee \/ SkipFee
      BY <2>1, <3>1, <3>2, HonestFee
    <3>3. CASE Snapshot
      <4>1. CASE valid_intermediates(tx.req)
        BY <2>1, <3>1, <3>3, <4>1, HonestSnapshot
      <4>2. CASE ~valid_intermediates(tx.req)
        BY <2>5, <3>3, <4>2 DEF Snapshot
      <4> QED
        BY <4>1, <4>2
    <3>4. CASE RunLeg
      <4>1. CASE Revert
        BY <2>5, <4>1
      <4>2. CASE ~Revert /\ WellBuilt(tx) /\ Destination(tx) # Source(tx)
        BY <2>1, <3>1, <3>4, <4>2, HonestRunLeg
      <4>3. CASE ~Revert /\ ~(WellBuilt(tx) /\ Destination(tx) # Source(tx))
        <5>1. SameRoute(tx, tx')
          <6>1. tx \in Running
            BY <2>1, <3>1, RunningParts DEF IInv
          <6> QED
            BY <3>4, <4>3, <6>1 DEF RunLeg, Continue, Running, SameRoute
        <5> QED
          BY <4>3, <5>1, WellBuiltKept DEF HonestProgress
      <4> QED
        BY <4>1, <4>2, <4>3
    <3>5. CASE FailFee \/ FailLeg
      BY <2>5, <3>5 DEF FailFee, FailLeg
    <3>6. CASE Settle
      BY <2>4, <2>5, <3>6 DEF Settle
    <3> QED
      BY <2>9, <3>2, <3>3, <3>4, <3>5, <3>6 DEF RouteStep
  <2>10. CASE UNCHANGED vars
    <3>1. tx' = tx /\ ledger' = ledger
      BY <2>10 DEF vars, routeVars
    <3>2. HonestProgress' = HonestProgress
      BY <3>1
      DEF HonestProgress, WellBuilt, Source, Destination, PaidSoFar, HopOutput,
          valid_intermediates, Hops
    <3> QED
      BY <2>1, <3>2
  <2> QED
    BY <1>2, <2>6, <2>7, <2>8, <2>9, <2>10 DEF Next
<1> QED
  BY <1>1, <1>2

(* The checks of the settlement hold for a well-built route that delivers:  *)
(* the exact spend, the restored intermediates and the end of the data.     *)
LEMMA HonestStepSettles ==
    ASSUME HonestInv, [Next]_vars
    PROVE  tx # NoTx /\ WellBuilt(tx)
              /\ tx.req.fee_destination # tx.req.fee_source => SettlesOrSlips
<1> SUFFICES ASSUME tx # NoTx, WellBuilt(tx),
                    tx.req.fee_destination # tx.req.fee_source,
                    tx.pc = "settle", tx' = NoTx, output_delivered(tx)
             PROVE  outcome' = "committed"
  BY DEF SettlesOrSlips
<1>1. /\ tx \in Running /\ tx.req \in Requests /\ tx.saved \in Ledgers
      /\ tx.fee_source_before = tx.saved[Source(tx)]
  BY RunningParts DEF HonestInv, IInv, RouteInv, Admitted
<1>2. /\ ledger[Source(tx)] = tx.saved[Source(tx)] - PaidSoFar(tx)
      /\ \A i \in Hops(tx.req) \ {tx.leg - 1} :
            ledger[tx.req.intermediate[i]] = tx.before[i]
      /\ tx.leg = Len(tx.req.legs) + 1
  BY DEF HonestInv, HonestProgress, Source, Destination
<1>3. valid_header(tx.req)
  BY DEF HonestInv, IInv, RouteInv, Admitted, accepted
<1>4. /\ tx.saved[Source(tx)] \in Nat /\ tx.req.amount_in \in Nat
      /\ tx.req.mode \in 0 .. 2 /\ tx.req.legs \in Seq(Leg)
  BY <1>1, RequestParts, AmountsAreNat DEF Source, Ledgers, Modes
<1>5. Len(tx.req.legs) \in Nat \ {0}
  BY <1>3, <1>4 DEF valid_header
<1>6. PaidSoFar(tx) = tx.req.amount_in
  BY <1>2, <1>5 DEF PaidSoFar
<1>7. tx.leg - 1 \notin Hops(tx.req)
  <2>1. tx.req.mode > 0 => Len(tx.req.legs) = tx.req.mode + 1
    BY <1>3 DEF valid_header
  <2> QED
    BY <1>2, <1>4, <1>5, <2>1 DEF Hops
<1>8. intermediates_restored(tx)
  BY <1>2, <1>7 DEF intermediates_restored
<1>9. /\ ~tx.req.exact_out /\ ~tx.req.trailing
  BY DEF WellBuilt
<1>10. validate_spend(tx.fee_source_before, ledger[tx.req.fee_source],
                      tx.req.amount_in, tx.fee, tx.req.exact_out)
  <2> DEFINE s == tx.saved[Source(tx)]
             n == tx.req.amount_in
  <2>1. ledger[tx.req.fee_source] = s - n /\ tx.fee_source_before = s
    BY <1>1, <1>2, <1>6 DEF Source
  <2>2. s - (s - n) = n
    BY <1>4
  <2> QED
    BY <1>9, <2>1, <2>2 DEF validate_spend
<1>11. settles(tx)
  BY <1>8, <1>9, <1>10 DEF settles
<1>12. Settle
  <2>1. ~UNCHANGED vars
    BY DEF vars, routeVars
  <2>2. /\ tx.pc # "fee" /\ tx.pc # "snapshot" /\ tx.pc # "leg"
    OBVIOUS
  <2> QED
    BY <2>1, <2>2
    DEF Next, Start, Reject, RouteStep, PayFee, SkipFee, FailFee, Snapshot,
        RunLeg, FailLeg
<1> QED
  BY <1>11, <1>12 DEF Settle, Finish

(* No settlement refuses a well-built trade that delivers its minimum: what *)
(* honest legs leave behind always passes validate_spend and the            *)
(* comparisons of the intermediate accounts.                                *)
THEOREM HonestRoutesSettle == Spec => HonestTradesSettle
<1>1. Spec => []HonestInv
  BY HonestInductive, PTL DEF Spec
<1>2. HonestInv /\ [Next]_vars
        => [tx # NoTx /\ WellBuilt(tx)
              /\ tx.req.fee_destination # tx.req.fee_source
                 => SettlesOrSlips]_vars
  BY HonestStepSettles
<1> QED
  BY <1>1, <1>2, PTL DEF Spec, HonestTradesSettle
=============================================================================
