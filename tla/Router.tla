------------------------------- MODULE Router -------------------------------
(***************************************************************************)
(* The route instruction (process_inner), one step per thing it does to the *)
(* ledger: the checks before the fee, the fee transfer, the snapshots, one  *)
(* CPI per leg, the settlement.  The programs the legs call are the         *)
(* environment: a leg may leave any balances in the accounts it was given,  *)
(* within what the chain lets a program do.  Any error rolls the whole      *)
(* transaction back.  The runtime runs one instruction on these accounts at *)
(* a time, so the configuration changes only between two routes.            *)
(***************************************************************************)
EXTENDS RouterConfig

CONSTANT MaxLanded      \* bound: how many routes are processed

ASSUME RouterBound == MaxLanded \in Nat

VARIABLES
    ledger,             \* the balance of every account
    tx,                 \* the route being processed, or NoTx
    outcome,            \* of the last route: "none", "committed", "reverted"
    landed              \* how many routes were processed

routeVars == <<ledger, tx, outcome, landed>>
vars == <<configVars, routeVars>>

NoTx == [pc |-> "idle"]

(* The locals of process_inner that outlive a step; "saved" is the ledger   *)
(* the runtime restores when the instruction fails.                         *)
Running ==
    [ pc : {"fee", "snapshot", "leg", "settle"}, req : Requests,
      saved : Ledgers, fee : Nat, fee_source_before : Amounts,
      output_before : Amounts, before : [1 .. 2 -> Amounts],
      quote_received : Amounts, leg : Nat \ {0} ]

RouteTypeOK ==
    /\ ConfigTypeOK
    /\ ledger \in Ledgers
    /\ tx = NoTx \/ tx \in Running
    /\ outcome \in {"none", "committed", "reverted"}
    /\ landed \in 0 .. MaxLanded

-----------------------------------------------------------------------------
(* Checks made before any balance moves.                                    *)

valid_header(req) ==
    /\ req.amount_in # 0
    /\ Len(req.legs) \in 1 .. MAX_LEGS
    /\ req.mode > 0 =>
          /\ Len(req.legs) = req.mode + 1
          /\ req.fee_asset = 1 /\ ~req.exact_out
          /\ \A i \in Hops(req) : req.minimum[i] > 0
          /\ req.min_amount_out > 0

valid_config(req) ==
    /\ req.signed
    /\ req.config_pda
    /\ config.initialized
    /\ ~config.paused

validate_output(req) ==
    IF req.expected_mint = NativeMint
    THEN req.mode = 0 /\ req.user_output = req.user
    ELSE /\ is_token_program(Program[req.user_output])
         /\ Mint[req.user_output] = req.expected_mint
         /\ req.mode > 0 => Holder[req.user_output] = req.user

valid_fee_source(req) ==
    \/ req.fee_asset = 0 /\ req.fee_source = req.user
    \/ /\ req.fee_asset = 1
       /\ is_token_program(Program[req.fee_source])
       /\ Holder[req.fee_source] = req.user

(* Checks made only when there is a fee to pay. *)
valid_fee_accounts(req) ==
    \/ /\ req.fee_asset = 0
       /\ req.fee_program = SystemProgram
       /\ req.fee_destination = config.fee_recipient
    \/ /\ req.fee_asset = 1
       /\ is_token_program(req.fee_program)
       /\ req.fee_program = Program[req.fee_source]
       /\ Program[req.fee_destination] = Program[req.fee_source]
       /\ Holder[req.fee_destination] = config.fee_recipient
       /\ Mint[req.fee_destination] = Mint[req.fee_source]
       /\ req.fee_program = Token2022Program => req.fee_mint_meta # "invalid"

(* What the token or system program lets the fee transfer do.  Token-2022   *)
(* refuses a transfer without the mint when the mint withholds fees, and    *)
(* withholds part of it when it does not refuse.                            *)
TransferFeePossible(req, fee, withheld) ==
    /\ fee <= ledger[req.fee_source]
    /\ withheld \in 0 .. fee
    /\ Mint[req.fee_source] \notin TransferFeeMints => withheld = 0
    /\ Mint[req.fee_source] \in TransferFeeMints => req.fee_mint_meta = "valid"
    /\ req.fee_destination # req.fee_source =>
          ledger[req.fee_destination] + fee - withheld <= MAX_U64

(* A transfer to its own source moves nothing. *)
FeeTransferred(before, req, fee, withheld) ==
    IF req.fee_destination = req.fee_source THEN before
    ELSE [before EXCEPT ![req.fee_source] = @ - fee,
                        ![req.fee_destination] = @ + fee - withheld]

(* Intermediate accounts: tokens of the user, and none of them the account  *)
(* the input leaves, the output account or the other intermediate.          *)
valid_intermediates(req) ==
    /\ \A i \in Hops(req) :
          /\ is_token_program(Program[req.intermediate[i]])
          /\ Holder[req.intermediate[i]] = req.user
          /\ req.intermediate[i] \notin {req.fee_source, req.user_output}
    /\ req.mode = 2 => req.intermediate[1] # req.intermediate[2]

-----------------------------------------------------------------------------
(* Legs.                                                                    *)

(* Leg k > 1 of a dynamic route has its amount overwritten. *)
Patched(req, k) == req.mode > 0 /\ k > 1

(* The account leg k of a dynamic route must deliver to. *)
HopOutput(req, k) ==
    IF k <= req.mode THEN req.intermediate[k] ELSE req.user_output

(* The checks on a leg whose amount the router patches in: dynamic_second_leg *)
(* and validate_dynamic_accounts.                                             *)
valid_patched_leg(req, k) ==
    LET leg == req.legs[k]
    IN  /\ leg.recognised
        /\ req.mode = 2 => leg.amount = 0
        /\ k = 2 /\ req.mode = 2 => ~leg.launchlab
        /\ leg.user_signs
        /\ leg.input = req.intermediate[k - 1]
        /\ leg.output = HopOutput(req, k)
        /\ {leg.input, leg.output} \subseteq leg.writable
        /\ leg.mints_match

valid_first_leg(req) ==
    req.mode > 0 =>
        /\ req.intermediate[1] \in req.legs[1].writable
        /\ req.mode = 2 => req.intermediate[2] \notin req.legs[1].writable

valid_leg(req, k) ==
    /\ req.legs[k].parses
    /\ IF Patched(req, k) THEN valid_patched_leg(req, k)
       ELSE k = 1 => valid_first_leg(req)

(* A slip: the patch is made on the second leg only. *)
patched_once_amount(t) ==
    IF t.req.mode > 0 /\ t.leg = 2 THEN t.quote_received
    ELSE t.req.legs[t.leg].amount

(* The amount the called program reads from the instruction data. *)
invoked_amount(t) ==
    IF Patched(t.req, t.leg) THEN t.quote_received ELSE t.req.legs[t.leg].amount

(* An honest DEX takes exactly the amount it is told to and pays out, from  *)
(* and into accounts it may write.                                          *)
HonestPost(leg, amount, before, after) ==
    /\ {leg.input, leg.output} \subseteq DOMAIN after
    /\ amount <= before[leg.input]
    /\ after[leg.input] = before[leg.input] - amount
    /\ after[leg.output] >= before[leg.output]
    /\ \A a \in leg.writable \ {leg.input, leg.output} : after[a] = before[a]

(* What a CPI may leave in the accounts it was given: it can credit any of  *)
(* them, and debit only those of a user whose signature was passed on.      *)
LegPosts(t) ==
    LET leg == t.req.legs[t.leg]
    IN  { post \in [leg.writable -> Amounts] :
            /\ \A a \in leg.writable :
                  post[a] < ledger[a] => leg.user_signs /\ Holder[a] = t.req.user
            /\ leg.honest => HonestPost(leg, invoked_amount(t), ledger, post) }

(* received_quote, after every leg of a dynamic route but the last. *)
received_quote(t, after) ==
    after[t.req.intermediate[t.leg]] - t.before[t.leg]

(* A slip: the declared minimum is enforced after the first hop only. *)
enough_first_quote(t, after) ==
    t.leg = 1 /\ t.req.mode > 0 => received_quote(t, after) >= t.req.minimum[1]

enough_quote(t, after) ==
    t.leg <= t.req.mode => received_quote(t, after) >= t.req.minimum[t.leg]

-----------------------------------------------------------------------------
(* Settlement.                                                              *)

(* A slip: the fee charged on top of amount_in. *)
spend_on_top(before, after, amount_in, fee, exact_out) ==
    IF exact_out THEN before - after \in fee .. amount_in
    ELSE before - after = amount_in + fee

validate_spend(before, after, amount_in, fee, exact_out) ==
    IF exact_out THEN before - after \in fee .. amount_in
    ELSE before - after = amount_in

(* A slip: the second intermediate of three hops is forgotten. *)
first_restored(t) ==
    t.req.mode > 0 => ledger[t.req.intermediate[1]] = t.before[1]

intermediates_restored(t) ==
    \A i \in Hops(t.req) : ledger[t.req.intermediate[i]] = t.before[i]

output_delivered(t) ==
    LET received == ledger[t.req.user_output] - t.output_before
    IN  (IF received < 0 THEN 0 ELSE received) >= t.req.min_amount_out

settles(t) ==
    /\ t.req.mode > 0 => ~t.req.trailing
    /\ intermediates_restored(t)
    /\ validate_spend(t.fee_source_before, ledger[t.req.fee_source],
                      t.req.amount_in, t.fee, t.req.exact_out)
    /\ output_delivered(t)

-----------------------------------------------------------------------------
(* The steps of one route instruction.                                      *)

Finish(balances, result) ==
    /\ ledger' = balances
    /\ tx' = NoTx
    /\ outcome' = result
    /\ landed' = landed + 1
    /\ UNCHANGED configVars

Revert == Finish(tx.saved, "reverted")

Continue(balances, t) ==
    /\ ledger' = balances
    /\ tx' = t
    /\ UNCHANGED <<outcome, landed, configVars>>

accepted(req) ==
    /\ valid_header(req)
    /\ valid_config(req)
    /\ validate_output(req)
    /\ valid_fee_source(req)

Reject(req) ==
    /\ tx = NoTx /\ landed < MaxLanded
    /\ ~accepted(req)
    /\ Finish(ledger, "reverted")

Start(req) ==
    /\ tx = NoTx /\ landed < MaxLanded
    /\ accepted(req)
    /\ Continue(ledger,
         [ pc |-> "fee", req |-> req, saved |-> ledger,
           fee |-> checked_fee(req.amount_in, config.fee_bps),
           fee_source_before |-> ledger[req.fee_source],
           output_before |-> 0, before |-> [i \in 1 .. 2 |-> 0],
           quote_received |-> 0, leg |-> 1 ])

(* A slip: the fee accounts of the client are trusted. *)
PayFeeUnchecked ==
    /\ tx.pc = "fee" /\ tx.fee > 0
    /\ \E withheld \in 0 .. tx.fee :
          /\ TransferFeePossible(tx.req, tx.fee, withheld)
          /\ Continue(FeeTransferred(ledger, tx.req, tx.fee, withheld),
                      [tx EXCEPT !.pc = "snapshot"])

PayFee ==
    /\ tx.pc = "fee" /\ tx.fee > 0
    /\ valid_fee_accounts(tx.req)
    /\ \E withheld \in 0 .. tx.fee :
          /\ TransferFeePossible(tx.req, tx.fee, withheld)
          /\ Continue(FeeTransferred(ledger, tx.req, tx.fee, withheld),
                      [tx EXCEPT !.pc = "snapshot"])

SkipFee ==
    /\ tx.pc = "fee" /\ tx.fee = 0
    /\ Continue(ledger, [tx EXCEPT !.pc = "snapshot"])

FailFee ==
    /\ tx.pc = "fee" /\ tx.fee > 0
    /\ \/ ~valid_fee_accounts(tx.req)
       \/ \A withheld \in 0 .. tx.fee :
             ~TransferFeePossible(tx.req, tx.fee, withheld)
    /\ Revert

(* A slip: the balances are read before the fee is paid. *)
SnapshotBeforeFee ==
    /\ tx.pc = "snapshot"
    /\ IF valid_intermediates(tx.req)
       THEN Continue(ledger,
              [tx EXCEPT
                 !.pc = "leg",
                 !.output_before = tx.saved[tx.req.user_output],
                 !.before = [i \in 1 .. 2 |->
                      IF i \in Hops(tx.req) THEN tx.saved[tx.req.intermediate[i]]
                      ELSE 0]])
       ELSE Revert

Snapshot ==
    /\ tx.pc = "snapshot"
    /\ IF valid_intermediates(tx.req)
       THEN Continue(ledger,
              [tx EXCEPT
                 !.pc = "leg",
                 !.output_before = ledger[tx.req.user_output],
                 !.before = [i \in 1 .. 2 |->
                      IF i \in Hops(tx.req) THEN ledger[tx.req.intermediate[i]]
                      ELSE 0]])
       ELSE Revert

RunLeg ==
    /\ tx.pc = "leg"
    /\ valid_leg(tx.req, tx.leg)
    /\ \E post \in LegPosts(tx) :
         LET after == [a \in Accounts |->
                         IF a \in DOMAIN post THEN post[a] ELSE ledger[a]]
         IN  IF enough_quote(tx, after)
             THEN Continue(after,
                    [tx EXCEPT
                       !.pc = IF tx.leg = Len(tx.req.legs) THEN "settle" ELSE @,
                       !.leg = @ + 1,
                       !.quote_received =
                          IF tx.leg <= tx.req.mode
                          THEN received_quote(tx, after) ELSE @])
             ELSE Revert

(* The leg does not parse, fails a check of the router or its program fails. *)
FailLeg ==
    /\ tx.pc = "leg"
    /\ \/ ~valid_leg(tx.req, tx.leg)
       \/ ~tx.req.legs[tx.leg].honest
       \/ LegPosts(tx) = {}
    /\ Revert

Settle ==
    /\ tx.pc = "settle"
    /\ IF settles(tx) THEN Finish(ledger, "committed") ELSE Revert

RouteStep ==
    \/ PayFee \/ SkipFee \/ FailFee \/ Snapshot \/ RunLeg \/ FailLeg \/ Settle

RouterInit(balances) ==
    /\ ConfigInit
    /\ ledger \in balances
    /\ tx = NoTx
    /\ outcome = "none"
    /\ landed = 0

Init == RouterInit(Ledgers)

Next ==
    \/ tx = NoTx /\ ConfigNext /\ UNCHANGED routeVars
    \/ \E req \in Requests : Start(req) \/ Reject(req)
    \/ RouteStep

Spec == Init /\ [][Next]_vars

-----------------------------------------------------------------------------

(* A route is one indivisible trade: seen from outside, the balances are    *)
(* those before the instruction until it commits.                           *)
Abstract ==
    INSTANCE AtomicTrade WITH
        bal <- IF tx = NoTx THEN ledger ELSE tx.saved, cfg <- config,
        pending <- IF tx = NoTx THEN {} ELSE {tx.req}

(* Whatever the called programs do, every trade the router lets commit      *)
(* settles as AtomicTrade promises, and a failed one leaves no trace        *)
(* (process_inner as a whole, and the rollback of a failed instruction).    *)
TradesAreAtomic == Abstract!AtomicSpec

(* When a later hop of a dynamic route is about to run, the amount the      *)
(* router patches into it is what the hop before delivered on top of the    *)
(* user's old balance, and it is at least the declared minimum: the old     *)
(* balance is not offered to the hop (received_quote and                    *)
(* patch_second_leg_amount).                                                *)
HopsSpendOnlyDelivered ==
    tx # NoTx /\ tx.pc = "leg" /\ Patched(tx.req, tx.leg) =>
        LET a == tx.req.intermediate[tx.leg - 1]
        IN  /\ invoked_amount(tx) = ledger[a] - tx.before[tx.leg - 1]
            /\ invoked_amount(tx) >= tx.req.minimum[tx.leg - 1]
            /\ invoked_amount(tx) > 0

(* A route built as the SDK builds it: the first leg spends the input after *)
(* the fee, later legs do not touch the input account, and every called DEX *)
(* does what it is told.                                                    *)
WellBuilt(t) ==
    LET req == t.req
    IN  /\ ~req.exact_out /\ ~req.trailing
        /\ req.legs[1].input = req.fee_source
        /\ req.legs[1].amount = req.amount_in - t.fee
        /\ \A k \in DOMAIN req.legs :
              /\ req.legs[k].honest
              /\ req.mode > 0 => req.legs[k].output = HopOutput(req, k)
              /\ req.legs[k].output # req.fee_source
              /\ k > 1 => req.fee_source \notin req.legs[k].writable

SettlesOrSlips ==
    tx.pc = "settle" /\ tx' = NoTx /\ output_delivered(tx)
        => outcome' = "committed"

(* The router never rejects at settlement a well-built trade with enough    *)
(* output, when the fee leaves the input account: its spend and             *)
(* intermediate checks fail only for legs that misbehave (validate_spend,   *)
(* IntermediateNotSpent).                                                   *)
HonestTradesSettle ==
    [][tx # NoTx /\ WellBuilt(tx) /\ tx.req.fee_destination # tx.req.fee_source
          => SettlesOrSlips]_vars

(* "Use your own wallet as a placeholder" for fee_recipient and "keep the   *)
(* reserved recipient ... and set e.g. fee_bps = 50" (README.md:311-315):   *)
(* well-built trades go through whoever the fee recipient is, the trader    *)
(* himself included.                                                        *)
AnyRecipientTradesSettle ==
    [][tx # NoTx /\ WellBuilt(tx) => SettlesOrSlips]_vars

-----------------------------------------------------------------------------
(* The inductive invariant of the proofs: a running route has passed the    *)
(* checks before the fee, and how far the ledger is from the saved one.     *)

Source(t) == t.req.fee_source
Destination(t) == t.req.fee_destination

(* What the fee transfer adds to an account, when it arrives in full. *)
FeeInto(t, a) ==
    IF /\ a = Destination(t) /\ a # Source(t)
       /\ Mint[Source(t)] \notin TransferFeeMints
    THEN t.fee ELSE 0

Admitted(t) ==
    /\ accepted(t.req)
    /\ t.fee = checked_fee(t.req.amount_in, config.fee_bps)
    /\ t.fee_source_before = t.saved[Source(t)]
    /\ t.pc # "fee" /\ t.fee > 0 => valid_fee_accounts(t.req)

(* The ledger between the fee and the first leg. *)
OnlyFeeMoved(t, now) ==
    /\ now[Source(t)] >= t.saved[Source(t)] - t.fee
    /\ \A a \in Accounts \ {Source(t)} :
          /\ now[a] >= t.saved[a] + FeeInto(t, a)
          /\ a # Destination(t) \/ t.fee = 0 => now[a] = t.saved[a]
    /\ t.fee = 0 => now = t.saved

(* The snapshots are those of a ledger in which only the fee moved. *)
Snapped(t) ==
    LET out == t.req.user_output
    IN  /\ out = Source(t) => t.output_before >= t.saved[out] - t.fee
        /\ out # Source(t) => t.output_before >= t.saved[out] + FeeInto(t, out)
        /\ \A i \in Hops(t.req) :
              LET a == t.req.intermediate[i]
              IN  /\ t.before[i] >= t.saved[a]
                  /\ a # Destination(t) \/ t.fee = 0
                        => t.before[i] = t.saved[a]

(* What no leg can undo: other wallets keep what they had and the fee, and  *)
(* accounts the instruction does not name keep their balance.               *)
OthersWhole(t, now) ==
    /\ \A a \in Accounts :
          Holder[a] # t.req.user => now[a] >= t.saved[a] + FeeInto(t, a)
    /\ \A a \in Accounts \ Abstract!Named(t.req) : now[a] = t.saved[a]

(* A route in flight has moved the ledger no further than its stage allows: *)
(* every snapshot process_inner compares with at the end is one of a ledger *)
(* in which only the fee had moved, and no leg so far took anything from    *)
(* another wallet, the recipient of the fee included.                       *)
RouteInv ==
    tx # NoTx =>
        /\ landed < MaxLanded
        /\ Admitted(tx)
        /\ tx.pc = "fee" => ledger = tx.saved
        /\ tx.pc = "snapshot" => OnlyFeeMoved(tx, ledger)
        /\ tx.pc \in {"leg", "settle"} => Snapped(tx)
        /\ tx.pc \in {"fee", "snapshot"} => tx.leg = 1
        /\ tx.pc = "leg" => tx.leg \in DOMAIN tx.req.legs
        /\ tx.pc # "fee" => OthersWhole(tx, ledger)

IInv == RouteTypeOK /\ RouteInv /\ HopsSpendOnlyDelivered

(* What the input account has paid once the fee is gone: the first leg      *)
(* spends the rest of amount_in.                                            *)
PaidSoFar(t) == IF t.leg = 1 THEN t.fee ELSE t.req.amount_in

(* How far a well-built route has come: its input has paid exactly what     *)
(* validate_spend will ask for, and an intermediate account holds more than *)
(* its snapshot only between the hop that fills it and the next one.        *)
HonestProgress ==
    tx # NoTx /\ WellBuilt(tx) /\ Destination(tx) # Source(tx) =>
        /\ tx.pc # "fee" =>
              ledger[Source(tx)] = tx.saved[Source(tx)] - PaidSoFar(tx)
        /\ tx.pc \in {"leg", "settle"} =>
              /\ valid_intermediates(tx.req)
              /\ \A i \in Hops(tx.req) \ {tx.leg - 1} :
                    ledger[tx.req.intermediate[i]] = tx.before[i]
        /\ tx.pc = "settle" => tx.leg = Len(tx.req.legs) + 1

HonestInv == IInv /\ HonestProgress
=============================================================================
