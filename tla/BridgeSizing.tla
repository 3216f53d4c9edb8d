---------------------------- MODULE BridgeSizing ----------------------------
(***************************************************************************)
(* How a buy through a bridge into a LaunchLab pool is sized                *)
(* (buy_via_bridge_launchlab).  The first hop is quoted with all the caller *)
(* has to spend; if the curve is close to graduation and takes less, the    *)
(* first hop is shrunk to the least input that still reaches what the curve *)
(* takes.  For a CPMM bridge that input is searched for (cpmm_in_for_out):  *)
(* first the largest input the vault can hold, then an upper end that is    *)
(* enough, then the least one by bisection.                                 *)
(***************************************************************************)
EXTENDS Quotes

CONSTANTS
    Bridges,        \* snapshots of bridge pools, seen from the WSOL side
    Pools,          \* snapshots of LaunchLab pools
    Spends,         \* what callers have to spend after the router fee
    SLACK,          \* 10_000 in the code
    WIDTH           \* bits of an amount, 64 in the code

Bridge == [ kind : {"cpmm"}, side : CpmmSide ]
            \cup [ kind : {"amm_v4"}, side : AmmV4Side ]

VARIABLES
    ask,            \* bridge, pool and amount of the call, or NoAsk
    pc,             \* where the computation is
    target,         \* what the curve takes, in tokens of its quote mint
    lo, hi,         \* the ends of the search
    max_input,      \* the largest input that fits the bridge's vault
    plan,           \* the two hops, or NoPlan
    rounds          \* how often the loops of the search went round

vars == <<ask, pc, target, lo, hi, max_input, plan, rounds>>

NoAsk == [spend |-> 0]
NoPlan == [wsol |-> 0]

Asks == [bridge : Bridges, pool : Pools, spend : Spends]

bridge == ask.bridge.side

(* bridge_quote_out *)
bridge_quotable(b, amount) ==
    IF b.kind = "cpmm" THEN cpmm_quotable(b.side, amount)
    ELSE amm_v4_quotable(b.side, amount)

bridge_quote_out(b, amount) ==
    IF b.kind = "cpmm" THEN cpmm_out(b.side, amount)
    ELSE raydium_amm_v4_out(b.side, amount)

(* What the pool of the call takes of an amount of its quote mint. *)
takes(amount) == launchlab_amount_in(ask.pool, amount)

-----------------------------------------------------------------------------

quotable(a) ==
    /\ bridge_quotable(a.bridge, a.spend)
    /\ launchlab_quotable(a.pool, bridge_quote_out(a.bridge, a.spend))

Ask ==
    /\ pc = "idle"
    /\ ask' \in Asks
    /\ pc' = IF quotable(ask') THEN "quote" ELSE "refused"
    /\ UNCHANGED <<target, lo, hi, max_input, plan, rounds>>

(* The two hops for an input: the first must deliver what it was quoted,    *)
(* as far as the curve takes it, and the second spends exactly that.        *)
hops(wsol, offered) ==
    LET taken == takes(offered)
    IN  [ wsol |-> wsol, hop1_min |-> taken, hop2_in |-> taken,
          meme_out |-> launchlab_amount_out(ask.pool, taken) ]

(* The curve takes everything the first hop is quoted to deliver. *)
TakeAll ==
    LET provisional == bridge_quote_out(ask.bridge, ask.spend)
    IN  /\ pc = "quote"
        /\ takes(provisional) = provisional
        /\ plan' = hops(ask.spend, provisional)
        /\ pc' = "done"
        /\ UNCHANGED <<ask, target, lo, hi, max_input, rounds>>

(* The curve takes less: the bridge is asked for the input that delivers    *)
(* it.  A Raydium V4 pool has a closed form, a CPMM pool is searched.       *)
Shrink ==
    LET provisional == bridge_quote_out(ask.bridge, ask.spend)
        taken == takes(provisional)
    IN  /\ pc = "quote"
        /\ taken < provisional
        /\ taken > 0 /\ taken < bridge.output_reserve
        /\ target' = taken
        /\ IF ask.bridge.kind = "cpmm"
           THEN /\ cpmm_quotable(bridge, 1)
                /\ pc' = "capacity" /\ lo' = 0 /\ hi' = MAX_U64
           ELSE LET wsol == raydium_amm_v4_in_for_out(bridge, taken)
                IN  /\ wsol <= MAX_U64 /\ amm_v4_quotable(bridge, wsol)
                    /\ raydium_amm_v4_out(bridge, wsol) >= taken
                    /\ pc' = "sized" /\ lo' = wsol /\ hi' = wsol
        /\ UNCHANGED <<ask, max_input, plan, rounds>>

(* A slip: the pool's fees are taken to be gone before the vault is paid. *)
capacity_of_net ==
    AtMost(MAX_U64 - bridge.input_reserve,
           curve_in(bridge.input_reserve, bridge.output_reserve, target))

(* What the bridge's vault can still be credited. *)
capacity == MAX_U64 - bridge.input_reserve

Capacity ==
    LET mid == lo + (hi - lo) \div 2 + ((hi - lo) % 2)
    IN  /\ pc = "capacity" /\ lo < hi
        /\ IF after_transfer(bridge.input_fee, mid) <= capacity
           THEN lo' = mid /\ UNCHANGED hi
           ELSE hi' = mid - 1 /\ UNCHANGED lo
        /\ rounds' = rounds + 1
        /\ UNCHANGED <<ask, pc, target, max_input, plan>>

(* A slip: the upper end is not held to an amount, nor to the vault. *)
upper_end_open(low, largest) == 2 * low + SLACK

(* Where the search for an input that is enough starts. *)
upper_end(low, largest) == AtMost(AtMost(2 * low + SLACK, MAX_U64), largest)

StartSearch ==
    /\ pc = "capacity" /\ lo = hi
    /\ max_input' = lo
    /\ lo > 0 /\ cpmm_out(bridge, lo) >= target
    /\ naive_in(bridge, target) <= MAX_U64
    /\ lo' = naive_in(bridge, target)
    /\ hi' = upper_end(naive_in(bridge, target), lo)
    /\ pc' = "reach"
    /\ UNCHANGED <<ask, target, plan, rounds>>

Reach ==
    /\ pc = "reach"
    /\ IF cpmm_out(bridge, hi) < target
       THEN /\ hi' = AtMost(AtLeast(AtMost(2 * hi, MAX_U64),
                                    AtMost(hi + 1, MAX_U64)), max_input)
            /\ UNCHANGED pc
       ELSE pc' = "narrow" /\ UNCHANGED hi
    /\ rounds' = rounds + 1
    /\ UNCHANGED <<ask, target, lo, max_input, plan>>

(* A slip: an end that is enough is thrown away with those that are not. *)
NarrowBelow ==
    LET mid == lo + (hi - lo) \div 2
    IN  /\ pc = "narrow"
        /\ IF lo < hi
           THEN /\ IF cpmm_out(bridge, mid) >= target
                   THEN hi' = AtLeast(lo, mid - 1) /\ UNCHANGED lo
                   ELSE lo' = mid + 1 /\ UNCHANGED hi
                /\ UNCHANGED pc
           ELSE pc' = "sized" /\ UNCHANGED <<lo, hi>>
        /\ rounds' = rounds + 1
        /\ UNCHANGED <<ask, target, max_input, plan>>

(* A slip: an end that is not enough is kept. *)
NarrowKeeping ==
    LET mid == lo + (hi - lo) \div 2
    IN  /\ pc = "narrow"
        /\ IF lo < hi
           THEN /\ IF cpmm_out(bridge, mid) >= target
                   THEN hi' = mid /\ UNCHANGED lo
                   ELSE lo' = mid /\ UNCHANGED hi
                /\ UNCHANGED pc
           ELSE pc' = "sized" /\ UNCHANGED <<lo, hi>>
        /\ rounds' = rounds + 1
        /\ UNCHANGED <<ask, target, max_input, plan>>

Narrow ==
    LET mid == lo + (hi - lo) \div 2
    IN  /\ pc = "narrow"
        /\ IF lo < hi
           THEN /\ IF cpmm_out(bridge, mid) >= target
                   THEN hi' = mid /\ UNCHANGED lo
                   ELSE lo' = mid + 1 /\ UNCHANGED hi
                /\ UNCHANGED pc
           ELSE pc' = "sized" /\ UNCHANGED <<lo, hi>>
        /\ rounds' = rounds + 1
        /\ UNCHANGED <<ask, target, max_input, plan>>

(* A slip: the second hop is to spend all that the first one delivers. *)
ReplanDelivered ==
    LET delivered == bridge_quote_out(ask.bridge, lo)
    IN  /\ pc = "sized"
        /\ plan' = [ hops(lo, delivered) EXCEPT !.hop1_min = delivered,
                                                !.hop2_in = delivered ]
        /\ pc' = "done"
        /\ UNCHANGED <<ask, target, lo, hi, max_input, rounds>>

(* The first hop's input is known: both hops are quoted again for it. *)
Replan ==
    LET delivered == bridge_quote_out(ask.bridge, lo)
    IN  /\ pc = "sized"
        /\ plan' = hops(lo, AtMost(delivered, target))
        /\ pc' = "done"
        /\ UNCHANGED <<ask, target, lo, hi, max_input, rounds>>

(* The errors of the inverse. *)
unsizable ==
    LET provisional == bridge_quote_out(ask.bridge, ask.spend)
        taken == takes(provisional)
        wsol == raydium_amm_v4_in_for_out(bridge, taken)
    IN  /\ pc = "quote" /\ taken < provisional
        /\ \/ taken = 0 \/ taken >= bridge.output_reserve
           \/ IF ask.bridge.kind = "cpmm" THEN ~cpmm_quotable(bridge, 1)
              ELSE \/ wsol > MAX_U64 \/ ~amm_v4_quotable(bridge, wsol)
                   \/ raydium_amm_v4_out(bridge, wsol) < taken

unreachable ==
    /\ pc = "capacity" /\ lo = hi
    /\ \/ lo = 0 \/ cpmm_out(bridge, lo) < target
       \/ naive_in(bridge, target) > MAX_U64

Refuse ==
    /\ unsizable \/ unreachable
    /\ pc' = "refused"
    /\ UNCHANGED <<ask, target, lo, hi, max_input, plan, rounds>>

Init ==
    /\ ask = NoAsk /\ pc = "idle" /\ target = 0
    /\ lo = 0 /\ hi = 0 /\ max_input = 0
    /\ plan = NoPlan /\ rounds = 0

Compute ==
    \/ TakeAll \/ Shrink \/ Capacity \/ StartSearch \/ Reach \/ Narrow
    \/ Replan \/ Refuse

(* The call returns, and its locals are gone. *)
Return ==
    /\ pc \in {"done", "refused"}
    /\ ask' = NoAsk /\ pc' = "idle" /\ target' = 0
    /\ lo' = 0 /\ hi' = 0 /\ max_input' = 0
    /\ plan' = NoPlan /\ rounds' = 0

Next == Ask \/ Compute \/ Return

Spec == Init /\ [][Next]_vars

-----------------------------------------------------------------------------

Plan == [ wsol : Amounts, hop1_min : Amounts, hop2_in : Amounts,
          meme_out : Nat ]

(* Every local is a u64, no difference of the ends wraps, and no quote of   *)
(* the search is asked of an input that the vault could not hold, which     *)
(* would be an error in the middle of it.                                   *)
TypeOK ==
    /\ ask \in Asks \cup {NoAsk}
    /\ pc \in {"idle", "quote", "capacity", "reach", "narrow", "sized", "done",
               "refused"}
    /\ pc # "idle" => ask \in Asks
    /\ target \in Amounts /\ lo \in Amounts /\ hi \in Amounts
    /\ max_input \in Amounts
    /\ lo <= hi
    /\ pc \in {"reach", "narrow"} => hi <= max_input
    /\ plan \in Plan \cup {NoPlan}
    /\ rounds \in Nat

enough(wsol) == bridge_quote_out(ask.bridge, wsol) >= target

(* The inverse is exact: the input it returns is enough, and one unit less  *)
(* is not.  More would be left over as quote tokens, less would fail the    *)
(* first hop (cpmm_in_for_out, raydium_amm_v4_in_for_out).                  *)
LeastInput ==
    pc = "sized" =>
        /\ enough(lo)
        /\ \A wsol \in 1 .. lo - 1 : ~enough(wsol)

(* The two hops agree with each other and with the caller: the first costs  *)
(* no more than there is to spend and is quoted to deliver its minimum, the *)
(* second spends exactly that minimum, and the curve takes all of it, when  *)
(* it clamps as well as when it does not (buy_via_bridge_launchlab).        *)
HopsAgree ==
    pc = "done" =>
        /\ plan.wsol \in 1 .. ask.spend
        /\ bridge_quote_out(ask.bridge, plan.wsol) >= plan.hop1_min
        /\ plan.hop2_in = plan.hop1_min
        /\ takes(plan.hop2_in) = plan.hop2_in

(* Shrinking the first hop loses nothing: a clamped buy still gets all that *)
(* the curve has left, as the larger one would have.                        *)
ShrunkBuysAsMuch ==
    pc = "done" =>
        plan.meme_out = launchlab_amount_out(ask.pool,
                            bridge_quote_out(ask.bridge, ask.spend))

(* A buy that can be quoted can be sized: the errors of the inverse         *)
(* ("unreachable within token vault capacity", "cannot reach target") are   *)
(* never seen, except on a curve that has nothing left to sell.             *)
OnlyGraduatedRefused ==
    pc = "refused" =>
        \/ ~quotable(ask)
        \/ takes(bridge_quote_out(ask.bridge, ask.spend)) = 0

(* No loop of the search runs for ever, and all three together go round at  *)
(* most three times for every bit of an amount, the three tests that end    *)
(* them included: the bisections halve what is left and the doubling cannot *)
(* outgrow an amount (the while loops of cpmm_in_for_out).                  *)
SearchIsShort == rounds <= 3 * WIDTH + 2

ASSUME BridgeSizingConstants ==
    /\ Bridges \subseteq Bridge
    /\ Pools \subseteq LaunchLabPool
    /\ Spends \subseteq Amounts
    /\ SLACK \in Nat

(* An amount fits its bits.  What doubles a power of two is arithmetic, and *)
(* stated for the proofs, which have no induction on exponents.             *)
ASSUME BridgeSizingWidth ==
    /\ WIDTH \in Nat /\ MAX_U64 < 2^WIDTH
    /\ \A n \in 0 .. WIDTH : 2^n \in Nat
    /\ 2^0 = 1 /\ \A n \in 0 .. WIDTH - 1 : 2^(n + 1) = 2 * 2^n
=============================================================================
