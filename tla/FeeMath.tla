------------------------------- MODULE FeeMath -------------------------------
(***************************************************************************)
(* The client's arithmetic on the router fee: what is left to swap after    *)
(* the fee, the smallest input that leaves a given amount to swap, and the  *)
(* minimum output under a slippage tolerance.  The products are u128 in the *)
(* code and cannot overflow for u64 amounts.                                *)
(***************************************************************************)
EXTENDS Integers

CONSTANTS
    FEE_DENOM,          \* 10_000 in the code
    MAX_FEE_BPS,        \* 1_000 in the code
    MAX_SLIPPAGE_BPS    \* 9_999 in the code

Bps == 0 .. MAX_FEE_BPS

(* The fee the client nets out of an input, rounded down. *)
fee_amount(amount, bps) == (amount * bps) \div FEE_DENOM

spend_after_fee(amount, bps) == amount - fee_amount(amount, bps)

(* The smallest input whose rest after the fee is the amount to spend. *)
route_amount_in_for_spend(spend, bps) ==
    IF spend = 0 THEN 0
    ELSE ((spend - 1) * FEE_DENOM) \div (FEE_DENOM - bps) + 1

clamp_slippage_bps(slippage) ==
    IF slippage <= MAX_SLIPPAGE_BPS THEN slippage ELSE MAX_SLIPPAGE_BPS

(* A positive quote keeps a positive minimum. *)
apply_slippage_min_out(amount, slippage) ==
    LET out == (amount * (FEE_DENOM - clamp_slippage_bps(slippage)))
                  \div FEE_DENOM
    IN  IF amount # 0 /\ out = 0 THEN 1 ELSE out

ASSUME FeeConstants ==
    /\ FEE_DENOM \in Nat \ {0} /\ MAX_FEE_BPS \in Nat
    /\ MAX_SLIPPAGE_BPS \in Nat
    /\ MAX_FEE_BPS < FEE_DENOM /\ MAX_SLIPPAGE_BPS < FEE_DENOM
=============================================================================
