---------------------------- MODULE FeeMathProofs ----------------------------
(***************************************************************************)
(* Facts about FeeMath for every amount and every rate.                     *)
(***************************************************************************)
EXTENDS FeeMath, TLAPS

(* Division rounds down: the facts about \div the proofs below rest on.     *)
LEMMA Floor ==
    ASSUME NEW n \in Nat, NEW d \in Nat \ {0}
    PROVE  /\ n \div d \in Nat
           /\ d * (n \div d) <= n
           /\ n < d * (n \div d) + d
  BY SMT

(* The quotient is the only number whose multiples frame the dividend.      *)
LEMMA FloorUnique ==
    ASSUME NEW n \in Nat, NEW d \in Nat \ {0}, NEW q \in Nat,
           d * q <= n, n < d * q + d
    PROVE  n \div d = q
<1> DEFINE p == n \div d
<1>1. p \in Nat /\ d * p <= n /\ n < d * p + d
  BY Floor
<1> HIDE DEF p
<1>2. CASE p < q
  <2>1. d * (p + 1) <= d * q
    BY <1>1, <1>2, SMT
  <2> QED
    BY <1>1, <2>1, SMT
<1>3. CASE q < p
  <2>1. d * (q + 1) <= d * p
    BY <1>1, <1>3, SMT
  <2> QED
    BY <1>1, <2>1, SMT
<1>4. p = q
  BY <1>1, <1>2, <1>3, SMT
<1> QED
  BY <1>4 DEF p

(* A quotient is at most k when k + 1 multiples exceed the dividend.        *)
LEMMA FloorBelow ==
    ASSUME NEW n \in Nat, NEW d \in Nat \ {0}, NEW k \in Nat, n < d * k + d
    PROVE  n \div d <= k
<1> DEFINE q == n \div d
<1>1. q \in Nat /\ d * q <= n
  BY Floor
<1> HIDE DEF q
<1>2. SUFFICES ASSUME k + 1 <= q PROVE FALSE
  BY <1>1, SMT DEF q
<1>3. d * (k + 1) <= d * q /\ d * (k + 1) = d * k + d
  BY <1>1, <1>2, SMT
<1> QED
  BY <1>1, <1>3, SMT

(* A quotient rounded up is a natural number, and at most k when k          *)
(* multiples reach the dividend.                                            *)
LEMMA RoundedUpBelow ==
    ASSUME NEW n \in Nat, NEW d \in Nat \ {0}
    PROVE  /\ (n + d - 1) \div d \in Nat
           /\ \A k \in Nat : n <= d * k => (n + d - 1) \div d <= k
<1>1. n + d - 1 \in Nat
  BY SMT
<1>2. (n + d - 1) \div d \in Nat
  BY <1>1, Floor
<1>3. ASSUME NEW k \in Nat, n <= d * k PROVE (n + d - 1) \div d <= k
  <2>1. d * k \in Nat /\ n + d - 1 < d * k + d
    BY <1>3, SMT
  <2> QED
    BY <1>1, <2>1, FloorBelow
<1> QED
  BY <1>2, <1>3

(* fee_amount never exceeds the amount, and leaves something of a positive  *)
(* amount: a rate below the denominator never nets a trade to zero.         *)
THEOREM SomethingIsLeft ==
    ASSUME NEW amount \in Nat \ {0}, NEW bps \in Bps
    PROVE  /\ fee_amount(amount, bps) \in Nat
           /\ spend_after_fee(amount, bps) \in 1 .. amount
<1> DEFINE fee == fee_amount(amount, bps)
<1>1. bps \in Nat /\ bps < FEE_DENOM /\ FEE_DENOM \in Nat \ {0}
  BY FeeConstants, SMT DEF Bps
<1>2. amount * bps \in Nat /\ amount * bps < amount * FEE_DENOM
  BY <1>1, SMT
<1>3. fee \in Nat /\ FEE_DENOM * fee <= amount * bps
  BY <1>1, <1>2, Floor DEF fee_amount
<1> HIDE DEF fee
<1>4. fee < amount
  BY <1>1, <1>2, <1>3, SMT
<1> QED
  BY <1>3, <1>4, SMT DEF fee, spend_after_fee

(* route_amount_in_for_spend inverts the fee exactly: the input it returns  *)
(* leaves precisely the amount to spend, so the router's exact-in check     *)
(* passes for a client that knows the fee rate.                             *)
THEOREM GrossNetsToSpend ==
    ASSUME NEW spend \in Nat \ {0}, NEW bps \in Bps
    PROVE  /\ route_amount_in_for_spend(spend, bps) \in Nat \ {0}
           /\ spend_after_fee(route_amount_in_for_spend(spend, bps), bps) = spend
<1> DEFINE D == FEE_DENOM
           d == FEE_DENOM - bps
           k == ((spend - 1) * D) \div d
           g == k + 1
<1>1. /\ bps \in Nat /\ D \in Nat \ {0} /\ d \in Nat \ {0}
      /\ D = d + bps
  BY FeeConstants, SMT DEF Bps
<1>2. (spend - 1) * D \in Nat
  BY <1>1, SMT
<1>3. k \in Nat /\ d * k <= (spend - 1) * D /\ (spend - 1) * D < d * k + d
  BY <1>1, <1>2, Floor
<1>4. route_amount_in_for_spend(spend, bps) = g
  BY DEF route_amount_in_for_spend
<1> HIDE DEF D, d, k
<1>5. g \in Nat \ {0} /\ d * g = d * k + d /\ g * bps \in Nat
  BY <1>1, <1>3, SMT
<1>6. g * D = d * g + g * bps
  BY <1>1, <1>5, SMT
<1>7. spend * D = (spend - 1) * D + D
  BY <1>1, SMT
<1>8. /\ (spend - 1) * D < d * g
      /\ d * g <= spend * D
  BY <1>1, <1>2, <1>3, <1>5, <1>7, SMT
<1>9. g - spend \in Nat
  <2>1. (spend - 1) * D < g * D
    BY <1>1, <1>2, <1>5, <1>6, <1>8, SMT
  <2>2. spend - 1 < g
    <3> SUFFICES ASSUME g <= spend - 1 PROVE FALSE
      BY <1>5, SMT
    <3>1. g * D <= (spend - 1) * D
      BY <1>1, <1>5, SMT
    <3> QED
      BY <2>1, <3>1, <1>1, <1>2, <1>5, SMT
  <2> QED
    BY <2>2, <1>5, SMT
<1>10. D * (g - spend) = g * D - spend * D
  BY <1>1, <1>5, SMT
<1>11. D * (g - spend) <= g * bps /\ g * bps < D * (g - spend) + D
  BY <1>1, <1>2, <1>5, <1>6, <1>7, <1>8, <1>9, <1>10, SMT
<1>12. (g * bps) \div D = g - spend
  BY <1>1, <1>5, <1>9, <1>11, FloorUnique
<1>13. fee_amount(g, bps) = g - spend
  BY <1>12 DEF fee_amount, D
<1>14. spend_after_fee(g, bps) = spend
  BY <1>5, <1>9, <1>13, SMT DEF spend_after_fee
<1> QED
  BY <1>4, <1>5, <1>14

(* The fee is monotonous in what is left: no input below the one            *)
(* route_amount_in_for_spend returns leaves as much to spend.  A clamped    *)
(* trade therefore never declares more than the amount the caller gave.     *)
THEOREM GrossIsLeast ==
    ASSUME NEW spend \in Nat \ {0}, NEW bps \in Bps,
           NEW amount \in Nat, spend <= spend_after_fee(amount, bps)
    PROVE  route_amount_in_for_spend(spend, bps) <= amount
<1> DEFINE D == FEE_DENOM
           d == FEE_DENOM - bps
           k == ((spend - 1) * D) \div d
           fee == (amount * bps) \div D
<1>1. /\ bps \in Nat /\ D \in Nat \ {0} /\ d \in Nat \ {0}
      /\ D = d + bps
  BY FeeConstants, SMT DEF Bps
<1>2. (spend - 1) * D \in Nat /\ amount * bps \in Nat
  BY <1>1, SMT
<1>3. k \in Nat /\ d * k <= (spend - 1) * D
  BY <1>1, <1>2, Floor
<1>4. fee \in Nat /\ amount * bps < D * fee + D
  BY <1>1, <1>2, Floor
<1>5. spend <= amount - fee
  BY DEF spend_after_fee, fee_amount
<1>6. route_amount_in_for_spend(spend, bps) = k + 1
  BY DEF route_amount_in_for_spend
<1> HIDE DEF D, d, k, fee
<1>7. (spend - 1) * D <= (amount - fee - 1) * D
  BY <1>1, <1>4, <1>5, SMT
<1>8. (amount - fee - 1) * D = amount * D - D * fee - D
  BY <1>1, <1>4, SMT
<1>9. amount * D = amount * d + amount * bps
  BY <1>1, SMT
<1>10. d * k < amount * d
  BY <1>1, <1>2, <1>3, <1>4, <1>7, <1>8, <1>9, SMT
<1>11. k < amount
  <2> SUFFICES ASSUME amount <= k PROVE FALSE
    BY <1>3, SMT
  <2>1. amount * d <= d * k
    BY <1>1, <1>3, SMT
  <2> QED
    BY <2>1, <1>10, <1>1, <1>3, SMT
<1> QED
  BY <1>3, <1>6, <1>11, SMT

(* apply_slippage_min_out asks for at least one unit of a positive quote    *)
(* and never for more than the quote, whatever tolerance is passed.         *)
THEOREM SlippageKeepsAMinimum ==
    ASSUME NEW amount \in Nat \ {0}, NEW slippage \in Nat
    PROVE  apply_slippage_min_out(amount, slippage) \in 1 .. amount
<1> DEFINE D == FEE_DENOM
           keep == FEE_DENOM - clamp_slippage_bps(slippage)
           out == (amount * keep) \div D
<1>1. D \in Nat \ {0} /\ keep \in Nat \ {0} /\ keep <= D
  BY FeeConstants, SMT DEF clamp_slippage_bps
<1>2. amount * keep \in Nat /\ amount * keep <= amount * D
  BY <1>1, SMT
<1>3. out \in Nat /\ D * out <= amount * keep
  BY <1>1, <1>2, Floor
<1>4. apply_slippage_min_out(amount, slippage) = IF out = 0 THEN 1 ELSE out
  BY DEF apply_slippage_min_out
<1> HIDE DEF D, keep, out
<1>5. out <= amount
  BY <1>1, <1>2, <1>3, SMT
<1> QED
  BY <1>3, <1>4, <1>5, SMT
=============================================================================
