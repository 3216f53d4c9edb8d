------------------------- MODULE BridgeSizingProofs -------------------------
(***************************************************************************)
(* The inverses of the quotes are exact, for every reserve, rate and fee,   *)
(* and so a bridged buy is sized right: the search for the first hop finds  *)
(* the least input that is enough, it finds one whenever there is one, and  *)
(* the two hops agree.                                                      *)
(***************************************************************************)
EXTENDS BridgeSizing, FeeMathProofs

(* Rounding down and up as what they decide: a quotient reaches k when k    *)
(* multiples fit, and k is enough of them when they cover the dividend.     *)
LEMMA FloorReaches ==
    ASSUME NEW n \in Nat, NEW d \in Nat \ {0}, NEW k \in Nat
    PROVE  k <= n \div d <=> d * k <= n
<1> DEFINE q == n \div d
<1>1. q \in Nat /\ d * q <= n /\ n < d * q + d
  BY Floor
<1> HIDE DEF q
<1>2. ASSUME k <= q PROVE d * k <= n
  <2>1. d * k <= d * q
    BY <1>1, <1>2, SMT
  <2> QED
    BY <1>1, <2>1, SMT
<1>3. ASSUME q < k PROVE n < d * k
  <2>1. d * (q + 1) <= d * k
    BY <1>1, <1>3, SMT
  <2> QED
    BY <1>1, <2>1, SMT
<1>4. k <= q <=> d * k <= n
  BY <1>1, <1>2, <1>3, SMT
<1> QED
  BY <1>4 DEF q

(* div_ceil is the least number whose multiple covers the dividend.         *)
LEMMA CeilCovers ==
    ASSUME NEW n \in Nat, NEW d \in Nat \ {0}
    PROVE  /\ div_ceil(n, d) \in Nat
           /\ \A k \in Nat : div_ceil(n, d) <= k <=> n <= d * k
<1> DEFINE q == div_ceil(n, d)
<1>1. n + d - 1 \in Nat
  BY SMT
<1>2. q \in Nat /\ n + d - 1 < d * q + d
  BY <1>1, Floor DEF div_ceil
<1>3. \A k \in Nat : n <= d * k => q <= k
  BY RoundedUpBelow DEF q, div_ceil
<1> HIDE DEF q
<1>4. d * q \in Nat /\ n <= d * q
  BY <1>2, SMT
<1>5. ASSUME NEW k \in Nat, q <= k PROVE n <= d * k
  <2>1. d * q <= d * k
    BY <1>2, <1>5, SMT
  <2> QED
    BY <1>4, <2>1, SMT
<1>6. q \in Nat /\ \A k \in Nat : q <= k <=> n <= d * k
  BY <1>2, <1>3, <1>5
<1> QED
  BY <1>6 DEF q

-----------------------------------------------------------------------------
(* A fee that is rounded up, and its inverse: what is left reaches y        *)
(* exactly for the amounts from the inverse of y on.                        *)
LEMMA NetReaches ==
    ASSUME NEW R \in Nat \ {0}, NEW rate \in Nat, rate < R, NEW x \in Nat, NEW y \in Nat
    PROVE  /\ x - div_ceil(x * rate, R) \in 0 .. x
           /\ y <= x - div_ceil(x * rate, R) <=> div_ceil(y * R, R - rate) <= x
<1> DEFINE fee == div_ceil(x * rate, R)
<1>1. /\ x * rate \in Nat /\ y * R \in Nat /\ R - rate \in Nat \ {0}
      /\ x * R \in Nat /\ x * rate <= x * R
  BY SMT
<1>2. fee \in Nat /\ \A k \in Nat : fee <= k <=> x * rate <= R * k
  BY <1>1, CeilCovers
<1>3. div_ceil(y * R, R - rate) <= x <=> y * R <= (R - rate) * x
  BY <1>1, CeilCovers
<1> HIDE DEF fee
<1>4. fee <= x
  BY <1>1, <1>2, SMT
<1>5. CASE y <= x
  <2>1. x - y \in Nat /\ R * (x - y) = R * x - y * R
    BY <1>5, SMT
  <2>2. fee <= x - y <=> x * rate <= R * (x - y)
    BY <1>2, <2>1
  <2>3. (R - rate) * x = R * x - x * rate
    BY SMT
  <2>4. y <= x - fee <=> y * R <= (R - rate) * x
    BY <1>1, <1>2, <1>5, <2>1, <2>2, <2>3, SMT
  <2> QED
    BY <1>2, <1>3, <1>4, <2>4, SMT DEF fee
<1>6. CASE x < y
  <2>1. (R - rate) * x <= R * x /\ R * x < y * R
    BY <1>1, <1>6, SMT
  <2>2. ~(y * R <= (R - rate) * x)
    BY <1>1, <2>1, SMT
  <2> QED
    BY <1>2, <1>3, <1>4, <1>6, <2>2, SMT DEF fee
<1> QED
  BY <1>5, <1>6, SMT

(* A constant-product curve and its inverse: the output reaches w exactly   *)
(* for the inputs from the inverse of w on, and never the whole reserve.    *)
LEMMA CurveReaches ==
    ASSUME NEW I \in Nat \ {0}, NEW O \in Nat, NEW a \in Nat
    PROVE  /\ curve_out(I, O, a) \in 0 .. O
           /\ \A w \in Nat : w < O =>
                 /\ curve_in(I, O, w) \in Nat
                 /\ w <= curve_out(I, O, a) <=> curve_in(I, O, w) <= a
           /\ O # 0 => curve_out(I, O, a) < O
<1> DEFINE out == curve_out(I, O, a)
<1>1. O * a \in Nat /\ I + a \in Nat \ {0} /\ I * O \in Nat /\ (I + a) * O = I * O + O * a
  BY SMT
<1>2. out \in Nat /\ \A w \in Nat : w <= out <=> (I + a) * w <= O * a
  BY <1>1, Floor, FloorReaches DEF curve_out
<1>3. O # 0 => I * O # 0
  BY SMT
<1>4. out \in 0 .. O /\ (O # 0 => out < O)
  <2>1. O <= out => (I + a) * O <= O * a
    BY <1>2
  <2>2. O # 0 => ~(O <= out)
    BY <1>1, <1>3, <2>1, SMT
  <2>3. O = 0 => O * a = 0
    BY SMT
  <2>4. O = 0 => ~(1 <= out)
    <3>1. 1 <= out => (I + a) * 1 <= O * a
      BY <1>2
    <3> QED
      BY <1>1, <2>3, <3>1, SMT
  <2> HIDE DEF out
  <2> QED
    BY <1>2, <2>2, <2>4, SMT
<1>5. ASSUME NEW w \in Nat, w < O
      PROVE  /\ curve_in(I, O, w) \in Nat
             /\ w <= out <=> curve_in(I, O, w) <= a
  <2>1. w * I \in Nat /\ O - w \in Nat \ {0}
    BY <1>5, SMT
  <2>2. /\ curve_in(I, O, w) \in Nat
        /\ curve_in(I, O, w) <= a <=> w * I <= (O - w) * a
    BY <2>1, CeilCovers DEF curve_in
  <2>3. /\ (I + a) * w = w * I + w * a /\ (O - w) * a = O * a - w * a
        /\ w * a \in Nat
    BY SMT
  <2>4. (I + a) * w <= O * a <=> w * I <= (O - w) * a
    BY <1>1, <2>1, <2>3, SMT
  <2> QED
    BY <1>2, <2>2, <2>4
<1> QED
  BY <1>4, <1>5

(* In particular both are natural numbers.                                  *)
LEMMA NetInRange ==
    ASSUME NEW R \in Nat \ {0}, NEW rate \in Nat, rate < R, NEW x \in Nat
    PROVE  x - div_ceil(x * rate, R) \in Nat
<1>1. x - div_ceil(x * rate, R) \in 0 .. x
  BY 0 \in Nat, NetReaches
<1> QED
  BY <1>1

(* A constant-product pool never pays out its whole reserve.                *)
LEMMA CurveInRange ==
    ASSUME NEW I \in Nat \ {0}, NEW O \in Nat \ {0}, NEW a \in Nat
    PROVE  curve_out(I, O, a) \in Nat /\ curve_out(I, O, a) < O
<1>1. curve_out(I, O, a) \in 0 .. O /\ curve_out(I, O, a) < O
  BY CurveReaches
<1> QED
  BY <1>1

(* What a Galois connection gives: more input buys no less.                 *)
LEMMA CurveMonotone ==
    ASSUME NEW I \in Nat \ {0}, NEW O \in Nat, NEW a \in Nat, NEW b \in Nat, a <= b
    PROVE  curve_out(I, O, a) <= curve_out(I, O, b)
<1> DEFINE out == curve_out(I, O, a)
<1>1. out \in 0 .. O /\ (O # 0 => out < O) /\ curve_out(I, O, b) \in 0 .. O
  BY CurveReaches
<1>2. CASE O = 0
  BY <1>1, <1>2
<1>3. CASE O # 0
  <2>1. out \in Nat /\ out < O /\ out <= curve_out(I, O, a)
    BY <1>1, <1>3
  <2> HIDE DEF out
  <2>2. curve_in(I, O, out) \in Nat /\ curve_in(I, O, out) <= a
    BY <2>1, CurveReaches
  <2>3. curve_in(I, O, out) <= b
    BY <2>2
  <2>4. out <= curve_out(I, O, b)
    BY <2>1, <2>3, CurveReaches
  <2> QED
    BY <2>4 DEF out
<1> QED
  BY <1>2, <1>3

(* What a fee rounded up leaves never shrinks when the amount grows.        *)
LEMMA NetMonotone ==
    ASSUME NEW R \in Nat \ {0}, NEW rate \in Nat, rate < R,
           NEW a \in Nat, NEW b \in Nat, a <= b
    PROVE  a - div_ceil(a * rate, R) <= b - div_ceil(b * rate, R)
<1> DEFINE y == a - div_ceil(a * rate, R)
<1>1. y \in 0 .. a /\ b - div_ceil(b * rate, R) \in 0 .. b
  BY NetReaches
<1>2. y * R \in Nat /\ R - rate \in Nat \ {0}
  BY <1>1, SMT
<1>3. div_ceil(y * R, R - rate) \in Nat
  BY <1>2, CeilCovers
<1>4. y <= y
  BY <1>1
<1>5. /\ y <= a - div_ceil(a * rate, R) <=> div_ceil(y * R, R - rate) <= a
      /\ y <= b - div_ceil(b * rate, R) <=> div_ceil(y * R, R - rate) <= b
  BY <1>1, NetReaches
<1> QED
  BY <1>3, <1>4, <1>5

-----------------------------------------------------------------------------
(* Transfer fees of a Token-2022 mint: a larger transfer arrives as no      *)
(* less, and never as more than was sent (after_transfer).                  *)
LEMMA TransferMonotone ==
    ASSUME NEW f \in TokenTransferFee, NEW a \in Nat, NEW b \in Nat, a <= b
    PROVE  /\ after_transfer(f, a) \in 0 .. a
           /\ after_transfer(f, a) <= after_transfer(f, b)
<1> DEFINE D == FEE_DENOM
           p == f.basis_points
           M == f.maximum_fee
           ca == div_ceil(a * p, D)
           cb == div_ceil(b * p, D)
<1>1. D \in Nat \ {0} /\ p \in Nat /\ p <= D /\ M \in Nat
  BY FeeConstants, SMT DEF TokenTransferFee
<1>2. after_transfer(f, a) = a - AtMost(ca, M) /\ after_transfer(f, b) = b - AtMost(cb, M)
  BY DEF after_transfer, calculate
<1> HIDE DEF D, p, M
<1>3. /\ a * p \in Nat /\ b * p \in Nat /\ a * p <= D * a
      /\ b * p = a * p + (b - a) * p /\ (b - a) * p <= D * (b - a)
  BY <1>1, SMT
<1>4. /\ ca \in Nat /\ \A k \in Nat : ca <= k <=> a * p <= D * k
      /\ cb \in Nat /\ \A k \in Nat : cb <= k <=> b * p <= D * k
  BY <1>1, <1>3, CeilCovers
<1>5. ca <= a
  BY <1>3, <1>4
<1>6. cb <= ca + (b - a)
  <2> DEFINE k == ca + (b - a)
  <2>1. k \in Nat /\ a * p <= D * ca
    BY <1>4
  <2> HIDE DEF ca
  <2>2. D * k = D * ca + D * (b - a)
    BY <1>1, <1>4, SMT
  <2>3. b * p <= D * k
    BY <1>1, <1>3, <1>4, <2>1, <2>2, SMT
  <2> QED
    BY <1>4, <2>1, <2>3
<1> HIDE DEF ca, cb
<1> QED
  BY <1>1, <1>2, <1>4, <1>5, <1>6, SMT DEF AtMost

(* The fee itself is capped, and at most k if k covers the share.           *)
LEMMA FeeCapped ==
    ASSUME NEW f \in TokenTransferFee, NEW x \in Nat
    PROVE  /\ calculate(f, x) \in Nat
           /\ calculate(f, x) <= f.maximum_fee
           /\ \A k \in Nat : x * f.basis_points <= FEE_DENOM * k => calculate(f, x) <= k
           /\ after_transfer(f, x) = x - calculate(f, x)
<1> DEFINE c == div_ceil(x * f.basis_points, FEE_DENOM)
<1>1. /\ FEE_DENOM \in Nat \ {0} /\ f.basis_points \in Nat /\ f.maximum_fee \in Nat
  BY FeeConstants, SMT DEF TokenTransferFee
<1>2. x * f.basis_points \in Nat
  BY <1>1, SMT
<1>3. c \in Nat /\ \A k \in Nat : c <= k <=> x * f.basis_points <= FEE_DENOM * k
  BY <1>1, <1>2, CeilCovers
<1>4. calculate(f, x) = AtMost(c, f.maximum_fee)
  BY DEF calculate
<1> HIDE DEF c
<1>5. calculate(f, x) \in Nat /\ calculate(f, x) <= f.maximum_fee /\ calculate(f, x) <= c
  BY <1>1, <1>3, <1>4, SMT DEF AtMost
<1>6. ASSUME NEW k \in Nat, x * f.basis_points <= FEE_DENOM * k PROVE calculate(f, x) <= k
  <2>1. c <= k
    BY <1>3, <1>6
  <2> QED
    BY <1>3, <1>5, <2>1
<1> QED
  BY <1>5, <1>6 DEF after_transfer

(* What calculate_inverse adds to an amount covers the fee on the sum: the  *)
(* recipient gets at least the amount.                                      *)
LEMMA InverseCovers ==
    ASSUME NEW f \in TokenTransferFee, NEW post \in Nat
    PROVE  /\ calculate_inverse(f, post) \in Nat
           /\ post <= after_transfer(f, post + calculate_inverse(f, post))
<1> DEFINE D == FEE_DENOM
           p == f.basis_points
           M == f.maximum_fee
           i == calculate_inverse(f, post)
<1>1. D \in Nat \ {0} /\ p \in Nat /\ p <= D /\ M \in Nat
  BY FeeConstants, SMT DEF TokenTransferFee
<1>2. SUFFICES i \in Nat /\ calculate(f, post + i) <= i
  <2>1. ASSUME i \in Nat, calculate(f, post + i) <= i
        PROVE  post <= after_transfer(f, post + i)
    <3> DEFINE x == post + i
    <3>1. x \in Nat
      BY <2>1
    <3> HIDE DEF x
    <3>2. calculate(f, x) \in Nat /\ after_transfer(f, x) = x - calculate(f, x)
      BY <3>1, FeeCapped
    <3> HIDE DEF i
    <3> QED
      BY <2>1, <3>2 DEF x
  <2> QED
    BY <2>1
<1>3. CASE p = 0 \/ post = 0
  <2>1. i = 0
    BY <1>3 DEF calculate_inverse
  <2>2. post * p <= D * 0
    BY <1>1, <1>3, SMT
  <2>3. calculate(f, post) <= 0
    BY <2>2, FeeCapped
  <2>4. post + i = post
    BY <2>1
  <2> QED
    BY <2>1, <2>3, <2>4
<1>4. CASE p # 0 /\ post # 0 /\ p = D
  <2>1. i = M
    BY <1>4 DEF calculate_inverse
  <2>2. i \in Nat /\ post + i \in Nat
    BY <1>1, <2>1
  <2>3. calculate(f, post + i) <= M
    BY <2>2, FeeCapped
  <2> QED
    BY <2>1, <2>2, <2>3
<1>5. CASE p # 0 /\ post # 0 /\ p # D
  <2> DEFINE c == div_ceil(post * p, D - p)
  <2>1. post * p \in Nat /\ D - p \in Nat \ {0}
    BY <1>1, <1>5, SMT
  <2>2. i = AtMost(c, M)
    BY <1>5 DEF calculate_inverse
  <2>3. c \in Nat /\ (c <= c <=> post * p <= (D - p) * c)
    BY <2>1, CeilCovers
  <2> HIDE DEF c, i
  <2>4. i \in Nat /\ post + i \in Nat
    BY <1>1, <2>2, <2>3, SMT DEF AtMost
  <2>5. CASE c <= M
    <3>1. i = c /\ post * p <= (D - p) * c
      BY <2>2, <2>3, <2>5 DEF AtMost
    <3>2. (post + i) * p <= D * i
      BY <1>1, <2>3, <3>1, SMT
    <3> QED
      BY <2>4, <3>2, FeeCapped
  <2>6. CASE M < c
    <3>1. i = M
      BY <1>1, <2>2, <2>3, <2>6, SMT DEF AtMost
    <3>2. calculate(f, post + i) <= M
      BY <2>4, FeeCapped
    <3> QED
      BY <2>4, <3>1, <3>2
  <2> QED
    BY <1>1, <2>3, <2>5, <2>6, SMT
<1> QED
  BY <1>3, <1>4, <1>5

-----------------------------------------------------------------------------
(* Pools seen from the side that is paid in.                                *)

(* A CPMM pool pays out less than its reserve, no more than its curve, and  *)
(* no less for more (cpmm_out).                                             *)
LEMMA CpmmOut ==
    ASSUME NEW s \in CpmmSide, valid_rates(s), NEW a \in Nat, NEW b \in Nat, a <= b
    PROVE  /\ cpmm_out(s, a) \in Nat
           /\ cpmm_out(s, a) < s.output_reserve
           /\ cpmm_out(s, a) <= curve_out(s.input_reserve, s.output_reserve, a)
           /\ cpmm_out(s, a) <= cpmm_out(s, b)
<1> DEFINE I == s.input_reserve
           O == s.output_reserve
           t == s.trade_fee_rate
           c == s.creator_rate
           ca == after_transfer(s.input_fee, a)
           cb == after_transfer(s.input_fee, b)
<1>1. /\ I \in Nat \ {0} /\ O \in Nat \ {0} /\ t \in Nat /\ c \in Nat
      /\ RATE_DENOM \in Nat \ {0} /\ t + c < RATE_DENOM
      /\ t + c \in Nat /\ t < RATE_DENOM /\ c < RATE_DENOM
      /\ s.input_fee \in TokenTransferFee /\ s.output_fee \in TokenTransferFee
  BY QuoteConstants DEF CpmmSide, valid_rates, Amounts
<1> HIDE DEF I, O, t, c
<1>2. ca \in 0 .. a /\ cb \in Nat /\ ca <= cb
  BY <1>1, TransferMonotone
<1> HIDE DEF ca, cb
<1>3. ASSUME NEW rate \in Nat, rate < RATE_DENOM, NEW x \in Nat, NEW y \in Nat, x <= y
      PROVE  /\ after_fee(x, rate) \in 0 .. x /\ after_fee(y, rate) \in 0 .. y
             /\ after_fee(x, rate) <= after_fee(y, rate)
  BY <1>1, <1>3, NetReaches, NetMonotone DEF after_fee, fee_ceil
<1>4. ASSUME NEW x \in Nat, NEW y \in Nat, x <= y
      PROVE  /\ curve_out(I, O, x) \in Nat /\ curve_out(I, O, x) < O
             /\ curve_out(I, O, y) \in Nat /\ curve_out(I, O, x) <= curve_out(I, O, y)
  BY <1>1, <1>4, CurveReaches, CurveMonotone
<1> DEFINE through(credited, rate) == curve_out(I, O, after_fee(credited, rate))
<1>5. ASSUME NEW rate \in Nat, rate < RATE_DENOM
      PROVE  /\ through(ca, rate) \in Nat /\ through(cb, rate) \in Nat
             /\ through(ca, rate) <= through(cb, rate)
             /\ through(ca, rate) <= curve_out(I, O, a)
  <2>1. /\ after_fee(ca, rate) \in 0 .. ca /\ after_fee(cb, rate) \in Nat
        /\ after_fee(ca, rate) <= after_fee(cb, rate)
    BY <1>2, <1>3, <1>5
  <2>2. after_fee(ca, rate) \in Nat /\ after_fee(ca, rate) <= a
    BY <1>2, <2>1
  <2> QED
    BY <1>4, <2>1, <2>2
<1> HIDE DEF through
<1>6. /\ cpmm_swapped(s, ca) \in Nat /\ cpmm_swapped(s, cb) \in Nat
      /\ cpmm_swapped(s, ca) <= cpmm_swapped(s, cb)
      /\ cpmm_swapped(s, ca) <= curve_out(I, O, a)
  <2>1. CASE s.creator_on_input
    <3>1. /\ cpmm_swapped(s, ca) = through(ca, t + c)
          /\ cpmm_swapped(s, cb) = through(cb, t + c)
      BY <2>1 DEF cpmm_swapped, through, I, O, t, c
    <3> QED
      BY <1>1, <1>5, <3>1
  <2>2. CASE ~s.creator_on_input
    <3>1. /\ cpmm_swapped(s, ca) = after_fee(through(ca, t), c)
          /\ cpmm_swapped(s, cb) = after_fee(through(cb, t), c)
      BY <2>2 DEF cpmm_swapped, through, I, O, t, c
    <3>2. /\ through(ca, t) \in Nat /\ through(cb, t) \in Nat
          /\ through(ca, t) <= through(cb, t)
          /\ through(ca, t) <= curve_out(I, O, a)
      BY <1>1, <1>5
    <3>3. /\ after_fee(through(ca, t), c) \in 0 .. through(ca, t)
          /\ after_fee(through(cb, t), c) \in Nat
          /\ after_fee(through(ca, t), c) <= after_fee(through(cb, t), c)
      BY <1>1, <1>3, <3>2
    <3>4. curve_out(I, O, a) \in Nat
      BY <1>4
    <3> QED
      BY <3>1, <3>2, <3>3, <3>4
  <2> QED
    BY <2>1, <2>2
<1>7. /\ cpmm_out(s, a) = after_transfer(s.output_fee, cpmm_swapped(s, ca))
      /\ cpmm_out(s, b) = after_transfer(s.output_fee, cpmm_swapped(s, cb))
  BY DEF cpmm_out, ca, cb
<1>8. /\ cpmm_out(s, a) \in 0 .. cpmm_swapped(s, ca)
      /\ cpmm_out(s, a) <= cpmm_out(s, b)
  BY <1>1, <1>6, <1>7, TransferMonotone
<1>9. curve_out(I, O, a) \in Nat /\ curve_out(I, O, a) < O
  BY <1>4
<1>10. /\ cpmm_out(s, a) \in Nat /\ cpmm_out(s, a) < O
       /\ cpmm_out(s, a) <= curve_out(I, O, a)
  BY <1>1, <1>6, <1>8, <1>9
<1> QED
  BY <1>8, <1>10 DEF I, O
(* No input below naive_in buys w: it is a safe start for the search.       *)
LEMMA NaiveIsLow ==
    ASSUME NEW s \in CpmmSide, valid_rates(s), NEW w \in Nat, w < s.output_reserve,
           NEW a \in Nat \ {0}, w <= cpmm_out(s, a)
    PROVE  naive_in(s, w) \in 1 .. a
<1>1. s.input_reserve \in Nat \ {0} /\ s.output_reserve \in Nat \ {0}
  BY DEF CpmmSide, Amounts
<1>2. /\ cpmm_out(s, a) \in Nat
      /\ cpmm_out(s, a) <= curve_out(s.input_reserve, s.output_reserve, a)
  BY CpmmOut
<1>3. curve_out(s.input_reserve, s.output_reserve, a) \in Nat
  BY <1>1, CurveInRange
<1>4. w <= curve_out(s.input_reserve, s.output_reserve, a)
  BY <1>2, <1>3
<1>5. /\ curve_in(s.input_reserve, s.output_reserve, w) \in Nat
      /\ curve_in(s.input_reserve, s.output_reserve, w) <= a
  BY <1>1, <1>4, CurveReaches
<1> QED
  BY <1>5, SMT DEF naive_in, AtLeast

(* A Raydium V4 pool and its inverse: the output reaches w exactly from     *)
(* raydium_amm_v4_in_for_out on.                                            *)
LEMMA AmmV4Reaches ==
    ASSUME NEW s \in AmmV4Side, s.fee_numerator < s.fee_denominator, NEW a \in Nat
    PROVE  /\ raydium_amm_v4_out(s, a) \in Nat
           /\ raydium_amm_v4_out(s, a) < s.output_reserve
           /\ \A w \in Nat : w < s.output_reserve =>
                 /\ raydium_amm_v4_in_for_out(s, w) \in Nat
                 /\ w <= raydium_amm_v4_out(s, a) <=> raydium_amm_v4_in_for_out(s, w) <= a
                 /\ w # 0 => raydium_amm_v4_in_for_out(s, w) # 0
<1> DEFINE I == s.input_reserve
           O == s.output_reserve
           N == s.fee_numerator
           D == s.fee_denominator
           net == a - div_ceil(a * N, D)
<1>1. I \in Nat \ {0} /\ O \in Nat \ {0} /\ N \in Nat /\ D \in Nat \ {0} /\ N < D
  BY DEF AmmV4Side, Amounts
<1>2. raydium_amm_v4_out(s, a) = curve_out(I, O, net)
  BY DEF raydium_amm_v4_out
<1>3. ASSUME NEW w \in Nat
      PROVE  raydium_amm_v4_in_for_out(s, w) = div_ceil(curve_in(I, O, w) * D, D - N)
  BY DEF raydium_amm_v4_in_for_out
<1> HIDE DEF I, O, N, D
<1>4. net \in Nat
  BY <1>1, NetInRange
<1>5. /\ curve_out(I, O, net) \in Nat /\ curve_out(I, O, net) < O
  BY <1>1, <1>4, CurveInRange
<1>6. ASSUME NEW w \in Nat, w < O
      PROVE  /\ raydium_amm_v4_in_for_out(s, w) \in Nat
             /\ w <= raydium_amm_v4_out(s, a) <=> raydium_amm_v4_in_for_out(s, w) <= a
             /\ w # 0 => raydium_amm_v4_in_for_out(s, w) # 0
  <2> DEFINE v == curve_in(I, O, w)
  <2>1. v \in Nat /\ (w <= curve_out(I, O, net) <=> v <= net)
    BY <1>1, <1>4, <1>6, CurveReaches
  <2>2. w # 0 => v # 0
    <3>1. curve_out(I, O, 0) = 0
      <4>1. O * 0 = 0 /\ I + 0 = I
        BY <1>1, SMT
      <4>2. 0 \div I = 0
        BY <1>1, FloorUnique, SMT
      <4> QED
        BY <4>1, <4>2 DEF curve_out
    <3>2. w <= curve_out(I, O, 0) <=> v <= 0
      BY <1>1, <1>6, CurveReaches
    <3> QED
      BY <2>1, <3>1, <3>2
  <2> HIDE DEF v
  <2>3. v <= net <=> div_ceil(v * D, D - N) <= a
    BY <1>1, <2>1, NetReaches
  <2>4. v * D \in Nat /\ D - N \in Nat \ {0} /\ (v # 0 => v * D # 0)
    BY <1>1, <2>1, SMT
  <2>5. /\ div_ceil(v * D, D - N) \in Nat
        /\ div_ceil(v * D, D - N) <= 0 <=> v * D <= (D - N) * 0
    BY <2>4, CeilCovers
  <2>6. v # 0 => div_ceil(v * D, D - N) # 0
    BY <2>4, <2>5, SMT
  <2>7. raydium_amm_v4_in_for_out(s, w) = div_ceil(v * D, D - N)
    BY <1>3 DEF v
  <2> QED
    BY <1>2, <2>1, <2>2, <2>3, <2>5, <2>6, <2>7
<1> QED
  BY <1>2, <1>5, <1>6 DEF O

(* A LaunchLab curve sells a number of tokens for every amount, even where  *)
(* the fee takes all of it.                                                 *)
LEMMA LaunchLabOut ==
    ASSUME NEW p \in LaunchLabPool, NEW amount \in Nat,
           NEW other, launchlab_quotable(p, other)
    PROVE  /\ launchlab_unclamped(p, amount) \in Nat
           /\ launchlab_unclamped(p, amount) < launchlab_reserves(p).output
           /\ p.fee_rate = RATE_DENOM => launchlab_unclamped(p, amount) = 0
           /\ launchlab_reserves(p).input \in Nat \ {0}
           /\ launchlab_reserves(p).output \in Nat \ {0}
           /\ p.total_base_sell # 0 => remaining(p) \in Nat
<1> DEFINE I == launchlab_reserves(p).input
           O == launchlab_reserves(p).output
           x == after_transfer(p.quote_fee, amount)
           rate == p.fee_rate
           fee == div_ceil(x * rate, RATE_DENOM)
<1>1. /\ I \in Nat \ {0} /\ O \in Nat \ {0}
      /\ p.total_base_sell # 0 => remaining(p) \in Nat
  BY SMT DEF LaunchLabPool, launchlab_reserves, launchlab_quotable, remaining
<1>2. rate \in Nat /\ rate <= RATE_DENOM /\ RATE_DENOM \in Nat \ {0}
  BY QuoteConstants, SMT DEF LaunchLabPool
<1>3. x \in Nat
  <2>1. x \in 0 .. amount
    BY TransferMonotone DEF LaunchLabPool
  <2> QED
    BY <2>1
<1>4. launchlab_unclamped(p, amount) = curve_out(I, O, x - fee)
  BY DEF launchlab_unclamped, after_fee, fee_ceil
<1> HIDE DEF I, O, x, rate
<1>5. x * rate \in Nat /\ x * rate <= RATE_DENOM * x
  BY <1>2, <1>3, SMT
<1>6. fee \in Nat /\ \A k \in Nat : fee <= k <=> x * rate <= RATE_DENOM * k
  BY <1>2, <1>5, CeilCovers
<1> HIDE DEF fee
<1>7. x - fee \in Nat
  BY <1>3, <1>5, <1>6
<1>8. rate = RATE_DENOM => x - fee = 0
  <2> SUFFICES ASSUME rate = RATE_DENOM PROVE x - fee = 0
    OBVIOUS
  <2>1. x * RATE_DENOM <= RATE_DENOM * fee
    BY <1>6
  <2>2. x <= fee
    BY <1>2, <1>3, <1>6, <2>1, SMT
  <2> QED
    BY <1>3, <1>6, <1>7, <2>2
<1>9. curve_out(I, O, 0) = 0
  <2>1. O * 0 = 0 /\ I + 0 = I
    BY <1>1, SMT
  <2>2. 0 \div I = 0
    BY <1>1, FloorUnique, SMT
  <2> QED
    BY <2>1, <2>2 DEF curve_out
<1>10. curve_out(I, O, x - fee) \in Nat /\ curve_out(I, O, x - fee) < O
  BY <1>1, <1>7, CurveInRange
<1> QED
  BY <1>1, <1>4, <1>8, <1>9, <1>10 DEF I, O, rate

(* What graduation_in asks for is enough to buy out the curve: through the  *)
(* curve, the fees and the transfer (launchlab_buy_quote's clamp).          *)
LEMMA GraduationBuysOut ==
    ASSUME NEW p \in LaunchLabPool, NEW amount \in Nat, launchlab_quotable(p, amount),
           launchlab_clamps(p, amount)
    PROVE  /\ graduation_in(p) \in Nat
           /\ remaining(p) <= launchlab_unclamped(p, graduation_in(p))
<1> DEFINE I == launchlab_reserves(p).input
           O == launchlab_reserves(p).output
           rate == p.fee_rate
           left == remaining(p)
           v == curve_in(I, O, left)
           vault == graduation_vault(p)
           g == graduation_in(p)
           credited == after_transfer(p.quote_fee, g)
<1>1. /\ launchlab_unclamped(p, amount) \in Nat /\ launchlab_unclamped(p, amount) < O
      /\ rate = RATE_DENOM => launchlab_unclamped(p, amount) = 0
      /\ I \in Nat \ {0} /\ O \in Nat \ {0} /\ left \in Nat
      /\ left < launchlab_unclamped(p, amount)
  BY LaunchLabOut DEF launchlab_clamps
<1>2. /\ rate \in Nat /\ rate <= RATE_DENOM /\ RATE_DENOM \in Nat \ {0}
      /\ p.quote_fee \in TokenTransferFee
  BY QuoteConstants, SMT DEF LaunchLabPool
<1>3. vault = div_ceil(v * RATE_DENOM, RATE_DENOM - rate)
  BY DEF graduation_vault, pre_fee_amount
<1>4. launchlab_unclamped(p, g)
          = curve_out(I, O, credited - div_ceil(credited * rate, RATE_DENOM))
  BY DEF launchlab_unclamped, after_fee, fee_ceil
<1>5. g = vault + calculate_inverse(p.quote_fee, vault)
  BY DEF graduation_in
<1> HIDE DEF I, O, rate, left, vault, g
<1>6. rate < RATE_DENOM /\ left < O
  BY <1>1, <1>2
<1>7. v \in Nat
  BY <1>1, <1>6, 0 \in Nat, CurveReaches
<1> HIDE DEF v
<1>8. vault \in Nat
  <2>1. v * RATE_DENOM \in Nat /\ RATE_DENOM - rate \in Nat \ {0}
    BY <1>2, <1>6, <1>7, SMT
  <2> QED
    BY <1>3, <2>1, CeilCovers
<1>9. /\ calculate_inverse(p.quote_fee, vault) \in Nat
      /\ vault <= after_transfer(p.quote_fee, vault + calculate_inverse(p.quote_fee, vault))
  BY <1>2, <1>8, InverseCovers
<1>10. g \in Nat /\ vault <= credited
  BY <1>5, <1>8, <1>9
<1>11. credited \in Nat
  <2>1. credited \in 0 .. g
    BY <1>2, <1>10, TransferMonotone
  <2> QED
    BY <2>1
<1> HIDE DEF credited
<1>12. v <= credited - div_ceil(credited * rate, RATE_DENOM)
  BY <1>2, <1>3, <1>6, <1>7, <1>10, <1>11, NetReaches
<1>13. credited - div_ceil(credited * rate, RATE_DENOM) \in Nat
  BY <1>2, <1>6, <1>11, NetInRange
<1>14. left <= curve_out(I, O, credited - div_ceil(credited * rate, RATE_DENOM))
  BY <1>1, <1>6, <1>12, <1>13, CurveReaches DEF v
<1> QED
  BY <1>4, <1>10, <1>14 DEF g, left

(* The clamp: what a curve takes of an amount is at most that, it takes all *)
(* of that when it is offered no more, and sells as much for it             *)
(* (launchlab_buy_quote asked again for what it said it takes).             *)
LEMMA TakenBuysAsMuch ==
    ASSUME NEW p \in LaunchLabPool, NEW amount \in Nat, launchlab_quotable(p, amount)
    PROVE  LET taken == launchlab_amount_in(p, amount)
           IN  /\ taken \in 0 .. amount
               /\ launchlab_amount_in(p, taken) = taken
               /\ launchlab_amount_out(p, taken) = launchlab_amount_out(p, amount)
               /\ launchlab_amount_out(p, taken) \in Nat
<1> DEFINE taken == launchlab_amount_in(p, amount)
           g == graduation_in(p)
<1>1. launchlab_amount_out(p, amount) \in Nat
  <2> DEFINE sold == IF launchlab_clamps(p, amount) THEN remaining(p)
                     ELSE launchlab_unclamped(p, amount)
  <2>1. sold \in Nat
    BY LaunchLabOut DEF launchlab_clamps
  <2> HIDE DEF sold
  <2>2. after_transfer(p.base_fee, sold) \in 0 .. sold
    BY <2>1, TransferMonotone DEF LaunchLabPool
  <2> QED
    BY <2>1, <2>2 DEF launchlab_amount_out, sold
<1>2. CASE ~launchlab_clamps(p, amount)
  <2>1. taken = amount
    BY <1>2 DEF launchlab_amount_in
  <2> QED
    BY <1>1, <2>1
<1>3. CASE launchlab_clamps(p, amount)
  <2>1. g \in Nat /\ remaining(p) <= launchlab_unclamped(p, g)
    BY <1>3, GraduationBuysOut
  <2>2. taken = AtMost(g, amount)
    BY <1>3 DEF launchlab_amount_in
  <2> HIDE DEF g
  <2>3. CASE amount < g
    <3>1. taken = amount
      BY <2>1, <2>2, <2>3 DEF AtMost
    <3> QED
      BY <1>1, <3>1
  <2>4. CASE g <= amount
    <3>1. taken = g
      BY <2>1, <2>2, <2>4 DEF AtMost
    <3>2. launchlab_amount_in(p, g) = g
      BY <2>1 DEF launchlab_amount_in, AtMost, g
    <3>3. IF launchlab_clamps(p, g) THEN TRUE ELSE launchlab_unclamped(p, g) = remaining(p)
      <4> SUFFICES ASSUME ~launchlab_clamps(p, g)
                   PROVE  launchlab_unclamped(p, g) = remaining(p)
        OBVIOUS
      <4>1. p.total_base_sell # 0
        BY <1>3 DEF launchlab_clamps
      <4>2. ~(launchlab_unclamped(p, g) > remaining(p))
        BY <4>1 DEF launchlab_clamps
      <4>3. launchlab_quotable(p, amount) /\ remaining(p) \in Nat
        BY <4>1, LaunchLabOut
      <4>4. launchlab_unclamped(p, g) \in Nat
        BY <2>1, LaunchLabOut
      <4> QED
        BY <2>1, <4>2, <4>3, <4>4
    <3>4. launchlab_amount_out(p, g) = launchlab_amount_out(p, amount)
      BY <1>3, <3>3 DEF launchlab_amount_out
    <3> QED
      BY <1>1, <2>1, <2>4, <3>1, <3>2, <3>4
  <2> QED
    BY <2>1, <2>3, <2>4
<1> QED
  BY <1>2, <1>3
-----------------------------------------------------------------------------
(* The search.  What holds at each place of the computation.                *)

(* What the whole of the caller's amount is quoted to bring. *)
Asked == bridge_quote_out(ask.bridge, ask.spend)

Searching == pc \in {"capacity", "reach", "narrow"}

(* The curve takes less than that, and something: it can be bought. *)
Targeted ==
    /\ pc \notin {"idle", "refused"} => quotable(ask)
    /\ Searching \/ pc = "sized" => target = takes(Asked) /\ 0 < target /\ target < Asked
    /\ Searching => ask.bridge.kind = "cpmm"

(* The caller's amount, which is enough, is never searched away. *)
SpendFits ==
    /\ pc = "capacity" => ask.spend <= hi
    /\ pc \in {"reach", "narrow"} => ask.spend <= max_input

(* No input below lo is enough, and hi is. *)
EndsBracket ==
    /\ pc \in {"reach", "narrow", "sized"} =>
           lo # 0 /\ \A wsol \in 1 .. lo - 1 : ~enough(wsol)
    /\ pc \in {"narrow", "sized"} => enough(hi)
    /\ pc = "sized" => lo = hi

SizingInv ==
    /\ TypeOK /\ Targeted /\ SpendFits /\ EndsBracket
    /\ HopsAgree /\ ShrunkBuysAsMuch /\ OnlyGraduatedRefused

(* Either kind of bridge pays out less than its reserve, and no less for    *)
(* more (bridge_quote_out).                                                 *)
LEMMA BridgeOut ==
    ASSUME NEW b \in Bridge, NEW other, bridge_quotable(b, other),
           NEW x \in Nat, NEW y \in Nat, x <= y
    PROVE  /\ bridge_quote_out(b, x) \in Nat
           /\ bridge_quote_out(b, x) < b.side.output_reserve
           /\ bridge_quote_out(b, x) <= bridge_quote_out(b, y)
           /\ b.side.output_reserve \in Amounts /\ b.side.input_reserve \in Amounts
           /\ b.kind = "cpmm" => b.side \in CpmmSide /\ valid_rates(b.side)
           /\ b.kind # "cpmm" =>
                 b.side \in AmmV4Side /\ b.side.fee_numerator < b.side.fee_denominator
<1>1. CASE b.kind = "cpmm"
  <2>1. b.side \in CpmmSide
    BY <1>1 DEF Bridge
  <2>2. valid_rates(b.side)
    BY <1>1 DEF bridge_quotable, cpmm_quotable
  <2>3. b.side.output_reserve \in Amounts /\ b.side.input_reserve \in Amounts
    BY <2>1 DEF CpmmSide
  <2> QED
    BY <1>1, <2>1, <2>2, <2>3, CpmmOut DEF bridge_quote_out
<1>2. CASE b.kind # "cpmm"
  <2>1. b.side \in AmmV4Side
    BY <1>2 DEF Bridge
  <2>2. b.side.fee_numerator < b.side.fee_denominator
    BY <1>2 DEF bridge_quotable, amm_v4_quotable
  <2>3. b.side.output_reserve \in Amounts /\ b.side.input_reserve \in Amounts
    BY <2>1 DEF AmmV4Side
  <2> DEFINE w == raydium_amm_v4_out(b.side, x)
  <2>4. w \in Nat /\ w < b.side.output_reserve
    BY <2>1, <2>2, AmmV4Reaches
  <2> HIDE DEF w
  <2>5. /\ raydium_amm_v4_in_for_out(b.side, w) \in Nat
        /\ w <= raydium_amm_v4_out(b.side, x) <=> raydium_amm_v4_in_for_out(b.side, w) <= x
        /\ w <= raydium_amm_v4_out(b.side, y) <=> raydium_amm_v4_in_for_out(b.side, w) <= y
    BY <2>1, <2>2, <2>4, AmmV4Reaches
  <2>6. w <= raydium_amm_v4_out(b.side, x)
    BY <2>4 DEF w
  <2>7. w <= raydium_amm_v4_out(b.side, y)
    BY <2>5, <2>6
  <2> QED
    BY <1>2, <2>1, <2>2, <2>3, <2>4, <2>7 DEF bridge_quote_out, w
<1> QED
  BY <1>1, <1>2

(* A call that can be quoted, in numbers.                                   *)
LEMMA AskFacts ==
    ASSUME ask \in Asks, quotable(ask)
    PROVE  /\ ask.bridge \in Bridge /\ ask.pool \in LaunchLabPool
           /\ bridge_quotable(ask.bridge, ask.spend)
           /\ ask.spend \in Nat \ {0} /\ ask.spend <= MAX_U64
           /\ MAX_U64 \in Nat
           /\ bridge.output_reserve \in Amounts /\ bridge.input_reserve \in Amounts
           /\ Asked \in Nat /\ Asked < bridge.output_reserve
           /\ takes(Asked) \in Nat /\ takes(Asked) <= Asked
           /\ takes(takes(Asked)) = takes(Asked)
           /\ launchlab_amount_out(ask.pool, takes(Asked))
                = launchlab_amount_out(ask.pool, Asked)
           /\ launchlab_amount_out(ask.pool, Asked) \in Nat
<1>1. /\ ask.bridge \in Bridge /\ ask.pool \in LaunchLabPool /\ ask.spend \in Amounts
      /\ MAX_U64 \in Nat
  BY BridgeSizingConstants, QuoteConstants DEF Asks
<1>2. /\ bridge_quotable(ask.bridge, ask.spend)
      /\ launchlab_quotable(ask.pool, Asked)
  BY DEF quotable, Asked
<1>3. ask.spend \in Nat \ {0} /\ ask.spend <= MAX_U64
  BY <1>1, <1>2 DEF Amounts, bridge_quotable, cpmm_quotable, amm_v4_quotable
<1>4. /\ Asked \in Nat /\ Asked < bridge.output_reserve
      /\ bridge.output_reserve \in Amounts /\ bridge.input_reserve \in Amounts
  BY <1>1, <1>2, <1>3, BridgeOut DEF Asked, bridge
<1>5. /\ takes(Asked) \in 0 .. Asked
      /\ takes(takes(Asked)) = takes(Asked)
      /\ launchlab_amount_out(ask.pool, takes(Asked))
           = launchlab_amount_out(ask.pool, Asked)
      /\ launchlab_amount_out(ask.pool, takes(Asked)) \in Nat
  BY <1>1, <1>2, <1>4, TakenBuysAsMuch DEF takes
<1> QED
  BY <1>1, <1>2, <1>3, <1>4, <1>5

(* The closed form of a Raydium V4 bridge, and the CPMM bridge's probe of   *)
(* one unit: neither gives up on a target that the caller's amount reaches. *)
LEMMA InverseExists ==
    ASSUME ask \in Asks, quotable(ask), NEW taken \in Nat \ {0}, taken < Asked
    PROVE  /\ taken < bridge.output_reserve
           /\ ask.bridge.kind = "cpmm" => cpmm_quotable(bridge, 1)
           /\ ask.bridge.kind # "cpmm" =>
                LET wsol == raydium_amm_v4_in_for_out(bridge, taken)
                IN  /\ wsol \in Nat \ {0} /\ wsol <= MAX_U64
                    /\ amm_v4_quotable(bridge, wsol)
                    /\ raydium_amm_v4_out(bridge, wsol) >= taken
                    /\ \A w \in 1 .. wsol - 1 : ~(raydium_amm_v4_out(bridge, w) >= taken)
<1>1. /\ ask.bridge \in Bridge
      /\ bridge_quotable(ask.bridge, ask.spend)
      /\ ask.spend \in Nat \ {0} /\ ask.spend <= MAX_U64 /\ MAX_U64 \in Nat
      /\ bridge.output_reserve \in Nat /\ bridge.input_reserve \in Nat
      /\ Asked \in Nat /\ Asked < bridge.output_reserve
  BY AskFacts DEF Amounts
<1>2. /\ ask.bridge.kind = "cpmm" => bridge \in CpmmSide /\ valid_rates(bridge)
      /\ ask.bridge.kind # "cpmm" =>
            bridge \in AmmV4Side /\ bridge.fee_numerator < bridge.fee_denominator
  BY <1>1, BridgeOut DEF bridge
<1>3. taken < bridge.output_reserve
  BY <1>1
<1>4. CASE ask.bridge.kind = "cpmm"
  <2> DEFINE f == bridge.input_fee
  <2>1. f \in TokenTransferFee
    BY <1>2, <1>4 DEF CpmmSide
  <2>2. bridge.input_reserve + after_transfer(f, ask.spend) <= MAX_U64
    BY <1>1, <1>4 DEF bridge_quotable, cpmm_quotable, bridge
  <2> HIDE DEF f
  <2>3. /\ after_transfer(f, 1) \in 0 .. 1
        /\ after_transfer(f, 1) <= after_transfer(f, ask.spend)
        /\ after_transfer(f, ask.spend) \in 0 .. ask.spend
    BY <1>1, <2>1, TransferMonotone
  <2>4. bridge.input_reserve + after_transfer(f, 1) <= MAX_U64
    BY <1>1, <2>2, <2>3
  <2> QED
    BY <1>2, <1>3, <1>4, <2>4 DEF cpmm_quotable, f
<1>5. CASE ask.bridge.kind # "cpmm"
  <2> DEFINE wsol == raydium_amm_v4_in_for_out(bridge, taken)
  <2>1. ASSUME NEW a \in Nat
        PROVE  /\ wsol \in Nat /\ wsol # 0 /\ raydium_amm_v4_out(bridge, a) \in Nat
               /\ taken <= raydium_amm_v4_out(bridge, a) <=> wsol <= a
    BY <1>2, <1>3, <1>5, AmmV4Reaches
  <2>2. wsol \in Nat /\ wsol # 0
    BY <1>1, <2>1
  <2>3. taken <= raydium_amm_v4_out(bridge, ask.spend)
    BY <1>1, <1>5 DEF Asked, bridge_quote_out, bridge
  <2> HIDE DEF wsol
  <2>4. wsol <= ask.spend
    BY <1>1, <2>1, <2>3
  <2>5. /\ raydium_amm_v4_out(bridge, wsol) \in Nat
        /\ taken <= raydium_amm_v4_out(bridge, wsol)
    BY <2>1, <2>2
  <2>6. ASSUME NEW w \in 1 .. wsol - 1
        PROVE  ~(raydium_amm_v4_out(bridge, w) >= taken)
    <3>1. w \in Nat /\ ~(wsol <= w)
      BY <2>2
    <3> QED
      BY <2>1, <3>1
  <2>7. bridge.input_reserve + ask.spend <= MAX_U64
    BY <1>1, <1>5 DEF bridge_quotable, amm_v4_quotable, bridge
  <2>8. amm_v4_quotable(bridge, wsol)
    BY <1>1, <1>2, <1>5, <2>2, <2>4, <2>7 DEF amm_v4_quotable
  <2>9. wsol <= MAX_U64
    BY <1>1, <2>2, <2>4
  <2> QED
    BY <1>3, <1>5, <2>2, <2>5, <2>6, <2>8, <2>9 DEF wsol
<1> QED
  BY <1>4, <1>5

(* A CPMM bridge: the largest input the vault holds is enough, and the      *)
(* search starts no higher than the caller's amount (cpmm_in_for_out).      *)
LEMMA SearchStarts ==
    ASSUME ask \in Asks, quotable(ask), ask.bridge.kind = "cpmm",
           NEW taken \in Nat \ {0}, taken < Asked,
           NEW largest \in Nat, ask.spend <= largest
    PROVE  /\ largest > 0 /\ cpmm_out(bridge, largest) >= taken
           /\ naive_in(bridge, taken) \in Nat \ {0}
           /\ naive_in(bridge, taken) <= ask.spend
           /\ \A w \in 1 .. naive_in(bridge, taken) - 1 : ~(cpmm_out(bridge, w) >= taken)
<1>1. /\ ask.bridge \in Bridge
      /\ bridge_quotable(ask.bridge, ask.spend)
      /\ ask.spend \in Nat \ {0}
      /\ bridge.output_reserve \in Nat
      /\ Asked \in Nat /\ Asked < bridge.output_reserve
  BY AskFacts DEF Amounts
<1>2. bridge \in CpmmSide /\ valid_rates(bridge)
  BY <1>1, BridgeOut DEF bridge
<1>3. Asked = cpmm_out(bridge, ask.spend)
  BY DEF Asked, bridge_quote_out, bridge
<1>4. /\ cpmm_out(bridge, largest) \in Nat
      /\ cpmm_out(bridge, ask.spend) <= cpmm_out(bridge, largest)
  BY <1>1, <1>2, CpmmOut
<1>5. naive_in(bridge, taken) \in 1 .. ask.spend
  BY <1>1, <1>2, <1>3, NaiveIsLow
<1> DEFINE low == naive_in(bridge, taken)
<1> HIDE DEF low
<1>6. ASSUME NEW w \in 1 .. low - 1, cpmm_out(bridge, w) >= taken
      PROVE  FALSE
  <2>1. w \in Nat \ {0} /\ cpmm_out(bridge, w) \in Nat /\ taken < bridge.output_reserve
    BY <1>1, <1>2, <1>5, CpmmOut DEF low
  <2>2. low \in 1 .. w
    BY <1>2, <1>6, <2>1, NaiveIsLow DEF low
  <2> QED
    BY <2>1, <2>2
<1> QED
  BY <1>1, <1>3, <1>4, <1>5, <1>6 DEF low
-----------------------------------------------------------------------------
(* Each step keeps the invariant.                                           *)

(* The properties of a finished search say nothing while it runs.           *)
LEMMA NotDone ==
    ASSUME pc' \notin {"done", "refused"}
    PROVE  HopsAgree' /\ ShrunkBuysAsMuch' /\ OnlyGraduatedRefused'
BY DEF HopsAgree, ShrunkBuysAsMuch, OnlyGraduatedRefused

(* Within one call the bridge, the curve and the target stand.              *)
LEMMA SameCall ==
    ASSUME ask' = ask, target' = target
    PROVE  /\ Asked' = Asked /\ takes(Asked)' = takes(Asked)
           /\ \A wsol : enough(wsol)' = enough(wsol)
BY DEF Asked, takes, enough

(* Nothing has been asked yet.                                              *)
LEMMA InitSizing == Init => SizingInv
<1> SUFFICES ASSUME Init PROVE SizingInv
  OBVIOUS
<1>1. 0 \in Amounts
  BY QuoteConstants DEF Amounts
<1>2. TypeOK
  BY <1>1 DEF Init, TypeOK
<1> QED
  BY <1>2 DEF Init, SizingInv, Targeted, Searching, SpendFits, EndsBracket, HopsAgree,
              ShrunkBuysAsMuch, OnlyGraduatedRefused

(* A call of buy_via_bridge_launchlab starts the search.                    *)
LEMMA AskSizing ==
    ASSUME SizingInv, Ask
    PROVE  SizingInv'
<1>1. /\ ask' \in Asks
      /\ \/ pc' = "quote" /\ quotable(ask')
         \/ pc' = "refused" /\ ~quotable(ask')
      /\ UNCHANGED <<target, lo, hi, max_input, plan, rounds>>
  BY DEF Ask
<1>2. TypeOK'
  BY <1>1 DEF SizingInv, TypeOK
<1>3. Targeted' /\ SpendFits' /\ EndsBracket'
  BY <1>1 DEF Targeted, Searching, SpendFits, EndsBracket
<1>4. HopsAgree' /\ ShrunkBuysAsMuch' /\ OnlyGraduatedRefused'
  BY <1>1 DEF HopsAgree, ShrunkBuysAsMuch, OnlyGraduatedRefused
<1> QED
  BY <1>2, <1>3, <1>4 DEF SizingInv

(* The search returns the plan it holds.                                    *)
LEMMA ReturnSizing ==
    ASSUME SizingInv, Return
    PROVE  SizingInv'
<1>1. Init'
  BY DEF Return, Init
<1>2. 0 \in Amounts
  BY QuoteConstants DEF Amounts
<1>3. TypeOK'
  BY <1>1, <1>2 DEF Init, TypeOK
<1> QED
  BY <1>1, <1>3 DEF Init, SizingInv, Targeted, Searching, SpendFits, EndsBracket, HopsAgree,
                    ShrunkBuysAsMuch, OnlyGraduatedRefused

(* Both ways to a plan: an input w that is enough for what the curve takes, *)
(* and no more than the caller has.                                         *)
LEMMA PlanIsGood ==
    ASSUME SizingInv, ask \in Asks, quotable(ask),
           NEW w \in Nat \ {0}, w <= ask.spend,
           bridge_quote_out(ask.bridge, w) >= takes(Asked),
           NEW offered, takes(offered) = takes(Asked),
           plan' = hops(w, offered), pc' = "done",
           UNCHANGED <<ask, target, lo, hi, max_input>>, rounds' = rounds
    PROVE  SizingInv'
<1>1. /\ ask.spend \in Nat \ {0} /\ ask.spend <= MAX_U64 /\ MAX_U64 \in Nat
      /\ bridge.output_reserve \in Nat /\ bridge.output_reserve <= MAX_U64
      /\ Asked \in Nat /\ Asked < bridge.output_reserve
      /\ takes(Asked) \in Nat /\ takes(Asked) <= Asked
      /\ takes(takes(Asked)) = takes(Asked)
      /\ launchlab_amount_out(ask.pool, takes(Asked))
           = launchlab_amount_out(ask.pool, Asked)
      /\ launchlab_amount_out(ask.pool, Asked) \in Nat
  BY AskFacts DEF Amounts
<1> DEFINE taken == takes(Asked)
           meme == launchlab_amount_out(ask.pool, Asked)
<1>2. plan' = [wsol |-> w, hop1_min |-> taken, hop2_in |-> taken, meme_out |-> meme]
  BY <1>1 DEF hops
<1>3. w \in Amounts /\ taken \in Amounts /\ meme \in Nat
  BY <1>1 DEF Amounts
<1> HIDE DEF taken, meme
<1>4. plan' \in Plan
  BY <1>2, <1>3 DEF Plan
<1>5. TypeOK'
  BY <1>4 DEF SizingInv, TypeOK
<1>6. Targeted' /\ SpendFits' /\ EndsBracket'
  BY DEF Targeted, Searching, SpendFits, EndsBracket
<1>7. HopsAgree'
  <2>1. w \in 1 .. ask.spend
    BY <1>1
  <2>2. takes(taken) = taken
    BY <1>1 DEF taken
  <2>3. bridge_quote_out(ask.bridge, w) >= taken
    BY DEF taken
  <2>4. /\ plan'.wsol = w /\ plan'.hop1_min = taken /\ plan'.hop2_in = taken
    BY <1>2
  <2>5. takes(plan.hop2_in)' = takes(taken)
    BY <2>4 DEF takes
  <2> QED
    BY <2>1, <2>2, <2>3, <2>4, <2>5 DEF HopsAgree
<1>8. ShrunkBuysAsMuch'
  BY <1>2 DEF ShrunkBuysAsMuch, meme, Asked
<1>9. OnlyGraduatedRefused'
  BY DEF OnlyGraduatedRefused
<1> QED
  BY <1>5, <1>6, <1>7, <1>8, <1>9 DEF SizingInv

(* The curve takes all that the whole budget brings: all of it is spent.    *)
LEMMA TakeAllSizing ==
    ASSUME SizingInv, TakeAll
    PROVE  SizingInv'
<1>1. /\ pc = "quote" /\ takes(Asked) = Asked
      /\ plan' = hops(ask.spend, Asked)
      /\ pc' = "done"
      /\ UNCHANGED <<ask, target, lo, hi, max_input>> /\ rounds' = rounds
  BY DEF TakeAll, Asked
<1>2. ask \in Asks /\ quotable(ask)
  BY <1>1 DEF SizingInv, TypeOK, Targeted
<1>3. ask.spend \in Nat \ {0} /\ Asked \in Nat
  BY <1>2, AskFacts
<1>4. bridge_quote_out(ask.bridge, ask.spend) >= takes(Asked)
  BY <1>1, <1>3 DEF Asked
<1> QED
  BY <1>1, <1>2, <1>3, <1>4, PlanIsGood

(* The plan is quoted anew at the input that was found.                     *)
LEMMA ReplanSizing ==
    ASSUME SizingInv, Replan
    PROVE  SizingInv'
<1>1. /\ pc = "sized"
      /\ plan' = hops(lo, AtMost(bridge_quote_out(ask.bridge, lo), target))
      /\ pc' = "done"
      /\ UNCHANGED <<ask, target, lo, hi, max_input>> /\ rounds' = rounds
  BY DEF Replan
<1>2. /\ ask \in Asks /\ quotable(ask) /\ lo \in Nat /\ lo # 0
      /\ target = takes(Asked) /\ 0 < target /\ target < Asked
      /\ bridge_quote_out(ask.bridge, lo) >= target
      /\ \A wsol \in 1 .. lo - 1 : ~enough(wsol)
  BY <1>1 DEF SizingInv, TypeOK, Amounts, Targeted, EndsBracket, enough
<1>3. /\ ask.bridge \in Bridge /\ bridge_quotable(ask.bridge, ask.spend)
      /\ ask.spend \in Nat \ {0} /\ Asked \in Nat
      /\ takes(Asked) \in Nat /\ takes(takes(Asked)) = takes(Asked)
  BY <1>2, AskFacts
<1>4. bridge_quote_out(ask.bridge, lo) \in Nat
  BY <1>2, <1>3, BridgeOut
<1>5. AtMost(bridge_quote_out(ask.bridge, lo), target) = target
  BY <1>2, <1>3, <1>4 DEF AtMost
<1>6. enough(ask.spend)
  BY <1>2, <1>3 DEF enough, Asked
<1>7. lo <= ask.spend
  BY <1>2, <1>3, <1>6
<1>8. takes(target) = takes(Asked)
  BY <1>2, <1>3
<1> QED
  BY <1>1, <1>2, <1>5, <1>7, <1>8, PlanIsGood
(* The inverse is asked for what the curve takes: a Raydium V4 bridge       *)
(* answers at once, a CPMM bridge starts its search.                        *)
LEMMA ShrinkSizing ==
    ASSUME SizingInv, Shrink
    PROVE  SizingInv'
<1> DEFINE taken == takes(Asked)
           wsol == raydium_amm_v4_in_for_out(bridge, taken)
<1>1. /\ pc = "quote" /\ taken < Asked /\ taken > 0
      /\ target' = taken /\ UNCHANGED <<ask, max_input, plan, rounds>>
      /\ \/ ask.bridge.kind = "cpmm" /\ pc' = "capacity" /\ lo' = 0 /\ hi' = MAX_U64
         \/ ask.bridge.kind # "cpmm" /\ pc' = "sized" /\ lo' = wsol /\ hi' = wsol
  BY DEF Shrink, Asked
<1>2. ask \in Asks /\ quotable(ask)
  BY <1>1 DEF SizingInv, TypeOK, Targeted
<1>3. /\ taken \in Nat \ {0} /\ Asked \in Nat /\ MAX_U64 \in Nat
      /\ ask.spend \in Nat \ {0} /\ ask.spend <= MAX_U64
      /\ bridge.output_reserve \in Nat /\ bridge.output_reserve <= MAX_U64
      /\ Asked < bridge.output_reserve
  BY <1>1, <1>2, AskFacts DEF Amounts
<1>4. ask.bridge.kind # "cpmm" =>
         /\ wsol \in Nat \ {0} /\ wsol <= MAX_U64
         /\ raydium_amm_v4_out(bridge, wsol) >= taken
         /\ \A w \in 1 .. wsol - 1 : ~(raydium_amm_v4_out(bridge, w) >= taken)
  BY <1>1, <1>2, <1>3, InverseExists
<1> HIDE DEF wsol, taken
<1>5. /\ pc' \notin {"done", "refused"} /\ pc' # "idle"
      /\ Asked' = Asked /\ takes(Asked)' = taken
      /\ \A w : enough(w)' = (bridge_quote_out(ask.bridge, w) >= taken)
  BY <1>1 DEF Asked, takes, enough, taken
<1>6. TypeOK'
  <2>1. target' \in Amounts /\ lo' \in Amounts /\ hi' \in Amounts /\ lo' <= hi'
    BY <1>1, <1>3, <1>4 DEF Amounts
  <2>2. max_input' \in Amounts /\ plan' \in Plan \cup {NoPlan} /\ rounds' \in Nat
    BY <1>1 DEF SizingInv, TypeOK
  <2> QED
    BY <1>1, <1>2, <2>1, <2>2 DEF TypeOK
<1>7. Targeted'
  BY <1>1, <1>2, <1>3, <1>5 DEF Targeted, Searching
<1>8. SpendFits'
  BY <1>1, <1>3 DEF SpendFits
<1>9. EndsBracket'
  <2>1. CASE ask.bridge.kind = "cpmm"
    BY <1>1, <2>1 DEF EndsBracket
  <2>2. CASE ask.bridge.kind # "cpmm"
    <3>1. \A w : enough(w)' = (raydium_amm_v4_out(bridge, w) >= taken)
      BY <1>5, <2>2 DEF bridge_quote_out, bridge
    <3> QED
      BY <1>1, <1>4, <2>2, <3>1 DEF EndsBracket
  <2> QED
    BY <2>1, <2>2
<1> QED
  BY <1>5, <1>6, <1>7, <1>8, <1>9, NotDone DEF SizingInv

(* Bisection rounds up, so that it ends.                                    *)
LEMMA Halves ==
    ASSUME NEW l \in Nat, NEW h \in Nat, l < h
    PROVE  /\ l + (h - l) \div 2 + ((h - l) % 2) \in l + 1 .. h
           /\ l + (h - l) \div 2 \in l .. h - 1
<1>1. h - l \in Nat \ {0}
  BY SMT
<1>2. ASSUME NEW n \in Nat \ {0}, n = h - l
      PROVE  l + n \div 2 + (n % 2) \in l + 1 .. h /\ l + n \div 2 \in l .. h - 1
  <2> DEFINE q == n \div 2
             r == n % 2
  <2>1. q \in Nat /\ r \in 0 .. 1 /\ n = 2 * q + r
    BY SMT
  <2> HIDE DEF q, r
  <2>2. l + q + r \in l + 1 .. h /\ l + q \in l .. h - 1
    BY <1>2, <2>1, SMT
  <2> QED
    BY <2>2 DEF q, r
<1> QED
  BY <1>1, <1>2

(* The vault's capacity: the caller's amount fits, so an input that does    *)
(* not fit is larger than it.                                               *)
LEMMA CapacitySizing ==
    ASSUME SizingInv, Capacity
    PROVE  SizingInv'
<1> DEFINE mid == lo + (hi - lo) \div 2 + ((hi - lo) % 2)
<1>1. /\ pc = "capacity" /\ lo < hi
      /\ \/ after_transfer(bridge.input_fee, mid) <= capacity /\ lo' = mid /\ hi' = hi
         \/ ~(after_transfer(bridge.input_fee, mid) <= capacity) /\ hi' = mid - 1 /\ lo' = lo
      /\ rounds' = rounds + 1
      /\ UNCHANGED <<ask, pc, target, max_input, plan>>
  BY DEF Capacity
<1>2. /\ lo \in Nat /\ hi \in Nat /\ hi <= MAX_U64 /\ MAX_U64 \in Nat
      /\ ask \in Asks /\ quotable(ask) /\ ask.bridge.kind = "cpmm"
      /\ ask.spend <= hi
  BY <1>1, QuoteConstants DEF SizingInv, TypeOK, Amounts, Targeted, Searching, SpendFits
<1>3. mid \in lo + 1 .. hi
  BY <1>1, <1>2, Halves
<1>4. /\ ask.bridge \in Bridge /\ bridge_quotable(ask.bridge, ask.spend)
      /\ ask.spend \in Nat \ {0} /\ bridge.input_reserve \in Nat
  BY <1>2, AskFacts DEF Amounts
<1> HIDE DEF mid
<1>5. ~(after_transfer(bridge.input_fee, mid) <= capacity) => ask.spend < mid
  <2> DEFINE f == bridge.input_fee
  <2>1. f \in TokenTransferFee
    BY <1>2, <1>4, BridgeOut DEF bridge, CpmmSide
  <2>2. bridge.input_reserve + after_transfer(f, ask.spend) <= MAX_U64
    BY <1>2, <1>4 DEF bridge_quotable, cpmm_quotable, bridge
  <2> HIDE DEF f
  <2>3. SUFFICES ASSUME mid <= ask.spend
                 PROVE  after_transfer(f, mid) <= capacity
    BY <1>2, <1>3, <1>4 DEF f
  <2>4. mid \in Nat
    BY <1>2, <1>3
  <2>5. /\ after_transfer(f, mid) \in 0 .. mid
        /\ after_transfer(f, mid) <= after_transfer(f, ask.spend)
        /\ after_transfer(f, ask.spend) \in 0 .. ask.spend
    BY <1>4, <2>1, <2>3, <2>4, TransferMonotone
  <2> QED
    BY <1>2, <1>4, <2>2, <2>4, <2>5 DEF capacity
<1>6. /\ lo' \in Nat /\ hi' \in Nat /\ lo' <= hi' /\ hi' <= MAX_U64
      /\ ask.spend <= hi'
  BY <1>1, <1>2, <1>3, <1>4, <1>5
<1>7. TypeOK'
  BY <1>1, <1>2, <1>6 DEF SizingInv, TypeOK, Amounts
<1>8. Targeted'
  BY <1>1, SameCall DEF SizingInv, Targeted, Searching
<1>9. SpendFits' /\ EndsBracket'
  BY <1>1, <1>6 DEF SpendFits, EndsBracket
<1> QED
  BY <1>1, <1>7, <1>8, <1>9, NotDone DEF SizingInv

(* The largest input that fits is at least the caller's, which is enough:   *)
(* the inverse goes on, from an end below which nothing is enough.          *)
LEMMA StartSearchSizing ==
    ASSUME SizingInv, StartSearch
    PROVE  SizingInv'
<1> DEFINE low == naive_in(bridge, target)
<1>1. /\ pc = "capacity" /\ lo = hi
      /\ max_input' = lo /\ lo' = low /\ hi' = upper_end(low, lo)
      /\ pc' = "reach" /\ UNCHANGED <<ask, target, plan, rounds>>
  BY DEF StartSearch
<1>2. /\ lo \in Nat /\ lo <= MAX_U64 /\ MAX_U64 \in Nat /\ SLACK \in Nat
      /\ ask \in Asks /\ quotable(ask) /\ ask.bridge.kind = "cpmm"
      /\ target = takes(Asked) /\ 0 < target /\ target < Asked /\ target \in Nat
      /\ ask.spend <= lo
  BY <1>1, QuoteConstants, BridgeSizingConstants
  DEF SizingInv, TypeOK, Amounts, Targeted, Searching, SpendFits
<1>3. ask.spend \in Nat \ {0}
  BY <1>2, AskFacts
<1>4. /\ low \in Nat \ {0} /\ low <= ask.spend
      /\ \A w \in 1 .. low - 1 : ~(cpmm_out(bridge, w) >= target)
  BY <1>2, SearchStarts
<1> HIDE DEF low
<1>5. /\ hi' \in Nat /\ low <= hi' /\ hi' <= lo
  BY <1>1, <1>2, <1>3, <1>4 DEF upper_end, AtMost
<1>6. TypeOK'
  <2>1. lo' \in Amounts /\ hi' \in Amounts /\ lo' <= hi' /\ max_input' \in Amounts
        /\ hi' <= max_input'
    BY <1>1, <1>2, <1>3, <1>4, <1>5 DEF Amounts
  <2> QED
    BY <1>1, <1>2, <2>1 DEF SizingInv, TypeOK
<1>7. Targeted'
  BY <1>1, SameCall DEF SizingInv, Targeted, Searching
<1>8. SpendFits'
  BY <1>1, <1>2 DEF SpendFits
<1>9. EndsBracket'
  <2>1. \A w : enough(w)' = (cpmm_out(bridge, w) >= target)
    BY <1>1, <1>2 DEF enough, bridge_quote_out, bridge
  <2> QED
    BY <1>1, <1>4, <2>1 DEF EndsBracket
<1> QED
  BY <1>1, <1>6, <1>7, <1>8, <1>9, NotDone DEF SizingInv

(* The upper end grows, within the vault, until it is enough.               *)
LEMMA ReachSizing ==
    ASSUME SizingInv, Reach
    PROVE  SizingInv'
<1>1. /\ pc = "reach" /\ rounds' = rounds + 1
      /\ UNCHANGED <<ask, target, lo, max_input, plan>>
      /\ \/ /\ cpmm_out(bridge, hi) < target /\ pc' = "reach"
            /\ hi' = AtMost(AtLeast(AtMost(2 * hi, MAX_U64), AtMost(hi + 1, MAX_U64)),
                            max_input)
         \/ ~(cpmm_out(bridge, hi) < target) /\ pc' = "narrow" /\ hi' = hi
  BY DEF Reach
<1>2. /\ lo \in Nat /\ hi \in Nat /\ hi <= MAX_U64 /\ MAX_U64 \in Nat /\ lo <= hi
      /\ hi <= max_input /\ max_input \in Nat /\ max_input <= MAX_U64
      /\ ask \in Asks /\ quotable(ask) /\ ask.bridge.kind = "cpmm" /\ target \in Nat
  BY <1>1, QuoteConstants DEF SizingInv, TypeOK, Amounts, Targeted, Searching
<1>3. hi' \in Nat /\ lo <= hi' /\ hi' <= max_input
  <2> DEFINE twice == AtMost(2 * hi, MAX_U64)
             next == AtMost(hi + 1, MAX_U64)
             up == AtLeast(twice, next)
  <2>1. /\ twice \in Nat /\ hi <= twice /\ twice <= MAX_U64
        /\ next \in Nat /\ hi <= next
    BY <1>2, SMT DEF AtMost
  <2> HIDE DEF twice, next
  <2>2. up \in Nat /\ hi <= up
    BY <1>2, <2>1 DEF AtLeast
  <2>3. hi' = AtMost(up, max_input) \/ hi' = hi
    BY <1>1 DEF twice, next
  <2> HIDE DEF up
  <2> QED
    BY <1>2, <2>2, <2>3 DEF AtMost
<1>4. TypeOK'
  BY <1>1, <1>2, <1>3 DEF SizingInv, TypeOK, Amounts
<1>5. Targeted' /\ SpendFits'
  BY <1>1, SameCall DEF SizingInv, Targeted, Searching, SpendFits
<1>6. EndsBracket'
  <2>1. pc' = "narrow" => enough(hi')
    <3>1. bridge_quote_out(ask.bridge, hi) \in Nat
      BY <1>2, AskFacts, BridgeOut
    <3>2. bridge_quote_out(ask.bridge, hi) = cpmm_out(bridge, hi)
      BY <1>2 DEF bridge_quote_out, bridge
    <3> QED
      BY <1>1, <1>2, <3>1, <3>2 DEF enough
  <2>2. \A w : enough(w)' = enough(w)
    BY <1>1, SameCall
  <2>3. enough(hi)' = enough(hi')
    BY <1>1 DEF enough
  <2> QED
    BY <1>1, <2>1, <2>2, <2>3 DEF SizingInv, EndsBracket
<1> QED
  BY <1>1, <1>4, <1>5, <1>6, NotDone DEF SizingInv
(* Bisection keeps both ends' promises: more input is never less enough.    *)
LEMMA NarrowSizing ==
    ASSUME SizingInv, Narrow
    PROVE  SizingInv'
<1> DEFINE mid == lo + (hi - lo) \div 2
<1>1. /\ pc = "narrow" /\ rounds' = rounds + 1
      /\ UNCHANGED <<ask, target, max_input, plan>>
      /\ \/ lo < hi /\ pc' = pc /\ cpmm_out(bridge, mid) >= target /\ hi' = mid /\ lo' = lo
         \/ /\ lo < hi /\ pc' = pc /\ ~(cpmm_out(bridge, mid) >= target)
            /\ lo' = mid + 1 /\ hi' = hi
         \/ ~(lo < hi) /\ pc' = "sized" /\ lo' = lo /\ hi' = hi
  BY DEF Narrow
<1>2. /\ lo \in Nat /\ hi \in Nat /\ hi <= MAX_U64 /\ lo <= hi /\ lo # 0
      /\ MAX_U64 \in Nat /\ hi <= max_input
      /\ ask \in Asks /\ quotable(ask) /\ ask.bridge.kind = "cpmm"
      /\ enough(hi) /\ \A w \in 1 .. lo - 1 : ~enough(w)
  BY <1>1, QuoteConstants DEF SizingInv, TypeOK, Amounts, Targeted, Searching, EndsBracket
<1>3. lo < hi => mid \in lo .. hi - 1
  BY <1>2, Halves
<1> HIDE DEF mid
<1>4. \A w : enough(w) <=> cpmm_out(bridge, w) >= target
  BY <1>2 DEF enough, bridge_quote_out, bridge
<1>5. /\ \A w : enough(w)' = enough(w)
      /\ enough(hi)' = enough(hi')
  BY <1>1, SameCall DEF enough
<1>6. lo' \in Nat /\ hi' \in Nat /\ lo' <= hi' /\ hi' <= hi /\ lo' # 0
  BY <1>1, <1>2, <1>3
<1>7. TypeOK'
  BY <1>1, <1>2, <1>6 DEF SizingInv, TypeOK, Amounts
<1>8. Targeted' /\ SpendFits'
  BY <1>1, SameCall DEF SizingInv, Targeted, Searching, SpendFits
<1>9. \A w \in 1 .. lo' - 1 : ~enough(w)
  <2>1. CASE lo' = lo
    BY <1>2, <2>1
  <2>2. CASE lo < hi /\ lo' = mid + 1 /\ ~enough(mid)
    <3> SUFFICES ASSUME NEW w \in 1 .. mid, enough(w) PROVE FALSE
      BY <1>2, <1>3, <2>2
    <3>1. mid \in Nat /\ w \in Nat /\ w <= mid
      BY <1>2, <1>3, <2>2
    <3>2. ask.bridge \in Bridge /\ bridge_quotable(ask.bridge, ask.spend)
      BY <1>2, AskFacts
    <3>3. /\ bridge_quote_out(ask.bridge, w) \in Nat
          /\ bridge_quote_out(ask.bridge, mid) \in Nat
          /\ bridge_quote_out(ask.bridge, w) <= bridge_quote_out(ask.bridge, mid)
      BY <3>1, <3>2, BridgeOut
    <3>4. target \in Nat
      BY DEF SizingInv, TypeOK, Amounts
    <3> QED
      BY <2>2, <3>3, <3>4 DEF enough
  <2> QED
    BY <1>1, <1>4, <2>1, <2>2
<1>10. enough(hi')
  BY <1>1, <1>2, <1>4
<1>11. EndsBracket'
  <2>1. pc' \in {"narrow", "sized"} /\ (pc' = "sized" => lo' = hi')
    BY <1>1, <1>2
  <2> QED
    BY <1>5, <1>6, <1>9, <1>10, <2>1 DEF EndsBracket
<1> QED
  BY <1>1, <1>7, <1>8, <1>11, NotDone DEF SizingInv

(* A call that is refused leaves no plan to speak of.                       *)
LEMMA AfterRefusal ==
    ASSUME SizingInv, takes(Asked) = 0, pc' = "refused",
           UNCHANGED <<ask, target, lo, hi, max_input, plan, rounds>>, pc # "idle"
    PROVE  SizingInv'
<1>1. TypeOK'
  BY DEF SizingInv, TypeOK
<1>2. Targeted' /\ SpendFits' /\ EndsBracket'
  BY DEF Targeted, Searching, SpendFits, EndsBracket
<1>3. HopsAgree' /\ ShrunkBuysAsMuch'
  BY DEF HopsAgree, ShrunkBuysAsMuch
<1>4. OnlyGraduatedRefused'
  BY DEF OnlyGraduatedRefused, Asked, takes
<1> QED
  BY <1>1, <1>2, <1>3, <1>4 DEF SizingInv

(* The errors of the inverse are not met, but for a curve that takes        *)
(* nothing.                                                                 *)
LEMMA RefuseSizing ==
    ASSUME SizingInv, Refuse
    PROVE  SizingInv'
<1>1. pc' = "refused" /\ UNCHANGED <<ask, target, lo, hi, max_input, plan, rounds>>
  BY DEF Refuse
<1>2. pc = "quote" \/ (pc = "capacity" /\ lo = hi)
  BY DEF Refuse, unsizable, unreachable
<1>3. ask \in Asks /\ quotable(ask)
  BY <1>2 DEF SizingInv, TypeOK, Targeted
<1>4. /\ Asked \in Nat /\ takes(Asked) \in Nat /\ ask.spend \in Nat \ {0}
      /\ ask.spend <= MAX_U64 /\ MAX_U64 \in Nat
      /\ bridge.output_reserve \in Nat /\ Asked < bridge.output_reserve
      /\ ask.bridge \in Bridge /\ bridge_quotable(ask.bridge, ask.spend)
  BY <1>3, AskFacts DEF Amounts
<1>5. CASE pc = "quote"
  <2>1. unsizable
    BY <1>5 DEF Refuse, unreachable
  <2> DEFINE taken == takes(Asked)
             wsol == raydium_amm_v4_in_for_out(bridge, taken)
  <2>2. /\ taken < Asked
        /\ \/ taken = 0 \/ taken >= bridge.output_reserve
           \/ ask.bridge.kind = "cpmm" /\ ~cpmm_quotable(bridge, 1)
           \/ /\ ask.bridge.kind # "cpmm"
              /\ \/ wsol > MAX_U64 \/ ~amm_v4_quotable(bridge, wsol)
                 \/ raydium_amm_v4_out(bridge, wsol) < taken
    BY <2>1 DEF unsizable, Asked
  <2> SUFFICES ASSUME taken # 0 PROVE FALSE
    BY <1>1, <1>5, AfterRefusal
  <2>3. taken \in Nat \ {0}
    BY <1>4
  <2>4. /\ taken < bridge.output_reserve
        /\ ask.bridge.kind = "cpmm" => cpmm_quotable(bridge, 1)
        /\ ask.bridge.kind # "cpmm" =>
              /\ wsol \in Nat /\ wsol <= MAX_U64 /\ amm_v4_quotable(bridge, wsol)
              /\ raydium_amm_v4_out(bridge, wsol) >= taken
    BY <1>3, <2>2, <2>3, InverseExists
  <2> HIDE DEF wsol, taken
  <2>5. ask.bridge.kind # "cpmm" => raydium_amm_v4_out(bridge, wsol) \in Nat
    <3>1. ask.bridge.kind # "cpmm" => bridge_quote_out(ask.bridge, wsol) \in Nat
      BY <1>4, <2>4, BridgeOut
    <3> QED
      BY <3>1 DEF bridge_quote_out, bridge
  <2> QED
    BY <1>4, <2>2, <2>3, <2>4, <2>5
<1>6. CASE pc = "capacity" /\ lo = hi
  <2>1. \/ lo = 0 \/ cpmm_out(bridge, lo) < target
        \/ naive_in(bridge, target) > MAX_U64
    BY <1>6 DEF Refuse, unsizable, unreachable
  <2>2. /\ lo \in Nat /\ ask.bridge.kind = "cpmm" /\ ask.spend <= lo
        /\ target \in Nat \ {0} /\ target < Asked
    BY <1>6 DEF SizingInv, TypeOK, Amounts, Targeted, Searching, SpendFits
  <2>3. /\ lo > 0 /\ cpmm_out(bridge, lo) >= target
        /\ naive_in(bridge, target) \in Nat /\ naive_in(bridge, target) <= ask.spend
    BY <1>3, <2>2, SearchStarts
  <2>4. cpmm_out(bridge, lo) \in Nat
    <3>1. bridge_quote_out(ask.bridge, lo) \in Nat
      BY <1>4, <2>2, BridgeOut
    <3> QED
      BY <2>2, <3>1 DEF bridge_quote_out, bridge
  <2> QED
    BY <1>4, <2>1, <2>2, <2>3, <2>4
<1> QED
  BY <1>2, <1>5, <1>6

(* Every round of the search keeps SizingInv.                               *)
LEMMA NextSizing == SizingInv /\ [Next]_vars => SizingInv'
<1> SUFFICES ASSUME SizingInv, [Next]_vars PROVE SizingInv'
  OBVIOUS
<1>1. ASSUME UNCHANGED vars PROVE SizingInv'
  BY <1>1 DEF vars, SizingInv, TypeOK, Targeted, Searching, SpendFits, EndsBracket, enough,
              Asked, takes, HopsAgree, ShrunkBuysAsMuch, OnlyGraduatedRefused
<1> QED
  BY <1>1, AskSizing, ReturnSizing, TakeAllSizing, ShrinkSizing, CapacitySizing,
     StartSearchSizing, ReachSizing, NarrowSizing, ReplanSizing, RefuseSizing
  DEF Next, Compute

(* The inductive invariant: where the search stands, the caller's amount is *)
(* still in reach and nothing below its lower end is enough                 *)
(* (buy_via_bridge_launchlab, cpmm_in_for_out).                             *)
THEOREM SizingInvariant == Spec => []SizingInv
<1>1. Init => SizingInv
  BY InitSizing
<1>2. SizingInv /\ [Next]_vars => SizingInv'
  BY NextSizing
<1> QED
  BY <1>1, <1>2, PTL DEF Spec

(* Every local of the sizing stays a u64 and no difference of the ends of   *)
(* the search wraps (cpmm_in_for_out).                                      *)
THEOREM SizingTypeCorrect == Spec => []TypeOK
<1>1. SizingInv => TypeOK
  BY DEF SizingInv
<1> QED
  BY <1>1, SizingInvariant, PTL

(* The inverse of a bridge's quote is exact, by closed form or by search:   *)
(* what it returns is enough and no less is (cpmm_in_for_out,               *)
(* raydium_amm_v4_in_for_out).                                              *)
THEOREM InverseIsLeast == Spec => []LeastInput
<1>1. SizingInv => LeastInput
  BY DEF SizingInv, EndsBracket, LeastInput
<1> QED
  BY <1>1, SizingInvariant, PTL

(* The two hops of a bridged buy fit each other and the caller's budget     *)
(* (buy_via_bridge_launchlab).                                              *)
THEOREM PlannedHopsAgree == Spec => []HopsAgree
<1>1. SizingInv => HopsAgree
  BY DEF SizingInv
<1> QED
  BY <1>1, SizingInvariant, PTL

(* Shrinking the first hop costs the buyer no token                         *)
(* (buy_via_bridge_launchlab).                                              *)
THEOREM ShrinkingLosesNothing == Spec => []ShrunkBuysAsMuch
<1>1. SizingInv => ShrunkBuysAsMuch
  BY DEF SizingInv
<1> QED
  BY <1>1, SizingInvariant, PTL

(* What can be quoted can be sized: "unreachable within token vault         *)
(* capacity" and "cannot reach target" are never returned on a curve that   *)
(* still sells (cpmm_in_for_out, raydium_amm_v4_in_for_out).                *)
THEOREM QuotedIsSized == Spec => []OnlyGraduatedRefused
<1>1. SizingInv => OnlyGraduatedRefused
  BY DEF SizingInv
<1> QED
  BY <1>1, SizingInvariant, PTL
-----------------------------------------------------------------------------
(* How long the search takes.  Each bisection halves what is left, so it    *)
(* goes round once per bit; the end that is to be enough doubles, so it is  *)
(* the vault's capacity, which is enough, after once per bit.               *)

Pow(n) == 2^n

RoundsInv ==
    /\ pc \in {"idle", "quote"} => rounds = 0
    /\ pc = "capacity" =>
           \E r \in 0 .. WIDTH : rounds = r /\ hi - lo < Pow(WIDTH - r)
    /\ pc = "reach" =>
           \E r \in 0 .. WIDTH : /\ rounds <= WIDTH + r
                                 /\ hi >= Pow(r) \/ hi = max_input
    /\ pc = "narrow" =>
           \E r \in 0 .. WIDTH : /\ rounds <= 2 * WIDTH + 1 + r
                                 /\ hi - lo < Pow(WIDTH - r)
    /\ SearchIsShort

(* The powers of two the rounds are counted in (BridgeSizingWidth).         *)
LEMMA Powers ==
    /\ WIDTH \in Nat /\ MAX_U64 \in Nat /\ MAX_U64 < Pow(WIDTH) /\ Pow(0) = 1
    /\ \A n \in 0 .. WIDTH : Pow(n) \in Nat
    /\ \A n \in 0 .. WIDTH - 1 : Pow(n + 1) = 2 * Pow(n)
BY BridgeSizingWidth, QuoteConstants DEF Pow

(* Either bisection leaves less than half.                                  *)
LEMMA HalfIsLeft ==
    ASSUME NEW l \in Nat, NEW h \in Nat, l < h, NEW P \in Nat, h - l < 2 * P
    PROVE  /\ LET up == l + (h - l) \div 2 + ((h - l) % 2)
              IN  h - up < P /\ (up - 1) - l < P
           /\ LET mid == l + (h - l) \div 2
              IN  mid - l < P /\ h - (mid + 1) < P
<1>1. h - l \in Nat \ {0}
  BY SMT
<1>2. ASSUME NEW n \in Nat \ {0}, n = h - l
      PROVE  /\ h - (l + n \div 2 + (n % 2)) < P
             /\ (l + n \div 2 + (n % 2) - 1) - l < P
             /\ (l + n \div 2) - l < P
             /\ h - (l + n \div 2 + 1) < P
  <2> DEFINE q == n \div 2
             r == n % 2
  <2>1. q \in Nat /\ r \in 0 .. 1 /\ n = 2 * q + r
    BY SMT
  <2> HIDE DEF q, r
  <2>2. /\ h - (l + q + r) < P /\ (l + q + r - 1) - l < P
        /\ (l + q) - l < P /\ h - (l + q + 1) < P
    BY <1>2, <2>1, SMT
  <2> QED
    BY <2>2 DEF q, r
<1> QED
  BY <1>1, <1>2

(* A bisection that is not over has a bit left to decide.                   *)
LEMMA BitLeft ==
    ASSUME NEW l \in Nat, NEW h \in Nat, l < h, NEW r \in 0 .. WIDTH, h - l < Pow(WIDTH - r)
    PROVE  /\ r + 1 \in 0 .. WIDTH
           /\ Pow(WIDTH - (r + 1)) \in Nat
           /\ h - l < 2 * Pow(WIDTH - (r + 1))
<1>1. r # WIDTH
  BY Powers
<1>2. WIDTH - (r + 1) \in 0 .. WIDTH - 1 /\ (WIDTH - (r + 1)) + 1 = WIDTH - r
  BY <1>1, Powers
<1>3. Pow(WIDTH - r) = 2 * Pow(WIDTH - (r + 1))
  BY <1>2, Powers
<1>4. Pow(WIDTH - (r + 1)) \in Nat
  BY <1>2, Powers
<1> QED
  BY <1>2, <1>3, <1>4, Powers

(* A round that looks for what the vault can pay halves the range.          *)
LEMMA CapacityRounds ==
    ASSUME SizingInv, RoundsInv, Capacity
    PROVE  RoundsInv'
<1> DEFINE mid == lo + (hi - lo) \div 2 + ((hi - lo) % 2)
<1>1. /\ pc = "capacity" /\ lo < hi /\ rounds' = rounds + 1 /\ pc' = pc
      /\ \/ after_transfer(bridge.input_fee, mid) <= capacity /\ lo' = mid /\ hi' = hi
         \/ ~(after_transfer(bridge.input_fee, mid) <= capacity) /\ hi' = mid - 1 /\ lo' = lo
  BY DEF Capacity
<1>2. lo \in Nat /\ hi \in Nat
  BY DEF SizingInv, TypeOK, Amounts
<1>3. PICK r \in 0 .. WIDTH : rounds = r /\ hi - lo < Pow(WIDTH - r)
  BY <1>1 DEF RoundsInv
<1> DEFINE P == Pow(WIDTH - (r + 1))
<1>4. r + 1 \in 0 .. WIDTH /\ P \in Nat /\ hi - lo < 2 * P
  BY <1>1, <1>2, <1>3, BitLeft
<1> HIDE DEF P
<1>5. hi - mid < P /\ (mid - 1) - lo < P
  BY <1>1, <1>2, <1>4, HalfIsLeft
<1> HIDE DEF mid
<1>6. hi' - lo' < P
  BY <1>1, <1>5
<1>7. rounds' = r + 1 /\ rounds' <= 3 * WIDTH + 2
  BY <1>1, <1>3, <1>4, Powers
<1> QED
  BY <1>1, <1>4, <1>6, <1>7 DEF RoundsInv, SearchIsShort, P

(* The search for the target starts at one.                                 *)
LEMMA StartSearchRounds ==
    ASSUME SizingInv, RoundsInv, StartSearch
    PROVE  RoundsInv'
<1>1. /\ pc = "capacity" /\ pc' = "reach" /\ rounds' = rounds
      /\ lo' # 0 /\ lo' \in Nat /\ hi' \in Nat /\ lo' <= hi'
  <2>1. SizingInv'
    BY StartSearchSizing
  <2>2. pc = "capacity" /\ pc' = "reach" /\ rounds' = rounds
    BY DEF StartSearch
  <2> QED
    BY <2>1, <2>2 DEF SizingInv, TypeOK, EndsBracket, Amounts
<1>2. PICK r \in 0 .. WIDTH : rounds = r
  BY <1>1 DEF RoundsInv
<1>3. rounds' <= WIDTH + 0 /\ hi' >= Pow(0) /\ 0 \in 0 .. WIDTH
  BY <1>1, <1>2, Powers
<1>4. SearchIsShort'
  BY <1>1, <1>2, Powers DEF SearchIsShort
<1> QED
  BY <1>1, <1>3, <1>4 DEF RoundsInv

(* A round that has not reached the target doubles the upper end.           *)
LEMMA ReachRounds ==
    ASSUME SizingInv, RoundsInv, Reach
    PROVE  RoundsInv'
<1>1. /\ pc = "reach" /\ rounds' = rounds + 1
      /\ UNCHANGED <<ask, target, lo, max_input, plan>>
      /\ \/ /\ cpmm_out(bridge, hi) < target /\ pc' = "reach"
            /\ hi' = AtMost(AtLeast(AtMost(2 * hi, MAX_U64), AtMost(hi + 1, MAX_U64)),
                            max_input)
         \/ pc' = "narrow" /\ hi' = hi
  BY DEF Reach
<1>2. /\ lo \in Nat /\ hi \in Nat /\ hi <= MAX_U64 /\ MAX_U64 \in Nat /\ lo <= hi
      /\ hi <= max_input /\ max_input \in Nat /\ max_input <= MAX_U64 /\ rounds \in Nat
      /\ ask \in Asks /\ quotable(ask) /\ ask.bridge.kind = "cpmm"
      /\ target \in Nat \ {0} /\ target < Asked /\ ask.spend <= max_input
  BY <1>1, QuoteConstants
  DEF SizingInv, TypeOK, Amounts, Targeted, Searching, SpendFits
<1>3. PICK r \in 0 .. WIDTH : rounds <= WIDTH + r /\ (hi >= Pow(r) \/ hi = max_input)
  BY <1>1 DEF RoundsInv
<1>4. CASE pc' = "narrow" /\ hi' = hi
  <2>1. hi' - lo' < Pow(WIDTH - 0) /\ rounds' <= 2 * WIDTH + 1 + 0 /\ 0 \in 0 .. WIDTH
    BY <1>1, <1>2, <1>3, <1>4, Powers
  <2>2. rounds' <= 3 * WIDTH + 2
    BY <1>2, <1>1, <2>1, Powers
  <2> QED
    BY <1>4, <2>1, <2>2 DEF RoundsInv, SearchIsShort
<1>5. CASE /\ cpmm_out(bridge, hi) < target /\ pc' = "reach"
           /\ hi' = AtMost(AtLeast(AtMost(2 * hi, MAX_U64), AtMost(hi + 1, MAX_U64)),
                           max_input)
  <2>1. cpmm_out(bridge, max_input) >= target /\ cpmm_out(bridge, max_input) \in Nat
    <3>1. ask.bridge \in Bridge /\ bridge_quotable(ask.bridge, ask.spend)
      BY <1>2, AskFacts
    <3>2. bridge_quote_out(ask.bridge, max_input) \in Nat
      BY <1>2, <3>1, BridgeOut
    <3> QED
      BY <1>2, <3>2, SearchStarts DEF bridge_quote_out, bridge
  <2>2. hi # max_input
    BY <1>2, <1>5, <2>1
  <2>3. hi >= Pow(r) /\ Pow(r) \in Nat
    BY <1>3, <2>2, Powers
  <2>4. r + 1 \in 0 .. WIDTH /\ Pow(r + 1) = 2 * Pow(r)
    <3>1. r # WIDTH
      BY <1>2, <2>3, Powers
    <3>2. r \in 0 .. WIDTH - 1
      BY <3>1, Powers
    <3> QED
      BY <3>2, Powers
  <2>5. hi' >= 2 * hi \/ hi' = max_input
    <3> DEFINE twice == AtMost(2 * hi, MAX_U64)
               next == AtMost(hi + 1, MAX_U64)
    <3>1. next \in Nat /\ (twice = 2 * hi \/ twice = MAX_U64) /\ twice \in Nat
      BY <1>2, SMT DEF AtMost
    <3>2. hi' = AtMost(AtLeast(twice, next), max_input)
      BY <1>5
    <3> HIDE DEF twice, next
    <3> DEFINE up == AtLeast(twice, next)
    <3>3. up \in Nat /\ up >= twice
      BY <3>1 DEF AtLeast
    <3> HIDE DEF up
    <3>4. (hi' = up /\ up <= max_input) \/ hi' = max_input
      BY <1>2, <3>2, <3>3 DEF AtMost, up
    <3> QED
      BY <1>2, <3>1, <3>3, <3>4
  <2>6. /\ rounds' <= WIDTH + (r + 1)
        /\ hi' >= Pow(r + 1) \/ hi' = max_input'
    <3>1. hi' \in Nat
      BY ReachSizing DEF SizingInv, TypeOK, Amounts
    <3> QED
      BY <1>1, <1>2, <1>3, <2>3, <2>4, <2>5, <3>1, Powers
  <2>7. rounds' <= 3 * WIDTH + 2
    BY <1>1, <1>2, <2>4, <2>6, Powers
  <2> QED
    BY <1>5, <2>4, <2>6, <2>7 DEF RoundsInv, SearchIsShort
<1> QED
  BY <1>1, <1>4, <1>5

(* A round between the two ends halves what lies between them.              *)
LEMMA NarrowRounds ==
    ASSUME SizingInv, RoundsInv, Narrow
    PROVE  RoundsInv'
<1> DEFINE mid == lo + (hi - lo) \div 2
<1>1. /\ pc = "narrow" /\ rounds' = rounds + 1
      /\ \/ lo < hi /\ pc' = pc /\ hi' = mid /\ lo' = lo
         \/ lo < hi /\ pc' = pc /\ lo' = mid + 1 /\ hi' = hi
         \/ pc' = "sized"
  BY DEF Narrow
<1>2. lo \in Nat /\ hi \in Nat /\ rounds \in Nat
  BY DEF SizingInv, TypeOK, Amounts
<1>3. PICK r \in 0 .. WIDTH : rounds <= 2 * WIDTH + 1 + r /\ hi - lo < Pow(WIDTH - r)
  BY <1>1 DEF RoundsInv
<1>4. rounds' <= 3 * WIDTH + 2
  BY <1>1, <1>2, <1>3, Powers
<1>5. CASE lo < hi /\ pc' = pc /\ ((hi' = mid /\ lo' = lo) \/ (lo' = mid + 1 /\ hi' = hi))
  <2> DEFINE P == Pow(WIDTH - (r + 1))
  <2>1. r + 1 \in 0 .. WIDTH /\ P \in Nat /\ hi - lo < 2 * P
    BY <1>2, <1>3, <1>5, BitLeft
  <2> HIDE DEF P
  <2>2. mid - lo < P /\ hi - (mid + 1) < P
    BY <1>2, <1>5, <2>1, HalfIsLeft
  <2> HIDE DEF mid
  <2>3. hi' - lo' < P
    BY <1>5, <2>2
  <2>4. rounds' <= 2 * WIDTH + 1 + (r + 1)
    BY <1>1, <1>2, <1>3, <2>1, Powers
  <2> QED
    BY <1>1, <1>4, <1>5, <2>1, <2>3, <2>4 DEF RoundsInv, SearchIsShort, P
<1>6. CASE pc' = "sized"
  BY <1>4, <1>6 DEF RoundsInv, SearchIsShort
<1> HIDE DEF mid
<1> QED
  BY <1>1, <1>5, <1>6

(* Every round keeps RoundsInv: what is left to search shrinks with it.     *)
LEMMA NextRounds == SizingInv /\ RoundsInv /\ [Next]_vars => RoundsInv'
<1> SUFFICES ASSUME SizingInv, RoundsInv, [Next]_vars PROVE RoundsInv'
  OBVIOUS
<1>1. CASE Ask
  BY <1>1 DEF Ask, RoundsInv, SearchIsShort
<1>2. CASE TakeAll \/ Replan \/ Refuse
  BY <1>2 DEF TakeAll, Replan, Refuse, RoundsInv, SearchIsShort
<1>3. CASE Return
  BY <1>3, Powers DEF Return, RoundsInv, SearchIsShort
<1>4. CASE Shrink
  <2>1. /\ rounds' = 0
        /\ \/ ask.bridge.kind = "cpmm" /\ pc' = "capacity" /\ lo' = 0 /\ hi' = MAX_U64
           \/ ask.bridge.kind # "cpmm" /\ pc' = "sized"
    BY <1>4 DEF Shrink, RoundsInv
  <2>2. pc' = "capacity" => hi' - lo' < Pow(WIDTH - 0)
    BY <2>1, Powers
  <2>3. 0 \in 0 .. WIDTH /\ rounds' <= 3 * WIDTH + 2
    BY <2>1, Powers
  <2> QED
    BY <2>1, <2>2, <2>3 DEF RoundsInv, SearchIsShort
<1>5. CASE UNCHANGED vars
  BY <1>5 DEF vars, RoundsInv, SearchIsShort
<1> QED
  BY <1>1, <1>2, <1>3, <1>4, <1>5, CapacityRounds, StartSearchRounds, ReachRounds,
     NarrowRounds DEF Next, Compute

(* The search is over after three rounds a bit, however large the reserves  *)
(* (the three loops of cpmm_in_for_out).                                    *)
THEOREM SearchIsLogarithmic == Spec => []SearchIsShort
<1>1. Init => RoundsInv
  BY Powers DEF Init, RoundsInv, SearchIsShort
<1>2. SizingInv /\ RoundsInv /\ [Next]_vars => RoundsInv'
  BY NextRounds
<1>3. RoundsInv => SearchIsShort
  BY DEF RoundsInv
<1> QED
  BY <1>1, <1>2, <1>3, SizingInvariant, PTL DEF Spec
=============================================================================
