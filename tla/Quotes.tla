------------------------------- MODULE Quotes -------------------------------
(***************************************************************************)
(* The client's quotes on pool reserves, as functions of a snapshot of the  *)
(* pool: Token-2022 transfer fees, constant-product pools and their         *)
(* inverses, the LaunchLab curve and its clamp near graduation.             *)
(* The products are u128 in the code and cannot overflow for u64 reserves.  *)
(* Where the code returns an error there is a predicate: a quote means      *)
(* something only where its predicate holds.                                *)
(***************************************************************************)
EXTENDS FeeMath

CONSTANTS
    RATE_DENOM,     \* FEE_DENOM of quote.rs, 1_000_000
    MAX_U64         \* 2^64 - 1 in the code

Amounts == 0 .. MAX_U64

AtMost(a, b) == IF a <= b THEN a ELSE b

AtLeast(a, b) == IF a <= b THEN b ELSE a

div_ceil(n, d) == (n + d - 1) \div d

-----------------------------------------------------------------------------
(* Transfer fees: what a mint withholds of a transfer, rounded up.          *)

TokenTransferFee == [basis_points : 0 .. FEE_DENOM, maximum_fee : Nat]

calculate(f, amount) ==
    AtMost(div_ceil(amount * f.basis_points, FEE_DENOM), f.maximum_fee)

after_transfer(f, amount) == amount - calculate(f, amount)

(* What must be added for the recipient to receive the amount. *)
calculate_inverse(f, post) ==
    IF f.basis_points = 0 \/ post = 0 THEN 0
    ELSE IF f.basis_points = FEE_DENOM THEN f.maximum_fee
    ELSE AtMost(div_ceil(post * f.basis_points, FEE_DENOM - f.basis_points),
                f.maximum_fee)

-----------------------------------------------------------------------------
(* Pool fees and the constant-product curve.                                *)

(* cpmm_trade_fee, fee_ceil *)
fee_ceil(amount, rate) == div_ceil(amount * rate, RATE_DENOM)

after_fee(amount, rate) == amount - fee_ceil(amount, rate)

(* The least amount that leaves post_fee. *)
pre_fee_amount(post_fee, rate) ==
    div_ceil(post_fee * RATE_DENOM, RATE_DENOM - rate)

curve_out(input_reserve, output_reserve, amount) ==
    (output_reserve * amount) \div (input_reserve + amount)

curve_in(input_reserve, output_reserve, wanted) ==
    div_ceil(wanted * input_reserve, output_reserve - wanted)

(* A CpmmPool seen from one side: the creator's fee is taken of the input   *)
(* or of the output, as creator_fee_on and the direction have it.           *)
CpmmSide ==
    [ input_reserve : Amounts \ {0}, output_reserve : Amounts \ {0},
      trade_fee_rate : Nat, creator_rate : Nat, creator_on_input : BOOLEAN,
      input_fee : TokenTransferFee, output_fee : TokenTransferFee ]

valid_rates(s) == s.trade_fee_rate + s.creator_rate < RATE_DENOM

cpmm_quotable(s, amount) ==
    /\ valid_rates(s)
    /\ amount # 0
    /\ s.input_reserve + after_transfer(s.input_fee, amount) <= MAX_U64

cpmm_swapped(s, credited) ==
    LET through(rate) == curve_out(s.input_reserve, s.output_reserve,
                                   after_fee(credited, rate))
    IN  IF s.creator_on_input THEN through(s.trade_fee_rate + s.creator_rate)
        ELSE after_fee(through(s.trade_fee_rate), s.creator_rate)

cpmm_out(s, amount) ==
    after_transfer(s.output_fee,
                   cpmm_swapped(s, after_transfer(s.input_fee, amount)))

(* Where the search of cpmm_in_for_out starts: no smaller input can do.     *)
naive_in(s, wanted) ==
    AtLeast(curve_in(s.input_reserve, s.output_reserve, wanted), 1)

(* A RaydiumAmmV4Pool seen from one side. *)
AmmV4Side ==
    [ input_reserve : Amounts \ {0}, output_reserve : Amounts \ {0},
      fee_numerator : Nat, fee_denominator : Nat \ {0} ]

amm_v4_quotable(s, amount) ==
    /\ amount # 0
    /\ s.fee_numerator < s.fee_denominator
    /\ s.input_reserve + amount <= MAX_U64

raydium_amm_v4_out(s, amount) ==
    curve_out(s.input_reserve, s.output_reserve,
              amount - div_ceil(amount * s.fee_numerator, s.fee_denominator))

raydium_amm_v4_in_for_out(s, wanted) ==
    div_ceil(curve_in(s.input_reserve, s.output_reserve, wanted)
                 * s.fee_denominator,
             s.fee_denominator - s.fee_numerator)

-----------------------------------------------------------------------------
(* LaunchLab.  "remaining" is what the curve still sells before graduation; *)
(* with total_base_sell = 0 there is no such limit.                         *)

LaunchLabPool ==
    [ virtual_quote : Nat, real_quote : Nat, virtual_base : Nat,
      real_base : Nat, total_base_sell : Nat, fee_rate : 0 .. RATE_DENOM,
      quote_fee : TokenTransferFee, base_fee : TokenTransferFee ]

launchlab_reserves(p) ==
    [ input |-> p.virtual_quote + p.real_quote,
      output |-> p.virtual_base - p.real_base ]

launchlab_quotable(p, amount) ==
    /\ amount # 0
    /\ p.virtual_base > p.real_base
    /\ p.virtual_quote + p.real_quote > 0
    /\ p.total_base_sell # 0 => p.total_base_sell >= p.real_base

remaining(p) == p.total_base_sell - p.real_base

launchlab_unclamped(p, amount) ==
    LET r == launchlab_reserves(p)
    IN  curve_out(r.input, r.output,
                  after_fee(after_transfer(p.quote_fee, amount), p.fee_rate))

launchlab_clamps(p, amount) ==
    p.total_base_sell # 0 /\ launchlab_unclamped(p, amount) > remaining(p)

(* What buys out the curve: through the curve, the fees, the transfer.      *)
graduation_vault(p) ==
    LET r == launchlab_reserves(p)
    IN  pre_fee_amount(curve_in(r.input, r.output, remaining(p)), p.fee_rate)

(* A slip: the transfer fee of the quote mint is not added back. *)
graduation_in_vault(p) == graduation_vault(p)

graduation_in(p) ==
    graduation_vault(p) + calculate_inverse(p.quote_fee, graduation_vault(p))

(* launchlab_buy_quote *)
launchlab_amount_in(p, amount) ==
    IF launchlab_clamps(p, amount) THEN AtMost(graduation_in(p), amount)
    ELSE amount

launchlab_amount_out(p, amount) ==
    after_transfer(p.base_fee,
        IF launchlab_clamps(p, amount) THEN remaining(p)
        ELSE launchlab_unclamped(p, amount))

ASSUME QuoteConstants ==
    /\ RATE_DENOM \in Nat \ {0}
    /\ MAX_U64 \in Nat \ {0}
=============================================================================
