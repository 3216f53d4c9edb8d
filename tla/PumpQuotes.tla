----------------------------- MODULE PumpQuotes -----------------------------
(***************************************************************************)
(* The client's quotes on Pump.fun bonding curves, V1/V2 and V3 with the    *)
(* leg into the pool a graduating coin will trade in, and on PumpSwap       *)
(* pools.  A quote is 0 where the code returns an error; a buy on a curve   *)
(* is never quoted 0 otherwise (positive_u64), the others may round to it.  *)
(***************************************************************************)
EXTENDS Quotes

(* What a trade is charged: lp is 0 on a curve, creator is 0 for a coin     *)
(* without one.                                                             *)
PumpRates == [lp : Nat, protocol : Nat, creator : Nat]

total_rate(r) == r.lp + r.protocol + r.creator

compute_fee_bps(amount, rate) == div_ceil(amount * rate, FEE_DENOM)

(* Each share of the fee is rounded up by itself. *)
fees(amount, r) ==
    compute_fee_bps(amount, r.lp) + compute_fee_bps(amount, r.protocol)
        + compute_fee_bps(amount, r.creator)

with_fees(net, r) == net + fees(net, r)

gross_net(budget, r) == (budget * FEE_DENOM) \div (FEE_DENOM + total_rate(r))

(* A slip: the excess of the shares' rounding is left in. *)
net_uncorrected(budget, r) == gross_net(budget, r)

(* What is left of a budget for the curve: the fees are inverted as one     *)
(* rate, and what rounding each share up makes too much is taken back.      *)
net_quote(budget, r) ==
    LET net == gross_net(budget, r)
    IN  AtLeast(net - AtLeast(with_fees(net, r) - budget, 0), 0)

-----------------------------------------------------------------------------
(* Curves: base and quote are the virtual reserves, real the tokens the     *)
(* curve still sells.                                                       *)

pumpfun_rates_ok(p) == p.rates.protocol + p.rates.creator < FEE_DENOM

reserves_ok(p) == p.base # 0 /\ p.quote # 0

pumpfun_buy_token_out(p, quote_in) ==
    LET net == net_quote(quote_in, p.rates)
    IN  IF ~pumpfun_rates_ok(p) \/ ~reserves_ok(p) \/ net = 0 THEN 0
        ELSE AtMost(curve_out(p.quote, p.base, net - 1), p.real)

pumpfun_sell_sol_out(p, token_in) ==
    LET gross == curve_out(p.base, p.quote, token_in)
    IN  IF ~pumpfun_rates_ok(p) \/ ~reserves_ok(p) \/ token_in = 0
           \/ fees(gross, p.rates) > gross
        THEN 0
        ELSE gross - fees(gross, p.rates)

-----------------------------------------------------------------------------
(* V3, a curve and what its graduation needs.  Past its last token the coin *)
(* graduates, and the rest of the trade goes into the pool-to-be: the       *)
(* tokens the curve never sold, and all the quote it raised less the        *)
(* migration fee.                                                           *)

PumpFunV3Pool(p) ==
    /\ p.curve.rates \in PumpRates
    /\ {p.curve.base, p.curve.quote, p.curve.real} \subseteq Nat
    /\ {p.balance, p.real_quote, p.migration_fee} \subseteq Nat

(* What the curve asks for tokens it still has. *)
curve_net(c, tokens) == (tokens * c.quote) \div (c.base - tokens) + 1

pool_to_be(p) ==
    [ base |-> p.balance - p.curve.real,
      quote |-> p.real_quote + curve_net(p.curve, p.curve.real)
                  - (IF p.curve.native THEN p.migration_fee ELSE 0) ]

(* A slip: what the curve's last tokens cost is spent without its fees. *)
left_of_net(p, budget) == AtLeast(budget - curve_net(p.curve, p.curve.real), 0)

left_at_graduation(p, budget) ==
    AtLeast(budget - with_fees(curve_net(p.curve, p.curve.real), p.curve.rates), 0)

graduating_buy(p, budget) ==
    LET left == left_at_graduation(p, budget)
        to_be == pool_to_be(p)
        leg_in == net_quote(left, p.curve.rates) - 1
    IN  IF gross_net(left, p.curve.rates) < 2 THEN p.curve.real
        ELSE IF to_be.base <= 0 \/ to_be.quote <= 0 \/ leg_in < 0 THEN 0
        ELSE p.curve.real + curve_out(to_be.quote, to_be.base, leg_in)

buy_quote(p, budget) ==
    LET input == net_quote(budget, p.curve.rates) - 1
        tokens == curve_out(p.curve.quote, p.curve.base, input)
    IN  IF ~pumpfun_rates_ok(p.curve) \/ ~reserves_ok(p.curve) \/ input <= 0 THEN 0
        ELSE IF tokens <= p.curve.real THEN tokens
        ELSE IF ~p.supports_graduation \/ p.mayhem \/ p.curve.base <= p.curve.real THEN 0
        ELSE graduating_buy(p, budget)

graduating_cost(p, past) ==
    LET to_be == pool_to_be(p)
        leg_net == div_ceil(to_be.quote * past, to_be.base - past)
    IN  IF to_be.base <= past \/ to_be.quote <= 0 THEN 0
        ELSE with_fees(curve_net(p.curve, p.curve.real), p.curve.rates)
               + with_fees(leg_net, p.curve.rates)

buy_quote_for_tokens(p, amount) ==
    IF \/ ~pumpfun_rates_ok(p.curve) \/ amount = 0 \/ p.curve.quote = 0
       \/ p.curve.base <= AtMost(amount, p.curve.real)
    THEN 0
    ELSE IF amount <= p.curve.real
         THEN with_fees(curve_net(p.curve, amount), p.curve.rates)
    ELSE IF p.mayhem \/ ~p.supports_graduation THEN 0
    ELSE graduating_cost(p, amount - p.curve.real)

-----------------------------------------------------------------------------
(* PumpSwap: the price counts virtual reserves, what can be paid out does   *)
(* not, nor the fees that wait in the vault to be swept.                    *)

pumpswap_effective_quote(p) == p.quote_reserve + p.virtual_quote_reserves

pumpswap_buy_base_out(p, quote_in) ==
    LET net == net_quote(quote_in, p.rates)
    IN  IF net = 0 \/ p.base_reserve = 0 \/ p.quote_reserve = 0
           \/ pumpswap_effective_quote(p) <= 0
        THEN 0
        ELSE curve_out(pumpswap_effective_quote(p), p.base_reserve, net - 1)

(* What leaves the vault: the lp fee stays in the pool. *)
pumpswap_sell_gross(p, base_in) ==
    curve_out(p.base_reserve, pumpswap_effective_quote(p), base_in)

pumpswap_leaves_vault(p, base_in) ==
    LET gross == pumpswap_sell_gross(p, base_in)
    IN  AtLeast(gross - compute_fee_bps(gross, p.rates.lp), 0)

pumpswap_sell_quote_out(p, base_in) ==
    LET gross == pumpswap_sell_gross(p, base_in)
    IN  IF \/ base_in = 0 \/ p.base_reserve = 0 \/ p.quote_reserve = 0
           \/ p.quote_fee_reserves \notin 0 .. p.quote_reserve
           \/ pumpswap_effective_quote(p) <= 0
           \/ fees(gross, p.rates) > gross
           \/ pumpswap_leaves_vault(p, base_in) > p.quote_reserve - p.quote_fee_reserves
        THEN 0
        ELSE gross - fees(gross, p.rates)
=============================================================================
