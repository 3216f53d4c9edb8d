-------------------------- MODULE MarketLoadProofs --------------------------
(***************************************************************************)
(* For every coin, schedule and pool: the markets that are delivered were   *)
(* read of one state of the chain and can be quoted, what they quote fits   *)
(* the budget and the vault, and no trade in SOL that is built on them pays *)
(* rent inside its route.                                                   *)
(***************************************************************************)
EXTENDS MarketLoad, FeeMathProofs, WellFoundedInduction, TLAPS

(***************************************************************************)
(* The quotes on a Pump curve, whatever the chain does: what the client is  *)
(* quoted fits the budget it is quoted for, for every reserve, rate and     *)
(* budget, past the curve's last token too.                                 *)
(***************************************************************************)

(* div_ceil: at most k when k multiples reach the dividend.                 *)
LEMMA CeilBelow ==
    ASSUME NEW n \in Nat, NEW d \in Nat \ {0}
    PROVE  /\ div_ceil(n, d) \in Nat
           /\ \A k \in Nat : n <= d * k => div_ceil(n, d) <= k
  BY RoundedUpBelow DEF div_ceil

(* Rounding up keeps the order.                                             *)
LEMMA CeilMonotone ==
    ASSUME NEW a \in Nat, NEW b \in Nat, a <= b, NEW d \in Nat \ {0}
    PROVE  div_ceil(a, d) <= div_ceil(b, d)
<1> DEFINE q == div_ceil(b, d)
<1>1. b + d - 1 \in Nat
  BY SMT
<1>2. q \in Nat /\ b + d - 1 < d * q + d
  BY <1>1, Floor DEF div_ceil
<1> HIDE DEF q
<1>3. d * q \in Nat /\ a <= d * q
  BY <1>2, SMT
<1> QED
  BY <1>2, <1>3, CeilBelow DEF q

(* A larger amount is charged no smaller fee (compute_fee_bps).             *)
LEMMA ShareMonotone ==
    ASSUME NEW a \in Nat, NEW b \in Nat, a <= b, NEW rate \in Nat
    PROVE  /\ compute_fee_bps(a, rate) \in Nat
           /\ compute_fee_bps(b, rate) \in Nat
           /\ compute_fee_bps(a, rate) <= compute_fee_bps(b, rate)
<1>1. FEE_DENOM \in Nat \ {0}
  BY FeeConstants, SMT
<1>2. a * rate \in Nat /\ b * rate \in Nat /\ a * rate <= b * rate
  BY SMT
<1> QED
  BY <1>1, <1>2, CeilBelow, CeilMonotone DEF compute_fee_bps

(* The sum of the shares keeps the order as well, and nothing is charged on *)
(* nothing (fees).                                                          *)
LEMMA FeesMonotone ==
    ASSUME NEW a \in Nat, NEW b \in Nat, a <= b, NEW r \in PumpRates
    PROVE  /\ fees(a, r) \in Nat /\ fees(b, r) \in Nat
           /\ fees(a, r) <= fees(b, r)
           /\ with_fees(a, r) \in Nat /\ with_fees(b, r) \in Nat
           /\ a <= with_fees(a, r)
           /\ with_fees(a, r) <= with_fees(b, r)
<1>1. r.lp \in Nat /\ r.protocol \in Nat /\ r.creator \in Nat
  BY DEF PumpRates
<1>2. /\ compute_fee_bps(a, r.lp) \in Nat /\ compute_fee_bps(b, r.lp) \in Nat
      /\ compute_fee_bps(a, r.lp) <= compute_fee_bps(b, r.lp)
  BY <1>1, ShareMonotone
<1>3. /\ compute_fee_bps(a, r.protocol) \in Nat /\ compute_fee_bps(b, r.protocol) \in Nat
      /\ compute_fee_bps(a, r.protocol) <= compute_fee_bps(b, r.protocol)
  BY <1>1, ShareMonotone
<1>4. /\ compute_fee_bps(a, r.creator) \in Nat /\ compute_fee_bps(b, r.creator) \in Nat
      /\ compute_fee_bps(a, r.creator) <= compute_fee_bps(b, r.creator)
  BY <1>1, ShareMonotone
<1>5. /\ fees(a, r) \in Nat /\ fees(b, r) \in Nat /\ fees(a, r) <= fees(b, r)
  BY <1>2, <1>3, <1>4, SMT DEF fees
<1> QED
  BY <1>5, SMT DEF with_fees

(* Nothing is charged on nothing.                                           *)
LEMMA NothingOnNothing ==
    ASSUME NEW r \in PumpRates
    PROVE  with_fees(0, r) = 0
<1>1. r.lp \in Nat /\ r.protocol \in Nat /\ r.creator \in Nat
  BY DEF PumpRates
<1>2. ASSUME NEW rate \in Nat PROVE compute_fee_bps(0, rate) = 0
  <2>1. FEE_DENOM \in Nat \ {0} /\ 0 * rate = 0
    BY FeeConstants, SMT
  <2>2. div_ceil(0, FEE_DENOM) \in Nat /\ div_ceil(0, FEE_DENOM) <= 0
    BY <2>1, CeilBelow, SMT
  <2> QED
    BY <2>1, <2>2, SMT DEF compute_fee_bps
<1> QED
  BY <1>1, <1>2, SMT DEF with_fees, fees

(* net_quote: what is left for the curve and its fees fit the budget. The   *)
(* fees were inverted as one rate; the excess of rounding each share up is  *)
(* taken back in full, and less is charged no more than that.               *)
THEOREM NetFitsBudget ==
    ASSUME NEW budget \in Nat, NEW r \in PumpRates
    PROVE  /\ net_quote(budget, r) \in Nat
           /\ with_fees(net_quote(budget, r), r) <= budget
<1> DEFINE g == gross_net(budget, r)
           over == with_fees(g, r) - budget
<1>1. g \in Nat
  <2>1. r.lp \in Nat /\ r.protocol \in Nat /\ r.creator \in Nat /\ FEE_DENOM \in Nat \ {0}
    BY FeeConstants, SMT DEF PumpRates
  <2>2. /\ budget * FEE_DENOM \in Nat
        /\ FEE_DENOM + total_rate(r) \in Nat \ {0}
    BY <2>1, SMT DEF total_rate
  <2> QED
    BY <2>2, Floor DEF gross_net
<1> HIDE DEF g
<1>2. fees(g, r) \in Nat /\ with_fees(g, r) = g + fees(g, r)
  BY <1>1, FeesMonotone, SMT DEF with_fees
<1>3. net_quote(budget, r) = AtLeast(g - AtLeast(over, 0), 0)
  BY DEF net_quote, g
<1>4. CASE over <= 0
  <2>1. net_quote(budget, r) = g
    BY <1>1, <1>2, <1>3, <1>4, SMT DEF AtLeast
  <2> QED
    BY <1>1, <1>2, <1>4, <2>1, SMT
<1>5. CASE over > 0 /\ g - over > 0
  <2>1. net_quote(budget, r) = g - over /\ g - over \in Nat /\ g - over <= g
    BY <1>1, <1>2, <1>3, <1>5, SMT DEF AtLeast
  <2>2. fees(g - over, r) <= fees(g, r) /\ fees(g - over, r) \in Nat
    BY <1>1, <2>1, FeesMonotone
  <2>3. with_fees(g - over, r) = (g - over) + fees(g - over, r)
    BY DEF with_fees
  <2> QED
    BY <1>1, <1>2, <2>1, <2>2, <2>3, SMT
<1>6. CASE over > 0 /\ g - over <= 0
  <2>1. net_quote(budget, r) = 0
    BY <1>1, <1>2, <1>3, <1>6, SMT DEF AtLeast
  <2> QED
    BY <2>1, NothingOnNothing, SMT
<1> QED
  BY <1>1, <1>2, <1>4, <1>5, <1>6, SMT

(* What a constant-product pool gives for an input, it gives for no more    *)
(* than that input.                                                         *)
LEMMA OutputCostsInput ==
    ASSUME NEW base \in Nat, NEW quote \in Nat \ {0}, NEW input \in Nat,
           NEW tokens \in Nat, base # 0, tokens <= curve_out(quote, base, input)
    PROVE  /\ tokens < base
           /\ tokens * quote \in Nat
           /\ tokens * quote <= (base - tokens) * input
<1> DEFINE out == curve_out(quote, base, input)
<1>1. base * input \in Nat /\ quote + input \in Nat \ {0}
  BY SMT
<1>2. out \in Nat /\ (quote + input) * out <= base * input
  BY <1>1, Floor DEF curve_out
<1> HIDE DEF out
<1>3. (quote + input) * tokens <= (quote + input) * out
  BY <1>1, <1>2, SMT DEF out
<1>4. (quote + input) * tokens <= base * input
  BY <1>1, <1>2, <1>3, SMT
<1>5. quote * tokens + input * tokens <= base * input
  BY <1>4, SMT
<1>6. ASSUME base <= tokens PROVE FALSE
  <2>1. base * input <= tokens * input /\ quote * tokens > 0
    BY <1>6, SMT
  <2> QED
    BY <1>5, <2>1, SMT
<1> QED
  BY <1>5, <1>6, SMT

(* curve_net is the inverse of the curve up to the one it adds: what an     *)
(* input buys is asked back for at most one more.                           *)
LEMMA CurveNetOfOutput ==
    ASSUME NEW c, c.base \in Nat \ {0}, c.quote \in Nat \ {0}, NEW input \in Nat,
           NEW tokens \in Nat, tokens <= curve_out(c.quote, c.base, input)
    PROVE  tokens < c.base /\ curve_net(c, tokens) \in 1 .. input + 1
<1>1. /\ tokens < c.base /\ tokens * c.quote \in Nat
      /\ tokens * c.quote <= (c.base - tokens) * input
  BY OutputCostsInput
<1> DEFINE d == c.base - tokens
           n == tokens * c.quote
<1>2. d \in Nat \ {0} /\ n \in Nat
  BY <1>1, SMT
<1>3. n < d * input + d
  BY <1>1, <1>2, SMT
<1> HIDE DEF n, d
<1>4. n \div d \in Nat /\ n \div d <= input
  BY <1>2, <1>3, Floor, FloorBelow
<1>5. curve_net(c, tokens) = n \div d + 1
  BY DEF curve_net, n, d
<1> QED
  BY <1>1, <1>4, <1>5, SMT

(* What the pool-to-be gives for the rest of a budget costs no more than    *)
(* that rest, rounded up.                                                   *)
LEMMA PastGraduation ==
    ASSUME NEW base \in Nat \ {0}, NEW quote \in Nat \ {0}, NEW input \in Nat
    PROVE  LET past == curve_out(quote, base, input)
           IN  /\ past \in Nat /\ past < base
               /\ div_ceil(quote * past, base - past) \in Nat
               /\ div_ceil(quote * past, base - past) <= input
<1> DEFINE past == curve_out(quote, base, input)
<1>1. past \in Nat
  <2>1. base * input \in Nat /\ quote + input \in Nat \ {0}
    BY SMT
  <2> QED
    BY <2>1, Floor DEF curve_out
<1>2. past < base /\ past * quote <= (base - past) * input
  BY <1>1, OutputCostsInput, SMT
<1> HIDE DEF past
<1>3. /\ quote * past \in Nat /\ base - past \in Nat \ {0}
      /\ quote * past <= (base - past) * input
  BY <1>1, <1>2, SMT
<1>4. /\ div_ceil(quote * past, base - past) \in Nat
      /\ div_ceil(quote * past, base - past) <= input
  BY <1>3, CeilBelow
<1> QED
  BY <1>1, <1>2, <1>4 DEF past

(* buy_quote and buy_quote_for_tokens agree: the tokens a budget is quoted  *)
(* cost at most that budget, fees included, on the curve, at its last token *)
(* and past it, where the curve's and the pool-to-be's share are rounded    *)
(* apart.  A buy of exact output made from a quote stays in its budget.     *)
THEOREM QuotedTokensFitBudget ==
    ASSUME NEW p, PumpFunV3Pool(p), NEW budget \in Nat,
           buy_quote(p, budget) \in Nat \ {0}
    PROVE  buy_quote_for_tokens(p, buy_quote(p, budget)) \in 1 .. budget
<1> DEFINE c == p.curve
           net == net_quote(budget, c.rates)
           tokens == curve_out(c.quote, c.base, net - 1)
           Cost(t) == with_fees(curve_net(c, t), c.rates)
<1>1. /\ c.rates \in PumpRates
      /\ c.base \in Nat /\ c.quote \in Nat /\ c.real \in Nat
      /\ p.balance \in Nat /\ p.real_quote \in Nat /\ p.migration_fee \in Nat
  BY DEF PumpFunV3Pool
<1>2. net \in Nat /\ with_fees(net, c.rates) <= budget
  BY <1>1, NetFitsBudget
<1>3. /\ pumpfun_rates_ok(c) /\ c.base \in Nat \ {0} /\ c.quote \in Nat \ {0}
      /\ net - 1 \in Nat
  BY <1>1, <1>2, SMT DEF buy_quote, reserves_ok
<1>4. tokens \in Nat
  <2>1. c.base * (net - 1) \in Nat /\ c.quote + (net - 1) \in Nat \ {0}
    BY <1>3, SMT
  <2> QED
    BY <2>1, Floor DEF curve_out
<1> HIDE DEF c, net, tokens
<1>5. ASSUME NEW t \in Nat, t <= tokens
      PROVE  t < c.base /\ Cost(t) \in 1 .. budget
  <2>1. t < c.base /\ curve_net(c, t) \in 1 .. (net - 1) + 1
    BY <1>3, <1>5, CurveNetOfOutput DEF tokens
  <2>2. /\ curve_net(c, t) \in Nat /\ 1 <= curve_net(c, t)
        /\ curve_net(c, t) <= net
    BY <1>2, <2>1, SMT
  <2>3. /\ Cost(t) \in Nat /\ curve_net(c, t) <= Cost(t)
        /\ Cost(t) <= with_fees(net, c.rates) /\ with_fees(net, c.rates) \in Nat
    BY <1>1, <1>2, <2>2, FeesMonotone DEF c
  <2> QED
    BY <1>2, <2>1, <2>2, <2>3, SMT
(* As long as the curve has them, tokens cost what the curve asks. *)
<1>6. ASSUME NEW t \in Nat \ {0}, t <= tokens, t <= c.real
      PROVE  buy_quote_for_tokens(p, t) \in 1 .. budget
  <2>1. t < c.base /\ Cost(t) \in 1 .. budget
    BY <1>5, <1>6
  <2>2. buy_quote_for_tokens(p, t) = Cost(t)
    BY <1>1, <1>3, <1>6, <2>1, SMT DEF buy_quote_for_tokens, AtMost, c
  <2> QED
    BY <2>1, <2>2
<1>7. CASE tokens <= c.real
  <2>1. buy_quote(p, budget) = tokens
    BY <1>1, <1>2, <1>3, <1>7, SMT DEF buy_quote, reserves_ok, c, net, tokens
  <2> QED
    BY <1>4, <1>6, <1>7, <2>1, SMT
<1>8. CASE tokens > c.real
  <2> DEFINE left == left_at_graduation(p, budget)
             B == pool_to_be(p).base
             Q == pool_to_be(p).quote
             leg == net_quote(left, c.rates)
             past == curve_out(Q, B, leg - 1)
  <2>1. /\ p.supports_graduation /\ ~p.mayhem
        /\ buy_quote(p, budget) = graduating_buy(p, budget)
    BY <1>1, <1>2, <1>3, <1>4, <1>8, SMT DEF buy_quote, reserves_ok, c, net, tokens
  <2>2. c.real < c.base /\ Cost(c.real) \in 1 .. budget
    BY <1>1, <1>4, <1>5, <1>8, SMT DEF c
  <2>3. left \in Nat /\ left = budget - Cost(c.real)
    BY <2>2, SMT DEF left_at_graduation, AtLeast, c
  <2>4. leg \in Nat /\ with_fees(leg, c.rates) <= left
    BY <1>1, <2>3, NetFitsBudget DEF c
  <2>5. B \in Int /\ Q \in Int
    <3>1. curve_net(c, c.real) \in Int
      <4>1. c.real * c.quote \in Nat /\ c.base - c.real \in Nat \ {0}
        BY <1>1, <2>2, SMT DEF c
      <4> QED
        BY <4>1, Floor, SMT DEF curve_net
    <3> QED
      BY <1>1, <3>1, SMT DEF pool_to_be, c
  <2>6. CASE buy_quote(p, budget) = c.real
    <3> QED
      BY <1>1, <1>4, <1>6, <1>8, <2>6, SMT DEF c
  <2>7. CASE buy_quote(p, budget) # c.real
    <3>1. /\ B > 0 /\ Q > 0 /\ leg - 1 >= 0
          /\ buy_quote(p, budget) = c.real + past
      BY <2>1, <2>4, <2>5, <2>7, SMT DEF graduating_buy, c
    <3> HIDE DEF left, B, Q, leg
    <3>2. B \in Nat \ {0} /\ Q \in Nat \ {0} /\ leg - 1 \in Nat
      BY <2>4, <2>5, <3>1, SMT
    <3> DEFINE leg_net == div_ceil(Q * past, B - past)
    <3>3. /\ past \in Nat /\ past < B
          /\ leg_net \in Nat /\ leg_net <= leg - 1
      BY <3>2, PastGraduation
    <3> HIDE DEF past, leg_net
    <3>4. past # 0
      BY <1>1, <2>7, <3>1, <3>3, SMT DEF c
    <3>5. /\ with_fees(leg_net, c.rates) \in Nat
          /\ with_fees(leg_net, c.rates) <= with_fees(leg, c.rates)
          /\ with_fees(leg, c.rates) \in Nat
      <4>1. leg_net <= leg
        BY <2>4, <3>3, SMT
      <4> QED
        BY <1>1, <2>4, <3>3, <4>1, FeesMonotone DEF c
    <3>6. buy_quote_for_tokens(p, c.real + past) = graduating_cost(p, past)
      <4>1. AtMost(c.real + past, c.real) = c.real /\ c.real + past # 0
            /\ ~(c.real + past <= c.real) /\ (c.real + past) - c.real = past
        BY <1>1, <3>3, <3>4, SMT DEF AtMost, c
      <4>2. ~(c.base <= c.real) /\ c.quote # 0
        BY <1>3, <2>2, <1>1, SMT DEF c
      <4> QED
        BY <1>3, <2>1, <4>1, <4>2, Zenon DEF buy_quote_for_tokens, c
    <3>7. graduating_cost(p, past) = Cost(c.real) + with_fees(leg_net, c.rates)
      <4>1. ~(B <= past) /\ ~(Q <= 0)
        BY <3>2, <3>3, SMT
      <4> QED
        BY <4>1, Zenon DEF graduating_cost, c, B, Q, leg_net
    <3> QED
      BY <2>2, <2>3, <2>4, <3>1, <3>5, <3>6, <3>7, SMT DEF left
  <2> QED
    BY <2>6, <2>7
<1> QED
  BY <1>1, <1>4, <1>7, <1>8, SMT DEF c

(***************************************************************************)
(* The loads and the trades built on them, on a chain that moves.           *)
(***************************************************************************)

(* What build leaves for the chain: a trade in SOL brings every account its *)
(* instruction uses, and a V3 trade that brings no longer curve found one.  *)
Prepares(t) ==
    /\ t.native /\ tracks_volume(t) => t.initializes
    /\ pays_vault(t) => t.prepares
    /\ t.kind = "v3" => t.extends \/ coin.extended

(* The invariant: the chain is well formed, a market of V3 that found its   *)
(* curve extended still finds it so, and what is built is prepared.         *)
JobInv ==
    \/ job = Idle
    \/ /\ job.at = "reading"
       /\ job = [at |-> "reading", kind |-> job.kind, read |-> job.read]
    \/ /\ job.at = "refreshed"
       /\ job = [at |-> "refreshed", kind |-> "pumpswap", m |-> job.m]
    \/ /\ job.at = "market"
       /\ job = [at |-> "market", kind |-> job.kind, m |-> job.m]
       /\ job.kind = "v3" => job.m.needs_curve_extension \/ coin.extended
    \/ job.at = "built" /\ Prepares(job)

Inv ==
    /\ coin \in Coin
    /\ global \in Globals
    /\ vaults \in [Creators -> 0 .. MaxLamports]
    /\ JobInv

(* No load and no trade has begun.                                          *)
LEMMA InitInv == Init => Inv
<1> SUFFICES ASSUME Init PROVE Inv
  OBVIOUS
<1>1. coin \in Coin
  <2>1. CASE coin \in Coins
    BY <2>1, MarketLoadConstants
  <2>2. CASE coin \in {[c EXCEPT !.complete = TRUE] : c \in Graduated}
    <3>1. PICK c \in Graduated : coin = [c EXCEPT !.complete = TRUE]
      BY <2>2
    <3>2. c \in Coin
      BY MarketLoadConstants
    <3> QED
      BY <3>1, <3>2, Zenon DEF Coin
  <2> QED
    BY <2>1, <2>2 DEF Init
<1>2. vaults \in [Creators -> 0 .. MaxLamports]
  BY MarketLoadConstants, SMT DEF Init
<1> QED
  BY <1>1, <1>2 DEF Init, Inv, JobInv

(* Outside of the loads and the trade, only a sweep touches the job, and it *)
(* changes what a load remembers of its first read. A curve once extended   *)
(* stays extended.                                                          *)
LEMMA JobKept ==
    ASSUME JobInv, UNCHANGED job, coin.extended => coin'.extended
    PROVE  JobInv'
  BY DEF JobInv, Prepares, Idle, tracks_volume, pays_vault

(* What others do to coin, vaults and schedules between two reads.          *)
LEMMA OutsideInv ==
    ASSUME Inv, outside
    PROVE  Inv'
<1> USE DEF Inv
<1>1. CASE buys_and_sells
  <2>1. PICK s \in DOMAIN Curves : coin' = [coin EXCEPT !.stage = s]
    BY <1>1 DEF buys_and_sells
  <2>2. coin' \in Coin /\ coin'.extended = coin.extended
    BY <2>1, SMT DEF Coin
  <2> QED
    BY <1>1, <2>2, JobKept DEF buys_and_sells
<1>2. CASE graduates
  <2>1. coin' = [coin EXCEPT !.complete = TRUE]
    BY <1>2 DEF graduates
  <2>2. coin' \in Coin /\ coin'.extended = coin.extended
    BY <2>1, Zenon DEF Coin
  <2> QED
    BY <1>2, <2>2, JobKept DEF graduates
<1>3. CASE coin_changes
  <2>1. PICK c \in Coins : coin' = [coin EXCEPT !.creator = c.creator, !.quote = c.quote,
                                                !.program = c.program]
    BY <1>3 DEF coin_changes
  <2>2. c \in Coin
    BY MarketLoadConstants
  <2>3. c.creator \in Creators /\ c.quote \in QuoteMints /\ c.program \in {"spl", "t22"}
    BY <2>2 DEF Coin
  <2>4. coin' \in Coin /\ coin'.extended = coin.extended
    BY <2>1, <2>3, Zenon DEF Coin
  <2> QED
    BY <1>3, <2>4, JobKept DEF coin_changes
<1>4. CASE global_changes
  BY <1>4, JobKept DEF global_changes
<1>5. CASE vault_moves
  <2>1. PICK c \in Creators, lamports \in {0} \cup Rent .. MaxLamports :
            vaults' = [vaults EXCEPT ![c] = lamports]
    BY <1>5 DEF vault_moves
  <2>2. lamports \in 0 .. MaxLamports
    BY MarketLoadConstants, SMT
  <2>3. vaults' \in [Creators -> 0 .. MaxLamports]
    BY <2>1, <2>2
  <2> QED
    BY <1>5, <2>3, JobKept DEF vault_moves
<1>6. CASE close_volume
  BY <1>6, JobKept DEF close_volume
<1>7. CASE set_hook
  BY <1>7, JobKept DEF set_hook
<1>8. CASE swap_trades
  BY <1>8, JobKept DEF swap_trades
<1>9. CASE sweep
  <2>1. CASE Reading("pumpswap")
    <3>1. /\ job.at = "reading"
          /\ job = [at |-> "reading", kind |-> job.kind, read |-> job.read]
      <4>1. job.at = "reading"
        BY <2>1 DEF Reading
      <4>2. Idle.at = "idle"
        BY DEF Idle
      <4> QED
        BY <4>1, <4>2 DEF JobInv
    <3>2. job' = [job EXCEPT !.read.unswept = FALSE]
      BY <1>9, <2>1 DEF sweep
    <3>3. /\ job'.at = "reading"
          /\ job' = [at |-> "reading", kind |-> job'.kind, read |-> job'.read]
      BY <3>1, <3>2
    <3> QED
      BY <1>9, <3>3 DEF sweep, JobInv
  <2>2. CASE ~Reading("pumpswap")
    BY <1>9, <2>2, JobKept DEF sweep
  <2> QED
    BY <2>1, <2>2
<1>10. CASE swap_changes
  BY <1>10, JobKept DEF swap_changes
<1> QED
  BY <1>1, <1>2, <1>3, <1>4, <1>5, <1>6, <1>7, <1>8, <1>9, <1>10 DEF outside

(* What is read and delivered.                                              *)
LEMMA LoadInv ==
    ASSUME Inv,
           \/ load_pumpfun \/ load_pumpfun_v3_by_rpc \/ load_pumpswap
           \/ refresh \/ refresh_v3 \/ refresh_pumpswap_fee_reserves
           \/ validate_route_mints \/ load_fails
    PROVE  Inv'
<1> USE DEF Inv
<1>1. ASSUME NEW kind, NEW fields, first_read(kind, fields) PROVE Inv'
  BY <1>1 DEF first_read, chain, JobInv
<1>2. CASE load_pumpfun \/ load_pumpfun_v3_by_rpc \/ load_pumpswap
  BY <1>1, <1>2 DEF load_pumpfun, load_pumpfun_v3_by_rpc, load_pumpswap
<1>3. CASE refresh
  <2>1. job' = [at |-> "market", kind |-> "pumpfun",
                m |-> apply_inner(job.read.creator, job.read.recipient)]
    BY <1>3 DEF refresh, deliver
  <2>2. JobInv'
    BY <2>1 DEF JobInv
  <2> QED
    BY <1>3, <2>2 DEF refresh, deliver, chain
<1>4. CASE refresh_v3
  <2>1. /\ job'.at = "market" /\ job'.kind = "v3"
        /\ job' = [at |-> "market", kind |-> job'.kind, m |-> job'.m]
        /\ job'.m.needs_curve_extension = ~coin.extended
        /\ UNCHANGED chain
    BY <1>4 DEF refresh_v3, deliver
  <2>2. JobInv'
    BY <2>1 DEF JobInv, chain
  <2> QED
    BY <2>1, <2>2 DEF chain
<1>5. CASE refresh_pumpswap_fee_reserves
  <2>1. /\ job'.at = "refreshed" /\ UNCHANGED chain
        /\ job' = [at |-> "refreshed", kind |-> "pumpswap", m |-> job'.m]
    BY <1>5 DEF refresh_pumpswap_fee_reserves
  <2> QED
    BY <2>1 DEF chain, JobInv
<1>6. CASE validate_route_mints
  <2>1. job.at = "refreshed" /\ job' = [job EXCEPT !.at = "market"] /\ UNCHANGED chain
    BY <1>6 DEF validate_route_mints
  <2>2. job = [at |-> "refreshed", kind |-> "pumpswap", m |-> job.m]
    BY <2>1 DEF JobInv, Idle
  <2>3. job' = [at |-> "market", kind |-> "pumpswap", m |-> job.m]
    BY <2>1, <2>2
  <2>4. /\ job'.at = "market" /\ job'.kind # "v3"
        /\ job' = [at |-> "market", kind |-> job'.kind, m |-> job'.m]
    BY <2>3
  <2> QED
    BY <2>1, <2>4 DEF chain, JobInv
<1>7. CASE load_fails
  BY <1>7 DEF load_fails, chain, JobInv
<1> QED
  BY <1>2, <1>3, <1>4, <1>5, <1>6, <1>7

(* The trade is built with everything its instruction will ask for.         *)
LEMMA BuildInv ==
    ASSUME Inv, build
    PROVE  Inv'
<1> USE DEF Inv
<1>1. UNCHANGED chain
  BY DEF build
<1>2. PICK side \in {"buy", "sell"} :
          \/ Delivered("pumpfun") /\ job' = built(side, job.m)
          \/ Delivered("v3") /\ job' = built(side, job.m.curve)
  BY DEF build
<1>3. CASE Delivered("pumpfun") /\ job' = built(side, job.m)
  <2>1. /\ job.kind = "pumpfun" /\ job'.at = "built" /\ job'.kind = "pumpfun"
        /\ job'.side = side /\ job'.native = job.m.native
        /\ job'.cashback = job.m.cashback
        /\ job'.prepares = (job.kind = "pumpfun" /\ job.m.native)
        /\ job'.initializes = initializes_volume(side)
    BY <1>3 DEF built, Delivered
  <2>2. job'.initializes = (job.m.native /\ (side = "buy" \/ job.m.cashback))
    BY <2>1 DEF initializes_volume
  <2>3. Prepares(job)'
    BY <2>1, <2>2, Zenon DEF Prepares, tracks_volume, pays_vault
  <2> QED
    BY <1>1, <2>1, <2>3 DEF chain, JobInv
<1>4. CASE Delivered("v3") /\ job' = built(side, job.m.curve)
  <2>1. /\ job.kind = "v3" /\ job'.at = "built" /\ job'.kind = "v3"
        /\ job'.native = job.m.curve.native
        /\ job'.extends = (job.kind = "v3" /\ job.m.needs_curve_extension)
        /\ job'.initializes = initializes_volume(side)
    BY <1>4 DEF built, Delivered
  <2>2. job.m.needs_curve_extension \/ coin.extended
    BY <1>4, <2>1 DEF JobInv, Delivered, Idle
  <2> QED
    BY <1>1, <2>1, <2>2 DEF chain, JobInv, Prepares, tracks_volume, pays_vault,
                            initializes_volume
<1> QED
  BY <1>2, <1>3, <1>4

(* A prepared trade that is not outdated finds no rent to pay: the          *)
(* accumulator is there or comes with it, the curve is long enough or made  *)
(* so, and the creator's vault is at its rent floor when the fee arrives.   *)
LEMMA NothingLeftToPay ==
    ASSUME Inv, job.at = "built", ~outdated(job)
    PROVE  ~rent_in_route(job)
<1> SUFFICES ASSUME rent_in_route(job) PROVE FALSE
  OBVIOUS
<1>1. Prepares(job)
  BY DEF Inv, JobInv, Idle
<1>2. vaults[job.creator] \in 0 .. MaxLamports
  <2>1. job.creator \in Creators
    BY Zenon DEF Inv, outdated, Coin
  <2> QED
    BY <2>1 DEF Inv
<1>3. job.native
  BY DEF rent_in_route
<1>4. CASE tracks_volume(job) /\ ~volume /\ ~job.initializes
  BY <1>1, <1>3, <1>4, Zenon DEF Prepares
<1>5. CASE job.kind = "v3" /\ ~coin.extended /\ ~job.extends
  BY <1>1, <1>5, Zenon DEF Prepares
<1>6. CASE pays_vault(job) /\ prepared(job) + CreatorFee < Rent
  <2>1. job.prepares
    BY <1>1, <1>6, Zenon DEF Prepares
  <2>2. prepared(job) = AtLeast(vaults[job.creator], Rent)
    BY <2>1, Zenon DEF prepared
  <2> QED
    BY <1>2, <1>6, <2>2, MarketLoadConstants, SMT DEF AtLeast
<1> QED
  BY <1>4, <1>5, <1>6, Zenon DEF rent_in_route

(* The trade lands, or the chain refuses it.                                *)
LEMMA LandInv ==
    ASSUME Inv, land \/ refused
    PROVE  Inv'
<1> USE DEF Inv
<1>1. CASE refused
  <2>1. outdated(job)
    BY <1>1, NothingLeftToPay DEF refused
  <2>2. job' = Idle /\ UNCHANGED chain
    BY <1>1, <2>1 DEF refused
  <2> QED
    BY <2>2 DEF chain, JobInv, Idle
<1>2. CASE land
  <2>1. job' = Idle /\ UNCHANGED <<global, swap, hooked>>
    BY <1>2 DEF land
  <2>2. coin' \in Coin
    <3>1. coin' = [coin EXCEPT !.extended = coin.extended \/ job.extends]
      BY <1>2 DEF land
    <3>2. (coin.extended \/ job.extends) \in BOOLEAN
      OBVIOUS
    <3> QED
      BY <3>1, <3>2, Zenon DEF Coin
  <2>3. vaults' \in [Creators -> 0 .. MaxLamports]
    <3>1. CASE ~pays_vault(job)
      BY <1>2, <3>1 DEF land
    <3>2. CASE pays_vault(job)
      <4>1. vaults' = [vaults EXCEPT ![job.creator] =
                          AtMost(prepared(job) + CreatorFee, MaxLamports)]
        BY <1>2, <3>2 DEF land
      <4>2. job.creator \in Creators
        BY <1>2, Zenon DEF land, outdated, Coin
      <4>3. vaults[job.creator] \in Nat
        BY <4>2, MarketLoadConstants, SMT
      <4>4. prepared(job) \in Nat
        BY <4>3, MarketLoadConstants, SMT DEF prepared, AtLeast
      <4>5. AtMost(prepared(job) + CreatorFee, MaxLamports) \in 0 .. MaxLamports
        BY <4>4, MarketLoadConstants, SMT DEF AtMost
      <4> QED
        BY <4>1, <4>5
    <3> QED
      BY <3>1, <3>2
  <2> QED
    BY <2>1, <2>2, <2>3 DEF JobInv, Idle
<1> QED
  BY <1>1, <1>2

(* Every step keeps Inv.                                                    *)
LEMMA NextInv == Inv /\ [Next]_vars => Inv'
<1> SUFFICES ASSUME Inv, [Next]_vars PROVE Inv'
  OBVIOUS
<1>1. CASE UNCHANGED vars
  BY <1>1, JobKept DEF vars, Inv
<1> QED
  BY <1>1, OutsideInv, LoadInv, BuildInv, LandInv DEF Next

(* What holds of a load between its reads and of the trade built on it, for *)
(* every curve, schedule and vault (refresh, load_pumpfun_v3_by_rpc, setup).*)
THEOREM LoadInvariant == Spec => []Inv
  BY InitInv, NextInv, PTL DEF Spec

(* Whatever happens to vaults, accumulator and curve between the building   *)
(* of a trade in SOL and its landing, its route pays no rent: its setup     *)
(* brings what is missing, or it reverts because the coin has moved on      *)
(* (prepare_pumpfun_native_accounts, PREPARE_PUMPFUN, PumpFunV3Pool::setup).*)
THEOREM SetupCoversRent == Spec => []PreparedTradesSettle
<1>1. Inv => PreparedTradesSettle
  BY DEF Inv, JobInv, Idle, PreparedTradesSettle
<1> QED
  BY <1>1, LoadInvariant, PTL

(* What apply_inner takes over is that of the curve it read.                *)
LEMMA CurveRead ==
    ASSUME Inv, NEW quote, NEW v3, accounts_ok(quote, v3), NEW recipient
    PROVE  OneCurve(apply_inner(coin.creator, recipient))
<1> DEFINE c == apply_inner(coin.creator, recipient)
<1>1. recipients # {} /\ global.buybacks # {}
  BY DEF accounts_ok
<1>2. ASSUME NEW K, K # {}, NEW current PROVE choose_recipient(K, current) \in K
  BY <1>2 DEF choose_recipient
<1>3. /\ c.creator = coin.creator /\ c.quote_mint = coin.quote
      /\ c.program = coin.program /\ c.native = (coin.quote = WSOL_MINT)
      /\ c.base = Curve(coin).base /\ c.real = Curve(coin).real
      /\ c.fee_recipient = choose_recipient(recipients, recipient)
      /\ c.buyback = choose_recipient(global.buybacks, NONE)
  BY DEF apply_inner
<1>4. c.fee_recipient \in recipients /\ c.buyback \in global.buybacks
  BY <1>1, <1>2, <1>3
<1>5. ~coin.complete /\ {meme, coin.quote} \cap hooked = {}
  BY DEF accounts_ok, mint_program_ok
<1> HIDE DEF c
<1>6. {meme, c.quote_mint} \cap hooked = {}
  BY <1>3, <1>5
<1>7. OneCurve(c)
  BY <1>3, <1>4, <1>5, <1>6, Zenon DEF OneCurve
<1> QED
  BY <1>7 DEF c

(* Between the reads of a load anything may change; what does not fit the   *)
(* second read is refused, so that no market mixes two states of the chain  *)
(* (refresh, load_pumpfun_v3_by_rpc, apply_pool_fee_reserves,               *)
(* validate_route_mints).                                                   *)
THEOREM MarketsAreOfOneState == Spec => DeliveredTrue
<1> DEFINE OneState ==
             /\ Delivered("pumpfun")' => OneCurve(job'.m)
             /\ Delivered("v3")' => /\ OneCurve(job'.m.curve)
                                    /\ job'.m.real_quote = Curve(coin).real_quote
                                    /\ job'.m.needs_curve_extension = ~coin.extended
             /\ job'.at = "refreshed" =>
                    /\ job'.m.coin_creator = swap.coin_creator
                    /\ job'.m.virtual_quote_reserves = swap.virtual_quote
             /\ Delivered("pumpswap")' => {meme, job'.m.quote_mint} \cap hooked = {}
<1>1. Inv /\ [Next]_vars => [job' # job => OneState]_vars
  <2> SUFFICES ASSUME Inv, Next, job' # job PROVE OneState
    BY DEF vars
  <2>1. ASSUME job'.at \notin {"market", "refreshed"} PROVE OneState
    BY <2>1 DEF Delivered
  <2>2. CASE outside
    <3>1. Reading("pumpswap") /\ job' = [job EXCEPT !.read.unswept = FALSE]
      BY <2>2, Zenon DEF outside, buys_and_sells, graduates, coin_changes, global_changes,
                         vault_moves, close_volume, set_hook, swap_trades, sweep, swap_changes
    <3>2. job = [at |-> "reading", kind |-> job.kind, read |-> job.read]
      BY <3>1 DEF Inv, JobInv, Reading, Idle
    <3>3. job'.at = "reading"
      BY <3>1, <3>2
    <3> QED
      BY <2>1, <3>3
  <2>3. CASE load_pumpfun \/ load_pumpfun_v3_by_rpc \/ load_pumpswap
    <3>1. job'.at = "reading"
      BY <2>3 DEF load_pumpfun, load_pumpfun_v3_by_rpc, load_pumpswap, first_read
    <3> QED
      BY <2>1, <3>1
  <2>4. CASE refresh
    <3>1. /\ coin.creator = job.read.creator /\ accounts_ok(job.read.quote, FALSE)
          /\ job'.at = "market" /\ job'.kind = "pumpfun"
          /\ job'.m = apply_inner(coin.creator, job.read.recipient)
      BY <2>4 DEF refresh, deliver
    <3>2. OneCurve(job'.m)
      BY <3>1, CurveRead
    <3> QED
      BY <3>1, <3>2 DEF Delivered
  <2>5. CASE refresh_v3
    <3>1. /\ accounts_ok(job.read.quote, TRUE)
          /\ job'.at = "market" /\ job'.kind = "v3"
          /\ job'.m.curve = apply_inner(coin.creator, NONE)
          /\ job'.m.real_quote = Curve(coin).real_quote
          /\ job'.m.needs_curve_extension = ~coin.extended
      BY <2>5 DEF refresh_v3, deliver
    <3>2. OneCurve(job'.m.curve)
      BY <3>1, CurveRead
    <3> QED
      BY <3>1, <3>2 DEF Delivered
  <2>6. CASE refresh_pumpswap_fee_reserves
    <3>1. /\ job'.at = "refreshed"
          /\ job'.m.coin_creator = swap.coin_creator
          /\ job'.m.virtual_quote_reserves = swap.virtual_quote
      BY <2>6 DEF refresh_pumpswap_fee_reserves
    <3> QED
      BY <3>1 DEF Delivered
  <2>7. CASE validate_route_mints
    <3>1. /\ job.at = "refreshed" /\ job' = [job EXCEPT !.at = "market"]
          /\ {meme, job.m.quote_mint} \cap hooked = {}
      BY <2>7 DEF validate_route_mints, mint_program_ok
    <3>2. job = [at |-> "refreshed", kind |-> "pumpswap", m |-> job.m]
      BY <3>1 DEF Inv, JobInv, Idle
    <3>3. job'.at = "market" /\ job'.kind = "pumpswap" /\ job'.m = job.m
      BY <3>1, <3>2
    <3> QED
      BY <3>1, <3>3 DEF Delivered
  <2>8. CASE load_fails \/ land \/ refused
    <3>1. job'.at \in {"idle", "off_budget"}
      BY <2>8 DEF load_fails, land, refused, Idle
    <3> QED
      BY <2>1, <3>1
  <2>9. CASE build
    <3>1. job'.at = "built"
      BY <2>9 DEF build, built
    <3> QED
      BY <2>1, <3>1
  <2> QED
    BY <2>2, <2>3, <2>4, <2>5, <2>6, <2>7, <2>8, <2>9 DEF Next
<1> QED
  BY <1>1, LoadInvariant, PTL DEF DeliveredTrue, Spec

-----------------------------------------------------------------------------
(* What markets hold.  A pool's fees only grow until they are swept: as     *)
(* long as they were not, what the vault held at the first read less what   *)
(* is reserved at the second is at most what the pool could pay out at the  *)
(* first.                                                                   *)

SwapReads ==
    [ coin_creator : Creators, base : Nat, virtual_quote : Int, vault : Nat,
      unswept : BOOLEAN, covered : Int ]

SwapRead(r) ==
    /\ swap \in SwapPool /\ r \in SwapReads
    /\ r.unswept => r.vault - waiting_fees(swap) <= r.covered

SwapMarket(m) ==
    /\ m.rates \in PumpRates
    /\ {m.base_reserve, m.quote_reserve, m.quote_fee_reserves} \subseteq Nat
    /\ m.virtual_quote_reserves \in Int /\ m.covered \in Int
    /\ m.unswept => m.quote_reserve - m.quote_fee_reserves <= m.covered

CurveMarket(c) ==
    /\ c = [ creator |-> c.creator, quote_mint |-> c.quote_mint,
             program |-> c.program, native |-> c.native, cashback |-> c.cashback,
             base |-> c.base, quote |-> c.quote, real |-> c.real,
             rates |-> c.rates, fee_recipient |-> c.fee_recipient,
             buyback |-> c.buyback ]
    /\ c.rates \in PumpRates
    /\ {c.base, c.quote, c.real} \subseteq Nat
    /\ NONE \notin {c.fee_recipient, c.buyback}

ReadsOK ==
    /\ Reading("pumpswap") => SwapRead(job.read)
    /\ job.at = "refreshed" => SwapMarket(job.m)
    /\ job.at = "market" =>
          \/ job.kind = "pumpfun" /\ CurveMarket(job.m)
          \/ job.kind = "v3" /\ CurveMarket(job.m.curve) /\ PumpFunV3Pool(job.m)
          \/ job.kind = "pumpswap" /\ SwapMarket(job.m)

SwapOK == swap = NoPool \/ (swap \in SwapPool /\ waiting_fees(swap) <= swap.vault)

MarketInv == Inv /\ volume \in BOOLEAN /\ SwapOK /\ ReadsOK

(* A set of indices has a last one.                                         *)
LEMMA Last ==
    ASSUME NEW n \in Nat, NEW T \in SUBSET (1 .. n), T # {}
    PROVE  \E i \in T : \A j \in T : j <= i
<1> DEFINE R == {ss \in Nat \X Nat : ss[1] < ss[2]}
           Mirror == {k \in 0 .. n : n - k \in T}
<1>1. IsWellFoundedOn(R, Nat)
  BY NatLessThanWellFounded, Zenon DEF OpToRel
<1>2. \A x, y \in Nat : x < y => <<x, y>> \in R
  BY SMT
<1>3. Mirror \subseteq Nat /\ Mirror # {}
  <2>1. PICK i \in T : TRUE
    OBVIOUS
  <2>2. n - i \in 0 .. n /\ n - (n - i) = i
    BY <2>1, SMT
  <2>3. n - i \in Mirror
    BY <2>1, <2>2
  <2>4. \A k \in 0 .. n : k \in Nat
    BY SMT
  <2> QED
    BY <2>3, <2>4
<1> HIDE DEF R
<1>4. PICK k \in Mirror : \A l \in Mirror : ~ (<<l, k>> \in R)
  BY <1>1, <1>3, WFMin, Zenon
<1>5. \A l \in Mirror : ~(l < k)
  BY <1>2, <1>3, <1>4, Zenon
<1>6. ASSUME NEW j \in T PROVE j <= n - k
  <2>1. n - j \in Mirror
    BY SMT
  <2>2. ~(n - j < k)
    BY <1>5, <2>1
  <2> QED
    BY <1>4, <2>2, SMT
<1>7. n - k \in T
  BY <1>4
<1> QED
  BY <1>6, <1>7, Zenon

(* An entry of a list is of the kind listed.                                *)
LEMMA Listed ==
    ASSUME NEW S, NEW s \in Seq(S), NEW i \in DOMAIN s
    PROVE  s[i] \in S
  OBVIOUS

(* A schedule with tiers has one for every market cap (calculate_fee_tier). *)
LEMMA TierCharged ==
    ASSUME NEW tiers \in Schedule, tiers # <<>>, NEW cap
    PROVE  calculate_fee_tier(tiers, cap) \in PumpRates
<1> DEFINE reached == {i \in DOMAIN tiers : tiers[i].cap <= cap}
           highest == IF reached = {} THEN 1
                      ELSE CHOOSE i \in reached : \A j \in reached : j <= i
<1>1. Len(tiers) \in Nat \ {0} /\ DOMAIN tiers = 1 .. Len(tiers)
  BY DEF Schedule
<1>2. highest \in DOMAIN tiers
  <2>1. CASE reached = {}
    BY <1>1, <2>1
  <2>2. CASE reached # {}
    <3>1. reached \in SUBSET (1 .. Len(tiers))
      BY <1>1
    <3> HIDE DEF reached
    <3>2. \E i \in reached : \A j \in reached : j <= i
      BY <1>1, <2>2, <3>1, Last
    <3>3. highest \in reached
      BY <2>2, <3>2
    <3> QED
      BY <1>1, <3>1, <3>3
  <2> QED
    BY <2>1, <2>2
<1> HIDE DEF highest
<1>3. tiers[highest] \in [cap : Nat, rates : PumpRates]
  BY <1>2, Listed DEF Schedule
<1>4. tiers[highest].rates \in PumpRates
  BY <1>3
<1> QED
  BY <1>4 DEF calculate_fee_tier, highest

(* What a second read finds on the chain is a market that can be quoted.    *)
LEMMA RatesRead ==
    ASSUME Inv, NEW quote, NEW v3, accounts_ok(quote, v3)
    PROVE  fee_rates(coin, global) \in PumpRates
<1>1. /\ {global.own, global.flat, global.exotic} \subseteq PumpRates
      /\ {global.tiers, global.stable} \subseteq Schedule
  BY MarketLoadConstants DEF Inv
<1>2. scheduled(coin, global) \in PumpRates
  <2>1. CASE by_tier(coin, global)
    <3>1. fee_tiers(coin, global) \in Schedule /\ fee_tiers(coin, global) # <<>>
      BY <1>1, <2>1 DEF accounts_ok, fee_tiers
    <3> QED
      BY <2>1, <3>1, TierCharged DEF scheduled
  <2>2. CASE ~by_tier(coin, global)
    BY <1>1, <2>2 DEF scheduled
  <2> QED
    BY <2>1, <2>2
<1>3. coin.override \in Nat
  BY Zenon DEF Inv, Coin
<1> DEFINE r == scheduled(coin, global)
<1>4. r.protocol \in Nat /\ r.creator \in Nat
  BY <1>2 DEF PumpRates
<1> HIDE DEF r
<1> QED
  BY <1>3, <1>4 DEF fee_rates, PumpRates, r

(* What apply_inner makes of a curve it has checked is a curve market.      *)
LEMMA MarketRead ==
    ASSUME Inv, NEW quote, NEW v3, accounts_ok(quote, v3), NEW creator, NEW recipient
    PROVE  CurveMarket(apply_inner(creator, recipient))
<1> DEFINE c == apply_inner(creator, recipient)
<1>1. fee_rates(coin, global) \in PumpRates
  BY RatesRead
<1>2. /\ Curve(coin).base \in Nat /\ Curve(coin).quote \in Nat
      /\ Curve(coin).real \in Nat
  <2>1. coin.stage \in DOMAIN Curves
    BY Zenon DEF Inv, Coin
  <2>2. Curves[coin.stage] \in [base : Nat, quote : Nat, real : Nat,
                                real_quote : Nat, balance : Nat]
    BY <2>1, Listed, MarketLoadConstants
  <2> QED
    BY <2>2 DEF Curve
<1>3. ASSUME NEW K, K # {}, NEW current PROVE choose_recipient(K, current) \in K
  BY <1>3 DEF choose_recipient
<1>4. /\ recipients # {} /\ global.buybacks # {}
      /\ NONE \notin recipients /\ NONE \notin global.buybacks
  BY MarketLoadConstants DEF Inv, accounts_ok, recipients
<1>5. /\ choose_recipient(recipients, recipient) # NONE
      /\ choose_recipient(global.buybacks, NONE) # NONE
  BY <1>3, <1>4
<1>6. /\ c.rates = fee_rates(coin, global)
      /\ c.base = Curve(coin).base /\ c.quote = Curve(coin).quote
      /\ c.real = Curve(coin).real
      /\ c.fee_recipient = choose_recipient(recipients, recipient)
      /\ c.buyback = choose_recipient(global.buybacks, NONE)
  BY DEF apply_inner
<1>7. c = [ creator |-> c.creator, quote_mint |-> c.quote_mint,
            program |-> c.program, native |-> c.native, cashback |-> c.cashback,
            base |-> c.base, quote |-> c.quote, real |-> c.real,
            rates |-> c.rates, fee_recipient |-> c.fee_recipient,
            buyback |-> c.buyback ]
  BY DEF apply_inner
<1> HIDE DEF c
<1>8. CurveMarket(c)
  BY <1>1, <1>2, <1>5, <1>6, <1>7, Zenon DEF CurveMarket
<1> QED
  BY <1>8 DEF c

(* Where a job is.                                                          *)
LEMMA JobAt ==
    ASSUME JobInv
    PROVE  job.at \in {"idle", "reading", "refreshed", "market", "built"}
  BY DEF JobInv, Idle

(* No fee has been taken and no market is being read.                       *)
LEMMA InitMarket == Init => MarketInv
<1> SUFFICES ASSUME Init PROVE MarketInv
  OBVIOUS
<1>1. SwapOK
  BY MarketLoadConstants DEF Init, SwapOK
<1>2. ReadsOK /\ volume \in BOOLEAN
  BY DEF Init, Idle, ReadsOK, Reading
<1> QED
  BY <1>1, <1>2, InitInv DEF MarketInv

(* What a job holds does not change with the chain, but for what a load of  *)
(* a pool remembers of its first read.                                      *)
LEMMA ReadsKept ==
    ASSUME ReadsOK, UNCHANGED job, Reading("pumpswap") => SwapRead(job.read)'
    PROVE  ReadsOK'
<1>1. /\ (job.at = "market" /\ job.kind = "pumpfun") => Delivered("pumpfun")
      /\ job'.at = job.at /\ job'.kind = job.kind /\ job'.m = job.m
  BY DEF Delivered
<1>2. \A m : SwapMarket(m)' = SwapMarket(m)
  BY DEF SwapMarket
<1>3. Reading("pumpswap")' = Reading("pumpswap")
  BY DEF Reading
<1> QED
  BY <1>1, <1>2, <1>3 DEF ReadsOK

(* The pool's own steps: a swap adds to the fees that wait in its vault and *)
(* leaves more than them in it; a sweep pays them out.                      *)
LEMMA SwapTradesKeep ==
    ASSUME SwapOK, swap_trades
    PROVE  /\ SwapOK'
           /\ ReadsOK /\ Reading("pumpswap") => SwapRead(job.read)'
<1>1. PICK in \in {-2, 3}, protocol \in {0, 1}, creator \in {0, 1} :
        /\ swap # NoPool
        /\ swap.vault + in \in waiting_fees(swap) + 2 .. MaxVault
        /\ swap' = [swap EXCEPT !.vault = swap.vault + in,
                                !.protocol_fees = swap.protocol_fees + protocol,
                                !.creator_fees = swap.creator_fees + creator]
        /\ UNCHANGED job
  BY DEF swap_trades
<1>2. swap \in SwapPool /\ waiting_fees(swap) <= swap.vault
  BY <1>1 DEF SwapOK
<1>3. swap.vault \in Nat /\ swap.protocol_fees \in Nat /\ swap.creator_fees \in Nat
  BY <1>2 DEF SwapPool
<1>4. waiting_fees(swap) \in Nat
  BY <1>3 DEF waiting_fees
<1>5. /\ swap.vault + in \in Nat /\ waiting_fees(swap) + 2 <= swap.vault + in
      /\ swap.protocol_fees + protocol \in Nat /\ swap.creator_fees + creator \in Nat
  <2> DEFINE v == swap.vault + in
  <2>1. v \in Int /\ v \in waiting_fees(swap) + 2 .. MaxVault
    BY <1>1, <1>3
  <2>2. MaxVault \in Int
    BY MarketLoadConstants
  <2> HIDE DEF v
  <2>3. waiting_fees(swap) + 2 <= v
    BY <1>4, <2>1, <2>2, SMT
  <2>4. v \in Nat
    BY <1>4, <2>1, <2>3, SMT
  <2>5. swap.protocol_fees + protocol \in Nat /\ swap.creator_fees + creator \in Nat
    BY <1>3, SMT
  <2> QED
    BY <2>3, <2>4, <2>5 DEF v
<1>6. swap' \in SwapPool
  BY <1>1, <1>2, <1>5, Zenon DEF SwapPool
<1>7. /\ swap'.vault = swap.vault + in
      /\ swap'.protocol_fees = swap.protocol_fees + protocol
      /\ swap'.creator_fees = swap.creator_fees + creator
  BY <1>1, <1>2, Zenon DEF SwapPool
<1>8. /\ waiting_fees(swap') \in Nat /\ waiting_fees(swap) <= waiting_fees(swap')
      /\ waiting_fees(swap') <= waiting_fees(swap) + 2
  BY <1>1, <1>3, <1>7, SMT DEF waiting_fees
<1>9. SwapOK'
  BY <1>4, <1>5, <1>6, <1>7, <1>8, SMT DEF SwapOK
<1>10. ASSUME ReadsOK, Reading("pumpswap") PROVE SwapRead(job.read)'
  <2>1. SwapRead(job.read)
    BY <1>10 DEF ReadsOK
  <2>2. job.read.vault \in Nat /\ job.read.covered \in Int
    BY <2>1 DEF SwapRead, SwapReads
  <2>3. job.read.unswept => job.read.vault - waiting_fees(swap') <= job.read.covered
    BY <1>4, <1>8, <2>1, <2>2 DEF SwapRead
  <2> QED
    BY <1>1, <1>6, <2>1, <2>3 DEF SwapRead
<1> QED
  BY <1>9, <1>10

(* A sweep takes the fees of a vault into account once.                     *)
LEMMA SweepKeeps ==
    ASSUME Inv, SwapOK, ReadsOK, sweep
    PROVE  SwapOK' /\ ReadsOK'
<1>1. /\ swap # NoPool /\ swap' = swept(swap)
      /\ job' = IF Reading("pumpswap") THEN [job EXCEPT !.read.unswept = FALSE] ELSE job
  BY DEF sweep
<1>2. swap \in SwapPool /\ waiting_fees(swap) <= swap.vault
  BY <1>1 DEF SwapOK
<1>3. swap.vault \in Nat /\ swap.protocol_fees \in Nat /\ swap.creator_fees \in Nat
  BY <1>2 DEF SwapPool
<1>4. waiting_fees(swap) \in Nat
  BY <1>3 DEF waiting_fees
<1>5. swap.vault - waiting_fees(swap) \in Nat
  BY <1>2, <1>3, <1>4
<1>6. swap' \in SwapPool
  BY <1>1, <1>2, <1>5, Zenon DEF SwapPool, swept
<1>7. swap'.vault \in Nat /\ swap'.protocol_fees = 0 /\ swap'.creator_fees = 0
  BY <1>1, <1>2, <1>5, Zenon DEF SwapPool, swept
<1>8. SwapOK'
  BY <1>6, <1>7 DEF SwapOK, waiting_fees
<1>9. CASE ~Reading("pumpswap")
  BY <1>1, <1>8, <1>9, ReadsKept
<1>10. CASE Reading("pumpswap")
  <2>1. job = [at |-> "reading", kind |-> job.kind, read |-> job.read]
    BY <1>10 DEF Inv, JobInv, Reading, Idle
  <2>2. SwapRead(job.read)
    BY <1>10 DEF ReadsOK
  <2> DEFINE r == [job.read EXCEPT !.unswept = FALSE]
  <2>3. r \in SwapReads /\ r.unswept = FALSE
    BY <2>2, Zenon DEF SwapRead, SwapReads
  <2>4. job' = [job EXCEPT !.read = r]
    BY <1>1, <1>10
  <2> HIDE DEF r
  <2>5. job'.at = "reading" /\ job'.read = r
    BY <2>1, <2>4
  <2>6. SwapRead(job.read)'
    BY <1>6, <2>3, <2>5 DEF SwapRead
  <2> QED
    BY <1>8, <2>5, <2>6 DEF ReadsOK
<1> QED
  BY <1>9, <1>10, <1>8

(* A swap of others moves reserves and leaves its fees in the pool.         *)
LEMMA SwapChangesKeep ==
    ASSUME SwapOK, swap_changes
    PROVE  /\ SwapOK'
           /\ ReadsOK /\ Reading("pumpswap") => SwapRead(job.read)'
<1>1. PICK s \in SwapPools :
        /\ swap # NoPool
        /\ swap' = [swap EXCEPT !.coin_creator = s.coin_creator,
                                !.virtual_quote = s.virtual_quote]
        /\ UNCHANGED job
  BY DEF swap_changes
<1>2. swap \in SwapPool /\ waiting_fees(swap) <= swap.vault
  BY <1>1 DEF SwapOK
<1>3. s \in SwapPool
  BY MarketLoadConstants
<1>4. s.coin_creator \in Creators /\ s.virtual_quote \in Int
  BY <1>3 DEF SwapPool
<1>5. swap' \in SwapPool
  BY <1>1, <1>2, <1>4, Zenon DEF SwapPool
<1>6. /\ swap'.vault = swap.vault /\ swap'.protocol_fees = swap.protocol_fees
      /\ swap'.creator_fees = swap.creator_fees
  BY <1>1, <1>2, Zenon DEF SwapPool
<1>7. waiting_fees(swap') = waiting_fees(swap)
  BY <1>6 DEF waiting_fees
<1>8. SwapOK'
  BY <1>2, <1>5, <1>6, <1>7 DEF SwapOK
<1>9. ASSUME ReadsOK, Reading("pumpswap") PROVE SwapRead(job.read)'
  BY <1>1, <1>5, <1>7, <1>9, Zenon DEF ReadsOK, SwapRead
<1> QED
  BY <1>8, <1>9

(* What others do between two reads keeps MarketInv.                        *)
LEMMA OutsideMarket ==
    ASSUME MarketInv, outside
    PROVE  MarketInv'
<1> USE DEF MarketInv
<1>1. Inv'
  BY OutsideInv
<1>2. CASE swap_trades
  <2>1. volume' = volume /\ job' = job
    BY <1>2 DEF swap_trades
  <2> QED
    BY <1>1, <1>2, <2>1, SwapTradesKeep, ReadsKept
<1>3. CASE sweep
  <2>1. volume' = volume
    BY <1>3 DEF sweep
  <2> QED
    BY <1>1, <1>3, <2>1, SweepKeeps
<1>4. CASE swap_changes
  <2>1. volume' = volume /\ job' = job
    BY <1>4 DEF swap_changes
  <2> QED
    BY <1>1, <1>4, <2>1, SwapChangesKeep, ReadsKept
<1>5. ASSUME UNCHANGED <<swap, job>>, volume' \in BOOLEAN PROVE MarketInv'
  <2>1. SwapOK'
    BY <1>5 DEF SwapOK
  <2>2. Reading("pumpswap") => SwapRead(job.read)'
    BY <1>5, Zenon DEF ReadsOK, SwapRead
  <2> QED
    BY <1>1, <1>5, <2>1, <2>2, ReadsKept
<1>6. CASE buys_and_sells \/ graduates \/ coin_changes \/ global_changes \/ vault_moves
           \/ close_volume \/ set_hook
  <2>1. UNCHANGED <<swap, job>> /\ volume' \in BOOLEAN
    BY <1>6, Zenon DEF buys_and_sells, graduates, coin_changes, global_changes,
                       vault_moves, close_volume, set_hook
  <2> QED
    BY <1>5, <2>1
<1> QED
  BY <1>2, <1>3, <1>4, <1>6 DEF outside

(* The first reads: nothing waits between reading a pool and noting what it *)
(* could pay out then.                                                      *)
LEMMA FirstReads ==
    ASSUME MarketInv, load_pumpfun \/ load_pumpfun_v3_by_rpc \/ load_pumpswap
    PROVE  ReadsOK'
<1>1. CASE load_pumpfun \/ load_pumpfun_v3_by_rpc
  <2>1. job'.at = "reading" /\ job'.kind \in {"pumpfun", "v3"}
    BY <1>1 DEF load_pumpfun, load_pumpfun_v3_by_rpc, first_read
  <2> QED
    BY <2>1 DEF ReadsOK, Reading
<1>2. CASE load_pumpswap
  <2>1. /\ swap # NoPool /\ swap' = swap
        /\ job' = [ at |-> "reading", kind |-> "pumpswap", read |->
               [ coin_creator |-> swap.coin_creator, base |-> swap.base,
                 virtual_quote |-> swap.virtual_quote, vault |-> swap.vault,
                 unswept |-> TRUE, covered |-> swap.vault - waiting_fees(swap) ] ]
    BY <1>2 DEF load_pumpswap, first_read, chain
  <2>2. swap \in SwapPool
    BY <2>1 DEF MarketInv, SwapOK
  <2>3. /\ swap.coin_creator \in Creators /\ swap.base \in Nat
        /\ swap.virtual_quote \in Int /\ swap.vault \in Nat
        /\ swap.protocol_fees \in Nat /\ swap.creator_fees \in Nat
    BY <2>2 DEF SwapPool
  <2>4. swap.vault - waiting_fees(swap) \in Int
    BY <2>3 DEF waiting_fees
  <2> DEFINE r == [ coin_creator |-> swap.coin_creator, base |-> swap.base,
                    virtual_quote |-> swap.virtual_quote, vault |-> swap.vault,
                    unswept |-> TRUE, covered |-> swap.vault - waiting_fees(swap) ]
  <2>5. r \in SwapReads /\ r.vault - waiting_fees(swap) <= r.covered
    BY <2>3, <2>4 DEF SwapReads
  <2>6. job'.at = "reading" /\ job'.read = r
    BY <2>1
  <2> HIDE DEF r
  <2>7. SwapRead(job.read)'
    BY <2>1, <2>2, <2>5, <2>6 DEF SwapRead
  <2> QED
    BY <2>6, <2>7 DEF ReadsOK
<1> QED
  BY <1>1, <1>2

(* The second reads.                                                        *)
LEMMA SecondReads ==
    ASSUME MarketInv, refresh \/ refresh_v3 \/ refresh_pumpswap_fee_reserves
    PROVE  ReadsOK'
<1>1. CASE refresh
  <2>1. /\ accounts_ok(job.read.quote, FALSE)
        /\ job' = [at |-> "market", kind |-> "pumpfun",
                   m |-> apply_inner(job.read.creator, job.read.recipient)]
    BY <1>1 DEF refresh, deliver
  <2>2. CurveMarket(apply_inner(job.read.creator, job.read.recipient))
    BY <2>1, MarketRead DEF MarketInv
  <2>3. job'.at = "market" /\ job'.kind = "pumpfun"
        /\ job'.m = apply_inner(job.read.creator, job.read.recipient)
    BY <2>1
  <2>4. CurveMarket(job'.m)
    BY <2>2, <2>3
  <2> QED
    BY <2>3, <2>4 DEF ReadsOK, Reading
<1>2. CASE refresh_v3
  <2>1. /\ accounts_ok(job.read.quote, TRUE)
        /\ job'.at = "market" /\ job'.kind = "v3"
        /\ job'.m.curve = apply_inner(coin.creator, NONE)
        /\ job'.m.real_quote = Curve(coin).real_quote
        /\ job'.m.balance = Curve(coin).balance
        /\ job'.m.migration_fee = global.migration_fee
    BY <1>2 DEF refresh_v3, deliver
  <2>2. CurveMarket(job'.m.curve)
    BY <2>1, MarketRead DEF MarketInv
  <2>3. job'.m.real_quote \in Nat /\ job'.m.balance \in Nat
    <3>1. coin.stage \in DOMAIN Curves
      BY Zenon DEF MarketInv, Inv, Coin
    <3>2. Curves[coin.stage] \in [base : Nat, quote : Nat, real : Nat,
                                  real_quote : Nat, balance : Nat]
      BY <3>1, Listed, MarketLoadConstants
    <3> QED
      BY <2>1, <3>2 DEF Curve
  <2>4. job'.m.migration_fee \in Nat
    BY <2>1, MarketLoadConstants DEF MarketInv, Inv
  <2>5. PumpFunV3Pool(job'.m)
    BY <2>2, <2>3, <2>4 DEF PumpFunV3Pool, CurveMarket
  <2> QED
    BY <2>1, <2>2, <2>5 DEF ReadsOK, Reading
<1>3. CASE refresh_pumpswap_fee_reserves
  <2>1. SwapRead(job.read) /\ job.read \in SwapReads /\ swap \in SwapPool
    BY <1>3 DEF refresh_pumpswap_fee_reserves, MarketInv, ReadsOK, SwapRead
  <2>2. /\ job'.at = "refreshed"
        /\ job'.m.rates = swap.rates
        /\ job'.m.base_reserve = job.read.base
        /\ job'.m.quote_reserve = job.read.vault
        /\ job'.m.virtual_quote_reserves = job.read.virtual_quote
        /\ job'.m.quote_fee_reserves = reserved_fees(swap)
        /\ job'.m.covered = job.read.covered
        /\ job'.m.unswept = job.read.unswept
    BY <1>3 DEF refresh_pumpswap_fee_reserves
  <2>3. /\ swap.rates \in PumpRates
        /\ swap.protocol_fees \in Nat /\ swap.creator_fees \in Nat
    BY <2>1 DEF SwapPool
  <2>4. /\ job.read.base \in Nat /\ job.read.vault \in Nat
        /\ job.read.virtual_quote \in Int /\ job.read.covered \in Int
    BY <2>1 DEF SwapReads
  <2>5. reserved_fees(swap) \in Nat /\ reserved_fees(swap) = waiting_fees(swap)
    BY <2>3 DEF reserved_fees, waiting_fees
  <2>6. job.read.unswept => job.read.vault - reserved_fees(swap) <= job.read.covered
    BY <2>1, <2>5 DEF SwapRead
  <2>7. SwapMarket(job'.m)
    BY <2>2, <2>3, <2>4, <2>5, <2>6, Zenon DEF SwapMarket
  <2> QED
    BY <2>2, <2>7 DEF ReadsOK, Reading
<1> QED
  BY <1>1, <1>2, <1>3

(* Every step keeps MarketInv.                                              *)
LEMMA NextMarket == MarketInv /\ [Next]_vars => MarketInv'
<1> SUFFICES ASSUME MarketInv, [Next]_vars PROVE MarketInv'
  OBVIOUS
<1>1. Inv'
  BY NextInv DEF MarketInv
<1>2. ASSUME swap' = swap PROVE SwapOK'
  BY <1>2 DEF SwapOK, MarketInv
<1>3. ASSUME UNCHANGED chain, ReadsOK' PROVE MarketInv'
  BY <1>1, <1>2, <1>3 DEF chain, MarketInv
<1>4. CASE UNCHANGED vars
  <2>1. UNCHANGED chain /\ UNCHANGED job
    BY <1>4 DEF vars, chain
  <2>2. Reading("pumpswap") => SwapRead(job.read)'
    BY <2>1, Zenon DEF MarketInv, ReadsOK, SwapRead, chain
  <2> QED
    BY <1>3, <2>1, <2>2, ReadsKept DEF MarketInv
<1>5. CASE load_pumpfun \/ load_pumpfun_v3_by_rpc \/ load_pumpswap
  BY <1>3, <1>5, FirstReads
     DEF load_pumpfun, load_pumpfun_v3_by_rpc, load_pumpswap, first_read
<1>6. CASE refresh \/ refresh_v3 \/ refresh_pumpswap_fee_reserves
  BY <1>3, <1>6, SecondReads DEF refresh, refresh_v3, deliver, refresh_pumpswap_fee_reserves
<1>7. CASE validate_route_mints
  <2>1. /\ job.at = "refreshed" /\ job' = [job EXCEPT !.at = "market"] /\ UNCHANGED chain
    BY <1>7 DEF validate_route_mints
  <2>2. job = [at |-> "refreshed", kind |-> "pumpswap", m |-> job.m]
    BY <2>1 DEF MarketInv, Inv, JobInv, Idle
  <2>3. job'.at = "market" /\ job'.kind = "pumpswap" /\ job'.m = job.m
    BY <2>1, <2>2
  <2>4. SwapMarket(job'.m)
    BY <2>1, <2>3 DEF MarketInv, ReadsOK
  <2> QED
    BY <1>3, <2>1, <2>3, <2>4 DEF ReadsOK, Reading
<1>8. CASE load_fails
  BY <1>3, <1>8 DEF load_fails, Idle, ReadsOK, Reading
<1>9. CASE build \/ refused
  <2>1. UNCHANGED chain /\ job'.at \in {"built", "idle", "off_budget"}
    BY <1>9 DEF build, built, refused, Idle
  <2> QED
    BY <1>3, <2>1 DEF ReadsOK, Reading
<1>10. CASE land
  <2>1. /\ swap' = swap /\ job'.at = "idle"
        /\ volume' = (volume \/ job.initializes \/ tracks_volume(job))
    BY <1>10 DEF land, Idle
  <2>2. volume' \in BOOLEAN
    BY <2>1
  <2> QED
    BY <1>1, <1>2, <2>1, <2>2 DEF ReadsOK, Reading, MarketInv
<1> QED
  BY <1>4, <1>5, <1>6, <1>7, <1>8, <1>9, <1>10, OutsideMarket DEF Next

(* What holds of the markets being read and the quotes made from them: fees *)
(* a snapshot reserves are covered by those that stayed in the pool, and    *)
(* a delivered market can be quoted (refresh, load_pumpswap, buy_quote).    *)
THEOREM MarketInvariant == Spec => []MarketInv
  BY InitMarket, NextMarket, PTL DEF Spec

(* Every state is of its type; a market that is delivered has rates it can  *)
(* be quoted with and names a fee recipient and a buyback account (refresh, *)
(* apply_inner, load_pumpfun_v3_by_rpc, choose_recipient).                  *)
THEOREM LoadTypeCorrect == Spec => []TypeOK
<1>1. MarketInv => TypeOK
  <2> SUFFICES ASSUME MarketInv PROVE TypeOK
    OBVIOUS
  <2>1. job.at \in {"idle", "reading", "refreshed", "market", "built"}
    BY JobAt DEF MarketInv, Inv
  <2>2. swap = NoPool \/ waiting_fees(swap) \in 0 .. swap.vault
    <3>1. ASSUME swap \in SwapPool, waiting_fees(swap) <= swap.vault
          PROVE  waiting_fees(swap) \in 0 .. swap.vault
      <4>1. /\ swap.vault \in Nat
            /\ swap.protocol_fees \in Nat /\ swap.creator_fees \in Nat
        BY <3>1 DEF SwapPool
      <4> QED
        BY <3>1, <4>1, SMT DEF waiting_fees
    <3> QED
      BY <3>1 DEF MarketInv, SwapOK
  <2>3. job.at = "market" => DeliveredRates \in PumpRates
    BY DEF MarketInv, ReadsOK, DeliveredRates, CurveMarket, SwapMarket
  <2>4. Delivered("pumpfun") => NONE \notin {job.m.fee_recipient, job.m.buyback}
    BY DEF MarketInv, ReadsOK, Delivered, CurveMarket
  <2> QED
    BY <2>1, <2>2, <2>3, <2>4 DEF TypeOK, MarketInv, Inv
<1> QED
  BY <1>1, MarketInvariant, PTL

(* No quote of a sale counts on what is not the pool's: what leaves the     *)
(* vault fits what apply_pool_fee_reserves left of it, and the fees it      *)
(* reserves are no less than those that waited when the vault was read      *)
(* (refresh_pumpswap_fee_reserves, pumpswap_sell_quote_out).                *)
THEOREM SalesAreCovered == Spec => []SellQuoteCovered
<1>1. MarketInv => SellQuoteCovered
  <2> SUFFICES ASSUME MarketInv, Delivered("pumpswap"), job.m.unswept,
                      NEW base_in \in 1 .. MaxBudget,
                      pumpswap_sell_quote_out(job.m, base_in) > 0
               PROVE  pumpswap_leaves_vault(job.m, base_in) <= job.m.covered
    BY DEF SellQuoteCovered
  <2> DEFINE p == job.m
             gross == pumpswap_sell_gross(p, base_in)
             eff == pumpswap_effective_quote(p)
             leaves == pumpswap_leaves_vault(p, base_in)
  <2>1. SwapMarket(p)
    BY DEF MarketInv, ReadsOK, Delivered
  <2>2. /\ p.base_reserve \in Nat /\ p.quote_reserve \in Nat
        /\ p.quote_fee_reserves \in Nat /\ p.virtual_quote_reserves \in Int
        /\ p.covered \in Int /\ p.rates \in PumpRates
        /\ p.quote_reserve - p.quote_fee_reserves <= p.covered
    BY <2>1, Zenon DEF SwapMarket
  <2>3. /\ ~(eff <= 0)
        /\ ~(leaves > p.quote_reserve - p.quote_fee_reserves)
    <3>1. ~(0 > 0)
      BY SMT
    <3> QED
      BY <3>1, Zenon DEF pumpswap_sell_quote_out
  <2>4. eff \in Nat /\ base_in \in Nat \ {0}
    BY <2>2, <2>3, MarketLoadConstants, SMT DEF pumpswap_effective_quote
  <2>5. gross \in Nat
    <3>1. eff * base_in \in Nat /\ p.base_reserve + base_in \in Nat \ {0}
      <4> HIDE DEF eff, p
      <4> QED
        BY <2>2, <2>4, SMT
    <3> QED
      BY <3>1, Floor DEF pumpswap_sell_gross, curve_out
  <2>6. compute_fee_bps(gross, p.rates.lp) \in Nat
    <3>1. p.rates.lp \in Nat
      BY <2>2 DEF PumpRates
    <3>2. gross <= gross
      BY <2>5, SMT
    <3> QED
      BY <2>5, <3>1, <3>2, ShareMonotone
  <2>7. leaves \in Int
    <3> DEFINE share == compute_fee_bps(gross, p.rates.lp)
    <3> HIDE DEF gross, share
    <3>1. gross - share \in Int
      BY <2>5, <2>6, SMT DEF share
    <3>2. leaves = AtLeast(gross - share, 0)
      BY DEF pumpswap_leaves_vault, gross, share
    <3> QED
      BY <3>1, <3>2, SMT DEF AtLeast
  <2> HIDE DEF leaves, p
  <2>8. leaves <= p.covered
    BY <2>2, <2>3, <2>7, SMT
  <2> QED
    BY <2>8 DEF leaves, p
<1> QED
  BY <1>1, MarketInvariant, PTL

(* What a curve gives, it takes back for no more: selling the tokens of a   *)
(* buy at once brings less than what was paid for them, the fees of both    *)
(* ways and the one the curve keeps of each buy included                    *)
(* (pumpfun_buy_token_out, pumpfun_sell_sol_out).                           *)
LEMMA SoldBack ==
    ASSUME NEW c, CurveMarket(c), NEW budget \in Nat,
           pumpfun_buy_token_out(c, budget) > 0
    PROVE  LET tokens == pumpfun_buy_token_out(c, budget)
               after == [c EXCEPT !.base = @ - tokens,
                                  !.quote = @ + net_quote(budget, c.rates) - 1]
           IN  pumpfun_sell_sol_out(after, tokens) < budget
<1> DEFINE net == net_quote(budget, c.rates)
           input == net - 1
           out == curve_out(c.quote, c.base, input)
           tokens == pumpfun_buy_token_out(c, budget)
           after == [c EXCEPT !.base = c.base - tokens,
                              !.quote = c.quote + net - 1]
           gross == curve_out(after.base, after.quote, tokens)
           sold == pumpfun_sell_sol_out(after, tokens)
<1>1. /\ c.rates \in PumpRates /\ c.base \in Nat /\ c.quote \in Nat /\ c.real \in Nat
  BY DEF CurveMarket
<1>2. net \in Nat /\ with_fees(net, c.rates) <= budget
  BY <1>1, NetFitsBudget
<1>3. net <= budget
  <2> HIDE DEF net
  <2>1. net <= with_fees(net, c.rates) /\ with_fees(net, c.rates) \in Nat /\ net <= net
    BY <1>1, <1>2, FeesMonotone
  <2> QED
    BY <1>2, <2>1, SMT
<1>4. /\ reserves_ok(c) /\ net # 0 /\ tokens = AtMost(out, c.real)
  <2>1. ~(0 > 0)
    BY SMT
  <2> QED
    BY <2>1, Zenon DEF pumpfun_buy_token_out
<1>5. c.base # 0 /\ c.quote \in Nat \ {0} /\ input \in Nat
  <2> HIDE DEF net
  <2> QED
    BY <1>1, <1>2, <1>4, SMT DEF reserves_ok
<1>6. out \in Nat
  <2>1. c.base * input \in Nat /\ c.quote + input \in Nat \ {0}
    <3> HIDE DEF input
    <3> QED
      BY <1>1, <1>5, SMT
  <2> QED
    BY <2>1, Floor DEF curve_out
<1>7. tokens \in Nat /\ tokens <= out
  <2> HIDE DEF out, tokens
  <2> QED
    BY <1>1, <1>4, <1>6, SMT DEF AtMost
<1>8. tokens < c.base /\ tokens * c.quote <= (c.base - tokens) * input
  <2> HIDE DEF tokens, input
  <2> QED
    BY <1>1, <1>5, <1>7, OutputCostsInput DEF out
<1>9. /\ after.base = c.base - tokens /\ after.quote = c.quote + net - 1
      /\ after.rates = c.rates
  <2>1. c = [ creator |-> c.creator, quote_mint |-> c.quote_mint,
              program |-> c.program, native |-> c.native, cashback |-> c.cashback,
              base |-> c.base, quote |-> c.quote, real |-> c.real,
              rates |-> c.rates, fee_recipient |-> c.fee_recipient,
              buyback |-> c.buyback ]
    BY DEF CurveMarket
  <2> HIDE DEF net, tokens
  <2> QED
    BY <2>1
<1> HIDE DEF after
<1>10. gross \in Nat /\ gross <= input
  <2> DEFINE b == c.base
             q == c.quote
             n == (c.quote + input) * tokens
  <2>1. q + input = after.quote /\ b - tokens + tokens = b
    <3> HIDE DEF tokens, net
    <3> QED
      BY <1>1, <1>2, <1>7, <1>9, SMT
  <2>2. gross = n \div b
    <3>1. after.base + tokens = b
      <4> HIDE DEF tokens
      <4> QED
        BY <1>1, <1>7, <1>9, SMT
    <3> QED
      BY <2>1, <3>1, Zenon DEF curve_out
  <2>3. n \in Nat /\ n < b * input + b
    <3> HIDE DEF tokens, input
    <3>1. n = tokens * q + tokens * input
      BY <1>1, <1>5, <1>7, SMT
    <3>2. (b - tokens) * input + tokens * input = b * input
      BY <1>1, <1>5, <1>7, SMT
    <3>3. tokens * q \in Nat /\ tokens * input \in Nat /\ (b - tokens) * input \in Nat
      BY <1>1, <1>5, <1>7, <1>8, SMT
    <3>4. b * input \in Nat /\ b > 0
      BY <1>1, <1>5, SMT
    <3>5. ASSUME NEW kept \in Nat, NEW given \in Nat, NEW rest \in Nat,
                 NEW all \in Nat, kept <= rest, rest + given = all, NEW some \in Nat,
                 some > 0
          PROVE  kept + given \in Nat /\ kept + given < all + some
      BY <3>5, SMT
    <3> HIDE DEF n, b
    <3>6. b \in Nat /\ tokens * q <= (b - tokens) * input
      BY <1>1, <1>8 DEF b
    <3> QED
      BY <3>1, <3>2, <3>3, <3>4, <3>5, <3>6, Zenon
  <2>4. b \in Nat \ {0}
    BY <1>1, <1>5
  <2> HIDE DEF n, b
  <2>5. n \div b \in Nat /\ n \div b <= input
    <3> HIDE DEF input
    <3> QED
      BY <1>5, <2>3, <2>4, Floor, FloorBelow
  <2> QED
    BY <2>2, <2>5
<1> HIDE DEF gross
<1>11. sold \in Nat /\ sold <= gross
  <2>1. fees(gross, after.rates) \in Nat
    <3>1. gross <= gross
      BY <1>10, SMT
    <3> QED
      BY <1>1, <1>9, <1>10, <3>1, FeesMonotone
  <2>2. sold = 0 \/ (sold = gross - fees(gross, after.rates)
                       /\ ~(fees(gross, after.rates) > gross))
    BY Zenon DEF pumpfun_sell_sol_out, gross
  <2> HIDE DEF sold
  <2> QED
    BY <1>10, <2>1, <2>2, SMT
<1>12. sold < budget
  <2> HIDE DEF sold, net
  <2> QED
    BY <1>2, <1>3, <1>5, <1>10, <1>11, SMT
<1> QED
  BY <1>12 DEF after

(* A quote on a curve of V3 is a natural number, whatever the pool-to-be    *)
(* holds (buy_quote).                                                       *)
LEMMA BuyQuoteCounts ==
    ASSUME NEW p, PumpFunV3Pool(p), NEW budget \in Nat
    PROVE  buy_quote(p, budget) \in Nat
<1> DEFINE c == p.curve
           net == net_quote(budget, c.rates)
           tokens == curve_out(c.quote, c.base, net - 1)
           left == left_at_graduation(p, budget)
           leg == net_quote(left, c.rates)
           B == pool_to_be(p).base
           Q == pool_to_be(p).quote
<1>1. /\ c.rates \in PumpRates
      /\ c.base \in Nat /\ c.quote \in Nat /\ c.real \in Nat
      /\ p.balance \in Nat /\ p.real_quote \in Nat /\ p.migration_fee \in Nat
  BY DEF PumpFunV3Pool
<1>2. net \in Nat
  BY <1>1, NetFitsBudget
<1>3. ASSUME NEW x \in Nat, NEW y \in Nat \ {0}, NEW z \in Nat
      PROVE  curve_out(y, x, z) \in Nat
  <2>1. x * z \in Nat /\ y + z \in Nat \ {0}
    BY SMT
  <2> QED
    BY <2>1, Floor DEF curve_out
<1> HIDE DEF c, net
<1>4. CASE ~reserves_ok(c) \/ net - 1 <= 0
  BY <1>4, Zenon DEF buy_quote, c, net
<1>5. CASE reserves_ok(c) /\ ~(net - 1 <= 0)
  <2>1. c.base \in Nat \ {0} /\ c.quote \in Nat \ {0} /\ net - 1 \in Nat
    BY <1>1, <1>2, <1>5, SMT DEF reserves_ok
  <2>2. tokens \in Nat
    BY <1>1, <1>3, <2>1
  <2>3. buy_quote(p, budget) \in {0, tokens}
          \/ (buy_quote(p, budget) = graduating_buy(p, budget) /\ ~(c.base <= c.real))
    BY Zenon DEF buy_quote, c, net
  <2>4. ASSUME ~(c.base <= c.real) PROVE graduating_buy(p, budget) \in Nat
    <3>1. curve_net(c, c.real) \in Nat
      <4>1. c.real * c.quote \in Nat /\ c.base - c.real \in Nat \ {0}
        BY <1>1, <2>1, <2>4, SMT
      <4> QED
        BY <4>1, Floor, SMT DEF curve_net
    <3>2. with_fees(curve_net(c, c.real), c.rates) \in Nat
      <4>1. curve_net(c, c.real) <= curve_net(c, c.real)
        BY <3>1, SMT
      <4> QED
        BY <1>1, <3>1, <4>1, FeesMonotone
    <3>3. left \in Nat
      BY <3>2, SMT DEF left_at_graduation, AtLeast, c
    <3>4. leg \in Nat
      BY <1>1, <3>3, NetFitsBudget
    <3>5. B \in Int /\ Q \in Int
      BY <1>1, <3>1, SMT DEF pool_to_be, c
    <3> HIDE DEF B, Q, leg, left
    <3>6. \/ graduating_buy(p, budget) \in {0, c.real}
          \/ /\ ~(B <= 0) /\ ~(Q <= 0) /\ ~(leg - 1 < 0)
             /\ graduating_buy(p, budget) = c.real + curve_out(Q, B, leg - 1)
      BY Zenon DEF graduating_buy, B, Q, leg, left, c
    <3>7. CASE ~(B <= 0) /\ ~(Q <= 0) /\ ~(leg - 1 < 0)
      <4>1. B \in Nat /\ Q \in Nat \ {0} /\ leg - 1 \in Nat
        BY <3>4, <3>5, <3>7, SMT
      <4>2. curve_out(Q, B, leg - 1) \in Nat
        BY <1>3, <4>1
      <4> QED
        BY <1>1, <3>6, <4>2
    <3> QED
      BY <1>1, <3>6, <3>7
  <2> QED
    BY <2>2, <2>3, <2>4
<1> QED
  BY <1>4, <1>5

(* The caller's budget holds for every market that is delivered, on a curve *)
(* of V1 and V3 and past its last token (apply_inner, buy_quote,            *)
(* buy_quote_for_tokens, pumpfun_buy_token_out, pumpfun_sell_sol_out).      *)
THEOREM DeliveredBudgetsHold == Spec => []BudgetsHold
<1>1. MarketInv => BudgetsHold
  <2> SUFFICES ASSUME MarketInv, NEW budget \in 1 .. MaxBudget
               PROVE  /\ Delivered("v3") /\ buy_quote(job.m, budget) > 0
                            => buy_quote_for_tokens(job.m, buy_quote(job.m, budget))
                                  \in 1 .. budget
                      /\ Delivered("pumpfun") /\ pumpfun_buy_token_out(job.m, budget) > 0
                            => LET tokens == pumpfun_buy_token_out(job.m, budget)
                                   after == [job.m EXCEPT
                                               !.base = @ - tokens,
                                               !.quote = @ + net_quote(budget, job.m.rates) - 1]
                               IN  pumpfun_sell_sol_out(after, tokens) < budget
    BY Zenon DEF BudgetsHold
  <2>1. budget \in Nat
    BY MarketLoadConstants, SMT
  <2>2. ASSUME Delivered("v3"), buy_quote(job.m, budget) > 0
        PROVE  buy_quote_for_tokens(job.m, buy_quote(job.m, budget)) \in 1 .. budget
    <3>1. PumpFunV3Pool(job.m)
      BY <2>2 DEF MarketInv, ReadsOK, Delivered
    <3>2. buy_quote(job.m, budget) \in Nat
      BY <2>1, <3>1, BuyQuoteCounts
    <3>3. buy_quote(job.m, budget) \in Nat \ {0}
      BY <2>2, <3>2, SMT
    <3> QED
      BY <2>1, <3>1, <3>3, QuotedTokensFitBudget
  <2>3. Delivered("pumpfun") => CurveMarket(job.m)
    BY DEF MarketInv, ReadsOK, Delivered
  <2> QED
    BY <2>1, <2>2, <2>3, SoldBack
<1> QED
  BY <1>1, MarketInvariant, PTL
=============================================================================
