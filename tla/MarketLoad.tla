----------------------------- MODULE MarketLoad -----------------------------
(***************************************************************************)
(* Markets loaded over RPC, and the trades built on them.  A load reads     *)
(* twice: the pool and what is derived from it first, then, in one answer,  *)
(* what quotes and legs rely on.  Between the two reads and until the trade *)
(* lands the chain moves on.  A trade that pays in SOL carries its setup    *)
(* with it: rent paid inside the route would count as input, which the      *)
(* router measures.                                                         *)
(***************************************************************************)
EXTENDS PumpQuotes, Sequences, FiniteSets, TLC

CONSTANTS
    WSOL_MINT, USDC_MINT,
    QuoteMints,
    NONE,
    meme,            \* the coin
    Coins, Graduated, \* the coin when it is first seen, before its last token
                     \* is sold or when it has moved to a pool
    Curves,          \* the states of its curve, the sequence it is bought through
    Globals,         \* the Global and FeeConfig accounts, before and after updates
    Hookable,        \* the quote mints that may get a transfer hook
    Recipients,      \* candidates for fee recipients
    SwapPools,       \* the PumpSwap pool it moves to
    Creators,
    Rent, CreatorFee, \* the rent floor of a vault; what a trade pays into one
    SUPPLY,          \* 10^15 in the code
    MaxLamports, MaxVault, MaxBudget   \* bounds: a creator's vault, a quote
                                       \* vault, a caller's budget

VARIABLES
    coin,            \* curve and mint, on chain
    global,          \* Global and FeeConfig, on chain
    swap,            \* the PumpSwap pool, on chain
    hooked,          \* the mints with an active transfer hook
    vaults,          \* lamports of the creators' vaults
    volume,          \* whether the user's volume accumulator exists
    job              \* the caller's: a load between its reads, the market it
                     \* delivered, the trade built from that, what became of it

chain == <<coin, global, swap, hooked, vaults, volume>>
vars == <<coin, global, swap, hooked, vaults, volume, job>>

(* What waits in the vault of a PumpSwap pool to be swept. *)
waiting_fees(s) == s.protocol_fees + s.creator_fees

(* The accounts of the coin: its curve, its mint, the one who gets its fees. *)
Coin ==
    [ creator : Creators, quote : QuoteMints, program : {"spl", "t22"},
      stage : DOMAIN Curves, complete : BOOLEAN, cashback : BOOLEAN,
      mayhem : BOOLEAN, depth : Nat, extended : BOOLEAN, supply : Nat,
      override : Nat ]

(* The account of its PumpSwap pool and what its vault holds. *)
SwapPool ==
    [ base : Nat, vault : Nat, protocol_fees : Nat, creator_fees : Nat,
      coin_creator : Creators, virtual_quote : Int, quote_mint : QuoteMints,
      rates : PumpRates ]

NoPool == [base |-> 0]
Idle == [at |-> "idle"]

Reading(kind) == job.at = "reading" /\ job.kind = kind
Delivered(kind) == job.at = "market" /\ job.kind = kind

Curve(c) == Curves[c.stage]

Init ==
    /\ global \in Globals
    /\ \/ coin \in Coins /\ swap = NoPool
       \/ coin \in {[c EXCEPT !.complete = TRUE] : c \in Graduated} /\ swap \in SwapPools
    /\ hooked = {}
    /\ vaults = [c \in Creators |-> 0]
    /\ volume = FALSE
    /\ job = Idle

-----------------------------------------------------------------------------
(* What the chain does meanwhile.  Nothing looks at it between the delivery *)
(* of a market and the trade built on it, or at more than the mints before  *)
(* the third read of a PumpSwap load: what happens then may as well happen  *)
(* after.                                                                   *)

Awaited == job.at \notin {"refreshed", "market"}

buys_and_sells ==
    \E s \in {coin.stage - 1, coin.stage + 1} \cap DOMAIN Curves :
        /\ Awaited /\ ~coin.complete
        /\ coin' = [coin EXCEPT !.stage = s]
        /\ UNCHANGED <<global, swap, hooked, vaults, volume, job>>

(* The last token is sold; the coin's pool is made by a migration later. *)
graduates ==
    /\ Awaited /\ coin.stage = Len(Curves) /\ ~coin.complete
    /\ coin' = [coin EXCEPT !.complete = TRUE]
    /\ UNCHANGED <<global, swap, hooked, vaults, volume, job>>

(* set_creator, and the two reads answered from different forks. *)
coin_changes ==
    \E c \in Coins \ {coin} :
        /\ Awaited /\ ~coin.complete
        /\ coin' = [coin EXCEPT !.creator = c.creator, !.quote = c.quote,
                                !.program = c.program]
        /\ UNCHANGED <<global, swap, hooked, vaults, volume, job>>

global_changes ==
    \E g \in Globals \ {global} :
        /\ Awaited /\ ~coin.complete
        /\ global' = g
        /\ UNCHANGED <<coin, swap, hooked, vaults, volume, job>>

(* A creator collects its fees, or is paid by others' trades. *)
vault_moves ==
    \E c \in Creators : \E lamports \in {0} \cup Rent .. MaxLamports :
        /\ Awaited /\ ~coin.complete
        /\ vaults' = [vaults EXCEPT ![c] = lamports]
        /\ UNCHANGED <<coin, global, swap, hooked, volume, job>>

close_volume ==
    /\ Awaited /\ ~coin.complete
    /\ volume /\ volume' = FALSE
    /\ UNCHANGED <<coin, global, swap, hooked, vaults, job>>

set_hook ==
    \E m \in {meme, coin.quote} :
        /\ job.at # "market"
        /\ IF m = meme THEN coin.program = "t22" ELSE m \in Hookable
        /\ hooked' = hooked \cup {m}
        /\ UNCHANGED <<coin, global, swap, vaults, volume, job>>

(* A swap in the PumpSwap pool leaves its fees in the vault. *)
swap_trades ==
    \E in \in {-2, 3} : \E protocol, creator \in {0, 1} :
        /\ Awaited /\ swap # NoPool
        /\ swap.vault + in \in waiting_fees(swap) + 2 .. MaxVault
        /\ swap' = [swap EXCEPT !.vault = @ + in,
                                !.protocol_fees = @ + protocol,
                                !.creator_fees = @ + creator]
        /\ UNCHANGED <<coin, global, hooked, vaults, volume, job>>

(* The fees are paid out of the vault. *)
swept(s) ==
    [s EXCEPT !.vault = @ - waiting_fees(s),
              !.protocol_fees = 0, !.creator_fees = 0]

sweep ==
    /\ Awaited /\ swap # NoPool /\ waiting_fees(swap) > 0
    /\ swap' = swept(swap)
    /\ job' = IF Reading("pumpswap") THEN [job EXCEPT !.read.unswept = FALSE] ELSE job
    /\ UNCHANGED <<coin, global, hooked, vaults, volume>>

swap_changes ==
    \E s \in SwapPools :
        /\ Awaited /\ swap # NoPool
        /\ swap' = [swap EXCEPT !.coin_creator = s.coin_creator,
                                !.virtual_quote = s.virtual_quote]
        /\ swap' # swap
        /\ UNCHANGED <<coin, global, hooked, vaults, volume, job>>

-----------------------------------------------------------------------------
(* What an account says, as the second read decodes it.                     *)

(* A slip: what the first read named is kept, whether it named one or not. *)
current_recipient(keys, current) == current

(* A listed recipient is kept, or else the first of the list is taken. *)
choose_recipient(keys, current) ==
    IF current \in keys THEN current ELSE CHOOSE k \in keys : TRUE

(* The highest tier the market cap reaches; the first one below it. *)
calculate_fee_tier(tiers, cap) ==
    LET reached == {i \in DOMAIN tiers : tiers[i].cap <= cap}
    IN  tiers[IF reached = {} THEN 1 ELSE CHOOSE i \in reached : \A j \in reached : j <= i].rates

market_cap(c) ==
    ((IF c.mayhem THEN c.supply ELSE SUPPLY) * Curve(c).quote) \div Curve(c).base

fee_tiers(c, g) ==
    IF c.quote = USDC_MINT /\ g.stable # <<>> THEN g.stable ELSE g.tiers

by_tier(c, g) == g.config /\ c.quote \in {WSOL_MINT, USDC_MINT}

scheduled(c, g) ==
    IF by_tier(c, g) THEN calculate_fee_tier(fee_tiers(c, g), market_cap(c))
    ELSE IF ~g.config THEN g.own
    ELSE IF total_rate(g.exotic) = 0 THEN g.flat ELSE g.exotic

fee_rates(c, g) ==
    LET r == scheduled(c, g)
    IN  [ lp |-> 0, protocol |-> r.protocol,
          creator |-> IF c.creator = NONE THEN 0
                      ELSE IF g.overrides /\ c.override # 0 THEN c.override
                      ELSE r.creator ]

(* apply_inner refuses what it cannot quote, and a mint with an active hook. *)
mint_program_ok(mint) == mint \notin hooked

recipients == IF coin.mayhem THEN global.mayhem_recipients ELSE global.recipients

accounts_ok(quote, v3) ==
    /\ v3 => global.config /\ ~coin.cashback
    /\ ~coin.complete
    /\ v3 \/ coin.depth = 0
    /\ coin.quote = quote
    /\ mint_program_ok(meme) /\ mint_program_ok(quote)
    /\ 0 \notin {Curve(coin).base, Curve(coin).quote}
    /\ by_tier(coin, global) => fee_tiers(coin, global) # <<>>
    /\ {} \notin {recipients, global.buybacks}

apply_inner(creator, recipient) ==
    [ creator |-> creator, quote_mint |-> coin.quote, program |-> coin.program,
      native |-> coin.quote = WSOL_MINT, cashback |-> coin.cashback,
      base |-> Curve(coin).base, quote |-> Curve(coin).quote,
      real |-> Curve(coin).real, rates |-> fee_rates(coin, global),
      fee_recipient |-> choose_recipient(recipients, recipient),
      buyback |-> choose_recipient(global.buybacks, NONE) ]

-----------------------------------------------------------------------------
(* The first read.  What the caller had before is dropped.                  *)

first_read(kind, fields) ==
    /\ job.at \in {"idle", "market"}
    /\ job' = [at |-> "reading", kind |-> kind, read |-> fields]
    /\ UNCHANGED chain

(* PumpFunParams::from_mint_by_rpc and pumpfun_from_params: everything that *)
(* is derived from the creator is derived from this one.  A curve that is   *)
(* complete is refused; by the loads of V3, at the second read.             *)
load_pumpfun ==
    /\ ~coin.complete
    /\ \E r \in Recipients \cup {NONE} :
          first_read("pumpfun",
              [creator |-> coin.creator, quote |-> coin.quote, recipient |-> r])

load_pumpfun_v3_by_rpc ==
    /\ ~coin.complete /\ mint_program_ok(meme)
    /\ first_read("v3", [quote |-> coin.quote, program |-> coin.program])

(* "covered" and "unswept" are history: what the pool could pay out at this *)
(* read, and whether its fees have stayed in the vault since.               *)
load_pumpswap ==
    /\ swap # NoPool
    /\ first_read("pumpswap",
          [ coin_creator |-> swap.coin_creator, base |-> swap.base,
            virtual_quote |-> swap.virtual_quote, vault |-> swap.vault,
            unswept |-> TRUE, covered |-> swap.vault - waiting_fees(swap) ])

-----------------------------------------------------------------------------
(* The second read, in one answer, and what is made of both.                *)

deliver(kind, market) ==
    /\ job' = [at |-> "market", kind |-> kind, m |-> market]
    /\ UNCHANGED chain

(* A slip: the creators of the two reads are not compared. *)
refresh_unchecked ==
    /\ Reading("pumpfun")
    /\ accounts_ok(job.read.quote, FALSE)
    /\ deliver("pumpfun", apply_inner(job.read.creator, job.read.recipient))

refresh ==
    /\ Reading("pumpfun")
    /\ coin.creator = job.read.creator
    /\ accounts_ok(job.read.quote, FALSE)
    /\ deliver("pumpfun", apply_inner(job.read.creator, job.read.recipient))

refresh_v3 ==
    /\ Reading("v3")
    /\ accounts_ok(job.read.quote, TRUE)
    /\ coin.program = job.read.program
    /\ deliver("v3",
          [ curve |-> apply_inner(coin.creator, NONE), mayhem |-> coin.mayhem,
            supports_graduation |-> TRUE,
            real_quote |-> Curve(coin).real_quote, balance |-> Curve(coin).balance,
            migration_fee |-> global.migration_fee,
            needs_curve_extension |-> ~coin.extended,
            needs_volume_initialization |-> ~volume ])

(* A slip: the creator's share of the reserved fees is left out. *)
protocol_fees_only(s) == s.protocol_fees

reserved_fees(s) == s.protocol_fees + s.creator_fees

(* apply_pool_fee_reserves *)
refresh_pumpswap_fee_reserves ==
    /\ Reading("pumpswap")
    /\ swap.virtual_quote = job.read.virtual_quote
    /\ swap.coin_creator = job.read.coin_creator
    /\ reserved_fees(swap) <= job.read.vault
    /\ job' = [ at |-> "refreshed", kind |-> "pumpswap",
                m |-> [ quote_mint |-> swap.quote_mint, rates |-> swap.rates,
                        coin_creator |-> job.read.coin_creator,
                        base_reserve |-> job.read.base,
                        quote_reserve |-> job.read.vault,
                        virtual_quote_reserves |-> job.read.virtual_quote,
                        quote_fee_reserves |-> reserved_fees(swap),
                        covered |-> job.read.covered,
                        unswept |-> job.read.unswept ] ]
    /\ UNCHANGED chain

(* A third read, of the mints: Pump curves had theirs in the second. *)
validate_route_mints ==
    /\ job.at = "refreshed"
    /\ mint_program_ok(meme) /\ mint_program_ok(job.m.quote_mint)
    /\ job' = [job EXCEPT !.at = "market"]
    /\ UNCHANGED chain

(* The RPC fails, or one of the checks does. *)
load_fails ==
    /\ job.at \in {"reading", "refreshed"}
    /\ job' = Idle
    /\ UNCHANGED chain

-----------------------------------------------------------------------------
(* A trade on a curve, with its setup.                                      *)

(* A slip: the accumulator is made only where the layout names it. *)
initializes_if_named(side) ==
    IF job.kind = "v3" THEN job.m.needs_volume_initialization \/ job.m.curve.native
    ELSE job.m.native /\ job.m.cashback

(* prepare_pumpfun_native_accounts; PumpFunV3Pool::setup *)
initializes_volume(side) ==
    IF job.kind = "v3" THEN job.m.needs_volume_initialization \/ job.m.curve.native
    ELSE job.m.native /\ (side = "buy" \/ job.m.cashback)

built(side, curve) ==
    [ at |-> "built", kind |-> job.kind, side |-> side,
      native |-> curve.native, creator |-> curve.creator, cashback |-> curve.cashback,
      prepares |-> job.kind = "pumpfun" /\ curve.native,
      extends |-> job.kind = "v3" /\ job.m.needs_curve_extension,
      initializes |-> initializes_volume(side) ]

build ==
    /\ \E side \in {"buy", "sell"} :
          \/ Delivered("pumpfun") /\ job' = built(side, job.m)
          \/ Delivered("v3") /\ job' = built(side, job.m.curve)
    /\ UNCHANGED chain

(* PREPARE_PUMPFUN pays in what the vault lacks to the rent floor, whatever *)
(* it holds by now; it refuses any vault but that of the curve's creator.   *)
prepared(t) ==
    IF t.prepares THEN AtLeast(vaults[t.creator], Rent) ELSE vaults[t.creator]

(* The coin has left the curve, or moved on to another creator or quote. *)
outdated(t) ==
    \/ coin.complete
    \/ coin.creator # t.creator
    \/ t.native # (coin.quote = WSOL_MINT)

(* Which accounts Pump uses: V3 always tracks volume and needs the extended *)
(* curve, a V1 sale tracks it for cashback coins only.                      *)
tracks_volume(t) == t.kind = "v3" \/ t.side = "buy" \/ t.cashback

pays_vault(t) == t.kind = "pumpfun" /\ t.native

(* The route would have to make an account, or to fill one up.              *)
rent_in_route(t) ==
    /\ t.native
    /\ \/ tracks_volume(t) /\ ~volume /\ ~t.initializes
       \/ t.kind = "v3" /\ ~coin.extended /\ ~t.extends
       \/ pays_vault(t) /\ prepared(t) + CreatorFee < Rent

refused ==
    /\ job.at = "built"
    /\ outdated(job) \/ rent_in_route(job)
    /\ job' = IF outdated(job) THEN Idle ELSE [at |-> "off_budget"]
    /\ UNCHANGED chain

land ==
    /\ job.at = "built"
    /\ ~outdated(job) /\ ~rent_in_route(job)
    /\ job' = Idle
    /\ volume' = (volume \/ job.initializes \/ tracks_volume(job))
    /\ coin' = [coin EXCEPT !.extended = @ \/ job.extends]
    /\ vaults' = IF pays_vault(job)
                 THEN [vaults EXCEPT ![job.creator] = AtMost(prepared(job) + CreatorFee, MaxLamports)]
                 ELSE vaults
    /\ UNCHANGED <<global, swap, hooked>>

outside ==
    \/ buys_and_sells \/ graduates \/ coin_changes \/ global_changes \/ vault_moves
    \/ close_volume \/ set_hook \/ swap_trades \/ sweep \/ swap_changes

Next ==
    \/ outside
    \/ load_pumpfun \/ load_pumpfun_v3_by_rpc \/ load_pumpswap
    \/ refresh \/ refresh_v3 \/ refresh_pumpswap_fee_reserves \/ validate_route_mints
    \/ load_fails
    \/ build \/ land \/ refused

Spec == Init /\ [][Next]_vars

-----------------------------------------------------------------------------

DeliveredRates == IF job.kind = "v3" THEN job.m.curve.rates ELSE job.m.rates

TypeOK ==
    /\ coin \in Coin
    /\ global \in Globals
    /\ swap = NoPool \/ waiting_fees(swap) \in 0 .. swap.vault
    /\ vaults \in [Creators -> 0 .. MaxLamports]
    /\ volume \in BOOLEAN
    /\ job.at \in {"idle", "reading", "refreshed", "market", "built", "off_budget"}
    /\ job.at = "market" => DeliveredRates \in PumpRates
    /\ Delivered("pumpfun") => NONE \notin {job.m.fee_recipient, job.m.buyback}

OneCurve(c) ==
    /\ ~coin.complete
    /\ c.creator = coin.creator
    /\ c.quote_mint = coin.quote /\ c.program = coin.program
    /\ c.native = (coin.quote = WSOL_MINT)
    /\ {meme, c.quote_mint} \cap hooked = {}
    /\ c.base = Curve(coin).base /\ c.real = Curve(coin).real
    /\ c.fee_recipient \in recipients /\ c.buyback \in global.buybacks

(* A market that was read in two parts is that of one state of the chain:   *)
(* no account derived from the first read belongs to another creator, quote *)
(* or token program than the second one has (refresh, apply_inner,          *)
(* load_pumpfun_v3_by_rpc, apply_pool_fee_reserves, validate_route_mints).  *)
DeliveredTrue ==
    [][job' # job =>
          /\ Delivered("pumpfun")' => OneCurve(job'.m)
          /\ Delivered("v3")' => /\ OneCurve(job'.m.curve)
                                 /\ job'.m.real_quote = Curve(coin).real_quote
                                 /\ job'.m.needs_curve_extension = ~coin.extended
          /\ job'.at = "refreshed" =>
                /\ job'.m.coin_creator = swap.coin_creator
                /\ job'.m.virtual_quote_reserves = swap.virtual_quote
          /\ Delivered("pumpswap")' => {meme, job'.m.quote_mint} \cap hooked = {}]_vars

(* No quote of a sale to PumpSwap counts on fees that are not the pool's:   *)
(* it is never more than the vault held beside them at the first read,      *)
(* unless they were swept before the second (refresh_pumpswap_fee_reserves, *)
(* pumpswap_sell_quote_out).                                                *)
SellQuoteCovered ==
    Delivered("pumpswap") /\ job.m.unswept =>
        \A base_in \in 1 .. MaxBudget :
            pumpswap_sell_quote_out(job.m, base_in) > 0
                => pumpswap_leaves_vault(job.m, base_in) <= job.m.covered

(* A trade in SOL pays no rent inside its route, however the creator's      *)
(* vault, the user's accumulator and the curve have changed since it was    *)
(* built: what the route lacks, its setup brings, and it settles on its     *)
(* budget or reverts because the coin has moved on                          *)
(* (prepare_pumpfun_native_accounts, PREPARE_PUMPFUN, PumpFunV3Pool::setup).*)
PreparedTradesSettle == job.at # "off_budget"

(* What a curve is bought for fits the budget, past its last token too: the *)
(* tokens a budget is quoted cost no more than it, fees and the pool-to-be  *)
(* included, and sold back at once they bring no gain (buy_quote,           *)
(* buy_quote_for_tokens, pumpfun_buy_token_out, pumpfun_sell_sol_out).      *)
BudgetsHold ==
    \A budget \in 1 .. MaxBudget :
        /\ Delivered("v3") =>
              LET tokens == buy_quote(job.m, budget)
              IN  tokens > 0 => buy_quote_for_tokens(job.m, tokens) \in 1 .. budget
        /\ Delivered("pumpfun") =>
              LET tokens == pumpfun_buy_token_out(job.m, budget)
                  after == [job.m EXCEPT
                              !.base = @ - tokens,
                              !.quote = @ + net_quote(budget, job.m.rates) - 1]
              IN  tokens > 0 => pumpfun_sell_sol_out(after, tokens) < budget

Schedule == Seq([cap : Nat, rates : PumpRates])

ASSUME MarketLoadConstants ==
    /\ Rent \in Nat /\ CreatorFee \in Nat \ {0} /\ CreatorFee < Rent
    /\ MaxLamports \in Nat /\ Rent <= MaxLamports
    /\ MaxVault \in Nat /\ MaxBudget \in Nat /\ SUPPLY \in Nat
    /\ Curves \in Seq([base : Nat, quote : Nat, real : Nat, real_quote : Nat,
                        balance : Nat])
    /\ Coins \subseteq Coin /\ Graduated \subseteq Coin
    /\ \A g \in Globals :
          /\ {g.own, g.flat, g.exotic} \subseteq PumpRates
          /\ {g.tiers, g.stable} \subseteq Schedule
          /\ g.migration_fee \in Nat
          /\ NONE \notin g.recipients \cup g.mayhem_recipients \cup g.buybacks
    /\ SwapPools \subseteq SwapPool
    /\ \A s \in SwapPools : waiting_fees(s) <= s.vault
=============================================================================
