----------------------------- MODULE TradePaths -----------------------------
(***************************************************************************)
(* The legs the client builds for an order on a routed market (trade.rs):   *)
(* which pools are crossed, in which direction, with which amounts and      *)
(* minimum outputs, and which token accounts are prepared for it.           *)
(*                                                                          *)
(* Amounts are terms that say where a number comes from: what is left of    *)
(* the caller's amount after the router fee, a minimum the caller gave, the *)
(* quote of a swap, a quote less the slippage tolerance, what a LaunchLab   *)
(* curve still takes, the input a bridge needs for an output.  A function   *)
(* that may return an error returns a set, empty for the error.             *)
(***************************************************************************)
EXTENDS PoolGuard

Cash == {"sol", "wsol"}
LAMPORTS == <<"lamports">>
WSOL_ATA == <<WSOL_MINT, "spl">>

spend == <<"spend">>
caller_min == <<"caller">>
fixed_output == <<"fixed">>
slipped(quote) == <<"slipped", quote>>
quote_of(p, input, amount) == <<"quote", p.id, input, amount, p.version>>
still_taken(p) == <<"taken", p.id>>
input_for(p, out) == <<"input_for", p.id, out>>

ata(p, mint) == <<mint, token_program_for(p, mint)>>

-----------------------------------------------------------------------------
(* Quotes and legs.                                                         *)

(* A slip: the size a cached quote was made for is not compared. *)
snapshot_quote_any_size(p, input, amount) ==
    IF p.quoted_mint = input /\ p.expected # NONE THEN {p.expected} ELSE {}

(* assert_quote_direction, concentrated_min_out and meteora_damm_v2_out: a  *)
(* cached quote serves only the direction and the size it was made for.     *)
snapshot_quote(p, input, amount) ==
    IF p.quoted_mint = input /\ p.quoted_in = amount /\ p.expected # NONE
    THEN {p.expected} ELSE {}

(* What a pool pays for an amount: computed where the snapshot has all that *)
(* is needed ("known": the inputs for which it has), else the cached quote. *)
quote_out(p, input, amount) ==
    IF p.dex \notin Quotable THEN snapshot_quote(p, input, amount)
    ELSE IF input \in p.known THEN {quote_of(p, input, amount)} ELSE {}

(* LaunchLab takes less than it is offered when it is about to graduate.    *)
launchlab_takes(p, amount) == IF p.clamps THEN still_taken(p) ELSE amount

require_mint_programs(p) ==
    \A s \in {<<p.a, p.pa>>, <<p.b, p.pb>>} :
        s[2] \in {"spl", "t22"} /\ (s[1] = WSOL_MINT => s[2] = "spl")

liquidity_arrays_ok(p) ==
    /\ \A i \in DOMAIN p.arrays : p.arrays[i] # UNSET
    /\ Len(p.arrays) >= (IF p.dex = "whirlpool" THEN 3 ELSE 1)

(* What the leg builders of the DEXes refuse; LaunchLab and PumpFun legs    *)
(* are checked before, in validate_inner_market_programs.                   *)
leg_ok(p, input) ==
    /\ input \in mints(p)
    /\ p.dex \notin {"launchlab", "pumpfun"} => require_mint_programs(p)
    /\ p.dex = "amm_v4" => UNSET \notin mints(p) /\ p.pa = "spl"
    /\ p.dex \in Concentrated => liquidity_arrays_ok(p)

leg(p, input, amount, min) ==
    [ pool |-> p.id, from |-> ata(p, input), to |-> ata(p, other_mint(p, input)),
      amount |-> amount, min |-> min ]

swap_leg(p, input, amount, min) ==
    IF leg_ok(p, input) THEN {leg(p, input, amount, min)} ELSE {}

(* pumpfun_buy_leg, pumpfun_sell_leg: the V1 layout moves lamports.         *)
native_leg(p, side, min) ==
    IF side = "buy" THEN [leg(p, p.b, spend, min) EXCEPT !.from = LAMPORTS]
    ELSE [leg(p, p.a, spend, min) EXCEPT !.to = LAMPORTS]

(* The minimum of the last leg.  An explicit one needs no quote, but code   *)
(* that quotes first ("eager") fails without it all the same.               *)
min_out(o, eager, quotes) ==
    IF o.min = "caller"
    THEN IF eager /\ quotes = {} THEN {} ELSE {caller_min}
    ELSE {slipped(q) : q \in quotes}

-----------------------------------------------------------------------------
(* One leg.                                                                 *)

Then(legs) == {<<l>> : l \in legs}

(* One leg for the caller's amount, with an exact-out leg where a fixed     *)
(* output is asked for: its target is both what is paid and the minimum.    *)
one_leg(p, input, o, eager) ==
    IF o.fixed THEN Then(swap_leg(p, input, spend, fixed_output))
    ELSE UNION {Then(swap_leg(p, input, spend, min)) :
                  min \in min_out(o, eager, quote_out(p, input, spend))}

(* buy_launchlab_with_quote and the arm for curves quoted in WSOL: the leg  *)
(* spends what the curve takes.                                             *)
buy_launchlab_with_quote(p, o) ==
    LET taken == launchlab_takes(p, spend)
    IN  UNION {Then(swap_leg(p, p.b, taken, min)) :
                 min \in min_out(o, TRUE, quote_out(p, p.b, taken))}

sell_launchlab_to_quote(p, o) == one_leg(p, p.a, o, TRUE)

buy_pumpswap_with_quote(p, o) == one_leg(p, p.b, o, TRUE)
sell_pumpswap_to_quote(p, o) == one_leg(p, p.a, o, FALSE)

(* pair_input_and_output_program and its like: a sale is given its output.  *)
buy_raydium_v4_with_mint(p, input, o) == one_leg(p, input, o, TRUE)
sell_raydium_v4_to_mint(p, output, o) == one_leg(p, other_mint(p, output), o, TRUE)

buy_meteora_v2_with_mint(p, input, o) == one_leg(p, input, o, FALSE)
sell_meteora_v2_to_mint(p, output, o) == one_leg(p, other_mint(p, output), o, FALSE)

(* buy_raydium_clmm_with_mint, buy_whirlpool_.. and buy_meteora_dlmm_..,    *)
(* and the sales that mirror them.                                          *)
buy_concentrated_with_mint(p, input, o) == one_leg(p, input, o, FALSE)
sell_concentrated_to_mint(p, output, o) == one_leg(p, other_mint(p, output), o, FALSE)

buy_cpmm_with_mint(p, input, o) == one_leg(p, input, o, TRUE)
sell_cpmm_to_mint(p, input, o) == one_leg(p, input, o, TRUE)

(* The arms for PumpFun pools: V1 for native SOL, V2 for token accounts.    *)
buy_pumpfun(p, o) ==
    {<<IF o.asset = "sol" THEN native_leg(p, "buy", min) ELSE leg(p, p.b, spend, min)>> :
       min \in min_out(o, FALSE, quote_out(p, p.b, spend))}

sell_pumpfun(p, o) ==
    {<<IF o.asset = "sol" THEN native_leg(p, "sell", min) ELSE leg(p, p.a, spend, min)>> :
       min \in min_out(o, FALSE, quote_out(p, p.a, spend))}

-----------------------------------------------------------------------------
(* Two legs.                                                                *)

connects(bridge, mint) == mints(bridge) = {WSOL_MINT, mint} /\ mint # WSOL_MINT

Join(first, second) == {<<l1, l2>> : l1 \in first, l2 \in second}

bridge_intermediate_min_out(quote) == quote

(* The first leg of a buy turns WSOL into the quote; the second spends what *)
(* the first must deliver.                                                  *)
buy_bridge(bridge, hop1_in, hop1_min, second) ==
    Join(swap_leg(bridge, WSOL_MINT, hop1_in, hop1_min), second)

buy_via_bridge_launchlab(p, bridge, o) ==
    LET last(amount) ==
            UNION {swap_leg(p, p.b, launchlab_takes(p, amount), min) :
                     min \in min_out(o, TRUE,
                                quote_out(p, p.b, launchlab_takes(p, amount)))}
    IN  IF ~connects(bridge, p.b) THEN {}
        ELSE UNION {LET taken == launchlab_takes(p, stock)
                        wsol == IF taken # stock THEN input_for(bridge, taken)
                                ELSE spend
                        hop1_min == bridge_intermediate_min_out(taken)
                    IN  buy_bridge(bridge, wsol, hop1_min, last(hop1_min)) :
                      stock \in quote_out(bridge, WSOL_MINT, spend)}

(* bridged_concentrated_min_out: a concentrated pool behind a bridge needs  *)
(* a minimum of the caller.                                                 *)
bridged_min_out(p, o, quotes) ==
    min_out(o, p.dex \in {"pumpswap", "amm_v4"},
            IF p.dex \in Concentrated THEN {} ELSE quotes)

buy_via_bridge_mainstream(p, bridge, o) ==
    LET quote == pool_quote_mint(p)
        last(amount) ==
            UNION {swap_leg(p, quote, amount, min) :
                     min \in bridged_min_out(p, o, quote_out(p, quote, amount))}
    IN  IF ~connects(bridge, quote) THEN {}
        ELSE UNION {LET hop1_min == bridge_intermediate_min_out(q)
                    IN  buy_bridge(bridge, spend, hop1_min, last(hop1_min)) :
                      q \in quote_out(bridge, WSOL_MINT, spend)}

buy_via_bridge_cpmm(p, bridge, o) ==
    UNION {LET last(amount) ==
                   UNION {swap_leg(p, stock, amount, min) :
                            min \in min_out(o, TRUE, quote_out(p, stock, amount))}
           IN  IF ~connects(bridge, stock) THEN {}
               ELSE UNION {LET hop1_min == bridge_intermediate_min_out(q)
                           IN  buy_bridge(bridge, spend, hop1_min, last(hop1_min)) :
                             q \in quote_out(bridge, WSOL_MINT, spend)} :
             stock \in shared_mint_with_bridge(p, bridge)}

(* A sale through a bridge pins the quote of its first leg, which only a    *)
(* quote can give, and applies the caller's minimum to the second.          *)
sell_bridge(p, input, bridge, o) ==
    LET quote == other_mint(p, input)
    IN  IF ~connects(bridge, quote) THEN {}
        ELSE UNION {LET hop1_min == bridge_intermediate_min_out(q)
                    IN  Join(swap_leg(p, input, spend, hop1_min),
                             UNION {swap_leg(bridge, quote, hop1_min, min) :
                                      min \in min_out(o, TRUE,
                                          quote_out(bridge, quote, hop1_min))}) :
                      q \in quote_out(p, input, spend)}

sell_via_bridge_launchlab(p, bridge, o) == sell_bridge(p, p.a, bridge, o)

sell_via_bridge_mainstream(p, bridge, o) == sell_bridge(p, base_mint(p), bridge, o)

sell_via_bridge_cpmm(p, bridge, o) ==
    UNION {sell_bridge(p, other_mint(p, stock), bridge, o) :
             stock \in shared_mint_with_bridge(p, bridge)}

-----------------------------------------------------------------------------
(* Which path an order takes.  o.asset is BuyWith or SellTo: "sol", "wsol"  *)
(* or the mint of Token(mint).                                              *)

needs_bridge(m, o) == o.asset \in Cash /\ needs_sol_bridge(m.pool)

paid_mint(o) == IF o.asset \in Cash THEN WSOL_MINT ELSE o.asset

single_buy(m, o) ==
    LET p == m.pool
        input == paid_mint(o)
    IN  CASE p.dex = "launchlab" -> buy_launchlab_with_quote(p, o)
          [] p.dex = "pumpfun" -> buy_pumpfun(p, o)
          [] p.dex = "pumpswap" -> buy_pumpswap_with_quote(p, o)
          [] p.dex = "cpmm" -> buy_cpmm_with_mint(p, input, o)
          [] p.dex = "amm_v4" -> buy_raydium_v4_with_mint(p, input, o)
          [] p.dex = "damm_v2" -> buy_meteora_v2_with_mint(p, input, o)
          [] OTHER -> buy_concentrated_with_mint(p, input, o)

bridged_buy(m, bridge, o) ==
    CASE m.pool.dex = "launchlab" -> buy_via_bridge_launchlab(m.pool, bridge, o)
      [] m.pool.dex = "cpmm" -> buy_via_bridge_cpmm(m.pool, bridge, o)
      [] OTHER -> buy_via_bridge_mainstream(m.pool, bridge, o)

build_buy_legs(m, o) ==
    IF needs_bridge(m, o) THEN UNION {bridged_buy(m, b, o) : b \in m.bridge}
    ELSE single_buy(m, o)

single_sell(m, o) ==
    LET p == m.pool
        output == paid_mint(o)
    IN  CASE p.dex = "launchlab" -> sell_launchlab_to_quote(p, o)
          [] p.dex = "pumpfun" -> sell_pumpfun(p, o)
          [] p.dex = "pumpswap" -> sell_pumpswap_to_quote(p, o)
          [] p.dex = "cpmm" -> sell_cpmm_to_mint(p, meme_mint(m), o)
          [] p.dex = "amm_v4" -> sell_raydium_v4_to_mint(p, output, o)
          [] p.dex = "damm_v2" -> sell_meteora_v2_to_mint(p, output, o)
          [] OTHER -> sell_concentrated_to_mint(p, output, o)

bridged_sell(m, bridge, o) ==
    CASE m.pool.dex = "launchlab" -> sell_via_bridge_launchlab(m.pool, bridge, o)
      [] m.pool.dex = "cpmm" -> sell_via_bridge_cpmm(m.pool, bridge, o)
      [] OTHER -> sell_via_bridge_mainstream(m.pool, bridge, o)

build_sell_legs(m, o) ==
    IF needs_bridge(m, o) THEN UNION {bridged_sell(m, b, o) : b \in m.bridge}
    ELSE single_sell(m, o)

-----------------------------------------------------------------------------
(* buy_with_opts and sell_with_opts: what is refused before a leg is built. *)

fixed_output_supported(m, o) ==
    /\ ~needs_bridge(m, o)
    /\ m.pool.dex \in {"cpmm", "amm_v4", "damm_v2"}
                        \cup (IF o.side = "buy" THEN {"pumpswap"} ELSE {})

validate_inner_market_programs(p, quote_ata) ==
    CASE p.dex = "launchlab" -> require_mint_programs(p)
      [] p.dex = "pumpfun" ->
            /\ p.pa \in {"spl", "t22"}
            /\ ~is_native_sol_quote(p) => p.pb \in {"spl", "t22"}
            /\ is_native_sol_quote(p) /\ quote_ata => p.pb = "spl"
      [] OTHER -> TRUE

(* A slip: the bridge's token program for the quote is not compared. *)
bridge_quote_program_unchecked(m) ==
    \A b \in m.bridge : quote_mint(m) \in mints(b)

validate_bridge_quote_program(m) ==
    \A b \in m.bridge :
        /\ quote_mint(m) \in mints(b)
        /\ token_program_for(b, quote_mint(m)) = quote_token_program(m)

(* A token order names the market's quote; a native Pump curve takes only   *)
(* SOL, and WSOL where it settles in a token account.                       *)
validate_asset(m, o) ==
    /\ o.asset \notin Cash => o.asset = quote_mint(m) /\ o.asset # meme_mint(m)
    /\ is_native_sol_quote(m.pool) =>
          \/ o.asset = "sol"
          \/ o.asset = "wsol" /\ uses_wsol_ata_settlement(m.pool)

accepted(m, o) ==
    /\ validate_inner_market_programs(m.pool, o.asset # "sol")
    /\ validate_asset(m, o)
    /\ o.fixed => fixed_output_supported(m, o)
    /\ needs_bridge(m, o) => m.bridge # {} /\ validate_bridge_quote_program(m)

build(m, o) ==
    IF ~accepted(m, o) THEN {}
    ELSE IF o.side = "buy" THEN build_buy_legs(m, o) ELSE build_sell_legs(m, o)

(* TouchedAtas::touch_quote: WSOL always has its classic account. *)
touch_quote(mint, program) ==
    IF mint = WSOL_MINT THEN {WSOL_ATA} ELSE {<<mint, program>>}

(* A slip: the account between the legs of a bridged trade is not touched.  *)
touched_ends(m, o) ==
    {<<meme_mint(m), meme_token_program(m)>>}
      \cup (IF o.asset = "sol" /\ is_native_sol_quote(m.pool) THEN {}
            ELSE IF o.asset \in Cash THEN {WSOL_ATA}
            ELSE touch_quote(o.asset, quote_token_program(m)))

(* The token accounts of the user a trade creates and closes by its policy. *)
touched(m, o) ==
    {<<meme_mint(m), meme_token_program(m)>>}
      \cup (IF o.asset = "sol" /\ is_native_sol_quote(m.pool) THEN {}
            ELSE IF o.asset \in Cash THEN {WSOL_ATA}
            ELSE touch_quote(o.asset, quote_token_program(m)))
      \cup (IF needs_bridge(m, o)
            THEN touch_quote(quote_mint(m), quote_token_program(m)) ELSE {})
=============================================================================
