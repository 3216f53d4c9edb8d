------------------------------ MODULE Markets ------------------------------
(***************************************************************************)
(* Market snapshots as the client holds them (market.rs): which of a pool's *)
(* two mints is traded and which one pays, what token programs they have,   *)
(* and when SOL needs a bridge to get to the pool.                          *)
(*                                                                          *)
(* A snapshot has two sides, a and b.  Raydium LaunchLab, PumpFun and       *)
(* PumpSwap pools are oriented: a is the base mint and b the quote mint.    *)
(* The sides of every other pool are in an order that says nothing.         *)
(***************************************************************************)
EXTENDS Naturals, Sequences

CONSTANTS
    WSOL_MINT, USDC_MINT,   \* the mints the code knows by their address
    UNSET                   \* Pubkey::default()

ASSUME MintConstants == WSOL_MINT # USDC_MINT /\ UNSET \notin {WSOL_MINT, USDC_MINT}

NONE == <<>>

Oriented == {"launchlab", "pumpfun", "pumpswap"}
Concentrated == {"clmm", "whirlpool", "dlmm"}
Dexes == Oriented \cup Concentrated \cup {"cpmm", "amm_v4", "damm_v2"}
Quotable == {"launchlab", "cpmm", "pumpfun", "pumpswap", "amm_v4"}

mints(p) == {p.a, p.b}

(* Market::needs_sol_bridge: of the oriented pools only the quote counts.   *)
needs_sol_bridge(p) ==
    IF p.dex \in Oriented THEN p.b # WSOL_MINT ELSE WSOL_MINT \notin mints(p)

(* PumpFunPool: a curve quoted in anything but WSOL is always V2; one       *)
(* quoted in WSOL settles in lamports unless V2 is asked for.               *)
is_native_sol_quote(p) == p.dex = "pumpfun" /\ p.b = WSOL_MINT
uses_v2(p) == p.use_v2 \/ p.b # WSOL_MINT
uses_wsol_ata_settlement(p) == is_native_sol_quote(p) /\ p.use_v2

(* pair_base, pair_quote: WSOL pays if it is there, then USDC on side a,    *)
(* then side b.                                                             *)
pair_base(a, b) ==
    IF a = WSOL_MINT THEN b
    ELSE IF b = WSOL_MINT THEN a
    ELSE IF a = USDC_MINT THEN b ELSE a

pair_quote(a, b) ==
    IF WSOL_MINT \in {a, b} THEN WSOL_MINT
    ELSE IF a = USDC_MINT THEN USDC_MINT ELSE b

(* CpmmPool::meme_mint and pay_mint *)
cpmm_meme_mint(p) == IF p.a = WSOL_MINT THEN p.b ELSE p.a
cpmm_pay_mint(p) == IF WSOL_MINT \in mints(p) THEN WSOL_MINT ELSE p.b

(* CpmmPool::other_mint, BridgePool::other_mint; only asked of its mints.   *)
other_mint(p, mint) == IF mint = p.a THEN p.b ELSE p.a

(* CpmmPool::token_program_for; only asked of its mints. *)
token_program_for(p, mint) == IF mint = p.a THEN p.pa ELSE p.pb

base_mint(p) ==
    IF p.dex \in Oriented THEN p.a
    ELSE IF p.dex = "cpmm" THEN cpmm_meme_mint(p) ELSE pair_base(p.a, p.b)

pool_quote_mint(p) ==
    IF p.dex \in Oriented THEN p.b
    ELSE IF p.dex = "cpmm" THEN cpmm_pay_mint(p) ELSE pair_quote(p.a, p.b)

(* Market::base_token_program and quote_token_program *)
base_token_program(p) == token_program_for(p, base_mint(p))
pool_quote_program(p) == token_program_for(p, pool_quote_mint(p))

-----------------------------------------------------------------------------
(* A routed market: a pool, and at most one bridge between SOL and it.      *)

(* shared_mint_with_bridge: the mint by which SOL gets into a CPMM pool.    *)
shared_mint_with_bridge(p, bridge) ==
    IF p.b \in mints(bridge) THEN {p.b}
    ELSE IF p.a \in mints(bridge) THEN {p.a} ELSE {}

(* RoutedMarket::meme_mint *)
meme_mint(m) ==
    LET shared == UNION {shared_mint_with_bridge(m.pool, b) : b \in m.bridge}
    IN  IF m.pool.dex = "cpmm" /\ needs_sol_bridge(m.pool) /\ shared # {}
        THEN other_mint(m.pool, CHOOSE s \in shared : TRUE)
        ELSE base_mint(m.pool)

(* RoutedMarket::quote_mint *)
quote_mint(m) ==
    IF m.pool.dex = "cpmm" THEN other_mint(m.pool, meme_mint(m))
    ELSE pool_quote_mint(m.pool)

(* RoutedMarket::meme_token_program and quote_token_program *)
meme_token_program(m) == token_program_for(m.pool, meme_mint(m))
quote_token_program(m) == token_program_for(m.pool, quote_mint(m))
=============================================================================
