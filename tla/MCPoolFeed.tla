----------------------------- MODULE MCPoolFeed -----------------------------
(***************************************************************************)
(* Every kind of pool, paired with WSOL, with a quote behind a CPMM or an   *)
(* AMM V4 bridge, and with both programs; one wild pool for each.  A wild   *)
(* CPMM pool or bridge is at an address of its own, or at the one another   *)
(* configuration leads to.                                                  *)
(***************************************************************************)
EXTENDS PoolFeed

CONSTANTS meme, stock

On(dex, id, a, pa, b, pb) ==
    [ dex |-> dex, id |-> id, a |-> a, b |-> b, pa |-> pa, pb |-> pb,
      config |-> IF dex = "cpmm" THEN "config" ELSE UNSET,
      use_v2 |-> FALSE, clamps |-> FALSE, stonk |-> TRUE ]

MCCpmmBridge ==
    On("cpmm", cpmm_pool_pda("config", WSOL_MINT, stock), WSOL_MINT, "spl", stock, "t22")
MCWildBridge == [MCCpmmBridge EXCEPT !.id = <<"pool", "wildbridge">>]
MCAmmBridge == On("amm_v4", <<"pool", "bridge">>, USDC_MINT, "spl", WSOL_MINT, "spl")
(* A bridge pool that takes the quote for a classic token. *)
MCWrongBridge == On("amm_v4", <<"pool", "classic">>, stock, "spl", WSOL_MINT, "spl")

MCIds(dex, a, b) ==
    CASE dex = "launchlab" -> launchlab_pool_pda(a, b)
      [] dex = "pumpfun" -> pumpfun_bonding_curve_pda(a)
      [] dex = "pumpswap" /\ b = WSOL_MINT -> pumpswap_canonical_pool_pda(a)
      [] dex = "cpmm" -> cpmm_pool_pda("config", a, b)
      [] OTHER -> <<"pool", dex>>

MCPool(dex, a, pa, b, pb) == On(dex, MCIds(dex, a, b), a, pa, b, pb)

MCAnySided == Dexes \ Oriented

MCPools ==
    {MCPool(k, meme, "spl", WSOL_MINT, "spl") : k \in Dexes}
      \cup {MCPool(k, WSOL_MINT, "spl", meme, "t22") : k \in MCAnySided \ {"amm_v4"}}
      \cup {MCPool(k, meme, "t22", stock, "t22") : k \in Dexes \ {"amm_v4", "pumpfun"}}
      \cup {MCPool(k, USDC_MINT, "spl", meme, "spl") : k \in {"amm_v4", "damm_v2"}}
      \cup {MCPool("pumpfun", meme, "t22", USDC_MINT, "spl")}
      \cup {MCPool("cpmm", stock, "t22", meme, "spl")}
      \cup {[MCPool("pumpfun", meme, "t22", WSOL_MINT, "spl") EXCEPT !.use_v2 = TRUE]}
      \cup {[MCPool("launchlab", meme, "spl", stock, "t22") EXCEPT !.clamps = TRUE]}

MCTargets ==
    {[pool |-> p, bridge |-> b] : p \in MCPools,
        b \in {{}, {MCCpmmBridge}, {MCWildBridge}, {MCAmmBridge}, {MCWrongBridge}}}

MCUseful ==
    {t \in MCTargets : IF needs_sol_bridge(t.pool)
                       THEN \A b \in t.bridge : mints(b) \cap mints(t.pool) # {}
                       ELSE t.bridge = {}}

MCElsewhere(p) == [p EXCEPT !.id = <<"pool", "wild">>, !.stonk = FALSE]

MCOtherConfig(p) ==
    [p EXCEPT !.id = cpmm_pool_pda("wildconfig", p.a, p.b), !.config = "wildconfig"]

MCWild ==
    [p \in MCPools |->
        IF p.dex = "cpmm" /\ p.pa = "t22" THEN MCOtherConfig(p) ELSE MCElsewhere(p)]

MCPolicies ==
    {default_policy, disabled_policy,
     stonk_strict({<<"pool", "bridge">>, <<"pool", "clmm">>,
                   pumpfun_bonding_curve_pda(meme)})}

(* The documented start: a Pump coin paired with SOL, from parameters.      *)
MCPumpTargets == {t \in MCUseful : is_native_sol_quote(t.pool)}
=============================================================================
