----------------------------- MODULE PoolGuard -----------------------------
(***************************************************************************)
(* The guard against pools that are not the ones a mint is known by         *)
(* (pool_guard.rs).  The address of a LaunchLab or PumpFun curve, of the    *)
(* PumpSwap pool a Pump coin graduates to and of a CPMM pool is derived     *)
(* from mints, for CPMM together with the pool's configuration; every other *)
(* pool can only be allowed by name.  A derived address is the tuple it is  *)
(* derived from.                                                            *)
(***************************************************************************)
EXTENDS Markets

(* PoolGuardPolicy: whether it is enabled, whether only StonkFun curves and *)
(* only listed AMM pools are allowed, and the pools that are trusted.       *)
default_policy ==
    [enabled |-> TRUE, stonk_only |-> FALSE, listed_only |-> FALSE, trusted |-> {}]

disabled_policy == [default_policy EXCEPT !.enabled = FALSE]

stonk_strict(pools) ==
    [enabled |-> TRUE, stonk_only |-> TRUE, listed_only |-> TRUE, trusted |-> pools]

launchlab_pool_pda(base, quote) == <<"pda", "launchlab", base, quote>>
pumpfun_bonding_curve_pda(mint) == <<"pda", "pumpfun", mint>>
pumpswap_canonical_pool_pda(mint) == <<"pda", "pumpswap", mint>>
cpmm_pool_pda(config, a, b) == <<"pda", "cpmm", config, a, b>>

require_trusted_or(p, policy) == policy.listed_only => p.id \in policy.trusted

assert_launchlab_ok(p, policy) ==
    /\ policy.stonk_only => p.stonk
    /\ p.id = launchlab_pool_pda(p.a, p.b)

assert_pumpfun_ok(p) == p.id = pumpfun_bonding_curve_pda(p.a)

assert_pumpswap_ok(p, policy) ==
    IF p.b = WSOL_MINT THEN p.id = pumpswap_canonical_pool_pda(p.a)
    ELSE require_trusted_or(p, policy)

(* The address is compared only when the snapshot has the configuration.    *)
assert_cpmm_ok(p, policy) ==
    /\ require_trusted_or(p, policy)
    /\ p.config # UNSET =>
          p.id \in {cpmm_pool_pda(p.config, p.a, p.b), cpmm_pool_pda(p.config, p.b, p.a)}

assert_market_ok(p, policy) ==
    \/ ~policy.enabled
    \/ p.id \in policy.trusted
    \/ CASE p.dex = "launchlab" -> assert_launchlab_ok(p, policy)
         [] p.dex = "pumpfun" -> assert_pumpfun_ok(p)
         [] p.dex = "pumpswap" -> assert_pumpswap_ok(p, policy)
         [] p.dex = "cpmm" -> assert_cpmm_ok(p, policy)
         [] OTHER -> require_trusted_or(p, policy)

(* A slip: the bridge is taken from its owner's word. *)
assert_pool_only(m, policy) == assert_market_ok(m.pool, policy)

(* The pool and its bridge, before anything is built. *)
assert_routed_market_ok(m, policy) ==
    \A p \in {m.pool} \cup m.bridge : assert_market_ok(p, policy)
=============================================================================
