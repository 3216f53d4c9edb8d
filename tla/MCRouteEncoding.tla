--------------------------- MODULE MCRouteEncoding ---------------------------
(* Routes of every kind: each hop of each kind in turn runs through every   *)
(* DEX, both orders of the pool's mints and both token programs, the other  *)
(* hops staying at a few pools.                                             *)
EXTENDS RouteEncoding

pool(dex, in, out, i, extra, mode) ==
    LET at(a, b) == IF i = 1 THEN <<a, b>> ELSE <<b, a>> IN
    [ dex |-> dex, mints |-> at(in[1], out[1]), programs |-> at(in[2], out[2]),
      extra |-> extra, mode |-> mode ]

wsol == <<"wsol", "token">>
tok(mint) == {<<mint, "token">>, <<mint, "token22">>}

Dexes == {"launchlab", "cpmm", "pumpfun_v2", "pumpswap", "amm_v4", "clmm",
          "dlmm", "damm_v2", "whirlpool", "raw"}

optional(dex) ==
    CASE dex = "whirlpool" -> {0, 1, 3, 4}
      [] dex = "clmm" -> {0, 50, 51}        \* 64 and 65 accounts
      [] dex = "dlmm" -> {0, 47, 48}
      [] dex = "pumpswap" -> {0, 3}
      [] OTHER -> {0}

modes(dex) ==
    CASE dex = "damm_v2" -> {0, 1, 2}
      [] dex \in {"cpmm", "amm_v4", "pumpswap"} -> {0, 2}
      [] OTHER -> {0}

(* Every pool between two tokens, and between native SOL and a token. *)
PoolsBetween(in, out) ==
    UNION { { pool(dex, in, out, i, extra, mode) :
                i \in 1 .. 2, extra \in optional(dex), mode \in modes(dex) }
            : dex \in Dexes }

sol == <<"sol", "token">>

NativePools(in, out) ==
    { pool("pumpfun", in, out, IF in = sol THEN 2 ELSE 1, extra, 0) : extra \in 0 .. 1 }

(* A few of them. *)
FewPools(in, out) ==
    { pool("cpmm", in, out, 1, 0, 0), pool("whirlpool", in, out, 2, 2, 0) }

(* A caller's own leg that also names the account of another token. *)
PeekingLeg(in, out, third, mode) ==
    LET p == pool("raw", in, out, 1, 0, mode) IN
    [p EXCEPT !.mints = Append(@, third[1]), !.programs = Append(@, third[2])]

request(kind, pools, mints, amounts) ==
    [ kind |-> kind, pools |-> pools, mints |-> mints, amounts |-> amounts,
      minimums |-> [k \in 1 .. Len(pools) |-> 2] ]

(* One leg and two, with the input under either token program. *)
StaticRoutes ==
    { request("static", <<p>>, <<"s", "t">>, <<9>>) :
        p \in UNION {PoolsBetween(s, t) : s \in tok("s"), t \in tok("t")} }
    \cup
    { request("static", <<p>>, <<"sol", "t">>, <<9>>) :
        p \in UNION {NativePools(sol, t) : t \in tok("t")} }
    \cup
    { request("static", <<p>>, <<"s", "sol">>, <<9>>) :
        p \in UNION {NativePools(s, sol) : s \in tok("s")} }
    \cup
    { request("static", <<p, q>>, <<"s", "q", "t">>, <<9, 5>>) :
        p \in UNION {FewPools(s, <<"q", "token">>) : s \in tok("s")},
        q \in PoolsBetween(<<"q", "token">>, <<"t", "token">>) }
    \cup
    { request("static", <<p, p, p, p>>, <<"s", "t", "s", "t", "s">>, <<9, 5, 4, 3>>) :
        p \in FewPools(<<"s", "token22">>, <<"t", "token">>) }

(* dynamic.rs builds no exact-output legs: only DAMM V2 has a mode there. *)
ExactIn(pools) == {p \in pools : p.mode = 0 \/ p.dex = "damm_v2"}

TwoHopRoutes ==
    { request("two_hop", <<p, q>>, <<"wsol", "q", "t">>, <<9, 1>>) :
        p \in ExactIn(UNION {PoolsBetween(wsol, quote) : quote \in tok("q")}),
        q \in UNION {FewPools(quote, t) : quote \in tok("q"), t \in tok("t")} }
    \cup
    { request("two_hop", <<p, q>>, <<"wsol", "q", out>>, <<9, 1>>) :
        p \in UNION {FewPools(wsol, quote) : quote \in tok("q")},
        q \in ExactIn(UNION {PoolsBetween(quote, t) :
                                quote \in tok("q"), t \in tok("t") \cup {wsol}}),
        out \in {"t", "wsol"} }

ThreeHops(firsts, seconds, thirds) ==
    { request("three_hop", <<p, q, r>>, <<"s", "q", "m", "t">>, <<9, second, 0>>) :
        p \in firsts, q \in seconds, r \in thirds, second \in {0, 1} }

q22 == <<"q", "token22">>
m1 == <<"m", "token">>
t1 == <<"t", "token">>

ThreeHopRoutes ==
    ThreeHops(UNION {PoolsBetween(s, quote) : s \in tok("s"), quote \in tok("q")},
              FewPools(q22, m1), FewPools(m1, t1))
    \cup
    ThreeHops(UNION {FewPools(<<"s", "token22">>, quote) : quote \in tok("q")},
              UNION {PoolsBetween(quote, m) : quote \in tok("q"), m \in tok("m")},
              FewPools(m1, t1))
    \cup
    ThreeHops(FewPools(<<"s", "token">>, q22), FewPools(q22, m1),
              UNION {PoolsBetween(m, t) : m \in tok("m"), t \in tok("t")})
    \cup
    ThreeHops({PeekingLeg(<<"s", "token22">>, q22, m1, mode) : mode \in {0, 2}},
              FewPools(q22, m1), FewPools(m1, t1))

(* A hop whose minimum is zero: no dynamic route is built for it. *)
NoMinimum ==
    { [r EXCEPT !.minimums[k] = 0] :
        k \in 1 .. 2,
        r \in ThreeHops(FewPools(<<"s", "token">>, q22), FewPools(q22, m1),
                        FewPools(m1, t1))
             \cup { request("two_hop", <<p, q>>, <<"wsol", "q", "t">>, <<9, 1>>) :
                       p \in FewPools(wsol, q22), q \in FewPools(q22, <<"t", "token">>) } }

AllRoutes == StaticRoutes \cup TwoHopRoutes \cup ThreeHopRoutes \cup NoMinimum

=============================================================================
