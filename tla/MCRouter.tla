------------------------------ MODULE MCRouter ------------------------------
(***************************************************************************)
(* Small instances of Router.  A trader "U" and a fee recipient "R" own the *)
(* accounts; the mints are A (input), Q and P (intermediates) and M         *)
(* (output), and F withholds transfer fees.  With FEE_DENOM = 4 and         *)
(* MAX_FEE_BPS = 2 a fee of one or two units arises at single-digit         *)
(* amounts, floors included.  Every leg that is not honest may leave any    *)
(* balance in any account it was given.                                     *)
(***************************************************************************)
EXTENDS Router

MCWallets == {"U", "R"}

Info == [ U  |-> <<"U", "sol", "System">>,  R  |-> <<"R", "sol", "System">>,
          uA |-> <<"U", "A", "Token">>,     rA |-> <<"R", "A", "Token">>,
          uB |-> <<"U", "A", "Token">>,
          uF |-> <<"U", "F", "Token22">>,   rF |-> <<"R", "F", "Token22">>,
          uQ |-> <<"U", "Q", "Token">>,     uP |-> <<"U", "P", "Token">>,
          uM |-> <<"U", "M", "Token">>,     xM |-> <<"R", "M", "Token">> ]

MCAccounts == DOMAIN Info
MCHolder == [a \in MCAccounts |-> Info[a][1]]
MCMint == [a \in MCAccounts |-> Info[a][2]]
MCProgram == [a \in MCAccounts |-> Info[a][3]]

Wild(signs, writable) ==
    [ parses |-> TRUE, recognised |-> FALSE, launchlab |-> FALSE,
      mints_match |-> TRUE, user_signs |-> signs, honest |-> FALSE,
      amount |-> 0, input |-> "uA", output |-> "uA", writable |-> writable ]

Swap(honest, amount, input, output) ==
    [ parses |-> TRUE, recognised |-> TRUE, launchlab |-> FALSE,
      mints_match |-> TRUE, user_signs |-> TRUE, honest |-> honest,
      amount |-> amount, input |-> input, output |-> output,
      writable |-> {input, output} ]

Static ==
    [ mode |-> 0, user |-> "U", signed |-> TRUE, config_pda |-> TRUE,
      amount_in |-> 2, min_amount_out |-> 1, exact_out |-> FALSE,
      fee_asset |-> 1, expected_mint |-> "M", fee_destination |-> "rA",
      fee_source |-> "uA", user_output |-> "uM", fee_program |-> "Token",
      fee_mint_meta |-> "absent", intermediate |-> <<"uQ", "uP">>,
      minimum |-> <<1, 1>>, legs |-> <<Wild(TRUE, {"uA", "uM"})>>,
      trailing |-> FALSE ]

ToSol == [Static EXCEPT !.expected_mint = "sol", !.user_output = "U",
                        !.legs = <<Wild(TRUE, {"uA", "U"})>>]

FromSol == [Static EXCEPT !.fee_asset = 0, !.fee_source = "U",
                          !.fee_destination = "R", !.fee_program = "System",
                          !.legs = <<Wild(TRUE, {"U", "uM"})>>]

TaxedInput == [Static EXCEPT !.fee_source = "uF", !.fee_destination = "rF",
                             !.fee_program = "Token22",
                             !.fee_mint_meta = "valid",
                             !.legs = <<Wild(TRUE, {"uF", "uM"})>>]

(* Routes the router accepts, amounts and fee accounts varied. *)
StaticGood ==
    {[Static EXCEPT !.amount_in = n, !.exact_out = x, !.fee_destination = d] :
        n \in {2, 3}, x \in BOOLEAN, d \in {"rA", "uA", "uB"}}
    \cup {[r EXCEPT !.exact_out = x] :
            r \in {ToSol, FromSol, TaxedInput}, x \in BOOLEAN}
    \cup {[FromSol EXCEPT !.fee_destination = "U"],
          [Static EXCEPT !.user_output = "uB", !.fee_destination = "uB",
                         !.expected_mint = "A",
                         !.legs = <<Wild(TRUE, {"uA", "uB"})>>],
          [Static EXCEPT !.user_output = "uA", !.expected_mint = "A",
                         !.min_amount_out = 0],
          [Static EXCEPT !.user_output = "xM",
                         !.legs = <<Wild(TRUE, {"uA", "xM"})>>],
          [Static EXCEPT !.legs = <<Wild(TRUE, {"uA", "rA"}),
                                    Wild(FALSE, {"uA", "uM"})>>],
          [Static EXCEPT !.legs = <<Swap(TRUE, 1, "uA", "uQ"),
                                    Swap(TRUE, 1, "uQ", "uM")>>],
          [Static EXCEPT !.legs = <<Swap(TRUE, 1, "uA", "uM")>>],
          [Static EXCEPT !.fee_destination = "uA",
                         !.legs = <<Swap(TRUE, 1, "uA", "uM")>>],
          [Static EXCEPT !.amount_in = 3,
                         !.legs = <<Swap(TRUE, 2, "uA", "uM")>>]}

(* Routes with one thing wrong. *)
StaticBad ==
    {[Static EXCEPT !.amount_in = 0], [Static EXCEPT !.legs = <<>>],
     [Static EXCEPT !.legs = [k \in 1 .. MAX_LEGS + 1 |-> Static.legs[1]]],
     [Static EXCEPT !.legs[1].parses = FALSE],
     [Static EXCEPT !.signed = FALSE], [Static EXCEPT !.config_pda = FALSE],
     [Static EXCEPT !.expected_mint = "A"], [Static EXCEPT !.user_output = "R"],
     [ToSol EXCEPT !.user_output = "R"], [Static EXCEPT !.fee_source = "rA"],
     [FromSol EXCEPT !.fee_source = "R"], [Static EXCEPT !.fee_source = "U"],
     [Static EXCEPT !.fee_program = "System"],
     [Static EXCEPT !.fee_program = "Token22"],
     [Static EXCEPT !.fee_destination = "R"],
     [Static EXCEPT !.fee_destination = "xM"],
     [TaxedInput EXCEPT !.fee_mint_meta = "absent"],
     [TaxedInput EXCEPT !.fee_mint_meta = "invalid"]}

StaticRequests == StaticGood \cup StaticBad

Balances(some) ==
    [a \in MCAccounts |-> IF a \in DOMAIN some THEN some[a] ELSE 0]

StaticLedgers == {Balances([U |-> 2, uA |-> 3, uF |-> 2, uQ |-> 1])}

StaticSpec == RouterInit(StaticLedgers) /\ [][Next]_vars

-----------------------------------------------------------------------------
(* Two hops: A -> Q -> M, with an old balance of Q in the account. *)

TwoHop ==
    [Static EXCEPT !.mode = 1,
                   !.legs = <<Wild(TRUE, {"uA", "uQ"}),
                              Swap(FALSE, 0, "uQ", "uM")>>]

HonestTwoHop(n, fee) ==
    [TwoHop EXCEPT !.amount_in = n,
                   !.legs = <<Swap(TRUE, n - fee, "uA", "uQ"),
                              Swap(TRUE, 0, "uQ", "uM")>>]

TwoHopGood ==
    {TwoHop, [TwoHop EXCEPT !.legs[1].writable = {"uA", "uQ", "uM"}],
     [TwoHop EXCEPT !.legs[2].writable = {"uA", "uQ", "uM"}],
     [TwoHop EXCEPT !.legs[2].launchlab = TRUE],
     [TwoHop EXCEPT !.minimum = <<2, 1>>],
     [TwoHop EXCEPT !.fee_destination = "uB"],
     [TwoHop EXCEPT !.intermediate = <<"uB", "uP">>, !.fee_destination = "uB",
                    !.legs = <<Wild(TRUE, {"uA", "uB"}),
                               Swap(FALSE, 0, "uB", "uM")>>]}
    \cup {HonestTwoHop(n, fee) : n \in {2, 3}, fee \in {0, 1}}

TwoHopBad ==
    {[TwoHop EXCEPT !.trailing = TRUE], [TwoHop EXCEPT !.exact_out = TRUE],
     [TwoHop EXCEPT !.fee_asset = 0], [TwoHop EXCEPT !.min_amount_out = 0],
     [TwoHop EXCEPT !.minimum = <<0, 1>>],
     [TwoHop EXCEPT !.user_output = "xM"],
     [TwoHop EXCEPT !.expected_mint = "sol", !.user_output = "U"],
     [TwoHop EXCEPT !.intermediate[1] = "uA"],
     [TwoHop EXCEPT !.intermediate[1] = "uM"],
     [TwoHop EXCEPT !.intermediate[1] = "xM"],
     [TwoHop EXCEPT !.legs = <<@[1]>>],
     [TwoHop EXCEPT !.legs[1].writable = {"uA"}],
     [TwoHop EXCEPT !.legs[2].recognised = FALSE],
     [TwoHop EXCEPT !.legs[2].mints_match = FALSE],
     [TwoHop EXCEPT !.legs[2].user_signs = FALSE],
     [TwoHop EXCEPT !.legs[2].input = "uA"],
     [TwoHop EXCEPT !.legs[2].output = "uA"],
     [TwoHop EXCEPT !.legs[2].writable = {"uQ"}]}

TwoHopRequests == TwoHopGood \cup TwoHopBad

-----------------------------------------------------------------------------
(* Three hops: A -> Q -> P -> M, with old balances of Q and of P. *)

ThreeHop ==
    [Static EXCEPT !.mode = 2,
                   !.legs = <<Wild(TRUE, {"uA", "uQ"}),
                              Swap(FALSE, 0, "uQ", "uP"),
                              Swap(FALSE, 0, "uP", "uM")>>]

ThreeHopRequests ==
    {ThreeHop,
     [ThreeHop EXCEPT !.legs = <<Swap(TRUE, 1, "uA", "uQ"),
                                 Swap(TRUE, 0, "uQ", "uP"),
                                 Swap(TRUE, 0, "uP", "uM")>>],
     [ThreeHop EXCEPT !.legs[3].writable = {"uQ", "uP", "uM"}],
     [ThreeHop EXCEPT !.legs[1].writable = {"uA", "uQ", "uP"}],
     [ThreeHop EXCEPT !.legs[2].launchlab = TRUE],
     [ThreeHop EXCEPT !.legs[2].amount = 1],
     [ThreeHop EXCEPT !.legs[3].amount = 1],
     [ThreeHop EXCEPT !.intermediate[2] = "uQ"],
     [ThreeHop EXCEPT !.minimum = <<1, 0>>]}

DynamicRequests == TwoHopRequests \cup ThreeHopRequests

DynamicLedgers == {Balances([uA |-> 3, uQ |-> 1]),
                   Balances([uA |-> 2, uQ |-> 1, uP |-> 1])}

DynamicSpec == RouterInit(DynamicLedgers) /\ [][Next]_vars
=============================================================================
