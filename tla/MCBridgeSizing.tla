--------------------------- MODULE MCBridgeSizing ---------------------------
(***************************************************************************)
(* Small pools.  With FEE_DENOM = 4 and RATE_DENOM = 5 every rounding of    *)
(* the fees happens at single-digit amounts; a vault of 22 cannot hold all  *)
(* of the larger inputs.                                                    *)
(***************************************************************************)
EXTENDS BridgeSizing

MCFees == {[basis_points |-> 0, maximum_fee |-> 0],
           [basis_points |-> 1, maximum_fee |-> 9],
           [basis_points |-> 2, maximum_fee |-> 2],
           [basis_points |-> 4, maximum_fee |-> 3]}

NoFee == [basis_points |-> 0, maximum_fee |-> 0]

MCBridges ==
    {[kind |-> "cpmm",
      side |-> [input_reserve |-> i, output_reserve |-> o, trade_fee_rate |-> t,
                creator_rate |-> c, creator_on_input |-> on,
                input_fee |-> f, output_fee |-> g]] :
        i \in {2, 8, 22}, o \in {9, 31}, t \in {1, 3}, c \in {0, 1},
        on \in BOOLEAN, f \in MCFees, g \in {NoFee, [basis_points |-> 1, maximum_fee |-> 2]}}
    \cup
    {[kind |-> "amm_v4",
      side |-> [input_reserve |-> i, output_reserve |-> o,
                fee_numerator |-> n, fee_denominator |-> 4]] :
        i \in {2, 5, 22}, o \in {9, 31}, n \in {0, 1, 3}}

MCPools ==
    {[virtual_quote |-> 3, real_quote |-> q, virtual_base |-> 12, real_base |-> b,
      total_base_sell |-> t, fee_rate |-> r, quote_fee |-> f, base_fee |-> NoFee] :
        q \in {0, 6}, b \in {2}, t \in {0, 2, 4, 7}, r \in {0, 2},
        f \in MCFees}

MCSpends == {1, 2, 5, 14, 23, 29}
=============================================================================
