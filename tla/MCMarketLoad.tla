---------------------------- MODULE MCMarketLoad ----------------------------
(***************************************************************************)
(* One coin of each kind on a curve of three states, and the pool it moves  *)
(* to.  With FEE_DENOM = 10 the shares of a fee round up differently at     *)
(* single-digit amounts; a budget of 30 buys out every curve.               *)
(***************************************************************************)
EXTENDS MarketLoad

CONSTANTS c1, c2, f1, f2, m1, b1

MCCoin(creator, quote, program) ==
    [ creator |-> creator, quote |-> quote, program |-> program, stage |-> 1,
      complete |-> FALSE, cashback |-> FALSE, mayhem |-> FALSE, depth |-> 0,
      extended |-> FALSE, supply |-> 20, override |-> 0 ]

MCCoins ==
    LET plain == MCCoin(c1, WSOL_MINT, "spl")
    IN  { plain, [plain EXCEPT !.creator = c2],
          [plain EXCEPT !.quote = USDC_MINT, !.program = "t22"],
          [plain EXCEPT !.cashback = TRUE], [plain EXCEPT !.mayhem = TRUE],
          [plain EXCEPT !.depth = 1, !.override = 2, !.extended = TRUE] }

MCGraduated == {MCCoin(c1, WSOL_MINT, "t22")}

MCCurves ==
    << [base |-> 30, quote |-> 9, real |-> 12, real_quote |-> 0, balance |-> 20],
       [base |-> 24, quote |-> 12, real |-> 6, real_quote |-> 3, balance |-> 14],
       [base |-> 20, quote |-> 14, real |-> 2, real_quote |-> 5, balance |-> 10] >>

MCRates(p, c) == [lp |-> 0, protocol |-> p, creator |-> c]

MCGlobals ==
    LET g == [ config |-> TRUE, own |-> MCRates(1, 1), flat |-> MCRates(2, 0),
               exotic |-> MCRates(0, 0), stable |-> <<>>, overrides |-> TRUE,
               tiers |-> <<[cap |-> 0, rates |-> MCRates(1, 1)],
                           [cap |-> 9, rates |-> MCRates(3, 1)]>>,
               recipients |-> {f1, f2}, mayhem_recipients |-> {m1},
               buybacks |-> {b1}, migration_fee |-> 4 ]
    IN  {g, [g EXCEPT !.config = FALSE, !.recipients = {f2}]}

MCSwapPools ==
    {[ base |-> 9, vault |-> 6, protocol_fees |-> 0, creator_fees |-> 0,
       coin_creator |-> c, virtual_quote |-> v, quote_mint |-> WSOL_MINT,
       rates |-> [lp |-> 1, protocol |-> 1, creator |-> 1] ] :
        c \in {c1, c2}, v \in {0, 8}}
=============================================================================
