----------------------------- MODULE MCSdkTrade -----------------------------
(***************************************************************************)
(* Small instances of SdkTrade.  With FEE_DENOM = 4 and a rate of 1 the fee *)
(* of 3, 4 and 5 is 0, 1 and 1: rounding matters at single-digit amounts.   *)
(***************************************************************************)
EXTENDS SdkTrade

Pool == [native |-> FALSE, v2 |-> FALSE, stock |-> FALSE, clamps |-> FALSE,
         exact_out |-> {}]
PumpV1 == [Pool EXCEPT !.native = TRUE]
PumpV2 == [PumpV1 EXCEPT !.v2 = TRUE]
LaunchLab == [Pool EXCEPT !.clamps = TRUE]
Cpmm == [Pool EXCEPT !.exact_out = {"buy", "sell"}]
StockLaunchLab == [LaunchLab EXCEPT !.stock = TRUE]
StockCpmm == [Cpmm EXCEPT !.stock = TRUE]

MCMarkets == {PumpV1, PumpV2, LaunchLab, Cpmm, StockLaunchLab, StockCpmm}

MCOrders(amounts, creates_, closes_) ==
    [ market : MCMarkets, side : {"buy", "sell"},
      asset : {"sol", "wsol", "quote"}, amount_in : amounts,
      exact_out : BOOLEAN, via : {"opts", "params"},
      create : creates_, close : closes_ ]

(* Every market, asset and policy, one trade at a time. *)
AllOrders ==
    {o \in MCOrders({5}, {{}, {"meme", "wsol", "quote"}},
                    {{}, {"wsol"}, {"meme", "quote"}}) : supported(o)}

(* Default policies, through pools of two kinds. *)
DefaultOrders ==
    {o \in MCOrders({5}, {{}}, {{}}) :
        supported(o) /\ o.market \in {LaunchLab, StockCpmm}}

ForSale(orders) == {o \in orders : o.side = "sell" /\ o.asset = "sol"}

AllForSale == {o \in ForSale(AllOrders) : o.create = {} /\ o.close = {}}

DefaultForSale == ForSale(DefaultOrders)

(* Any order alone (the others have expired), or default orders together.   *)
Alone(t) == \A u \in Trades \ {t} : trade[u].status = "expired"

AloneOrTogether ==
    /\ chain \in Start
    /\ chain_bps \in ChainBps
    /\ run = NoRun
    /\ \E first \in Trades, dropped \in {FALSE, TRUE} :
          trade = [t \in Trades |->
                     Mark(IF dropped /\ t # first THEN "expired" ELSE "new")]

PairNext ==
    \/ \E t \in Trades :
          \/ BuildFrom(t, IF Alone(t) THEN Orders ELSE DefaultOrders)
          \/ Begin(t)
          \/ Expire(t)
    \/ \E o \in PreparedOrders : Prepare(o)
    \/ \E bps \in ChainBps : SetFee(bps)
    \/ CreateAta \/ WrapSol \/ PayRouterFee \/ SwapLeg \/ SettleRoute
    \/ CloseAta \/ Commit \/ Fail

PairSpec == AloneOrTogether /\ [][PairNext]_vars

Balances(sol, wsol, quote, meme) ==
    [a \in Assets |-> CASE a = "sol" -> sol [] a = "wsol" -> wsol
                        [] a = "quote" -> quote [] a = "meme" -> meme]

Fresh == [bal |-> Balances(6, 0, 0, 0), open |-> {}, recipient |-> {}]
Holding == [bal |-> Balances(6, 5, 5, 5), open |-> Tokens, recipient |-> Tokens]
Unprepared == [bal |-> Balances(4, 0, 0, 5), open |-> {"meme"},
               recipient |-> {}]

MCStart == {Fresh, Holding, Unprepared}
=============================================================================
