------------------------------ MODULE SdkTrade ------------------------------
(***************************************************************************)
(* Trades as the client builds them and the chain executes them: account    *)
(* creation and wrapping, the route, the closing of accounts, all in one    *)
(* transaction that commits or leaves nothing.  Several transactions are in *)
(* flight while the operator changes the fee rate and the user prepares     *)
(* accounts; they execute in any order, one at a time.  What a DEX quotes   *)
(* when a trade is built and pays when it executes are unrelated, except    *)
(* for the minimum it is told.  Rent is not counted.                        *)
(***************************************************************************)
EXTENDS FeeMath, Sequences

CONSTANTS
    Trades,         \* bound: the trades that are attempted
    Orders,         \* what callers ask the client for
    PreparedOrders, \* bound: the orders accounts are prepared for
    ClientBps,      \* fee_bps of RouterClient
    ChainBps,       \* fee_bps values the operator may configure
    Hops,           \* bound: quotes of a first leg
    MinOuts,        \* bound: minimum outputs, quoted or explicit
    Surplus,        \* bound: what a leg may pay above its minimum
    Start           \* the chain states the model starts from

Tokens == {"wsol", "quote", "meme"}
Assets == {"sol"} \cup Tokens
Cash == {"sol", "wsol"}

(* A pool of the meme token: "native" for a Pump curve paired with SOL (v2  *)
(* with settlement in WSOL), "stock" for a pool quoted in neither; "clamps" *)
(* when the pool may take less than it is offered (LaunchLab at             *)
(* graduation), "exact_out" the sides on which a fixed output is supported. *)
(* A curve paired with SOL is not quoted in a third token as well.          *)
Market ==
    {m \in [ native : BOOLEAN, v2 : BOOLEAN, stock : BOOLEAN,
             clamps : BOOLEAN, exact_out : SUBSET {"buy", "sell"} ] :
        ~(m.native /\ m.stock)}

(* "asset" is BuyWith or SellTo; Token(WSOL) is treated like Wsol by the    *)
(* code.  "via" tells the TradeOpts builder from TradeBuyParams and         *)
(* TradeSellParams; "create" and "close" are the accounts the caller names. *)
Order == [ market : Market, side : {"buy", "sell"},
           asset : {"sol", "wsol", "quote"}, amount_in : Nat \ {0},
           exact_out : BOOLEAN, via : {"opts", "params"},
           create : SUBSET Tokens, close : SUBSET Tokens ]

Leg == [ input : Assets, output : Assets, amount : Nat, min : Nat ]

Instruction == [ op : {"create", "wrap", "route", "close"},
                 who : {"user", "recipient"}, asset : Tokens, amount : Nat ]

ChainState == [ bal : [Assets -> Nat], open : SUBSET Tokens,
                recipient : SUBSET Tokens ]

VARIABLES
    chain,          \* the user's balances and the accounts that exist
    chain_bps,      \* RouterConfig.fee_bps
    trade,          \* what was built for each trade, and what became of it
    run             \* the transaction being executed, or NoRun

vars == <<chain, chain_bps, trade, run>>

NoRun == [pc |-> 0]

Mark(status) == [status |-> status]

-----------------------------------------------------------------------------
(* Building a trade.                                                        *)

needs_sol_bridge(o) == o.market.stock /\ o.asset \in Cash

supported(o) ==
    /\ o.market.native => o.asset = "sol" \/ (o.asset = "wsol" /\ o.market.v2)
    /\ o.asset = "quote" => o.market.stock
    /\ o.exact_out => o.side \in o.market.exact_out /\ ~needs_sol_bridge(o)

(* The asset the route takes on a buy and delivers on a sell. *)
settled_asset(o) ==
    IF o.asset = "sol" /\ ~o.market.native THEN "wsol" ELSE o.asset

(* TouchedAtas *)
touched(o) ==
    {"meme"} \cup ({settled_asset(o)} \cap Tokens)
        \cup (IF needs_sol_bridge(o) THEN {"quote"} ELSE {})

named_kind(o) == IF o.asset = "quote" THEN "quote" ELSE "wsol"

(* AtaPolicy of the builders, buy_ata_policy and sell_ata_policy.  A buy    *)
(* built with TradeOpts creates the meme account unless told otherwise.     *)
creates(o) ==
    IF o.via = "opts"
    THEN o.create \cup (IF o.side = "buy" THEN {"meme"} ELSE {})
    ELSE o.create \cap ({named_kind(o)}
                          \cup (IF o.side = "buy" THEN {"meme"} ELSE {}))

closes(o) ==
    IF o.via = "opts"
    THEN o.close \cup
         (IF o.side = "sell" /\ o.asset = "sol" THEN {"wsol"} ELSE {})
    ELSE o.close \cap ((IF o.side = "sell" THEN {"meme"} ELSE {})
                          \cup (IF o.asset \in Cash THEN {"wsol"} ELSE {}))

If(cond, seq) == IF cond THEN seq ELSE <<>>

Ix(op, who, asset, amount) ==
    [op |-> op, who |-> who, asset |-> asset, amount |-> amount]

(* One instruction for every asset of the set, in the given order. *)
Each(op, who, set, first, second, third) ==
    If(first \in set, <<Ix(op, who, first, 0)>>)
      \o If(second \in set, <<Ix(op, who, second, 0)>>)
      \o If(third \in set, <<Ix(op, who, third, 0)>>)

fee_asset(o) == IF o.side = "sell" THEN "meme" ELSE settled_asset(o)

wraps(o) == o.side = "buy" /\ o.asset = "sol" /\ ~o.market.native

(* A slip: SOL is wrapped before the pool's clamp is known. *)
wrapped_early(o, amount_in) == o.amount_in

(* wrap_sol_with_options wraps what the route declares, clamped or not. *)
wrapped(o, amount_in) == amount_in

(* The instructions before the route.  Accounts come before what is put     *)
(* into them; the recipient's is made when a fee is expected.               *)
setup(o, amount_in) ==
    LET user == IF o.side = "sell" THEN touched(o) \ {"meme"} ELSE touched(o)
        fee == fee_amount(o.amount_in, ClientBps)
    IN  Each("create", "user", creates(o) \cap user, "meme", "wsol", "quote")
          \o If(wraps(o),
                <<Ix("wrap", "user", "wsol", wrapped(o, amount_in))>>)
          \o If(fee_asset(o) \in Tokens
                  /\ (fee > 0 \/ fee_asset(o) \in creates(o)),
                <<Ix("create", "recipient", fee_asset(o), 0)>>)

(* AtaPolicy::build_cleanup *)
cleanup(o) ==
    Each("close", "user", closes(o) \cap touched(o), "wsol", "quote", "meme")

RouteIx == Ix("route", "user", "meme", 0)

NewLeg(input, output, amount, min) ==
    [input |-> input, output |-> output, amount |-> amount, min |-> min]

(* A slip: the tolerance is applied to the intermediate hop as well. *)
slipped_min_out(quoted) == apply_slippage_min_out(quoted, FEE_DENOM \div 2)

(* The intermediate hop asks for its quote in full: bridge_intermediate_min_out *)
bridge_intermediate_min_out(quoted) == quoted

(* buy_via_bridge_*: the second leg spends what the first one must deliver. *)
bridged_buy_legs(swap_spent, quoted, min_out) ==
    <<NewLeg("wsol", "quote", swap_spent, bridge_intermediate_min_out(quoted)),
      NewLeg("quote", "meme", quoted, min_out)>>

(* sell_via_bridge_* *)
bridged_sell_legs(sold, quoted, min_out) ==
    <<NewLeg("meme", "quote", sold, bridge_intermediate_min_out(quoted)),
      NewLeg("quote", "wsol", quoted, min_out)>>

build_buy_legs(o, swap_spent, quoted, min_out) ==
    IF needs_sol_bridge(o) THEN bridged_buy_legs(swap_spent, quoted, min_out)
    ELSE <<NewLeg(settled_asset(o), "meme", swap_spent, min_out)>>

build_sell_legs(o, sold, quoted, min_out) ==
    IF needs_sol_bridge(o) THEN bridged_sell_legs(sold, quoted, min_out)
    ELSE <<NewLeg("meme", settled_asset(o), sold, min_out)>>

legs(o, swap_spent, quoted, min_out) ==
    IF o.side = "buy" THEN build_buy_legs(o, swap_spent, quoted, min_out)
    ELSE build_sell_legs(o, swap_spent, quoted, min_out)

(* launchlab_buy_quote: a pool near graduation takes less than it is offered. *)
may_clamp(o) == o.side = "buy" /\ o.market.clamps

(* A slip: the caller's amount is declared whatever the pool will take. *)
declared_amount_in(o, swap_spent) == o.amount_in

(* A clamped buy declares the least input that leaves what it will spend. *)
route_amount_in(o, swap_spent) ==
    IF swap_spent = spend_after_fee(o.amount_in, ClientBps) THEN o.amount_in
    ELSE route_amount_in_for_spend(swap_spent, ClientBps)

(* buy_with_opts and sell_with_opts *)
BuiltTrade(o, swap_spent, quoted, min_out) ==
    LET amount_in == route_amount_in(o, swap_spent)
    IN  [ status |-> "built", order |-> o, amount_in |-> amount_in,
          min_out |-> min_out,
          legs |-> legs(o, swap_spent, quoted, min_out),
          ixs |-> setup(o, amount_in) \o <<RouteIx>> \o cleanup(o) ]

BuildFrom(t, orders) ==
    /\ trade[t].status = "new"
    /\ \E o \in orders, quoted \in Hops, min_out \in MinOuts :
         LET spend == spend_after_fee(o.amount_in, ClientBps)
         IN  /\ supported(o)
             /\ o.exact_out => min_out > 0
             /\ \E swap_spent \in 1 .. spend :
                   /\ may_clamp(o) \/ swap_spent = spend
                   /\ trade' = [trade EXCEPT
                         ![t] = BuiltTrade(o, swap_spent, quoted, min_out)]
    /\ UNCHANGED <<chain, chain_bps, run>>

Build(t) == BuildFrom(t, Orders)

(* Slips: the account between the two hops is not prepared; an account is   *)
(* made for whatever the trade settles in, native SOL included.             *)
prepared_ends(o) == {settled_asset(o)} \cap Tokens

prepared_native(o) ==
    {settled_asset(o)} \cup (IF needs_sol_bridge(o) THEN {"quote"} ELSE {})

(* The prepare_*_atas transaction for an order like o: accounts of the user *)
(* and of the recipient.                                                    *)
prepared_user(o) ==
    ({settled_asset(o)} \cap Tokens)
      \cup (IF needs_sol_bridge(o) THEN {"quote"} ELSE {})

prepared_recipient(o) ==
    IF o.side = "sell" THEN {"meme"} ELSE {settled_asset(o)} \cap Tokens

Prepare(o) ==
    /\ run = NoRun
    /\ supported(o)
    /\ chain' = [chain EXCEPT
                   !.open = @ \cup prepared_user(o),
                   !.recipient = @ \cup prepared_recipient(o)]
    /\ UNCHANGED <<chain_bps, trade, run>>

SetFee(bps) ==
    /\ run = NoRun
    /\ chain_bps' = bps
    /\ UNCHANGED <<chain, trade, run>>

-----------------------------------------------------------------------------
(* Executing a transaction.                                                 *)

tx == trade[run.trade]

ix == tx.ixs[run.pc]

finished == run.pc > Len(tx.ixs)

Begin(t) ==
    /\ run = NoRun
    /\ trade[t].status = "built"
    /\ run' = [ trade |-> t, pc |-> 1, leg |-> 0, taken |-> 0,
                saved |-> chain, before |-> chain ]
    /\ trade' = [trade EXCEPT ![t].status = "running"]
    /\ UNCHANGED <<chain, chain_bps>>

(* The transaction expires, or its nonce or blockhash is spent. *)
Expire(t) ==
    /\ trade[t].status = "built"
    /\ trade' = [trade EXCEPT ![t] = Mark("expired")]
    /\ UNCHANGED <<chain, chain_bps, run>>

Move(bal, from, to, n) == [bal EXCEPT ![from] = @ - n, ![to] = @ + n]

NextIx(c) ==
    /\ chain' = c
    /\ run' = [run EXCEPT !.pc = @ + 1]
    /\ UNCHANGED <<chain_bps, trade>>

(* Idempotent: an account that exists is left alone. *)
CreateAta ==
    /\ run # NoRun /\ ~finished /\ ix.op = "create"
    /\ NextIx(IF ix.who = "user"
              THEN [chain EXCEPT !.open = @ \cup {ix.asset}]
              ELSE [chain EXCEPT !.recipient = @ \cup {ix.asset}])

WrapSol ==
    /\ run # NoRun /\ ~finished /\ ix.op = "wrap"
    /\ "wsol" \in chain.open /\ ix.amount <= chain.bal["sol"]
    /\ NextIx([chain EXCEPT !.bal = Move(@, "sol", "wsol", ix.amount)])

closable(asset) ==
    /\ asset \in chain.open
    /\ asset = "wsol" \/ chain.bal[asset] = 0

(* Closing the WSOL account pays its balance out as SOL; any other account  *)
(* must be empty.                                                           *)
CloseAta ==
    /\ run # NoRun /\ ~finished /\ ix.op = "close"
    /\ closable(ix.asset)
    /\ NextIx([chain EXCEPT
                 !.open = @ \ {ix.asset},
                 !.bal = Move(@, ix.asset, "sol", @[ix.asset])])

exists(asset) == asset = "sol" \/ asset \in chain.open

(* The router: its fee first, then the legs, then the settlement. *)
checked_fee == (tx.amount_in * chain_bps) \div FEE_DENOM

input == tx.legs[1].input

output == tx.legs[Len(tx.legs)].output

routing == run # NoRun /\ ~finished /\ ix.op = "route"

Step(c, taken) ==
    /\ chain' = c
    /\ run' = [run EXCEPT !.leg = @ + 1, !.taken = @ + taken]
    /\ UNCHANGED <<chain_bps, trade>>

fee_accounts ==
    /\ exists(input) /\ exists(output)
    /\ checked_fee > 0 => input = "sol" \/ input \in chain.recipient

PayRouterFee ==
    /\ routing /\ run.leg = 0
    /\ fee_accounts /\ checked_fee <= chain.bal[input]
    /\ chain' = [chain EXCEPT !.bal[input] = @ - checked_fee]
    /\ run' = [run EXCEPT !.leg = 1, !.before = chain]
    /\ UNCHANGED <<chain_bps, trade>>

(* What a pool may take of the amount it is offered. *)
takes(leg) ==
    IF tx.order.exact_out \/ (may_clamp(tx.order) /\ leg.output = "meme")
    THEN 1 .. leg.amount ELSE {leg.amount}

leg_accounts == exists(tx.legs[run.leg].input) /\ exists(tx.legs[run.leg].output)

SwapLeg ==
    /\ routing /\ run.leg \in DOMAIN tx.legs
    /\ leg_accounts
    /\ LET leg == tx.legs[run.leg]
       IN  \E taken \in takes(leg), extra \in Surplus :
             /\ taken <= chain.bal[leg.input]
             /\ Step([chain EXCEPT
                        !.bal[leg.input] = @ - taken,
                        !.bal[leg.output] = @ + leg.min + extra],
                     IF run.leg = 1 THEN taken ELSE 0)

settles ==
    LET spent == run.before.bal[input] - chain.bal[input]
    IN  /\ IF tx.order.exact_out THEN spent \in checked_fee .. tx.amount_in
           ELSE spent = tx.amount_in
        /\ chain.bal[output] - run.before.bal[output] >= tx.min_out

settling == routing /\ run.leg = Len(tx.legs) + 1

SettleRoute ==
    /\ settling /\ settles
    /\ NextIx(chain)

Commit ==
    /\ run # NoRun /\ finished
    /\ trade' = [trade EXCEPT ![run.trade] = Mark("landed")]
    /\ run' = NoRun
    /\ UNCHANGED <<chain, chain_bps>>

(* An instruction of the transaction needs an account that does not exist. *)
missing_account ==
    /\ run # NoRun /\ ~finished
    /\ \/ ix.op = "wrap" /\ "wsol" \notin chain.open
       \/ ix.op = "close" /\ ix.asset \notin chain.open
       \/ routing /\ run.leg = 0 /\ ~fee_accounts
       \/ routing /\ run.leg \in DOMAIN tx.legs /\ ~leg_accounts

(* The user's balance does not cover it, an account to close is not empty,  *)
(* or a pool cannot pay the minimum any more.                               *)
cannot_proceed ==
    /\ run # NoRun /\ ~finished
    /\ \/ ix.op = "wrap" /\ ix.amount > chain.bal["sol"]
       \/ ix.op = "close" /\ ~closable(ix.asset)
       \/ routing /\ run.leg = 0 /\ checked_fee > chain.bal[input]
       \/ routing /\ run.leg \in DOMAIN tx.legs

(* One error undoes the whole transaction. *)
Fail ==
    /\ missing_account \/ cannot_proceed \/ (settling /\ ~settles)
    /\ chain' = run.saved
    /\ trade' = [trade EXCEPT ![run.trade] = Mark("failed")]
    /\ run' = NoRun
    /\ UNCHANGED chain_bps

Init ==
    /\ chain \in Start
    /\ chain_bps \in ChainBps
    /\ trade = [t \in Trades |-> Mark("new")]
    /\ run = NoRun

Next ==
    \/ \E t \in Trades : Build(t) \/ Begin(t) \/ Expire(t)
    \/ \E o \in PreparedOrders : Prepare(o)
    \/ \E bps \in ChainBps : SetFee(bps)
    \/ CreateAta \/ WrapSol \/ PayRouterFee \/ SwapLeg \/ SettleRoute
    \/ CloseAta \/ Commit \/ Fail

Spec == Init /\ [][Next]_vars

-----------------------------------------------------------------------------
(* Properties.                                                              *)

Built ==
    [ status : {"built", "running"}, order : Orders,
      amount_in : Nat, min_out : Nat, legs : Seq(Leg), ixs : Seq(Instruction) ]

Running ==
    [ trade : Trades, pc : Nat \ {0}, leg : Nat, taken : Nat,
      saved : ChainState, before : ChainState ]

(* An account that does not exist holds nothing. *)
Sound(c) == c \in ChainState /\ \A a \in Tokens \ c.open : c.bal[a] = 0

TypeOK ==
    /\ Sound(chain)
    /\ chain_bps \in Bps
    /\ trade \in [Trades -> Built \cup
          {Mark(s) : s \in {"new", "landed", "failed", "expired"}}]
    /\ run # NoRun =>
          /\ run \in Running /\ Sound(run.saved)
          /\ trade[run.trade].status = "running"

(* SOL and wrapped SOL count as one holding. *)
Same(a, b) == a = b \/ {a, b} \subseteq Cash

worth(bal, asset) ==
    IF asset \in Cash THEN bal["sol"] + bal["wsol"] ELSE bal[asset]

pays(o) == IF o.side = "buy" THEN o.asset ELSE "meme"

gets(o) == IF o.side = "buy" THEN "meme" ELSE o.asset

(* A transaction that is about to commit costs at most the amount the       *)
(* caller gave, brings at least the minimum, and takes nothing from any     *)
(* other holding: in a bridged trade not from the quote tokens the user     *)
(* held before, which the router does not watch over in a fixed route       *)
(* (buy_via_bridge_*, sell_via_bridge_*, build_cleanup).                    *)
TradeBalances ==
    run # NoRun /\ finished =>
        LET o == tx.order
            was(a) == worth(run.saved.bal, a)
            is(a) == worth(chain.bal, a)
        IN  /\ was(pays(o)) - is(pays(o)) <= o.amount_in
            /\ is(gets(o)) - was(gets(o)) >= tx.min_out
            /\ \A a \in Assets : was(a) > is(a) => Same(a, pays(o))

(* trade.rs:563-564, wrapping after the legs "without leaving stranded      *)
(* WSOL": an exact-in buy paid in SOL leaves no more WSOL than there was.   *)
NoStrandedWsol ==
    run # NoRun /\ finished =>
        (tx.order.side = "buy" /\ tx.order.asset = "sol" /\ ~tx.order.exact_out
            => chain.bal["wsol"] <= run.saved.bal["wsol"])

(* The settlement never refuses a trade of a client that knows the fee rate *)
(* when the pools took what they were offered: the declared input is the    *)
(* fee plus what the first leg spends, whatever was clamped or rounded      *)
(* (route_amount_in_for_spend against checked_fee and validate_spend).      *)
MatchingFeeSettles ==
    settling /\ chain_bps = ClientBps
        /\ (tx.order.exact_out \/ run.taken = tx.legs[1].amount)
            => settles

(* The accounts prepare_buy_atas and prepare_sell_atas make are the ones    *)
(* the transaction built for the same order needs: if they were there when  *)
(* it started, no instruction misses an account, whatever ATA policy the    *)
(* caller chose.  The meme account is the buy's own or the seller's.        *)
PreparedSuffices ==
    missing_account =>
        LET o == tx.order
        IN  \/ ~(prepared_user(o) \subseteq run.saved.open)
            \/ ~(prepared_recipient(o) \subseteq run.saved.recipient)
            \/ "meme" \notin run.saved.open
                  /\ ~(o.side = "buy" /\ "meme" \in creates(o))

(* asset.rs:42, "Unwrap WSOL -> native SOL": a sell to SOL pays SOL.        *)
SolSellsPaySol ==
    run # NoRun /\ finished =>
        (tx.order.side = "sell" /\ tx.order.asset = "sol"
            => chain.bal["sol"] >= run.saved.bal["sol"] + tx.min_out)

-----------------------------------------------------------------------------
(* The inductive invariant behind TradeBalances and MatchingFeeSettles.     *)

routeAt(b) == CHOOSE p \in DOMAIN b.ixs : b.ixs[p].op = "route"

makes(i, asset) == i.op = "create" /\ i.who = "user" /\ i.asset = asset

shuts(i, asset) == i.op = "close" /\ i.asset = asset

(* What every built trade is like: one route, an input that nets to what    *)
(* the first leg spends and is within the caller's amount, legs that join   *)
(* what is paid to what is received, and a second leg that spends no more   *)
(* than the first one must deliver, from neither of the two.                *)
WellBuilt(b) ==
    LET o == b.order
        n == Len(b.legs)
    IN  /\ n \in {1, 2}
        /\ \A i, j \in DOMAIN b.ixs :
              b.ixs[i].op = "route" /\ b.ixs[j].op = "route" => i = j
        /\ \E i \in DOMAIN b.ixs : b.ixs[i].op = "route"
        /\ b.amount_in \in 1 .. o.amount_in
        /\ spend_after_fee(b.amount_in, ClientBps) = b.legs[1].amount
        /\ Same(b.legs[1].input, pays(o)) /\ Same(b.legs[n].output, gets(o))
        /\ ~Same(pays(o), gets(o))
        /\ b.legs[n].min = b.min_out
        /\ n = 2 => /\ b.legs[1].output = "quote" /\ b.legs[2].input = "quote"
                    /\ b.legs[2].amount <= b.legs[1].min
                    /\ "quote" \notin {pays(o), gets(o)}

(* The legs so far: the input account paid the fee and what the first leg   *)
(* took, no other account has less than before, and the first leg's         *)
(* delivery waits for the second.                                           *)
Swapping(b) ==
    LET now == chain.bal
        was == run.before.bal
    IN  /\ \A a \in Assets : worth(was, a) = worth(run.saved.bal, a)
        /\ was[input] - now[input] = checked_fee + run.taken
        /\ run.taken <= b.legs[1].amount
        /\ run.leg = 1 => run.taken = 0
        /\ \A a \in Assets \ {input} : now[a] >= was[a]
        /\ run.leg = 2 /\ Len(b.legs) = 2
              => now["quote"] >= was["quote"] + b.legs[1].min
        /\ run.leg = Len(b.legs) + 1 => now[output] >= was[output] + b.min_out

Balanced(b) ==
    LET was(a) == worth(run.saved.bal, a)
        is(a) == worth(chain.bal, a)
    IN  /\ was(pays(b.order)) - is(pays(b.order)) <= b.order.amount_in
        /\ is(gets(b.order)) - was(gets(b.order)) >= b.min_out
        /\ \A a \in Assets : was(a) > is(a) => Same(a, pays(b.order))

RunInv ==
    run # NoRun =>
        /\ run.pc < routeAt(tx) => run.leg = 0
        /\ run.leg \in 0 .. Len(tx.legs) + 1
        /\ run.leg = 0 => run.taken = 0
        /\ run.pc <= routeAt(tx) /\ run.leg = 0
              => \A a \in Assets : worth(chain.bal, a) = worth(run.saved.bal, a)
        /\ run.pc = routeAt(tx) /\ run.leg > 0 => Swapping(tx)
        /\ run.pc > routeAt(tx) => Balanced(tx)

IInv ==
    /\ TypeOK
    /\ \A t \in Trades :
          trade[t].status \in {"built", "running"} => WellBuilt(trade[t])
    /\ RunInv

(* What is added to it for NoStrandedWsol and PreparedSuffices.  Accounts   *)
(* are made and SOL is wrapped before the route, accounts are closed after  *)
(* it; SOL is wrapped once, for a first leg that takes it, and no account   *)
(* is closed twice; the legs use accounts the trade touches, and no leg of  *)
(* a buy pays out WSOL.                                                     *)
WellOrdered(b) ==
    LET o == b.order
        is(i, op) == b.ixs[i].op = op
    IN  /\ \A i \in DOMAIN b.ixs :
              /\ i < routeAt(b) => is(i, "create") \/ is(i, "wrap")
              /\ i > routeAt(b) => is(i, "close")
              /\ is(i, "wrap") => wraps(o) /\ b.ixs[i].amount = b.amount_in
              /\ is(i, "close") => b.ixs[i].asset \in touched(o)
        /\ \A i, j \in DOMAIN b.ixs :
              \/ is(i, "wrap") /\ is(j, "wrap")
              \/ is(i, "close") /\ is(j, "close")
                    /\ b.ixs[i].asset = b.ixs[j].asset
              => i = j
        /\ o.side = "buy" /\ "meme" \in creates(o) =>
              \E i \in DOMAIN b.ixs : i < routeAt(b) /\ makes(b.ixs[i], "meme")
        /\ \A n \in DOMAIN b.legs :
              /\ {b.legs[n].input, b.legs[n].output}
                    \subseteq {"sol"} \cup touched(o)
              /\ o.side = "buy" => b.legs[n].output # "wsol"
        /\ b.legs[1].input \in {"sol"} \cup prepared_recipient(o)
        /\ wraps(o) => b.legs[1].input = "wsol"

(* An account that was there, or was made, is there until it is closed. *)
AccountsKept ==
    /\ run.saved.recipient \subseteq chain.recipient
    /\ \A a \in Tokens :
          /\ \/ a \in run.saved.open
             \/ \E i \in 1 .. run.pc - 1 : makes(tx.ixs[i], a)
          /\ \A i \in 1 .. run.pc - 1 : ~shuts(tx.ixs[i], a)
          => a \in chain.open

(* The WSOL of a buyer: what was wrapped is all there is more of it, and    *)
(* the route takes it.                                                      *)
WrappedIsSpent(b) ==
    LET wsol == chain.bal["wsol"]
        was == run.saved.bal["wsol"]
        wrapping == \E i \in 1 .. run.pc - 1 : b.ixs[i].op = "wrap"
    IN  b.order.side = "buy" =>
          /\ run.pc <= routeAt(b) /\ run.leg = 0
                => wsol <= was + (IF wrapping THEN b.amount_in ELSE 0)
          /\ run.pc = routeAt(b) /\ run.leg > 0 =>
                /\ wsol <= run.before.bal["wsol"]
                /\ run.before.bal["wsol"]
                      <= was + (IF input = "wsol" THEN b.amount_in ELSE 0)
          /\ run.pc > routeAt(b) /\ ~b.order.exact_out => wsol <= was

AccountsInv ==
    /\ \A t \in Trades :
          trade[t].status \in {"built", "running"} => WellOrdered(trade[t])
    /\ run # NoRun => AccountsKept /\ WrappedIsSpent(tx)

ASSUME SdkTradeConstants ==
    /\ Orders \subseteq Order /\ PreparedOrders \subseteq Orders
    /\ ClientBps \in Bps /\ ChainBps \subseteq Bps
    /\ Hops \subseteq Nat \ {0} /\ MinOuts \subseteq Nat
    /\ Surplus \subseteq Nat
    /\ \A c \in Start : Sound(c)
=============================================================================
