--------------------------- MODULE SdkTradeProofs ---------------------------
(***************************************************************************)
(* Proofs about SdkTrade for every set of orders, every fee rate and any    *)
(* number of trades in flight.  First what every built trade is like        *)
(* (BuiltIsWell), then that each step of an execution preserves IInv.       *)
(***************************************************************************)
EXTENDS SdkTrade, FeeMathProofs, SequenceTheorems

(* The instructions other than the route. *)
Other == {i \in Instruction : i.op # "route"}

-----------------------------------------------------------------------------
(* What is built.                                                           *)

(* One instruction other than the route.                                    *)
LEMMA IxType ==
    ASSUME NEW op \in {"create", "wrap", "close"},
           NEW who \in {"user", "recipient"}, NEW asset \in Tokens,
           NEW amount \in Nat
    PROVE  <<Ix(op, who, asset, amount)>> \in Seq(Other)
BY DEF Ix, Other, Instruction

(* An instruction that may be left out.                                     *)
LEMMA IfType ==
    ASSUME NEW cond, NEW seq \in Seq(Other)
    PROVE  If(cond, seq) \in Seq(Other)
BY DEF If

(* One instruction for each of up to three accounts.                        *)
LEMMA EachType ==
    ASSUME NEW op \in {"create", "close"}, NEW set,
           NEW first \in Tokens, NEW second \in Tokens, NEW third \in Tokens
    PROVE  Each(op, "user", set, first, second, third) \in Seq(Other)
<1> DEFINE one(asset) == If(asset \in set, <<Ix(op, "user", asset, 0)>>)
<1>1. \A asset \in Tokens : one(asset) \in Seq(Other)
  BY IxType, IfType
<1>2. one(first) \o one(second) \in Seq(Other)
  BY <1>1, ConcatProperties
<1>3. one(first) \o one(second) \o one(third) \in Seq(Other)
  BY <1>1, <1>2, ConcatProperties
<1> QED  BY <1>3 DEF Each

(* What a trade settles in is never the meme token.                         *)
LEMMA SettledType ==
    ASSUME NEW o \in Order
    PROVE  /\ settled_asset(o) \in Assets /\ settled_asset(o) # "meme"
           /\ Same(settled_asset(o), o.asset)
           /\ fee_asset(o) \in Assets
           /\ pays(o) \in Assets /\ gets(o) \in Assets
           /\ ~Same(pays(o), gets(o))
           /\ o.asset # "meme"
BY DEF Order, settled_asset, fee_asset, Same, pays, gets, Assets, Tokens, Cash

(* The instructions before and after the route are of known form. *)
LEMMA SetupType ==
    ASSUME NEW o \in Order, NEW amount_in \in Nat
    PROVE  setup(o, amount_in) \in Seq(Other)
<1> DEFINE user == (IF o.side = "sell" THEN touched(o) \ {"meme"} ELSE touched(o))
           some == creates(o) \cap user
           own == Each("create", "user", some, "meme", "wsol", "quote")
           wrap == If(wraps(o),
                     <<Ix("wrap", "user", "wsol", wrapped(o, amount_in))>>)
           fee == fee_amount(o.amount_in, ClientBps)
           theirs == If(fee_asset(o) \in Tokens
                          /\ (fee > 0 \/ fee_asset(o) \in creates(o)),
                        <<Ix("create", "recipient", fee_asset(o), 0)>>)
<1>1. own \in Seq(Other)
  <2>1. {"meme", "wsol", "quote"} \subseteq Tokens
    BY DEF Tokens
  <2> HIDE DEF some
  <2> QED  BY <2>1, EachType
<1>2. wrap \in Seq(Other)
  BY IxType, IfType DEF Tokens, wrapped
<1>3. theirs \in Seq(Other)
  <2>1. CASE fee_asset(o) \in Tokens
    BY <2>1, IxType, IfType
  <2>2. CASE fee_asset(o) \notin Tokens
    BY <2>2, EmptySeq DEF If
  <2> QED  BY <2>1, <2>2
<1>4. own \o wrap \in Seq(Other)
  BY <1>1, <1>2, ConcatProperties
<1>5. own \o wrap \o theirs \in Seq(Other)
  BY <1>3, <1>4, ConcatProperties
<1> QED  BY <1>5 DEF setup

(* The instructions after the route.                                        *)
LEMMA CleanupType ==
    ASSUME NEW o \in Order
    PROVE  cleanup(o) \in Seq(Other)
<1> DEFINE some == closes(o) \cap touched(o)
<1>1. {"meme", "wsol", "quote"} \subseteq Tokens
  BY DEF Tokens
<1>2. Each("close", "user", some, "wsol", "quote", "meme") \in Seq(Other)
  <2> HIDE DEF some
  <2> QED  BY <1>1, EachType
<1> QED  BY <1>2 DEF cleanup

(* Between two such sequences the route is the only one of its kind. *)
LEMMA OneRoute ==
    ASSUME NEW before \in Seq(Other), NEW after \in Seq(Other)
    PROVE  LET ixs == before \o <<RouteIx>> \o after
           IN  /\ ixs \in Seq(Instruction)
               /\ \E i \in DOMAIN ixs : ixs[i].op = "route"
               /\ \A i, j \in DOMAIN ixs :
                     ixs[i].op = "route" /\ ixs[j].op = "route" => i = j
<1> DEFINE head == before \o <<RouteIx>>
           ixs == head \o after
           n == Len(before)
<1>1. Other \subseteq Instruction /\ RouteIx \in Instruction
  BY DEF Other, RouteIx, Ix, Instruction, Tokens
<1>2. before \in Seq(Instruction) /\ after \in Seq(Instruction)
        /\ <<RouteIx>> \in Seq(Instruction)
  BY <1>1, SeqMonotonic
<1>3. head \in Seq(Instruction) /\ Len(head) = n + 1 /\ n \in Nat
        /\ head[n + 1] = RouteIx
        /\ \A i \in 1 .. n : head[i] = before[i]
  BY <1>2, ConcatProperties, LenProperties
<1>4. /\ ixs \in Seq(Instruction) /\ DOMAIN ixs = 1 .. n + 1 + Len(after)
      /\ Len(after) \in Nat
      /\ \A i \in 1 .. n + 1 : ixs[i] = head[i]
      /\ \A i \in n + 2 .. n + 1 + Len(after) : ixs[i] = after[i - (n + 1)]
  <2> HIDE DEF head, n
  <2>1. ixs \in Seq(Instruction) /\ Len(ixs) = Len(head) + Len(after)
          /\ \A i \in 1 .. Len(head) + Len(after) :
                ixs[i] = IF i <= Len(head) THEN head[i] ELSE after[i - Len(head)]
    BY <1>2, <1>3, ConcatProperties
  <2>2. DOMAIN ixs = 1 .. Len(ixs) /\ Len(after) \in Nat
    BY <1>2, <2>1, LenProperties
  <2> QED  BY <1>3, <2>1, <2>2
<1>5. ixs[n + 1].op = "route"
  BY <1>3, <1>4 DEF RouteIx, Ix
<1>6. \A i \in DOMAIN ixs : ixs[i].op = "route" => i = n + 1
  <2> SUFFICES ASSUME NEW i \in DOMAIN ixs, i # n + 1
               PROVE  ixs[i].op # "route"
    OBVIOUS
  <2>1. CASE i <= n
    <3>1. ixs[i] = before[i] /\ i \in 1 .. Len(before)
      BY <1>3, <1>4, <2>1
    <3>2. before[i] \in Other
      BY <3>1, ElementOfSeq
    <3> QED  BY <3>1, <3>2 DEF Other
  <2>2. CASE i > n
    <3>1. ixs[i] = after[i - (n + 1)] /\ i - (n + 1) \in 1 .. Len(after)
      BY <1>3, <1>4, <2>2
    <3>2. after[i - (n + 1)] \in Other
      BY <3>1, ElementOfSeq
    <3> QED  BY <3>1, <3>2 DEF Other
  <2> QED  BY <2>1, <2>2, <1>3, <1>4
<1>7. n + 1 \in DOMAIN ixs
  BY <1>3, <1>4
<1> QED  BY <1>4, <1>5, <1>6, <1>7

(* What the legs of a built trade join, and that the second spends what the *)
(* first must deliver.                                                      *)
LEMMA LegsJoin ==
    ASSUME NEW o \in Order, NEW swap_spent \in Nat, NEW quoted \in Nat,
           NEW min_out \in Nat
    PROVE  LET ls == legs(o, swap_spent, quoted, min_out)
               n == Len(ls)
           IN  /\ ls \in Seq(Leg) /\ n \in {1, 2}
               /\ ls[1].amount = swap_spent
               /\ Same(ls[1].input, pays(o)) /\ Same(ls[n].output, gets(o))
               /\ ls[n].min = min_out
               /\ n = 2 => /\ ls[1].output = "quote" /\ ls[2].input = "quote"
                           /\ ls[2].amount <= ls[1].min
                           /\ "quote" \notin {pays(o), gets(o)}
<1> DEFINE ls == legs(o, swap_spent, quoted, min_out)
<1>1. CASE needs_sol_bridge(o) /\ o.side = "buy"
  <2>1. ls = <<NewLeg("wsol", "quote", swap_spent, quoted),
               NewLeg("quote", "meme", quoted, min_out)>>
    BY <1>1 DEF legs, build_buy_legs, bridged_buy_legs,
                bridge_intermediate_min_out
  <2>2. o.asset \in Cash
    BY <1>1 DEF needs_sol_bridge
  <2> QED
    BY <1>1, <2>1, <2>2
       DEF NewLeg, Leg, Assets, Tokens, Cash, Same, pays, gets
<1>2. CASE needs_sol_bridge(o) /\ o.side = "sell"
  <2>1. ls = <<NewLeg("meme", "quote", swap_spent, quoted),
               NewLeg("quote", "wsol", quoted, min_out)>>
    BY <1>2 DEF legs, build_sell_legs, bridged_sell_legs,
                bridge_intermediate_min_out
  <2>2. o.asset \in Cash
    BY <1>2 DEF needs_sol_bridge
  <2> QED
    BY <1>2, <2>1, <2>2
       DEF NewLeg, Leg, Assets, Tokens, Cash, Same, pays, gets
<1>3. CASE ~needs_sol_bridge(o) /\ o.side = "buy"
  <2>1. ls = <<NewLeg(settled_asset(o), "meme", swap_spent, min_out)>>
    BY <1>3 DEF legs, build_buy_legs
  <2> QED
    BY <1>3, <2>1, SettledType
       DEF NewLeg, Leg, Assets, Tokens, Same, pays, gets
<1>4. CASE ~needs_sol_bridge(o) /\ o.side = "sell"
  <2>1. ls = <<NewLeg("meme", settled_asset(o), swap_spent, min_out)>>
    BY <1>4 DEF legs, build_sell_legs
  <2> QED
    BY <1>4, <2>1, SettledType
       DEF NewLeg, Leg, Assets, Tokens, Same, pays, gets
<1>5. o.side \in {"buy", "sell"}
  BY DEF Order
<1> QED  BY <1>1, <1>2, <1>3, <1>4, <1>5

(* buy_with_opts and sell_with_opts build well: the input they declare is   *)
(* within the caller's amount and nets to what the first leg spends.        *)
LEMMA BuiltIsWell ==
    ASSUME NEW o \in Orders, NEW quoted \in Hops, NEW min_out \in MinOuts,
           NEW swap_spent \in 1 .. spend_after_fee(o.amount_in, ClientBps)
    PROVE  LET b == BuiltTrade(o, swap_spent, quoted, min_out)
           IN  b \in Built /\ b.status = "built" /\ WellBuilt(b)
<1> DEFINE amount_in == route_amount_in(o, swap_spent)
           ls == legs(o, swap_spent, quoted, min_out)
           head == setup(o, amount_in)
           tail == cleanup(o)
           ixs == head \o <<RouteIx>> \o tail
           b == BuiltTrade(o, swap_spent, quoted, min_out)
<1>1. /\ o \in Order /\ quoted \in Nat /\ min_out \in Nat
      /\ ClientBps \in Bps /\ o.amount_in \in Nat \ {0}
  BY SdkTradeConstants DEF Order
<1>2. spend_after_fee(o.amount_in, ClientBps) \in 1 .. o.amount_in
  BY <1>1, SomethingIsLeft
<1>3. swap_spent \in Nat \ {0}
  BY <1>1, <1>2
<1>4. amount_in \in 1 .. o.amount_in
        /\ spend_after_fee(amount_in, ClientBps) = swap_spent
  <2>1. CASE swap_spent = spend_after_fee(o.amount_in, ClientBps)
    <3>1. amount_in = o.amount_in
      BY <2>1 DEF route_amount_in
    <3> QED  BY <1>1, <2>1, <3>1
  <2>2. CASE swap_spent # spend_after_fee(o.amount_in, ClientBps)
    <3>1. amount_in = route_amount_in_for_spend(swap_spent, ClientBps)
      BY <2>2 DEF route_amount_in
    <3>2. amount_in \in Nat \ {0}
            /\ spend_after_fee(amount_in, ClientBps) = swap_spent
      BY <1>1, <1>3, <3>1, GrossNetsToSpend
    <3>3. amount_in <= o.amount_in
      <4>1. swap_spent <= spend_after_fee(o.amount_in, ClientBps)
        BY <1>1, <1>2
      <4>2. o.amount_in \in Nat
        BY <1>1
      <4> QED  BY <1>1, <1>3, <3>1, <4>1, <4>2, GrossIsLeast
    <3> QED  BY <1>1, <3>2, <3>3
  <2> QED  BY <2>1, <2>2
<1>5. /\ ls \in Seq(Leg) /\ Len(ls) \in {1, 2}
      /\ ls[1].amount = swap_spent
      /\ Same(ls[1].input, pays(o)) /\ Same(ls[Len(ls)].output, gets(o))
      /\ ls[Len(ls)].min = min_out
      /\ Len(ls) = 2 => /\ ls[1].output = "quote" /\ ls[2].input = "quote"
                        /\ ls[2].amount <= ls[1].min
                        /\ "quote" \notin {pays(o), gets(o)}
  BY <1>1, <1>3, LegsJoin
<1>6. /\ ixs \in Seq(Instruction)
      /\ \E i \in DOMAIN ixs : ixs[i].op = "route"
      /\ \A i, j \in DOMAIN ixs :
            ixs[i].op = "route" /\ ixs[j].op = "route" => i = j
  <2>1. amount_in \in Nat
    BY <1>1, <1>4
  <2>2. head \in Seq(Other) /\ tail \in Seq(Other)
    BY <1>1, <2>1, SetupType, CleanupType
  <2> HIDE DEF head, tail
  <2> QED  BY <2>2, OneRoute
<1>7. b = [ status |-> "built", order |-> o, amount_in |-> amount_in,
            min_out |-> min_out, legs |-> ls, ixs |-> ixs ]
  BY DEF BuiltTrade
<1> HIDE DEF b, amount_in, ls, ixs
<1>8. b \in Built /\ b.status = "built"
  BY <1>1, <1>4, <1>5, <1>6, <1>7 DEF Built
<1>9. WellBuilt(b)
  BY <1>1, <1>4, <1>5, <1>6, <1>7, SettledType DEF WellBuilt
<1> QED  BY <1>8, <1>9 DEF b

-----------------------------------------------------------------------------
(* What is known of a transaction that is being executed.                   *)

(* Where the route of a built trade stands.                                 *)
LEMMA RouteAt ==
    ASSUME NEW b \in Built, WellBuilt(b)
    PROVE  /\ routeAt(b) \in 1 .. Len(b.ixs) /\ Len(b.ixs) \in Nat
           /\ DOMAIN b.ixs = 1 .. Len(b.ixs)
           /\ \A i \in 1 .. Len(b.ixs) :
                 b.ixs[i].op = "route" <=> i = routeAt(b)
           /\ \A i \in 1 .. Len(b.ixs) : b.ixs[i] \in Instruction
<1>1. b.ixs \in Seq(Instruction)
  BY DEF Built
<1>2. /\ Len(b.ixs) \in Nat /\ DOMAIN b.ixs = 1 .. Len(b.ixs)
      /\ \A i \in 1 .. Len(b.ixs) : b.ixs[i] \in Instruction
  BY <1>1, LenProperties, ElementOfSeq
<1>3. /\ \E i \in DOMAIN b.ixs : b.ixs[i].op = "route"
      /\ \A i, j \in DOMAIN b.ixs :
            b.ixs[i].op = "route" /\ b.ixs[j].op = "route" => i = j
  BY DEF WellBuilt
<1>4. routeAt(b) \in DOMAIN b.ixs /\ b.ixs[routeAt(b)].op = "route"
  BY <1>3 DEF routeAt
<1> QED  BY <1>2, <1>3, <1>4

(* A trade that is built or running is a built one.                         *)
LEMMA BuiltStatus ==
    ASSUME TypeOK, NEW t \in Trades, trade[t].status \in {"built", "running"}
    PROVE  trade[t] \in Built
<1>1. trade[t] \in Built \cup
          {Mark(s) : s \in {"new", "landed", "failed", "expired"}}
  BY DEF TypeOK
<1> QED  BY <1>1 DEF Mark

(* A transaction in progress is not mistaken for none.                      *)
LEMMA NotNoRun ==
    ASSUME NEW r \in Running
    PROVE  r # NoRun
BY DEF Running, NoRun

(* Everything that holds while a transaction is executed. *)
LEMMA TxFacts ==
    ASSUME IInv, run # NoRun
    PROVE  /\ run \in Running /\ Sound(run.saved)
           /\ run.trade \in Trades /\ run.pc \in Nat \ {0} /\ run.leg \in Nat
           /\ run.taken \in Nat
           /\ tx.status = "running" /\ tx \in Built /\ WellBuilt(tx)
           /\ tx.order \in Order /\ tx.amount_in \in Nat /\ tx.min_out \in Nat
           /\ tx.legs \in Seq(Leg) /\ Len(tx.legs) \in {1, 2}
           /\ DOMAIN tx.legs = 1 .. Len(tx.legs)
           /\ \A i \in 1 .. Len(tx.legs) : tx.legs[i] \in Leg
           /\ input \in Assets /\ output \in Assets
           /\ checked_fee \in Nat
<1>1. /\ run \in Running /\ Sound(run.saved) /\ tx.status = "running"
      /\ chain_bps \in Nat
  BY SdkTradeConstants, FeeConstants DEF IInv, TypeOK, tx, Bps
<1>2. /\ run.trade \in Trades /\ run.pc \in Nat \ {0} /\ run.leg \in Nat
      /\ run.taken \in Nat
  BY <1>1 DEF Running
<1>3. tx \in Built /\ WellBuilt(tx)
  BY <1>1, <1>2, BuiltStatus DEF IInv, tx
<1>4. /\ tx.order \in Order /\ tx.amount_in \in Nat /\ tx.min_out \in Nat
      /\ tx.legs \in Seq(Leg)
  BY <1>3, SdkTradeConstants DEF Built
<1>5. Len(tx.legs) \in {1, 2}
  BY <1>3 DEF WellBuilt
<1>6. /\ DOMAIN tx.legs = 1 .. Len(tx.legs)
      /\ \A i \in 1 .. Len(tx.legs) : tx.legs[i] \in Leg
  BY <1>4, LenProperties, ElementOfSeq
<1>7. input \in Assets /\ output \in Assets
  BY <1>5, <1>6 DEF input, output, Leg
<1>8. checked_fee \in Nat
  <2>1. tx.amount_in * chain_bps \in Nat /\ FEE_DENOM \in Nat \ {0}
    BY <1>1, <1>4, FeeConstants
  <2> QED  BY <2>1, Floor DEF checked_fee
<1> QED  BY <1>1, <1>2, <1>3, <1>4, <1>5, <1>6, <1>7, <1>8

(* The instruction that is next, and when it is the route. *)
LEMMA IxFacts ==
    ASSUME IInv, run # NoRun
    PROVE  /\ ~finished => ix \in Instruction
           /\ ~finished => (ix.op = "route" <=> run.pc = routeAt(tx))
           /\ finished => run.pc > routeAt(tx)
           /\ run.pc <= routeAt(tx) => ~finished
           /\ routeAt(tx) \in Nat \ {0}
<1>1. run.pc \in Nat \ {0} /\ tx \in Built /\ WellBuilt(tx)
  BY TxFacts
<1>2. /\ routeAt(tx) \in 1 .. Len(tx.ixs) /\ Len(tx.ixs) \in Nat
      /\ \A i \in 1 .. Len(tx.ixs) :
            tx.ixs[i].op = "route" <=> i = routeAt(tx)
      /\ \A i \in 1 .. Len(tx.ixs) : tx.ixs[i] \in Instruction
  BY <1>1, RouteAt
<1> QED  BY <1>1, <1>2 DEF finished, ix

-----------------------------------------------------------------------------
(* Balances.                                                                *)

(* Wrapping SOL moves worth between two forms of one holding.               *)
LEMMA WrapWorth ==
    ASSUME NEW bal \in [Assets -> Nat], NEW n \in Nat, n <= bal["sol"]
    PROVE  /\ Move(bal, "sol", "wsol", n) \in [Assets -> Nat]
           /\ \A a \in Assets :
                 worth(Move(bal, "sol", "wsol", n), a) = worth(bal, a)
           /\ \A a \in Assets \ {"sol", "wsol"} :
                 Move(bal, "sol", "wsol", n)[a] = bal[a]
<1> DEFINE new == Move(bal, "sol", "wsol", n)
<1>1. {"sol", "wsol"} \subseteq Assets
  BY DEF Assets, Tokens
<1>2. new = [bal EXCEPT !["sol"] = @ - n, !["wsol"] = @ + n]
  BY DEF Move
<1>3. new["sol"] = bal["sol"] - n /\ new["wsol"] = bal["wsol"] + n
        /\ \A a \in Assets \ {"sol", "wsol"} : new[a] = bal[a]
  BY <1>1, <1>2
<1>4. bal["sol"] \in Nat /\ bal["wsol"] \in Nat
  BY <1>1
<1>5. new \in [Assets -> Nat]
  BY <1>1, <1>2, <1>4
<1> HIDE DEF new
<1>6. \A a \in Assets : worth(new, a) = worth(bal, a)
  BY <1>1, <1>3, <1>4 DEF worth, Cash
<1> QED  BY <1>3, <1>5, <1>6 DEF new

(* Closing an account moves everything it holds, which is nothing unless    *)
(* it is the WSOL account.                                                  *)
LEMMA CloseWorth ==
    ASSUME NEW bal \in [Assets -> Nat], NEW asset \in Tokens,
           asset = "wsol" \/ bal[asset] = 0
    PROVE  LET new == Move(bal, asset, "sol", bal[asset])
           IN  /\ new \in [Assets -> Nat]
               /\ \A a \in Assets : worth(new, a) = worth(bal, a)
               /\ new[asset] = 0
               /\ \A a \in Tokens \ {asset} : new[a] = bal[a]
<1> DEFINE n == bal[asset]
           new == Move(bal, asset, "sol", n)
<1>1. /\ "sol" \in Assets /\ "wsol" \in Assets /\ asset \in Assets
      /\ asset # "sol" /\ Tokens \subseteq Assets /\ "sol" \notin Tokens
  BY DEF Assets, Tokens
<1>2. new = [bal EXCEPT ![asset] = @ - n, !["sol"] = @ + n]
  BY DEF Move
<1>3. bal["sol"] \in Nat /\ bal["wsol"] \in Nat /\ n \in Nat
  BY <1>1
<1>4. new["sol"] = bal["sol"] + n /\ new[asset] = 0
        /\ \A a \in Assets \ {"sol", asset} : new[a] = bal[a]
  BY <1>1, <1>2, <1>3
<1>5. new \in [Assets -> Nat]
  BY <1>1, <1>2, <1>3
<1>6. \A a \in Assets : worth(new, a) = worth(bal, a)
  <2> HIDE DEF new
  <2>1. CASE asset = "wsol"
    BY <1>1, <1>3, <1>4, <2>1 DEF worth, Cash
  <2>2. CASE asset # "wsol" /\ bal[asset] = 0
    BY <1>1, <1>3, <1>4, <2>2 DEF worth, Cash
  <2> QED  BY <2>1, <2>2
<1> QED  BY <1>1, <1>4, <1>5, <1>6

(* Holdings that the route left alone, or increased, did not shrink. *)
LEMMA WorthGrows ==
    ASSUME NEW was \in [Assets -> Nat], NEW now \in [Assets -> Nat],
           NEW a \in Assets,
           \A b \in Assets : Same(b, a) => now[b] >= was[b]
    PROVE  worth(now, a) >= worth(was, a)
<1>1. /\ "sol" \in Assets /\ "wsol" \in Assets
      /\ \A b \in Assets : was[b] \in Nat /\ now[b] \in Nat
  BY DEF Assets, Tokens
<1>2. CASE a \in Cash
  BY <1>1, <1>2 DEF worth, Same, Cash
<1>3. CASE a \notin Cash
  BY <1>1, <1>3 DEF worth, Same
<1> QED  BY <1>2, <1>3

(* A holding shrinks by at most what its one debited account paid.          *)
LEMMA WorthSpent ==
    ASSUME NEW was \in [Assets -> Nat], NEW now \in [Assets -> Nat],
           NEW in \in Assets, NEW a \in Assets, Same(in, a),
           NEW n \in Nat, was[in] - now[in] <= n,
           \A b \in Assets \ {in} : now[b] >= was[b]
    PROVE  worth(was, a) - worth(now, a) <= n
<1>1. /\ "sol" \in Assets /\ "wsol" \in Assets
      /\ \A b \in Assets : was[b] \in Nat /\ now[b] \in Nat
  BY DEF Assets, Tokens
<1>2. CASE a \in Cash
  BY <1>1, <1>2 DEF worth, Same, Cash
<1>3. CASE a \notin Cash
  BY <1>1, <1>3 DEF worth, Same
<1> QED  BY <1>2, <1>3

(* A holding grows by at least what its account received.                   *)
LEMMA WorthGained ==
    ASSUME NEW was \in [Assets -> Nat], NEW now \in [Assets -> Nat],
           NEW out \in Assets, NEW a \in Assets, Same(out, a),
           NEW m \in Nat, now[out] >= was[out] + m,
           \A b \in Assets : Same(b, a) => now[b] >= was[b]
    PROVE  worth(now, a) - worth(was, a) >= m
<1>1. /\ "sol" \in Assets /\ "wsol" \in Assets
      /\ \A b \in Assets : was[b] \in Nat /\ now[b] \in Nat
  BY DEF Assets, Tokens
<1>2. CASE a \in Cash
  BY <1>1, <1>2 DEF worth, Same, Cash
<1>3. CASE a \notin Cash
  BY <1>1, <1>3 DEF worth, Same
<1> QED  BY <1>2, <1>3

-----------------------------------------------------------------------------
(* The steps of an execution.                                               *)

WellKept ==
    \A t \in Trades :
        trade[t].status \in {"built", "running"} => WellBuilt(trade[t])

(* A step that moves only the chain and the run in progress. *)
LEMMA RunStep ==
    ASSUME IInv, run # NoRun, Sound(chain'), run' \in Running,
           run'.saved = run.saved, run'.trade = run.trade,
           UNCHANGED <<chain_bps, trade>>
    PROVE  /\ TypeOK' /\ WellKept' /\ tx' = tx
           /\ input' = input /\ output' = output
           /\ checked_fee' = checked_fee
<1>1. tx' = tx
  BY DEF tx
<1>2. input' = input /\ output' = output /\ checked_fee' = checked_fee
  BY <1>1 DEF input, output, checked_fee
<1>3. /\ chain_bps \in Bps /\ Sound(run.saved)
      /\ trade \in [Trades -> Built \cup
            {Mark(s) : s \in {"new", "landed", "failed", "expired"}}]
      /\ trade[run.trade].status = "running"
  BY DEF IInv, TypeOK
<1>4. TypeOK'
  BY <1>3 DEF TypeOK
<1>5. WellKept'
  BY DEF IInv, WellKept
<1> QED  BY <1>1, <1>2, <1>4, <1>5

(* An instruction other than the route that moves no worth. *)
LEMMA InstructionStep ==
    ASSUME IInv, run # NoRun, ~finished, ix.op # "route",
           NEW c, Sound(c), NextIx(c),
           \A a \in Assets : worth(c.bal, a) = worth(chain.bal, a)
    PROVE  IInv'
<1>1. /\ run \in Running /\ run.pc \in Nat \ {0} /\ run.leg \in Nat
      /\ tx.order \in Order
  BY TxFacts
<1>2. run' = [run EXCEPT !.pc = @ + 1] /\ chain' = c
        /\ UNCHANGED <<chain_bps, trade>>
  BY DEF NextIx
<1>3. /\ run' \in Running /\ run'.saved = run.saved
      /\ run'.trade = run.trade /\ run'.pc = run.pc + 1
      /\ run'.leg = run.leg /\ run'.taken = run.taken
  BY <1>1, <1>2 DEF Running
<1>4. TypeOK' /\ WellKept' /\ tx' = tx
  BY <1>2, <1>3, RunStep
<1>5. run.pc # routeAt(tx) /\ routeAt(tx) \in Nat \ {0}
  BY IxFacts
<1>6. RunInv'
  <2>1. /\ run.pc < routeAt(tx) => run.leg = 0
        /\ run.leg \in 0 .. Len(tx.legs) + 1
        /\ run.leg = 0 => run.taken = 0
        /\ run.pc <= routeAt(tx) /\ run.leg = 0
              => \A a \in Assets :
                    worth(chain.bal, a) = worth(run.saved.bal, a)
        /\ run.pc > routeAt(tx) => Balanced(tx)
    BY DEF IInv, RunInv
  <2>2. run.pc > routeAt(tx) => Balanced(tx)'
    <3>1. pays(tx.order) \in Assets /\ gets(tx.order) \in Assets
      BY <1>1, SettledType
    <3> QED  BY <1>2, <1>3, <1>4, <2>1, <3>1 DEF Balanced
  <2>3. routeAt(tx)' = routeAt(tx)
    BY <1>4
  <2>4. /\ run'.pc < routeAt(tx)' => run'.leg = 0
        /\ run'.leg \in 0 .. Len(tx.legs)' + 1
        /\ run'.leg = 0 => run'.taken = 0
    BY <1>1, <1>3, <1>4, <1>5, <2>1, <2>3
  <2>5. run'.pc <= routeAt(tx)' /\ run'.leg = 0
           => \A a \in Assets :
                 worth(chain'.bal, a) = worth(run'.saved.bal, a)
    BY <1>1, <1>2, <1>3, <1>5, <2>1, <2>3
  <2>6. ~(run'.pc = routeAt(tx)' /\ run'.leg > 0)
    BY <1>1, <1>3, <1>5, <2>1, <2>3
  <2>7. run'.pc > routeAt(tx)' => Balanced(tx)'
    BY <1>1, <1>3, <1>5, <2>2, <2>3
  <2> QED  BY <2>4, <2>5, <2>6, <2>7 DEF RunInv
<1> QED  BY <1>4, <1>6 DEF IInv, WellKept

(* The parts of a chain state.                                              *)
LEMMA SoundParts ==
    ASSUME NEW c, Sound(c)
    PROVE  /\ c.bal \in [Assets -> Nat] /\ c.open \subseteq Tokens
           /\ c.recipient \subseteq Tokens
           /\ \A a \in Tokens \ c.open : c.bal[a] = 0
           /\ c = [bal |-> c.bal, open |-> c.open, recipient |-> c.recipient]
BY DEF Sound, ChainState

(* A chain state made of its parts.                                         *)
LEMMA SoundMade ==
    ASSUME NEW bal \in [Assets -> Nat], NEW open \in SUBSET Tokens,
           NEW recipient \in SUBSET Tokens,
           \A a \in Tokens \ open : bal[a] = 0
    PROVE  Sound([bal |-> bal, open |-> open, recipient |-> recipient])
BY DEF Sound, ChainState

(* An account is made.                                                      *)
LEMMA CreateAtaKeeps ==
    ASSUME IInv, CreateAta
    PROVE  IInv'
<1> DEFINE user == [chain EXCEPT !.open = @ \cup {ix.asset}]
           recipient == [chain EXCEPT !.recipient = @ \cup {ix.asset}]
           c == IF ix.who = "user" THEN user ELSE recipient
<1>1. run # NoRun /\ ~finished /\ ix.op = "create" /\ NextIx(c)
  BY DEF CreateAta
<1>2. c.bal = chain.bal /\ Sound(c)
  <2>1. Sound(chain)
    BY DEF IInv, TypeOK
  <2>2. ix.asset \in Tokens
    BY <1>1, IxFacts DEF Instruction
  <2> QED  BY <2>1, <2>2 DEF Sound, ChainState
<1> QED  BY <1>1, <1>2, InstructionStep

(* SOL is wrapped.                                                          *)
LEMMA WrapSolKeeps ==
    ASSUME IInv, WrapSol
    PROVE  IInv'
<1> DEFINE bal == Move(chain.bal, "sol", "wsol", ix.amount)
           c == [chain EXCEPT !.bal = bal]
<1>1. /\ run # NoRun /\ ~finished /\ ix.op = "wrap" /\ NextIx(c)
      /\ "wsol" \in chain.open /\ ix.amount <= chain.bal["sol"]
  BY DEF WrapSol
<1>2. Sound(chain) /\ ix.amount \in Nat
  BY <1>1, IxFacts DEF IInv, TypeOK, Instruction
<1>3. chain.bal \in [Assets -> Nat]
  BY <1>2, SoundParts
<1>4. /\ bal \in [Assets -> Nat]
      /\ \A a \in Assets : worth(bal, a) = worth(chain.bal, a)
      /\ \A a \in Assets \ {"sol", "wsol"} : bal[a] = chain.bal[a]
  BY <1>1, <1>2, <1>3, WrapWorth
<1> HIDE DEF bal
<1>5. c.bal = bal /\ Sound(c)
  BY <1>1, <1>2, <1>4 DEF Sound, ChainState, Assets, Tokens
<1> QED  BY <1>1, <1>4, <1>5, InstructionStep

(* An account is closed.                                                    *)
LEMMA CloseAtaKeeps ==
    ASSUME IInv, CloseAta
    PROVE  IInv'
<1> DEFINE bal == Move(chain.bal, ix.asset, "sol", chain.bal[ix.asset])
           c == [chain EXCEPT !.open = @ \ {ix.asset}, !.bal = bal]
<1>1. /\ run # NoRun /\ ~finished /\ ix.op = "close" /\ NextIx(c)
      /\ ix.asset = "wsol" \/ chain.bal[ix.asset] = 0
  BY DEF CloseAta, closable
<1>2. Sound(chain) /\ ix.asset \in Tokens
  BY <1>1, IxFacts DEF IInv, TypeOK, Instruction
<1>3. chain.bal \in [Assets -> Nat]
  BY <1>2, SoundParts
<1>4. /\ bal \in [Assets -> Nat]
      /\ \A a \in Assets : worth(bal, a) = worth(chain.bal, a)
      /\ bal[ix.asset] = 0
      /\ \A a \in Tokens \ {ix.asset} : bal[a] = chain.bal[a]
  BY <1>1, <1>2, <1>3, CloseWorth
<1> HIDE DEF bal
<1>5. c.bal = bal /\ Sound(c)
  BY <1>2, <1>4 DEF Sound, ChainState
<1> QED  BY <1>1, <1>4, <1>5, InstructionStep

(* The part of RunInv that a step of the route must re-establish. *)
LEMMA RouteStep ==
    ASSUME IInv, routing, Sound(chain'),
           NEW leg \in 1 .. Len(tx.legs) + 1, NEW taken \in Nat,
           run'.pc = run.pc, run'.leg = leg, run'.saved = run.saved,
           run'.trade = run.trade, run' \in Running,
           UNCHANGED <<chain_bps, trade>>, Swapping(tx)'
    PROVE  IInv'
<1>1. run # NoRun /\ run.pc = routeAt(tx) /\ routeAt(tx) \in Nat \ {0}
  BY IxFacts DEF routing
<1>2. TypeOK' /\ WellKept' /\ tx' = tx
  BY <1>1, RunStep
<1>3. Len(tx.legs) \in {1, 2}
  BY <1>1, TxFacts
<1>4. RunInv'
  BY <1>1, <1>2, <1>3 DEF RunInv
<1> QED  BY <1>2, <1>4 DEF IInv, WellKept

(* The route takes its fee and remembers the balances.                      *)
LEMMA PayRouterFeeKeeps ==
    ASSUME IInv, PayRouterFee
    PROVE  IInv'
<1> DEFINE bal == [chain.bal EXCEPT ![input] = @ - checked_fee]
<1>1. /\ routing /\ run # NoRun /\ run.leg = 0
      /\ exists(input) /\ checked_fee <= chain.bal[input]
      /\ chain' = [chain EXCEPT !.bal = bal]
      /\ run' = [run EXCEPT !.leg = 1, !.before = chain]
      /\ UNCHANGED <<chain_bps, trade>>
  BY DEF PayRouterFee, routing, fee_accounts
<1>2. /\ run \in Running /\ input \in Assets /\ checked_fee \in Nat
      /\ Len(tx.legs) \in {1, 2} /\ run.taken \in Nat
      /\ tx.legs[1] \in Leg
  BY <1>1, TxFacts
<1>3. Sound(chain)
  BY DEF IInv, TypeOK
<1>4. chain.bal \in [Assets -> Nat]
  BY <1>3, SoundParts
<1>5. bal \in [Assets -> Nat] /\ bal[input] = chain.bal[input] - checked_fee
        /\ \A a \in Assets \ {input} : bal[a] = chain.bal[a]
  BY <1>1, <1>2, <1>4
<1> HIDE DEF bal
<1>6. chain'.bal = bal /\ chain'.open = chain.open
        /\ chain'.recipient = chain.recipient
  BY <1>1, <1>3 DEF Sound, ChainState
<1>7. Sound(chain')
  BY <1>1, <1>2, <1>3, <1>5, <1>6 DEF Sound, ChainState, exists, Assets
<1>8. /\ run' \in Running /\ run'.pc = run.pc /\ run'.leg = 1
      /\ run'.saved = run.saved /\ run'.trade = run.trade
      /\ run'.taken = run.taken /\ run'.before = chain
  BY <1>1, <1>2, <1>3 DEF Running, Sound
<1>9. tx' = tx /\ input' = input /\ checked_fee' = checked_fee
  BY <1>1, <1>7, <1>8, RunStep
<1>10. run.taken = 0
         /\ \A a \in Assets : worth(chain.bal, a) = worth(run.saved.bal, a)
  <2>1. run.pc = routeAt(tx) /\ routeAt(tx) \in Nat
    BY <1>1, IxFacts DEF routing
  <2> QED  BY <1>1, <2>1 DEF IInv, RunInv
<1>11. Swapping(tx)'
  <2>1. \A a \in Assets :
           worth(run'.before.bal, a) = worth(run'.saved.bal, a)
    BY <1>8, <1>10
  <2>2. run'.before.bal[input] - chain'.bal[input] = checked_fee + run'.taken
    BY <1>2, <1>4, <1>5, <1>6, <1>8, <1>10
  <2>3. \A a \in Assets \ {input} : chain'.bal[a] >= run'.before.bal[a]
    BY <1>4, <1>5, <1>6, <1>8
  <2>4. run'.taken = 0 /\ 0 <= tx.legs[1].amount
    BY <1>2, <1>8, <1>10 DEF Leg
  <2>5. run'.leg # 2 /\ run'.leg # Len(tx.legs) + 1
    BY <1>2, <1>8
  <2> QED
    BY <1>8, <1>9, <2>1, <2>2, <2>3, <2>4, <2>5 DEF Swapping
<1> QED
  BY <1>1, <1>2, <1>7, <1>8, <1>11, RouteStep

(* What the legs of the running trade have to do with what it pays and gets. *)
LEMMA LegFacts ==
    ASSUME IInv, run # NoRun
    PROVE  /\ input # output
           /\ Same(input, pays(tx.order)) /\ Same(output, gets(tx.order))
           /\ pays(tx.order) \in Assets /\ gets(tx.order) \in Assets
           /\ ~Same(pays(tx.order), gets(tx.order))
           /\ tx.amount_in \in 1 .. tx.order.amount_in
           /\ tx.order.amount_in \in Nat
           /\ spend_after_fee(tx.amount_in, ClientBps) = tx.legs[1].amount
           /\ tx.legs[Len(tx.legs)].min = tx.min_out
           /\ Len(tx.legs) = 2 =>
                 /\ tx.legs[1].output = "quote" /\ tx.legs[2].input = "quote"
                 /\ tx.legs[2].amount <= tx.legs[1].min
                 /\ input # "quote" /\ output # "quote"
<1>1. WellBuilt(tx) /\ tx.order \in Order /\ Len(tx.legs) \in {1, 2}
  BY TxFacts
<1>2. /\ pays(tx.order) \in Assets /\ gets(tx.order) \in Assets
      /\ ~Same(pays(tx.order), gets(tx.order))
  BY <1>1, SettledType
<1>3. /\ Same(input, pays(tx.order)) /\ Same(output, gets(tx.order))
      /\ tx.amount_in \in 1 .. tx.order.amount_in
      /\ spend_after_fee(tx.amount_in, ClientBps) = tx.legs[1].amount
      /\ tx.legs[Len(tx.legs)].min = tx.min_out
      /\ Len(tx.legs) = 2 =>
            /\ tx.legs[1].output = "quote" /\ tx.legs[2].input = "quote"
            /\ tx.legs[2].amount <= tx.legs[1].min
            /\ "quote" \notin {pays(tx.order), gets(tx.order)}
  BY <1>1 DEF WellBuilt, input, output
<1>4. input # output
  BY <1>2, <1>3 DEF Same
<1>5. "quote" \notin {pays(tx.order), gets(tx.order)}
         => input # "quote" /\ output # "quote"
  BY <1>3 DEF Same, Cash
<1>6. tx.order.amount_in \in Nat
  BY <1>1 DEF Order
<1> QED  BY <1>2, <1>3, <1>4, <1>5, <1>6

(* A leg spends at most its amount and delivers at least its minimum.       *)
LEMMA SwapLegKeeps ==
    ASSUME IInv, SwapLeg
    PROVE  IInv'
<1> DEFINE leg == tx.legs[run.leg]
           n == Len(tx.legs)
<1>1. PICK taken \in takes(leg), extra \in Surplus :
        /\ taken <= chain.bal[leg.input]
        /\ Step([chain EXCEPT !.bal[leg.input] = @ - taken,
                              !.bal[leg.output] = @ + leg.min + extra],
                IF run.leg = 1 THEN taken ELSE 0)
  BY DEF SwapLeg
<1> DEFINE bal == [chain.bal EXCEPT ![leg.input] = @ - taken,
                                    ![leg.output] = @ + leg.min + extra]
           first == IF run.leg = 1 THEN taken ELSE 0
<1>2. /\ routing /\ run # NoRun /\ run.leg \in DOMAIN tx.legs
      /\ exists(leg.input) /\ exists(leg.output)
  BY DEF SwapLeg, routing, leg_accounts
<1>3. /\ run \in Running /\ run.taken \in Nat /\ n \in {1, 2}
      /\ input \in Assets /\ output \in Assets /\ checked_fee \in Nat
      /\ run.leg \in 1 .. n /\ leg \in Leg /\ tx.min_out \in Nat
      /\ tx.legs[1] \in Leg
  BY <1>2, TxFacts
<1>4. /\ leg.input \in Assets /\ leg.output \in Assets
      /\ leg.amount \in Nat /\ leg.min \in Nat /\ extra \in Nat
  BY <1>3, SdkTradeConstants DEF Leg
<1>5. taken \in Nat /\ taken <= leg.amount
  BY <1>4 DEF takes
<1>6. Sound(chain) /\ chain.bal \in [Assets -> Nat]
  BY SoundParts DEF IInv, TypeOK
<1>7. /\ run.leg = 1 => leg.input = input
      /\ run.leg = n => leg.output = output
      /\ n = 2 /\ run.leg = 1 => leg.output = "quote"
      /\ run.leg = 2 => /\ n = 2 /\ leg.input = "quote"
                        /\ leg.amount <= tx.legs[1].min
      /\ run.leg = n => leg.min = tx.min_out
      /\ n = 2 => input # "quote" /\ output # "quote"
      /\ input # output
  BY <1>2, <1>3, LegFacts DEF input, output
<1>8. leg.input # leg.output
  <2> HIDE DEF leg, n
  <2>1. CASE run.leg = 1 /\ n = 1
    BY <1>7, <2>1
  <2>2. CASE run.leg = 1 /\ n = 2
    BY <1>7, <2>2
  <2>3. CASE run.leg = 2 /\ n = 2
    BY <1>7, <2>3
  <2> QED  BY <1>3, <2>1, <2>2, <2>3
<1>9. /\ bal \in [Assets -> Nat]
      /\ bal[leg.input] = chain.bal[leg.input] - taken
      /\ bal[leg.output] = chain.bal[leg.output] + leg.min + extra
      /\ \A a \in Assets \ {leg.input, leg.output} : bal[a] = chain.bal[a]
  <2> HIDE DEF leg
  <2> QED  BY <1>1, <1>4, <1>5, <1>6, <1>8
<1>10. /\ chain' = [chain EXCEPT !.bal = bal]
       /\ run' = [run EXCEPT !.leg = @ + 1, !.taken = @ + first]
       /\ UNCHANGED <<chain_bps, trade>>
  <2> HIDE DEF leg
  <2>1. chain = [bal |-> chain.bal, open |-> chain.open,
                 recipient |-> chain.recipient]
    BY <1>6, SoundParts
  <2> QED  BY <1>1, <2>1 DEF Step
<1> HIDE DEF bal, leg, first, n
<1>11. chain'.bal = bal /\ chain'.open = chain.open
         /\ chain'.recipient = chain.recipient
  BY <1>6, <1>10 DEF Sound, ChainState
<1>12. Sound(chain')
  <2>1. chain' \in ChainState
    BY <1>6, <1>9, <1>10 DEF Sound, ChainState
  <2>2. \A a \in Tokens \ chain.open : bal[a] = chain.bal[a]
    BY <1>2, <1>9 DEF exists, Assets, Tokens
  <2> QED  BY <1>6, <1>11, <2>1, <2>2 DEF Sound
<1>13. first \in Nat
  BY <1>5 DEF first
<1>14. /\ run' \in Running /\ run'.pc = run.pc /\ run'.leg = run.leg + 1
       /\ run'.saved = run.saved /\ run'.trade = run.trade
       /\ run'.taken = run.taken + first /\ run'.before = run.before
  <2>1. run \in Running /\ run' = [run EXCEPT !.leg = @ + 1, !.taken = @ + first]
    BY <1>3, <1>10
  <2>2. run' \in Running
    <3>1. run.leg + 1 \in Nat /\ run.taken + first \in Nat
      BY <1>13, <2>1 DEF Running
    <3> DEFINE leg2 == run.leg + 1
               taken2 == run.taken + first
    <3>2. run' = [run EXCEPT !.leg = leg2, !.taken = taken2]
      BY <2>1
    <3> HIDE DEF leg2, taken2
    <3>3. leg2 \in Nat /\ taken2 \in Nat
      BY <3>1 DEF leg2, taken2
    <3> QED  BY <2>1, <3>2, <3>3 DEF Running
  <2>3. run' = [run EXCEPT !.leg = @ + 1, !.taken = @ + first]
          /\ DOMAIN run = {"trade", "pc", "leg", "taken", "saved", "before"}
    BY <2>1 DEF Running
  <2> QED  BY <2>2, <2>3
<1>15. /\ tx' = tx /\ input' = input /\ output' = output
       /\ checked_fee' = checked_fee
  BY <1>2, <1>10, <1>12, <1>14, RunStep
<1> DEFINE was == run.before.bal
           now == chain.bal
<1>16. /\ was \in [Assets -> Nat] /\ now \in [Assets -> Nat]
       /\ bal \in [Assets -> Nat]
  BY <1>3, <1>6, <1>9 DEF Running, ChainState
<1>17. /\ \A a \in Assets : worth(was, a) = worth(run.saved.bal, a)
       /\ was[input] - now[input] = checked_fee + run.taken
       /\ run.taken <= tx.legs[1].amount
       /\ run.leg = 1 => run.taken = 0
       /\ \A a \in Assets \ {input} : now[a] >= was[a]
       /\ run.leg = 2 /\ n = 2
             => now["quote"] >= was["quote"] + tx.legs[1].min
  <2>1. run.pc = routeAt(tx) /\ run.leg > 0
    BY <1>2, <1>3, IxFacts DEF routing
  <2>2. Swapping(tx)
    BY <1>2, <2>1 DEF IInv, RunInv
  <2> QED  BY <2>2 DEF Swapping, n
<1> HIDE DEF was, now
<1>18. /\ was[input] - bal[input] = checked_fee + run'.taken
       /\ run'.taken <= tx.legs[1].amount
       /\ \A a \in Assets \ {input} : bal[a] >= was[a]
       /\ run'.leg = 2 /\ n = 2
             => bal["quote"] >= was["quote"] + tx.legs[1].min
       /\ run'.leg = n + 1 => bal[output] >= was[output] + tx.min_out
  <2>1. CASE run.leg = 1
    <3>1. first = taken /\ leg.input = input /\ leg.amount = tx.legs[1].amount
            /\ leg.min = tx.legs[1].min
      BY <1>7, <2>1 DEF first, leg
    <3>2. /\ bal[input] = now[input] - taken
          /\ bal[leg.output] = now[leg.output] + leg.min + extra
          /\ \A a \in Assets \ {input, leg.output} : bal[a] = now[a]
      BY <1>9, <3>1 DEF now
    <3>3. \A a \in Assets : bal[a] \in Nat /\ now[a] \in Nat /\ was[a] \in Nat
      BY <1>16
    <3>4. was[input] - bal[input] = checked_fee + run'.taken
      BY <1>3, <1>5, <1>14, <1>17, <3>1, <3>2, <3>3
    <3>5. run'.taken <= tx.legs[1].amount
      BY <1>5, <1>14, <1>17, <2>1, <3>1
    <3>6. \A a \in Assets \ {input} : bal[a] >= was[a]
      BY <1>4, <1>17, <3>2, <3>3
    <3>7. n = 2 => bal["quote"] >= was["quote"] + tx.legs[1].min
      BY <1>4, <1>7, <1>8, <1>17, <2>1, <3>1, <3>2, <3>3
    <3>8. n = 1 => bal[output] >= was[output] + tx.min_out
      BY <1>3, <1>4, <1>7, <1>17, <2>1, <3>1, <3>2, <3>3
    <3> QED  BY <1>3, <1>14, <2>1, <3>4, <3>5, <3>6, <3>7, <3>8
  <2>2. CASE run.leg = 2
    <3>1. /\ first = 0 /\ leg.input = "quote" /\ n = 2 /\ leg.output = output
          /\ leg.min = tx.min_out
      BY <1>7, <2>2 DEF first
    <3>2. /\ bal["quote"] = now["quote"] - taken
          /\ bal[output] = now[output] + tx.min_out + extra
          /\ \A a \in Assets \ {"quote", output} : bal[a] = now[a]
      BY <1>9, <3>1 DEF now
    <3>3. \A a \in Assets : bal[a] \in Nat /\ now[a] \in Nat /\ was[a] \in Nat
      BY <1>16
    <3>4. bal[input] = now[input] /\ "quote" \in Assets
      BY <1>3, <1>7, <3>1, <3>2 DEF Assets, Tokens
    <3>5. taken <= tx.legs[1].min /\ tx.legs[1].min \in Nat
      BY <1>3, <1>4, <1>5, <1>7, <2>2 DEF Leg
    <3>6. bal["quote"] >= was["quote"]
      BY <1>5, <1>17, <2>2, <3>1, <3>2, <3>3, <3>4, <3>5
    <3>7. \A a \in Assets \ {input} : bal[a] >= was[a]
      BY <1>3, <1>4, <1>17, <3>2, <3>3, <3>6
    <3>8. bal[output] >= was[output] + tx.min_out
      BY <1>3, <1>4, <1>7, <1>17, <3>2, <3>3
    <3> QED  BY <1>14, <1>17, <2>2, <3>1, <3>4, <3>7, <3>8, <1>3
  <2> QED  BY <1>3, <2>1, <2>2
<1>19. Swapping(tx)'
  <2>0. n = Len(tx.legs)
    BY DEF n
  <2>1. run'.before.bal = was /\ chain'.bal = bal
          /\ run'.saved.bal = run.saved.bal
    BY <1>11, <1>14 DEF was
  <2>2. run'.leg # 1
    BY <1>3, <1>14
  <2> QED
    BY <1>15, <1>17, <1>18, <2>0, <2>1, <2>2 DEF Swapping
<1>20. run'.leg \in 1 .. Len(tx.legs) + 1
  BY <1>3, <1>14 DEF n
<1> QED
  BY <1>2, <1>10, <1>12, <1>14, <1>19, <1>20, RouteStep

-----------------------------------------------------------------------------
(* The settlement.                                                          *)

(* When the legs are done, Swapping says how the balances moved. *)
LEMMA AtSettlement ==
    ASSUME IInv, settling
    PROVE  /\ run # NoRun /\ run.pc = routeAt(tx) /\ ~finished
           /\ run.before.bal \in [Assets -> Nat] /\ chain.bal \in [Assets -> Nat]
           /\ \A a \in Assets :
                 worth(run.before.bal, a) = worth(run.saved.bal, a)
           /\ run.before.bal[input] - chain.bal[input] = checked_fee + run.taken
           /\ run.taken <= tx.legs[1].amount
           /\ \A a \in Assets \ {input} : chain.bal[a] >= run.before.bal[a]
           /\ chain.bal[output] >= run.before.bal[output] + tx.min_out
<1>1. run # NoRun /\ run.leg = Len(tx.legs) + 1 /\ ~finished
        /\ ix.op = "route"
  BY DEF settling, routing
<1>2. run \in Running /\ Len(tx.legs) \in {1, 2}
  BY <1>1, TxFacts
<1>3. run.pc = routeAt(tx)
  BY <1>1, IxFacts
<1>4. Swapping(tx)
  BY <1>1, <1>2, <1>3 DEF IInv, RunInv
<1>5. run.before.bal \in [Assets -> Nat]
  BY <1>2 DEF Running, ChainState
<1>6. chain.bal \in [Assets -> Nat]
  BY SoundParts DEF IInv, TypeOK
<1> QED  BY <1>1, <1>3, <1>4, <1>5, <1>6 DEF Swapping

(* What validate_spend and the minimum check have compared is Balanced.     *)
LEMMA SettledBalances ==
    ASSUME IInv, settling, settles
    PROVE  Balanced(tx)
<1> DEFINE was == run.before.bal
           now == chain.bal
           pay == pays(tx.order)
           get == gets(tx.order)
<1>1. /\ run # NoRun
      /\ was \in [Assets -> Nat] /\ now \in [Assets -> Nat]
      /\ \A a \in Assets : worth(was, a) = worth(run.saved.bal, a)
      /\ \A a \in Assets \ {input} : now[a] >= was[a]
  BY AtSettlement
<1>2. /\ input \in Assets /\ output \in Assets /\ tx.amount_in \in Nat
      /\ tx.min_out \in Nat /\ checked_fee \in Nat
  BY <1>1, TxFacts
<1>3. /\ input # output /\ Same(input, pay) /\ Same(output, get)
      /\ pay \in Assets /\ get \in Assets /\ ~Same(pay, get)
      /\ tx.amount_in <= tx.order.amount_in /\ tx.order.amount_in \in Nat
  BY <1>1, LegFacts
<1>4. was[input] - now[input] <= tx.amount_in
        /\ now[output] - was[output] >= tx.min_out
  BY <1>1, <1>2 DEF settles
<1>5. \A a \in Assets : was[a] \in Nat /\ now[a] \in Nat
  BY <1>1
<1> HIDE DEF was, now
<1>6. worth(was, pay) - worth(now, pay) <= tx.order.amount_in
  <2>1. was[input] - now[input] <= tx.order.amount_in
    BY <1>2, <1>3, <1>4, <1>5
  <2> QED  BY <1>1, <1>2, <1>3, <2>1, WorthSpent
<1>7. worth(now, get) - worth(was, get) >= tx.min_out
  <2>1. now[output] >= was[output] + tx.min_out
    BY <1>2, <1>4, <1>5
  <2>2. \A b \in Assets : Same(b, get) => now[b] >= was[b]
    BY <1>1, <1>3 DEF Same
  <2> QED  BY <1>1, <1>2, <1>3, <2>1, <2>2, WorthGained
<1>8. \A a \in Assets : worth(was, a) > worth(now, a) => Same(a, pay)
  <2> SUFFICES ASSUME NEW a \in Assets, ~Same(a, pay)
               PROVE  ~(worth(was, a) > worth(now, a))
    OBVIOUS
  <2>1. \A b \in Assets : Same(b, a) => now[b] >= was[b]
    BY <1>1, <1>3 DEF Same
  <2>2. worth(now, a) >= worth(was, a)
    BY <1>1, <2>1, WorthGrows
  <2>3. worth(now, a) \in Nat /\ worth(was, a) \in Nat
    BY <1>5 DEF worth, Assets, Tokens
  <2> QED  BY <2>2, <2>3
<1> QED  BY <1>1, <1>3, <1>6, <1>7, <1>8 DEF Balanced, now

(* The route is settled.                                                    *)
LEMMA SettleRouteKeeps ==
    ASSUME IInv, SettleRoute
    PROVE  IInv'
<1>1. /\ settling /\ settles /\ chain' = chain
      /\ run' = [run EXCEPT !.pc = @ + 1]
      /\ UNCHANGED <<chain_bps, trade>>
  BY DEF SettleRoute, NextIx
<1>2. run # NoRun /\ run.pc = routeAt(tx)
        /\ run.leg = Len(tx.legs) + 1
  BY <1>1, AtSettlement DEF settling
<1>3. /\ run \in Running /\ run.pc \in Nat \ {0}
      /\ Len(tx.legs) \in {1, 2}
  BY <1>2, TxFacts
<1>4. /\ run' \in Running /\ run'.pc = run.pc + 1 /\ run'.leg = run.leg
      /\ run'.saved = run.saved /\ run'.trade = run.trade
  BY <1>1, <1>3 DEF Running
<1>5. Sound(chain')
  BY <1>1 DEF IInv, TypeOK
<1>6. TypeOK' /\ WellKept' /\ tx' = tx
  BY <1>1, <1>2, <1>4, <1>5, RunStep
<1>7. Balanced(tx)'
  <2>1. Balanced(tx)
    BY <1>1, SettledBalances
  <2> QED  BY <1>1, <1>4, <1>6, <2>1 DEF Balanced
<1>8. RunInv'
  <2>1. routeAt(tx)' = routeAt(tx)
    BY <1>6
  <2>2. run'.pc > routeAt(tx)' /\ run'.leg = Len(tx.legs)' + 1
    BY <1>2, <1>3, <1>4, <1>6, <2>1
  <2>3. routeAt(tx)' \in Nat
    BY <1>2, <1>3, <2>1
  <2>4. /\ ~(run'.pc < routeAt(tx)') /\ ~(run'.pc <= routeAt(tx)')
        /\ run'.pc # routeAt(tx)' /\ run'.leg # 0
        /\ run'.leg \in 0 .. Len(tx.legs)' + 1
    BY <1>2, <1>3, <1>4, <1>6, <2>2, <2>3
  <2> QED  BY <1>7, <2>4 DEF RunInv
<1> QED  BY <1>6, <1>8 DEF IInv, WellKept

-----------------------------------------------------------------------------
(* The steps outside an execution, and its beginning and end.               *)

Marks == {Mark(s) : s \in {"new", "landed", "failed", "expired"}}

(* A trade that is new or over is not a built one.                          *)
LEMMA MarkStatus ==
    ASSUME NEW s \in {"new", "landed", "failed", "expired"}
    PROVE  /\ Mark(s) \in Marks
           /\ Mark(s).status \notin {"built", "running"}
BY DEF Mark, Marks

(* The parts of IInv.                                                       *)
LEMMA TypeParts ==
    ASSUME IInv
    PROVE  /\ Sound(chain) /\ chain_bps \in Bps
           /\ trade \in [Trades -> Built \cup Marks]
           /\ WellKept /\ RunInv
           /\ run # NoRun => /\ run \in Running /\ Sound(run.saved)
                             /\ trade[run.trade].status = "running"
BY DEF IInv, TypeOK, WellKept, Marks

(* A trade that is not being executed changes. *)
LEMMA OtherTrade ==
    ASSUME IInv, NEW t \in Trades, trade[t].status # "running",
           NEW v \in Built \cup Marks,
           v.status \in {"built", "running"} => WellBuilt(v),
           trade' = [trade EXCEPT ![t] = v], UNCHANGED <<chain, chain_bps, run>>
    PROVE  IInv'
<1>1. /\ trade' \in [Trades -> Built \cup Marks] /\ trade'[t] = v
      /\ \A u \in Trades \ {t} : trade'[u] = trade[u]
  BY TypeParts
<1>2. run # NoRun => run.trade \in Trades \ {t}
  BY TypeParts, TxFacts
<1>3. TypeOK'
  BY <1>1, <1>2, TypeParts DEF TypeOK, Marks
<1>4. WellKept'
  BY <1>1, TypeParts DEF WellKept
<1>5. RunInv'
  <2>1. CASE run = NoRun
    BY <2>1 DEF RunInv
  <2>2. CASE run # NoRun
    <3>1. tx' = tx
      BY <1>1, <1>2, <2>2 DEF tx
    <3>2. input' = input /\ output' = output /\ checked_fee' = checked_fee
      BY <3>1 DEF input, output, checked_fee
    <3>3. Balanced(tx)' <=> Balanced(tx)
      BY <3>1 DEF Balanced
    <3>4. Swapping(tx)' <=> Swapping(tx)
      BY <3>1, <3>2 DEF Swapping
    <3> QED  BY <2>2, <3>1, <3>3, <3>4, TypeParts DEF RunInv
  <2> QED  BY <2>1, <2>2
<1> QED  BY <1>3, <1>4, <1>5 DEF IInv, WellKept

(* Nothing is being executed after the step. *)
LEMMA IdleStep ==
    ASSUME IInv, Sound(chain'), chain_bps' \in Bps, run' = NoRun,
           trade' \in [Trades -> Built \cup Marks],
           \A t \in Trades : trade'[t] = trade[t] \/ trade'[t] \in Marks
    PROVE  IInv'
<1>1. TypeOK'
  BY DEF TypeOK, Marks
<1>2. WellKept'
  BY TypeParts, MarkStatus DEF WellKept, Marks
<1>3. RunInv'
  BY DEF RunInv
<1> QED  BY <1>1, <1>2, <1>3 DEF IInv, WellKept

(* A trade is built.                                                        *)
LEMMA BuildKeeps ==
    ASSUME IInv, NEW t \in Trades, Build(t)
    PROVE  IInv'
<1>0. PICK o \in Orders, quoted \in Hops, min_out \in MinOuts :
        \E swap_spent \in 1 .. spend_after_fee(o.amount_in, ClientBps) :
           trade' = [trade EXCEPT
                        ![t] = BuiltTrade(o, swap_spent, quoted, min_out)]
  BY DEF Build, BuildFrom
<1>1. PICK swap_spent \in 1 .. spend_after_fee(o.amount_in, ClientBps) :
        trade' = [trade EXCEPT
                     ![t] = BuiltTrade(o, swap_spent, quoted, min_out)]
  BY <1>0
<1>2. BuiltTrade(o, swap_spent, quoted, min_out) \in Built
        /\ WellBuilt(BuiltTrade(o, swap_spent, quoted, min_out))
  BY BuiltIsWell
<1>3. trade[t].status # "running" /\ UNCHANGED <<chain, chain_bps, run>>
  BY DEF Build, BuildFrom
<1> QED  BY <1>1, <1>2, <1>3, OtherTrade

(* A trade that was built never lands.                                      *)
LEMMA ExpireKeeps ==
    ASSUME IInv, NEW t \in Trades, Expire(t)
    PROVE  IInv'
<1>1. /\ trade' = [trade EXCEPT ![t] = Mark("expired")]
      /\ trade[t].status # "running" /\ UNCHANGED <<chain, chain_bps, run>>
  BY DEF Expire
<1> QED  BY <1>1, MarkStatus, OtherTrade

(* Accounts are prepared between two transactions.                          *)
LEMMA PrepareKeeps ==
    ASSUME IInv, NEW o \in PreparedOrders, Prepare(o)
    PROVE  IInv'
<1>1. /\ run = NoRun /\ UNCHANGED <<chain_bps, trade, run>>
      /\ chain' = [chain EXCEPT !.open = @ \cup prepared_user(o),
                                !.recipient = @ \cup prepared_recipient(o)]
  BY DEF Prepare
<1>2. prepared_user(o) \subseteq Tokens /\ prepared_recipient(o) \subseteq Tokens
  BY DEF prepared_user, prepared_recipient, Tokens
<1>3. Sound(chain')
  BY <1>1, <1>2, TypeParts DEF Sound, ChainState
<1> QED  BY <1>1, <1>3, TypeParts, IdleStep

(* The operator changes the fee between two transactions.                   *)
LEMMA SetFeeKeeps ==
    ASSUME IInv, NEW bps \in ChainBps, SetFee(bps)
    PROVE  IInv'
<1>1. /\ run' = NoRun /\ chain_bps' = bps /\ UNCHANGED <<chain, trade>>
  BY DEF SetFee
<1>2. bps \in Bps
  BY SdkTradeConstants
<1> QED  BY <1>1, <1>2, TypeParts, IdleStep

(* A transaction commits.                                                   *)
LEMMA CommitKeeps ==
    ASSUME IInv, Commit
    PROVE  IInv'
<1>1. /\ run # NoRun /\ run' = NoRun /\ UNCHANGED <<chain, chain_bps>>
      /\ trade' = [trade EXCEPT ![run.trade] = Mark("landed")]
  BY DEF Commit
<1>2. run.trade \in Trades /\ Mark("landed") \in Marks
  BY <1>1, TxFacts, MarkStatus
<1> QED  BY <1>1, <1>2, TypeParts, IdleStep

(* A transaction fails and leaves the chain as it was.                      *)
LEMMA FailKeeps ==
    ASSUME IInv, Fail
    PROVE  IInv'
<1>1. /\ run' = NoRun /\ UNCHANGED chain_bps /\ chain' = run.saved
      /\ trade' = [trade EXCEPT ![run.trade] = Mark("failed")]
  BY DEF Fail
<1>2. run # NoRun
  BY DEF Fail, missing_account, cannot_proceed, settling, routing
<1>3. run.trade \in Trades /\ Mark("failed") \in Marks /\ Sound(run.saved)
  BY <1>2, TxFacts, MarkStatus
<1> QED  BY <1>1, <1>3, TypeParts, IdleStep

(* What was built says nothing about its status. *)
LEMMA StartedIsWell ==
    ASSUME NEW b \in Built, WellBuilt(b)
    PROVE  LET c == [b EXCEPT !.status = "running"]
           IN  /\ c \in Built /\ c.status = "running" /\ WellBuilt(c)
<1> DEFINE c == [b EXCEPT !.status = "running"]
<1>1. c \in Built /\ c.status = "running"
  BY DEF Built
<1>2. /\ c.order = b.order /\ c.amount_in = b.amount_in
      /\ c.min_out = b.min_out /\ c.legs = b.legs /\ c.ixs = b.ixs
  BY DEF Built
<1> HIDE DEF c
<1>3. WellBuilt(c)
  BY <1>2 DEF WellBuilt
<1> QED  BY <1>1, <1>3 DEF c

(* A transaction begins.                                                    *)
LEMMA BeginKeeps ==
    ASSUME IInv, NEW t \in Trades, Begin(t)
    PROVE  IInv'
<1> DEFINE c == [trade[t] EXCEPT !.status = "running"]
<1>1. /\ run = NoRun /\ trade[t].status = "built"
      /\ run' = [ trade |-> t, pc |-> 1, leg |-> 0, taken |-> 0,
                  saved |-> chain, before |-> chain ]
      /\ trade' = [trade EXCEPT ![t] = c]
      /\ UNCHANGED <<chain, chain_bps>>
  BY DEF Begin
<1>2. trade[t] \in Built /\ WellBuilt(trade[t])
  BY <1>1, BuiltStatus DEF IInv
<1>3. c \in Built /\ c.status = "running" /\ WellBuilt(c)
  BY <1>2, StartedIsWell
<1> HIDE DEF c
<1>4. /\ trade' \in [Trades -> Built \cup Marks] /\ trade'[t] = c
      /\ \A u \in Trades \ {t} : trade'[u] = trade[u]
  BY <1>1, <1>3, TypeParts
<1>5. /\ run' \in Running /\ run'.trade = t /\ run'.pc = 1 /\ run'.leg = 0
      /\ run'.taken = 0 /\ run'.saved = chain
  <2>1. chain \in ChainState
    BY TypeParts DEF Sound
  <2> QED  BY <1>1, <2>1 DEF Running
<1>6. TypeOK'
  BY <1>1, <1>3, <1>4, <1>5, TypeParts DEF TypeOK, Marks
<1>7. WellKept'
  BY <1>3, <1>4, TypeParts DEF WellKept
<1>8. RunInv'
  <2>1. tx' = c
    BY <1>4, <1>5 DEF tx
  <2>2. routeAt(tx)' \in Nat \ {0}
    BY <1>3, <2>1, RouteAt
  <2>3. Len(tx.legs)' \in {1, 2}
    BY <1>3, <2>1 DEF WellBuilt
  <2>4. /\ run'.leg \in 0 .. Len(tx.legs)' + 1
        /\ ~(run'.pc > routeAt(tx)') /\ ~(run'.leg > 0)
    BY <1>5, <2>2, <2>3
  <2>5. \A a \in Assets : worth(chain'.bal, a) = worth(run'.saved.bal, a)
    BY <1>1, <1>5
  <2> QED  BY <1>5, <2>4, <2>5 DEF RunInv
<1> QED  BY <1>6, <1>7, <1>8 DEF IInv, WellKept

-----------------------------------------------------------------------------
(* The theorems.                                                            *)

(* IInv holds where nothing has been built.                                 *)
LEMMA Starts ==
    ASSUME Init
    PROVE  IInv
<1>1. /\ chain \in Start /\ chain_bps \in ChainBps /\ run = NoRun
      /\ trade = [t \in Trades |-> Mark("new")]
  BY DEF Init
<1>2. Sound(chain) /\ chain_bps \in Bps
  BY <1>1, SdkTradeConstants
<1>3. Mark("new") \in Marks /\ Mark("new").status \notin {"built", "running"}
  BY MarkStatus
<1>4. TypeOK
  BY <1>1, <1>2, <1>3 DEF TypeOK, Marks
<1> QED  BY <1>1, <1>3, <1>4 DEF IInv, RunInv

(* Every step keeps IInv.                                                   *)
LEMMA Keeps ==
    ASSUME IInv, [Next]_vars
    PROVE  IInv'
<1>1. ASSUME NEW t \in Trades, Build(t) \/ Begin(t) \/ Expire(t)
      PROVE  IInv'
  BY <1>1, BuildKeeps, BeginKeeps, ExpireKeeps
<1>2. ASSUME NEW o \in PreparedOrders, Prepare(o)
      PROVE  IInv'
  BY <1>2, PrepareKeeps
<1>3. ASSUME NEW bps \in ChainBps, SetFee(bps)
      PROVE  IInv'
  BY <1>3, SetFeeKeeps
<1>4. CASE CreateAta
  BY <1>4, CreateAtaKeeps
<1>5. CASE WrapSol
  BY <1>5, WrapSolKeeps
<1>6. CASE PayRouterFee
  BY <1>6, PayRouterFeeKeeps
<1>7. CASE SwapLeg
  BY <1>7, SwapLegKeeps
<1>8. CASE SettleRoute
  BY <1>8, SettleRouteKeeps
<1>9. CASE CloseAta
  BY <1>9, CloseAtaKeeps
<1>10. CASE Commit
  BY <1>10, CommitKeeps
<1>11. CASE Fail
  BY <1>11, FailKeeps
<1>12. CASE UNCHANGED vars
  <2>1. tx' = tx /\ UNCHANGED <<chain, chain_bps, trade, run>>
    BY <1>12 DEF vars, tx
  <2>2. input' = input /\ output' = output /\ checked_fee' = checked_fee
    BY <2>1 DEF input, output, checked_fee
  <2>3. (Balanced(tx)' <=> Balanced(tx)) /\ (Swapping(tx)' <=> Swapping(tx))
    BY <2>1, <2>2 DEF Balanced, Swapping
  <2>4. RunInv'
    BY <2>1, <2>3, TypeParts DEF RunInv
  <2>5. TypeOK' /\ WellKept'
    BY <2>1, TypeParts DEF TypeOK, WellKept, Marks
  <2> QED  BY <2>4, <2>5 DEF IInv, WellKept
<1> QED
  BY <1>1, <1>2, <1>3, <1>4, <1>5, <1>6, <1>7, <1>8, <1>9, <1>10, <1>11,
     <1>12 DEF Next

(* The balances of the user, what is built and the transaction in progress  *)
(* keep their types: no subtraction of a step goes below zero, and an       *)
(* account that does not exist holds nothing.                               *)
THEOREM SdkTypeCorrect == Spec => []TypeOK
<1>1. IInv => TypeOK
  BY DEF IInv
<1> QED  BY <1>1, Starts, Keeps, PTL DEF Spec

(* A transaction about to commit costs at most the caller's amount, brings  *)
(* at least the minimum and takes nothing from other holdings, whatever     *)
(* trades are in flight (buy_with_opts, sell_with_opts, process_inner).     *)
THEOREM Balances == Spec => []TradeBalances
<1>1. ASSUME IInv
      PROVE  TradeBalances
  <2> SUFFICES ASSUME run # NoRun, finished
               PROVE  Balanced(tx)
    BY DEF TradeBalances, Balanced
  <2>1. run.pc > routeAt(tx)
    BY <1>1, IxFacts
  <2> QED  BY <1>1, <2>1 DEF IInv, RunInv
<1> QED  BY <1>1, Starts, Keeps, PTL DEF Spec

(* With the fee rate the client knows and pools that take what they are     *)
(* offered, validate_spend never refuses a trade: the declared input is the *)
(* fee plus what the first leg spends, to the unit.                         *)
THEOREM Settles == Spec => []MatchingFeeSettles
<1>1. ASSUME IInv
      PROVE  MatchingFeeSettles
  <2> SUFFICES ASSUME settling, chain_bps = ClientBps,
                      tx.order.exact_out \/ run.taken = tx.legs[1].amount
               PROVE  settles
    BY DEF MatchingFeeSettles
  <2> DEFINE spent == run.before.bal[input] - chain.bal[input]
  <2>1. /\ run # NoRun
        /\ run.before.bal \in [Assets -> Nat] /\ chain.bal \in [Assets -> Nat]
        /\ spent = checked_fee + run.taken
        /\ run.taken <= tx.legs[1].amount
        /\ chain.bal[output] >= run.before.bal[output] + tx.min_out
    BY <1>1, AtSettlement
  <2>2. /\ input \in Assets /\ output \in Assets /\ checked_fee \in Nat
        /\ run.taken \in Nat /\ tx.amount_in \in Nat /\ tx.min_out \in Nat
        /\ tx.legs[1].amount \in Nat
    <3>1. Len(tx.legs) \in {1, 2} /\ tx.legs[1] \in Leg
      BY <1>1, <2>1, TxFacts
    <3> QED  BY <1>1, <2>1, <3>1, TxFacts DEF Leg
  <2>3. tx.amount_in = checked_fee + tx.legs[1].amount
    <3>1. checked_fee = fee_amount(tx.amount_in, ClientBps)
      BY DEF checked_fee, fee_amount
    <3>2. tx.amount_in - fee_amount(tx.amount_in, ClientBps)
            = tx.legs[1].amount
      BY <1>1, <2>1, LegFacts DEF spend_after_fee
    <3> QED  BY <2>2, <3>1, <3>2
  <2>4. chain.bal[output] - run.before.bal[output] >= tx.min_out
    BY <2>1, <2>2
  <2>5. IF tx.order.exact_out THEN spent \in checked_fee .. tx.amount_in
        ELSE spent = tx.amount_in
    BY <2>1, <2>2, <2>3
  <2> QED  BY <2>4, <2>5 DEF settles
<1> QED  BY <1>1, Starts, Keeps, PTL DEF Spec

-----------------------------------------------------------------------------
(* Where the instructions of a built trade stand.                           *)

(* A sequence of instructions that are all of one kind keeps it when it is  *)
(* joined to another of that kind.                                          *)
LEMMA IfOf ==
    ASSUME NEW S, NEW cond, NEW i, cond => i \in S
    PROVE  If(cond, <<i>>) \in Seq(S)
<1>1. CASE cond
  BY <1>1 DEF If
<1>2. CASE ~cond
  BY <1>2, EmptySeq DEF If
<1> QED  BY <1>1, <1>2

(* The same of one instruction for each of up to three accounts.            *)
LEMMA EachOf ==
    ASSUME NEW S, NEW op, NEW who, NEW set, NEW first, NEW second, NEW third,
           \A a \in {first, second, third} \cap set : Ix(op, who, a, 0) \in S
    PROVE  Each(op, who, set, first, second, third) \in Seq(S)
<1> DEFINE one(a) == If(a \in set, <<Ix(op, who, a, 0)>>)
<1>1. one(first) \in Seq(S) /\ one(second) \in Seq(S) /\ one(third) \in Seq(S)
  BY IfOf
<1> HIDE DEF one
<1>2. one(first) \o one(second) \in Seq(S)
  BY <1>1, ConcatProperties
<1>3. one(first) \o one(second) \o one(third) \in Seq(S)
  BY <1>1, <1>2, ConcatProperties
<1> QED  BY <1>3 DEF Each, one

(* Where the elements of two joined sequences are. *)
LEMMA Joined ==
    ASSUME NEW S, NEW s \in Seq(S), NEW u \in Seq(S)
    PROVE  /\ s \o u \in Seq(S)
           /\ Len(s) \in Nat /\ Len(u) \in Nat
           /\ DOMAIN s = 1 .. Len(s) /\ DOMAIN u = 1 .. Len(u)
           /\ DOMAIN (s \o u) = 1 .. Len(s) + Len(u)
           /\ Len(s \o u) = Len(s) + Len(u)
           /\ \A i \in 1 .. Len(s) : (s \o u)[i] = s[i] /\ s[i] \in S
           /\ \A i \in 1 .. Len(u) : (s \o u)[Len(s) + i] = u[i] /\ u[i] \in S
           /\ \A i \in Len(s) + 1 .. Len(s) + Len(u) :
                 /\ (s \o u)[i] = u[i - Len(s)]
                 /\ i - Len(s) \in 1 .. Len(u)
<1>1. /\ s \o u \in Seq(S) /\ Len(s \o u) = Len(s) + Len(u)
      /\ \A i \in 1 .. Len(s) + Len(u) :
            (s \o u)[i] = IF i <= Len(s) THEN s[i] ELSE u[i - Len(s)]
  BY ConcatProperties
<1>2. /\ Len(s) \in Nat /\ Len(u) \in Nat
      /\ DOMAIN s = 1 .. Len(s) /\ DOMAIN u = 1 .. Len(u)
      /\ DOMAIN (s \o u) = 1 .. Len(s \o u)
  BY <1>1, LenProperties
<1>3. /\ \A i \in 1 .. Len(s) : s[i] \in S
      /\ \A i \in 1 .. Len(u) : u[i] \in S
  BY ElementOfSeq
<1> HIDE DEF Seq
<1>4. \A i \in 1 .. Len(s) : (s \o u)[i] = s[i]
  BY <1>1, <1>2
<1>5. \A i \in 1 .. Len(u) : (s \o u)[Len(s) + i] = u[i]
  <2> SUFFICES ASSUME NEW i \in 1 .. Len(u)
               PROVE  (s \o u)[Len(s) + i] = u[i]
    OBVIOUS
  <2>1. Len(s) + i \in 1 .. Len(s) + Len(u) /\ ~(Len(s) + i <= Len(s))
          /\ (Len(s) + i) - Len(s) = i
    BY <1>2
  <2> QED  BY <1>1, <2>1
<1>6. \A i \in Len(s) + 1 .. Len(s) + Len(u) :
         (s \o u)[i] = u[i - Len(s)] /\ i - Len(s) \in 1 .. Len(u)
  BY <1>1, <1>2
<1> QED  BY <1>1, <1>2, <1>3, <1>4, <1>5, <1>6

(* No two instructions of the sequence are for the same asset. *)
Apart(s) ==
    \A i, j \in DOMAIN s : s[i].asset = s[j].asset => i = j

(* Two sequences about different assets, each naming an asset once.         *)
LEMMA ApartJoined ==
    ASSUME NEW A, NEW B, A \cap B = {},
           NEW s \in Seq({i \in Instruction : i.asset \in A}), Apart(s),
           NEW u \in Seq({i \in Instruction : i.asset \in B}), Apart(u)
    PROVE  Apart(s \o u)
<1>1. s \in Seq(Instruction) /\ u \in Seq(Instruction)
  BY SeqMonotonic
<1>2. /\ \A i \in 1 .. Len(s) : s[i].asset \in A
      /\ \A i \in 1 .. Len(u) : u[i].asset \in B
  BY ElementOfSeq
<1>3. /\ Len(s) \in Nat /\ Len(u) \in Nat
      /\ DOMAIN s = 1 .. Len(s) /\ DOMAIN u = 1 .. Len(u)
      /\ DOMAIN (s \o u) = 1 .. Len(s) + Len(u)
      /\ \A i \in 1 .. Len(s) : (s \o u)[i] = s[i]
      /\ \A i \in Len(s) + 1 .. Len(s) + Len(u) :
            (s \o u)[i] = u[i - Len(s)] /\ i - Len(s) \in 1 .. Len(u)
  BY <1>1, Joined
<1> SUFFICES ASSUME NEW i \in 1 .. Len(s) + Len(u), NEW j \in 1 .. Len(s) + Len(u),
                    (s \o u)[i].asset = (s \o u)[j].asset
             PROVE  i = j
  BY <1>3 DEF Apart
<1>4. CASE i <= Len(s) /\ j <= Len(s)
  BY <1>3, <1>4 DEF Apart
<1>5. CASE i > Len(s) /\ j > Len(s)
  <2>1. i - Len(s) \in DOMAIN u /\ j - Len(s) \in DOMAIN u
          /\ u[i - Len(s)].asset = u[j - Len(s)].asset
    BY <1>3, <1>5
  <2>2. i - Len(s) = j - Len(s)
    BY <2>1 DEF Apart
  <2> QED  BY <1>3, <2>2
<1>6. CASE i <= Len(s) /\ j > Len(s)
  <2>1. (s \o u)[i].asset \in A /\ (s \o u)[j].asset \in B
    BY <1>2, <1>3, <1>6
  <2> QED  BY <2>1
<1>7. CASE i > Len(s) /\ j <= Len(s)
  <2>1. (s \o u)[i].asset \in B /\ (s \o u)[j].asset \in A
    BY <1>2, <1>3, <1>7
  <2> QED  BY <2>1
<1> QED  BY <1>3, <1>4, <1>5, <1>6, <1>7

Creating == {i \in Instruction : i.op = "create"}

Wrapping(o, n) ==
    {i \in Instruction : i.op = "wrap" /\ wraps(o) /\ i.amount = n}

Closing(o) == {i \in Instruction : i.op = "close" /\ i.asset \in touched(o)}

(* AtaPolicy::build_cleanup closes accounts the trade touches, each once. *)
LEMMA CleanupPlaced ==
    ASSUME NEW o \in Order
    PROVE  cleanup(o) \in Seq(Closing(o)) /\ Apart(cleanup(o))
<1> DEFINE set == closes(o) \cap touched(o)
           one(a) == If(a \in set, <<Ix("close", "user", a, 0)>>)
           Of(A) == {i \in Instruction : i.asset \in A}
<1>1. \A a \in {"wsol", "quote", "meme"} \cap set :
         Ix("close", "user", a, 0) \in Closing(o)
  BY DEF Ix, Closing, Instruction, Tokens
<1>2. cleanup(o) \in Seq(Closing(o))
  <2>1. Each("close", "user", set, "wsol", "quote", "meme") \in Seq(Closing(o))
    <3> HIDE DEF set
    <3> QED  BY <1>1, EachOf
  <2> QED  BY <2>1 DEF cleanup
<1>3. \A a \in Tokens : Ix("close", "user", a, 0) \in Of({a})
  BY DEF Ix, Instruction
<1>4. \A a \in Tokens : one(a) \in Seq(Of({a})) /\ Apart(one(a))
  <2> SUFFICES ASSUME NEW a \in Tokens
               PROVE  one(a) \in Seq(Of({a})) /\ Apart(one(a))
    OBVIOUS
  <2>1. one(a) \in Seq(Of({a}))
    <3> HIDE DEF set, Of
    <3> QED  BY <1>3, IfOf
  <2>2. one(a) = <<>> \/ one(a) = <<Ix("close", "user", a, 0)>>
    BY DEF If
  <2>3. \A i, j \in DOMAIN one(a) : i = j
    BY <2>2
  <2> QED  BY <2>1, <2>3 DEF Apart
<1>5. {"wsol", "quote", "meme"} \subseteq Tokens
  BY DEF Tokens
<1>6. /\ one("wsol") \in Seq(Of({"wsol"})) /\ Apart(one("wsol"))
      /\ one("quote") \in Seq(Of({"quote"})) /\ Apart(one("quote"))
      /\ one("meme") \in Seq(Of({"meme"})) /\ Apart(one("meme"))
  BY <1>4, <1>5
<1> HIDE DEF one, set
<1>7. Apart(one("wsol") \o one("quote"))
  <2>1. {"wsol"} \cap {"quote"} = {}
    OBVIOUS
  <2>2. /\ one("wsol") \in Seq({i \in Instruction : i.asset \in {"wsol"}})
        /\ one("quote") \in Seq({i \in Instruction : i.asset \in {"quote"}})
        /\ Apart(one("wsol")) /\ Apart(one("quote"))
    BY <1>6
  <2> HIDE DEF Of
  <2> QED  BY <2>1, <2>2, ApartJoined
<1>8. one("wsol") \o one("quote") \in Seq(Of({"wsol", "quote"}))
  <2>1. /\ one("wsol") \in Seq(Of({"wsol", "quote"}))
        /\ one("quote") \in Seq(Of({"wsol", "quote"}))
    <3>1. /\ Of({"wsol"}) \subseteq Of({"wsol", "quote"})
          /\ Of({"quote"}) \subseteq Of({"wsol", "quote"})
      OBVIOUS
    <3> HIDE DEF Of
    <3> QED  BY <1>6, <3>1, SeqMonotonic
  <2> QED  BY <2>1, ConcatProperties
<1>9. Apart(one("wsol") \o one("quote") \o one("meme"))
  <2>1. {"wsol", "quote"} \cap {"meme"} = {}
    OBVIOUS
  <2> QED  BY <1>6, <1>7, <1>8, <2>1, ApartJoined
<1> QED  BY <1>2, <1>9 DEF cleanup, Each, one, set

(* The instructions before the route: accounts, one wrap of what the route  *)
(* declares if SOL pays for a WSOL leg, and the meme account of a buy.      *)
LEMMA SetupPlaced ==
    ASSUME NEW o \in Order, NEW n \in Nat
    PROVE  LET s == setup(o, n)
           IN  /\ s \in Seq(Creating \cup Wrapping(o, n))
               /\ \A i, j \in DOMAIN s :
                     s[i].op = "wrap" /\ s[j].op = "wrap" => i = j
               /\ o.side = "buy" /\ "meme" \in creates(o)
                     => \E i \in DOMAIN s : makes(s[i], "meme")
<1> DEFINE user == (IF o.side = "sell" THEN touched(o) \ {"meme"} ELSE touched(o))
           set == creates(o) \cap user
           own == Each("create", "user", set, "meme", "wsol", "quote")
           w == Ix("wrap", "user", "wsol", n)
           wrap == If(wraps(o), <<w>>)
           fee == fee_amount(o.amount_in, ClientBps)
           made == fee_asset(o) \in Tokens
                      /\ (fee > 0 \/ fee_asset(o) \in creates(o))
           r == Ix("create", "recipient", fee_asset(o), 0)
           theirs == If(made, <<r>>)
           All == Creating \cup Wrapping(o, n)
<1>1. setup(o, n) = own \o wrap \o theirs
  BY DEF setup, wrapped
<1>2. own \in Seq(Creating)
  <2>1. \A a \in {"meme", "wsol", "quote"} \cap set :
           Ix("create", "user", a, 0) \in Creating
    BY DEF Ix, Creating, Instruction, Tokens
  <2> HIDE DEF set
  <2> QED  BY <2>1, EachOf
<1>3. wrap \in Seq(Wrapping(o, n))
  <2>1. wraps(o) => w \in Wrapping(o, n)
    BY DEF Ix, Wrapping, Instruction, Tokens
  <2> HIDE DEF w
  <2> QED  BY <2>1, IfOf
<1>4. theirs \in Seq(Creating)
  <2>1. made => r \in Creating
    BY DEF Ix, Creating, Instruction
  <2> HIDE DEF r, made
  <2> QED  BY <2>1, IfOf
<1>5. o.side = "buy" /\ "meme" \in creates(o)
         => \E i \in DOMAIN own : makes(own[i], "meme")
  <2> SUFFICES ASSUME o.side = "buy", "meme" \in creates(o)
               PROVE  \E i \in DOMAIN own : makes(own[i], "meme")
    OBVIOUS
  <2> DEFINE one(a) == If(a \in set, <<Ix("create", "user", a, 0)>>)
             x == Ix("create", "user", "meme", 0)
  <2>1. "meme" \in set
    BY DEF touched
  <2>2. one("meme") = <<x>>
    BY <2>1 DEF If
  <2>3. \A a \in Tokens : one(a) \in Seq(Creating)
    <3>1. \A a \in Tokens : Ix("create", "user", a, 0) \in Creating
      BY DEF Ix, Creating, Instruction
    <3> HIDE DEF set
    <3> QED  BY <3>1, IfOf
  <2>4. own = one("meme") \o one("wsol") \o one("quote")
    BY DEF Each
  <2>5. /\ one("meme") \in Seq(Creating) /\ one("wsol") \in Seq(Creating)
        /\ one("quote") \in Seq(Creating)
    BY <2>3 DEF Tokens
  <2>6. Len(one("meme")) = 1 /\ one("meme")[1] = x
    BY <2>2
  <2> HIDE DEF one, x, set
  <2>7. /\ one("meme") \o one("wsol") \in Seq(Creating)
        /\ Len(one("meme") \o one("wsol")) >= 1
        /\ (one("meme") \o one("wsol"))[1] = x
    <3>1. /\ one("meme") \o one("wsol") \in Seq(Creating)
          /\ Len(one("meme") \o one("wsol")) = 1 + Len(one("wsol"))
          /\ Len(one("wsol")) \in Nat
          /\ (one("meme") \o one("wsol"))[1] = x
      BY <2>5, <2>6, Joined
    <3> QED  BY <3>1
  <2>8. 1 \in DOMAIN own /\ own[1] = x
    <3> DEFINE head == one("meme") \o one("wsol")
    <3>1. head \in Seq(Creating) /\ Len(head) >= 1 /\ head[1] = x
      BY <2>7
    <3> HIDE DEF head
    <3>2. /\ Len(head) \in Nat /\ Len(one("quote")) \in Nat
          /\ DOMAIN (head \o one("quote")) = 1 .. Len(head) + Len(one("quote"))
          /\ \A i \in 1 .. Len(head) : (head \o one("quote"))[i] = head[i]
      BY <2>5, <3>1, Joined
    <3> QED  BY <2>4, <3>1, <3>2 DEF head
  <2>9. makes(x, "meme")
    BY DEF makes, Ix, x
  <2> QED  BY <2>8, <2>9
<1> HIDE DEF own, theirs
<1>6. Creating \subseteq All /\ Wrapping(o, n) \subseteq All
  OBVIOUS
<1> HIDE DEF All
<1>7. own \in Seq(All) /\ wrap \in Seq(All) /\ theirs \in Seq(All)
  BY <1>2, <1>3, <1>4, <1>6, SeqMonotonic
<1> DEFINE head == own \o wrap
<1>8. /\ head \in Seq(All) /\ Len(own) \in Nat /\ Len(wrap) \in Nat
      /\ DOMAIN own = 1 .. Len(own)
      /\ Len(head) = Len(own) + Len(wrap)
      /\ \A i \in 1 .. Len(own) : head[i] = own[i]
      /\ \A i \in Len(own) + 1 .. Len(own) + Len(wrap) :
            head[i] = wrap[i - Len(own)]
  BY <1>7, Joined
<1>9. /\ head \o theirs \in Seq(All) /\ Len(theirs) \in Nat
      /\ DOMAIN (head \o theirs) = 1 .. Len(head) + Len(theirs)
      /\ \A i \in 1 .. Len(head) : (head \o theirs)[i] = head[i]
      /\ \A i \in Len(head) + 1 .. Len(head) + Len(theirs) :
            /\ (head \o theirs)[i] = theirs[i - Len(head)]
            /\ i - Len(head) \in 1 .. Len(theirs)
  <2>1. head \in Seq(All)
    BY <1>8
  <2> HIDE DEF head
  <2> QED  BY <1>7, <2>1, Joined
<1>10. Len(wrap) <= 1
  BY DEF If
<1> DEFINE s == head \o theirs
<1>11. \A i \in DOMAIN s : s[i].op = "wrap" => i = Len(own) + 1
  <2> SUFFICES ASSUME NEW i \in DOMAIN s, i # Len(own) + 1
               PROVE  s[i].op # "wrap"
    OBVIOUS
  <2>1. i \in Int /\ i >= 1 /\ i <= Len(head) + Len(theirs) /\ Len(head) \in Nat
    BY <1>8, <1>9
  <2>2. CASE i <= Len(own)
    <3>1. i \in 1 .. Len(own) /\ i \in 1 .. Len(head)
      BY <1>8, <2>1, <2>2
    <3>2. s[i] = own[i]
      BY <1>8, <1>9, <3>1
    <3>3. own[i] \in Creating
      BY <1>2, <3>1, ElementOfSeq
    <3> QED  BY <3>2, <3>3 DEF Creating
  <2>3. CASE i > Len(own)
    <3>1. i \in Len(head) + 1 .. Len(head) + Len(theirs)
      BY <1>8, <1>10, <2>1, <2>3
    <3>2. s[i] = theirs[i - Len(head)] /\ i - Len(head) \in 1 .. Len(theirs)
      BY <1>9, <3>1
    <3>3. theirs[i - Len(head)] \in Creating
      BY <1>4, <3>2, ElementOfSeq
    <3> QED  BY <3>2, <3>3 DEF Creating
  <2>4. Len(own) \in Nat
    BY <1>8
  <2>5. i <= Len(own) \/ i > Len(own)
    BY <2>1, <2>4
  <2> QED  BY <2>2, <2>3, <2>5
<1>12. (\E i \in DOMAIN own : makes(own[i], "meme"))
          => \E i \in DOMAIN s : makes(s[i], "meme")
  <2> SUFFICES ASSUME NEW i \in DOMAIN own, makes(own[i], "meme")
               PROVE  \E j \in DOMAIN s : makes(s[j], "meme")
    OBVIOUS
  <2>1. i \in 1 .. Len(head) /\ i \in DOMAIN s
    BY <1>8, <1>9
  <2>2. s[i] = own[i]
    BY <1>8, <1>9, <2>1
  <2> QED  BY <2>1, <2>2
<1>13. s = setup(o, n)
  BY <1>1
<1> HIDE DEF s, head
<1> QED  BY <1>5, <1>9, <1>11, <1>12, <1>13 DEF s, All

(* The legs of a trade use native SOL and accounts the trade touches.       *)
LEMMA LegsTouch ==
    ASSUME NEW o \in Order, NEW swap_spent \in Nat, NEW quoted \in Nat,
           NEW min_out \in Nat
    PROVE  LET ls == legs(o, swap_spent, quoted, min_out)
           IN  /\ \A n \in DOMAIN ls :
                     /\ {ls[n].input, ls[n].output} \subseteq {"sol"} \cup touched(o)
                     /\ o.side = "buy" => ls[n].output # "wsol"
               /\ ls[1].input \in {"sol"} \cup prepared_recipient(o)
               /\ wraps(o) => ls[1].input = "wsol"
<1> DEFINE ls == legs(o, swap_spent, quoted, min_out)
           s == settled_asset(o)
<1>1. /\ o.side \in {"buy", "sell"}
      /\ ~(o.market.native /\ o.market.stock)
      /\ s \in Assets /\ touched(o) = {"meme"} \cup ({s} \cap Tokens)
                             \cup (IF needs_sol_bridge(o) THEN {"quote"} ELSE {})
      /\ wraps(o) => s = "wsol" /\ o.side = "buy"
  BY SettledType DEF Order, Market, touched, wraps, settled_asset
<1>2. needs_sol_bridge(o) => s = "wsol"
  <2>1. CASE o.market.native
    BY <1>1, <2>1 DEF needs_sol_bridge
  <2>2. CASE ~o.market.native
    BY <2>2 DEF needs_sol_bridge, settled_asset, Cash
  <2> QED  BY <2>1, <2>2
<1>3. Assets = {"sol", "wsol", "quote", "meme"}
        /\ Tokens = {"wsol", "quote", "meme"}
  BY DEF Assets, Tokens
<1>4. prepared_recipient(o) = IF o.side = "sell" THEN {"meme"} ELSE {s} \cap Tokens
  BY DEF prepared_recipient
<1> DEFINE uses(n, in, out) == ls[n].input = in /\ ls[n].output = out
           touch(n) == ls[n].input \in {"sol"} \cup touched(o)
                          /\ ls[n].output \in {"sol"} \cup touched(o)
                          /\ (o.side = "buy" => ls[n].output # "wsol")
           ends == /\ ls[1].input \in {"sol"} \cup prepared_recipient(o)
                   /\ wraps(o) => ls[1].input = "wsol"
<1>5. CASE needs_sol_bridge(o) /\ o.side = "buy"
  <2>1. ls = <<NewLeg("wsol", "quote", swap_spent, quoted),
               NewLeg("quote", "meme", quoted, min_out)>>
    BY <1>5 DEF legs, build_buy_legs, bridged_buy_legs,
                bridge_intermediate_min_out
  <2>2. DOMAIN ls = {1, 2} /\ uses(1, "wsol", "quote") /\ uses(2, "quote", "meme")
    BY <2>1 DEF NewLeg
  <2> HIDE DEF ls, s
  <2>3. \A n \in DOMAIN ls : touch(n)
    BY <1>1, <1>2, <1>3, <1>5, <2>2
  <2>4. ends
    BY <1>1, <1>2, <1>3, <1>4, <1>5, <2>2
  <2> QED  BY <2>3, <2>4 DEF ls
<1>6. CASE needs_sol_bridge(o) /\ o.side = "sell"
  <2>1. ls = <<NewLeg("meme", "quote", swap_spent, quoted),
               NewLeg("quote", "wsol", quoted, min_out)>>
    BY <1>6 DEF legs, build_sell_legs, bridged_sell_legs,
                bridge_intermediate_min_out
  <2>2. DOMAIN ls = {1, 2} /\ uses(1, "meme", "quote") /\ uses(2, "quote", "wsol")
    BY <2>1 DEF NewLeg
  <2> HIDE DEF ls, s
  <2>3. \A n \in DOMAIN ls : touch(n)
    BY <1>1, <1>2, <1>3, <1>6, <2>2
  <2>4. ends
    BY <1>1, <1>2, <1>3, <1>4, <1>6, <2>2
  <2> QED  BY <2>3, <2>4 DEF ls
<1>7. CASE ~needs_sol_bridge(o) /\ o.side = "buy"
  <2>1. ls = <<NewLeg(s, "meme", swap_spent, min_out)>>
    BY <1>7 DEF legs, build_buy_legs
  <2>2. DOMAIN ls = {1} /\ uses(1, s, "meme")
    BY <2>1 DEF NewLeg
  <2> HIDE DEF ls, s
  <2>3. \A n \in DOMAIN ls : touch(n)
    BY <1>1, <1>2, <1>3, <1>7, <2>2
  <2>4. ends
    BY <1>1, <1>2, <1>3, <1>4, <1>7, <2>2
  <2> QED  BY <2>3, <2>4 DEF ls
<1>8. CASE ~needs_sol_bridge(o) /\ o.side = "sell"
  <2>1. ls = <<NewLeg("meme", s, swap_spent, min_out)>>
    BY <1>8 DEF legs, build_sell_legs
  <2>2. DOMAIN ls = {1} /\ uses(1, "meme", s)
    BY <2>1 DEF NewLeg
  <2> HIDE DEF ls, s
  <2>3. \A n \in DOMAIN ls : touch(n)
    BY <1>1, <1>2, <1>3, <1>8, <2>2
  <2>4. ends
    BY <1>1, <1>2, <1>3, <1>4, <1>8, <2>2
  <2> QED  BY <2>3, <2>4 DEF ls
<1> QED  BY <1>1, <1>5, <1>6, <1>7, <1>8

(* buy_with_opts and sell_with_opts order the instructions: accounts and    *)
(* one wrap, the route, closings.                                           *)
LEMMA BuiltIsOrdered ==
    ASSUME NEW o \in Orders, NEW quoted \in Hops, NEW min_out \in MinOuts,
           NEW swap_spent \in 1 .. spend_after_fee(o.amount_in, ClientBps)
    PROVE  WellOrdered(BuiltTrade(o, swap_spent, quoted, min_out))
<1> DEFINE n == route_amount_in(o, swap_spent)
           ls == legs(o, swap_spent, quoted, min_out)
           head == setup(o, n)
           tail == cleanup(o)
           ixs == head \o <<RouteIx>> \o tail
           b == BuiltTrade(o, swap_spent, quoted, min_out)
<1>1. /\ o \in Order /\ quoted \in Nat /\ min_out \in Nat
      /\ ClientBps \in Bps /\ o.amount_in \in Nat \ {0}
  BY SdkTradeConstants DEF Order
<1>2. swap_spent \in Nat
  BY <1>1, SomethingIsLeft
<1>3. /\ b \in Built /\ WellBuilt(b) /\ b.order = o /\ b.amount_in = n
      /\ b.legs = ls /\ b.ixs = ixs
  BY BuiltIsWell DEF BuiltTrade
<1>4. n \in Nat
  BY <1>3 DEF Built
<1>5. /\ head \in Seq(Creating \cup Wrapping(o, n))
      /\ \A i, j \in DOMAIN head :
            head[i].op = "wrap" /\ head[j].op = "wrap" => i = j
      /\ o.side = "buy" /\ "meme" \in creates(o)
            => \E i \in DOMAIN head : makes(head[i], "meme")
      /\ tail \in Seq(Closing(o)) /\ Apart(tail)
  BY <1>1, <1>4, SetupPlaced, CleanupPlaced
<1>6. /\ \A k \in DOMAIN ls :
            /\ {ls[k].input, ls[k].output} \subseteq {"sol"} \cup touched(o)
            /\ o.side = "buy" => ls[k].output # "wsol"
      /\ ls[1].input \in {"sol"} \cup prepared_recipient(o)
      /\ wraps(o) => ls[1].input = "wsol"
  BY <1>1, <1>2, LegsTouch
<1> HIDE DEF b, ls, n, head, tail
<1> DEFINE lh == Len(head)
           lt == Len(tail)
<1>7. /\ lh \in Nat /\ lt \in Nat
      /\ DOMAIN head = 1 .. lh /\ DOMAIN tail = 1 .. lt
      /\ DOMAIN ixs = 1 .. lh + 1 + lt
      /\ \A i \in 1 .. lh : ixs[i] = head[i]
      /\ ixs[lh + 1] = RouteIx
      /\ \A i \in lh + 2 .. lh + 1 + lt :
            ixs[i] = tail[i - (lh + 1)] /\ i - (lh + 1) \in 1 .. lt
  <2>1. /\ head \in Seq(Instruction) /\ tail \in Seq(Instruction)
        /\ <<RouteIx>> \in Seq(Instruction)
    <3>1. /\ Creating \cup Wrapping(o, n) \subseteq Instruction
          /\ Closing(o) \subseteq Instruction /\ RouteIx \in Instruction
      BY DEF Creating, Wrapping, Closing, RouteIx, Ix, Instruction, Tokens
    <3> QED  BY <1>5, <3>1, SeqMonotonic
  <2> DEFINE mid == head \o <<RouteIx>>
  <2>2. /\ mid \in Seq(Instruction) /\ Len(mid) = lh + 1 /\ lh \in Nat
        /\ DOMAIN head = 1 .. lh
        /\ \A i \in 1 .. lh : mid[i] = head[i]
        /\ mid[lh + 1] = RouteIx
    <3>1. Len(<<RouteIx>>) = 1 /\ <<RouteIx>>[1] = RouteIx
      OBVIOUS
    <3>2. /\ mid \in Seq(Instruction) /\ Len(mid) = lh + Len(<<RouteIx>>)
          /\ lh \in Nat /\ DOMAIN head = 1 .. lh
          /\ \A i \in 1 .. lh : mid[i] = head[i]
          /\ \A i \in 1 .. Len(<<RouteIx>>) : mid[lh + i] = <<RouteIx>>[i]
      BY <2>1, Joined
    <3> QED  BY <3>1, <3>2
  <2> HIDE DEF mid
  <2>3. /\ lt \in Nat /\ DOMAIN tail = 1 .. lt
        /\ DOMAIN (mid \o tail) = 1 .. Len(mid) + lt
        /\ \A i \in 1 .. Len(mid) : (mid \o tail)[i] = mid[i]
        /\ \A i \in Len(mid) + 1 .. Len(mid) + lt :
              /\ (mid \o tail)[i] = tail[i - Len(mid)]
              /\ i - Len(mid) \in 1 .. lt
    <3> HIDE DEF lt
    <3>1. tail \in Seq(Instruction) /\ mid \in Seq(Instruction)
      BY <2>1, <2>2
    <3>2. /\ Len(tail) \in Nat /\ DOMAIN tail = 1 .. Len(tail)
          /\ DOMAIN (mid \o tail) = 1 .. Len(mid) + Len(tail)
          /\ \A i \in 1 .. Len(mid) : (mid \o tail)[i] = mid[i]
          /\ \A i \in Len(mid) + 1 .. Len(mid) + Len(tail) :
                /\ (mid \o tail)[i] = tail[i - Len(mid)]
                /\ i - Len(mid) \in 1 .. Len(tail)
      BY <3>1, Joined
    <3> QED  BY <3>2 DEF lt
  <2>4. ixs = mid \o tail
    BY DEF mid
  <2> HIDE DEF lh, lt
  <2> QED  BY <2>2, <2>3, <2>4
<1>8. \A i \in 1 .. lh : head[i] \in Creating \cup Wrapping(o, n)
  BY <1>5, ElementOfSeq
<1>9. \A i \in 1 .. lt : tail[i] \in Closing(o)
  BY <1>5, ElementOfSeq
<1>10. routeAt(b) = lh + 1
  <2>1. lh + 1 \in 1 .. Len(b.ixs) /\ b.ixs[lh + 1].op = "route"
    <3>1. DOMAIN b.ixs = 1 .. Len(b.ixs)
      BY <1>3, RouteAt
    <3>2. lh + 1 \in DOMAIN b.ixs
      <4> HIDE DEF lh, lt, ixs
      <4> QED  BY <1>3, <1>7
    <3> QED  BY <1>3, <1>7, <3>1, <3>2 DEF RouteIx, Ix
  <2> QED  BY <1>3, <2>1, RouteAt
<1> HIDE DEF ixs, lh, lt
<1>11. \A i \in DOMAIN ixs :
          /\ i < lh + 1 => i \in 1 .. lh /\ ixs[i] = head[i]
                             /\ ixs[i] \in Creating \cup Wrapping(o, n)
          /\ i > lh + 1 => /\ i - (lh + 1) \in 1 .. lt
                           /\ ixs[i] = tail[i - (lh + 1)]
                           /\ ixs[i] \in Closing(o)
          /\ i = lh + 1 => ixs[i].op = "route"
  BY <1>7, <1>8, <1>9 DEF RouteIx, Ix
<1>12. \A i \in DOMAIN ixs :
          /\ i < lh + 1 => ixs[i].op \in {"create", "wrap"}
          /\ i > lh + 1 => ixs[i].op = "close"
          /\ ixs[i].op = "wrap" => i < lh + 1 /\ wraps(o) /\ ixs[i].amount = n
          /\ ixs[i].op = "close" => i > lh + 1 /\ ixs[i].asset \in touched(o)
  <2> SUFFICES ASSUME NEW i \in DOMAIN ixs
               PROVE  /\ i < lh + 1 => ixs[i].op \in {"create", "wrap"}
                      /\ i > lh + 1 => ixs[i].op = "close"
                      /\ ixs[i].op = "wrap"
                            => i < lh + 1 /\ wraps(o) /\ ixs[i].amount = n
                      /\ ixs[i].op = "close"
                            => i > lh + 1 /\ ixs[i].asset \in touched(o)
    OBVIOUS
  <2>1. i < lh + 1 \/ i = lh + 1 \/ i > lh + 1
    BY <1>7
  <2>2. CASE i < lh + 1
    BY <1>7, <1>11, <2>2 DEF Creating, Wrapping
  <2>3. CASE i = lh + 1
    BY <1>7, <1>11, <2>3
  <2>4. CASE i > lh + 1
    BY <1>7, <1>11, <2>4 DEF Closing
  <2> QED  BY <2>1, <2>2, <2>3, <2>4
<1>13. \A i, j \in DOMAIN ixs :
          ixs[i].op = "wrap" /\ ixs[j].op = "wrap" => i = j
  BY <1>5, <1>7, <1>11, <1>12
<1>14. \A i, j \in DOMAIN ixs :
          /\ ixs[i].op = "close" /\ ixs[j].op = "close"
          /\ ixs[i].asset = ixs[j].asset
          => i = j
  <2> SUFFICES ASSUME NEW i \in DOMAIN ixs, NEW j \in DOMAIN ixs,
                      ixs[i].op = "close", ixs[j].op = "close",
                      ixs[i].asset = ixs[j].asset
               PROVE  i = j
    OBVIOUS
  <2>1. i > lh + 1 /\ j > lh + 1
    BY <1>12
  <2>2. /\ i - (lh + 1) \in DOMAIN tail /\ j - (lh + 1) \in DOMAIN tail
        /\ tail[i - (lh + 1)].asset = tail[j - (lh + 1)].asset
    BY <1>7, <1>11, <2>1
  <2>3. i - (lh + 1) = j - (lh + 1)
    BY <1>5, <2>2 DEF Apart
  <2> QED  BY <1>7, <2>3
<1>15. o.side = "buy" /\ "meme" \in creates(o)
          => \E i \in DOMAIN ixs : i < lh + 1 /\ makes(ixs[i], "meme")
  <2> SUFFICES ASSUME NEW i \in DOMAIN head, makes(head[i], "meme")
               PROVE  \E j \in DOMAIN ixs : j < lh + 1 /\ makes(ixs[j], "meme")
    BY <1>5
  <2>1. i \in DOMAIN ixs /\ i < lh + 1 /\ ixs[i] = head[i]
    BY <1>7
  <2> QED  BY <2>1
<1> QED
  BY <1>3, <1>6, <1>10, <1>12, <1>13, <1>14, <1>15 DEF WellOrdered, b

-----------------------------------------------------------------------------
(* What the steps do to the accounts, and to a buyer's WSOL.                *)

OrderedKept ==
    \A t \in Trades :
        trade[t].status \in {"built", "running"} => WellOrdered(trade[t])

RunKept == AccountsKept /\ WrappedIsSpent(tx)

(* What AccountsInv says of the transaction in progress.                    *)
LEMMA AccountsParts ==
    ASSUME IInv, AccountsInv, run # NoRun
    PROVE  WellOrdered(tx) /\ AccountsKept /\ WrappedIsSpent(tx) /\ OrderedKept
<1>1. run.trade \in Trades /\ tx.status = "running"
  BY TxFacts
<1> QED  BY <1>1 DEF AccountsInv, OrderedKept, tx

(* Where the instruction that is next stands. *)
LEMMA IxStands ==
    ASSUME IInv, AccountsInv, run # NoRun, ~finished
    PROVE  /\ run.pc \in DOMAIN tx.ixs /\ ix = tx.ixs[run.pc]
           /\ run.pc \in Nat \ {0} /\ routeAt(tx) \in Nat \ {0}
           /\ ix.op \in {"create", "wrap"} => run.pc < routeAt(tx)
           /\ ix.op = "close" => run.pc > routeAt(tx)
           /\ ix.op = "route" <=> run.pc = routeAt(tx)
           /\ \A i \in 1 .. run.pc - 1 : i \in DOMAIN tx.ixs
           /\ 1 .. run.pc = (1 .. run.pc - 1) \cup {run.pc}
           /\ run.pc \notin 1 .. run.pc - 1
<1>1. run.pc \in Nat \ {0} /\ tx \in Built /\ WellBuilt(tx)
  BY TxFacts
<1>2. routeAt(tx) \in Nat \ {0} /\ (ix.op = "route" <=> run.pc = routeAt(tx))
  BY IxFacts
<1>3. Len(tx.ixs) \in Nat /\ DOMAIN tx.ixs = 1 .. Len(tx.ixs)
  BY <1>1, RouteAt
<1>4. run.pc \in DOMAIN tx.ixs /\ \A i \in 1 .. run.pc - 1 : i \in DOMAIN tx.ixs
  BY <1>1, <1>3 DEF finished
<1>5. /\ run.pc < routeAt(tx) => ix.op \in {"create", "wrap"}
      /\ run.pc > routeAt(tx) => ix.op = "close"
  BY <1>4, AccountsParts DEF WellOrdered, ix
<1>6. /\ ix.op \in {"create", "wrap"} => run.pc < routeAt(tx)
      /\ ix.op = "close" => run.pc > routeAt(tx)
  BY <1>1, <1>2, <1>5
<1>7. /\ 1 .. run.pc = (1 .. run.pc - 1) \cup {run.pc}
      /\ run.pc \notin 1 .. run.pc - 1
  BY <1>1
<1> QED  BY <1>1, <1>2, <1>4, <1>6, <1>7 DEF ix

(* What an instruction leaves of the run.                                   *)
LEMMA NextIxParts ==
    ASSUME IInv, run # NoRun, NEW c, Sound(c), NextIx(c)
    PROVE  /\ chain' = c /\ run'.pc = run.pc + 1 /\ run'.pc - 1 = run.pc
           /\ run'.saved = run.saved /\ run'.before = run.before
           /\ run'.leg = run.leg /\ run'.trade = run.trade
           /\ tx' = tx /\ input' = input
<1>1. /\ run \in Running /\ run.pc \in Nat
  BY TxFacts
<1>2. run' = [run EXCEPT !.pc = @ + 1] /\ chain' = c
        /\ UNCHANGED <<chain_bps, trade>>
  BY DEF NextIx
<1>3. /\ run' \in Running /\ run'.saved = run.saved /\ run'.before = run.before
      /\ run'.trade = run.trade /\ run'.pc = run.pc + 1
      /\ run'.leg = run.leg
  BY <1>1, <1>2 DEF Running
<1>4. tx' = tx /\ input' = input
  BY <1>2, <1>3, RunStep
<1>5. run'.pc - 1 = run.pc
  BY <1>1, <1>3
<1> QED  BY <1>2, <1>3, <1>4, <1>5

(* An instruction leaves the accounts it does not close, and makes the one  *)
(* it is asked for.                                                         *)
LEMMA AccountsStep ==
    ASSUME IInv, AccountsInv, run # NoRun, ~finished,
           NEW c, Sound(c), NextIx(c), chain.recipient \subseteq c.recipient,
           \A a \in Tokens : makes(ix, a) => a \in c.open,
           \A a \in chain.open : ~shuts(ix, a) => a \in c.open
    PROVE  AccountsKept'
<1>1. /\ chain' = c /\ run'.pc - 1 = run.pc /\ run'.saved = run.saved
      /\ tx' = tx
  BY NextIxParts
<1>2. /\ run.saved.recipient \subseteq chain.recipient
      /\ \A a \in Tokens :
            /\ \/ a \in run.saved.open
               \/ \E i \in 1 .. run.pc - 1 : makes(tx.ixs[i], a)
            /\ \A i \in 1 .. run.pc - 1 : ~shuts(tx.ixs[i], a)
            => a \in chain.open
  BY AccountsParts DEF AccountsKept
<1>3. 1 .. run.pc = (1 .. run.pc - 1) \cup {run.pc} /\ ix = tx.ixs[run.pc]
  BY IxStands
<1>4. ASSUME NEW a \in Tokens,
             \/ a \in run.saved.open
             \/ \E i \in 1 .. run.pc : makes(tx.ixs[i], a),
             \A i \in 1 .. run.pc : ~shuts(tx.ixs[i], a)
      PROVE  a \in c.open
  <2>1. ~shuts(ix, a) /\ \A i \in 1 .. run.pc - 1 : ~shuts(tx.ixs[i], a)
    BY <1>3, <1>4
  <2>2. CASE makes(ix, a)
    BY <2>2
  <2>3. CASE ~makes(ix, a)
    <3>1. \/ a \in run.saved.open
          \/ \E i \in 1 .. run.pc - 1 : makes(tx.ixs[i], a)
      BY <1>3, <1>4, <2>3
    <3>2. a \in chain.open
      BY <1>2, <2>1, <3>1
    <3> QED  BY <2>1, <3>2
  <2> QED  BY <2>2, <2>3
<1>5. \A a \in Tokens :
         /\ \/ a \in run'.saved.open
            \/ \E i \in 1 .. run'.pc - 1 : makes(tx'.ixs[i], a)
         /\ \A i \in 1 .. run'.pc - 1 : ~shuts(tx'.ixs[i], a)
         => a \in chain'.open
  BY <1>1, <1>4
<1> QED  BY <1>1, <1>2, <1>5 DEF AccountsKept, makes, shuts

(* An account is made: it is there, and no WSOL has moved.                  *)
LEMMA CreateAtaRuns ==
    ASSUME IInv, AccountsInv, CreateAta
    PROVE  RunKept'
<1> DEFINE user == [chain EXCEPT !.open = @ \cup {ix.asset}]
           recipient == [chain EXCEPT !.recipient = @ \cup {ix.asset}]
           c == IF ix.who = "user" THEN user ELSE recipient
<1>1. run # NoRun /\ ~finished /\ ix.op = "create" /\ NextIx(c)
  BY DEF CreateAta
<1>2. /\ c.bal = chain.bal /\ Sound(c) /\ chain.open \subseteq c.open
      /\ chain.recipient \subseteq c.recipient
      /\ ix.who = "user" => ix.asset \in c.open
  <2>1. Sound(chain)
    BY DEF IInv, TypeOK
  <2>2. ix.asset \in Tokens
    BY <1>1, IxFacts DEF Instruction
  <2> QED  BY <2>1, <2>2 DEF Sound, ChainState
<1> HIDE DEF c
<1>3. AccountsKept'
  <2>1. /\ \A a \in Tokens : makes(ix, a) => a \in c.open
        /\ \A a \in chain.open : ~shuts(ix, a) => a \in c.open
    BY <1>2 DEF makes
  <2> QED  BY <1>1, <1>2, <2>1, AccountsStep
<1>4. /\ chain' = c /\ run'.pc = run.pc + 1 /\ run'.pc - 1 = run.pc
      /\ run'.saved = run.saved /\ run'.leg = run.leg /\ tx' = tx
  BY <1>1, <1>2, NextIxParts
<1>5. /\ run.pc \in Nat \ {0} /\ routeAt(tx) \in Nat \ {0}
      /\ run.pc < routeAt(tx) /\ 1 .. run.pc = (1 .. run.pc - 1) \cup {run.pc}
      /\ ix = tx.ixs[run.pc]
  BY <1>1, IxStands
<1>6. run.leg = 0
  BY <1>1, <1>5 DEF IInv, RunInv
<1>7. (\E i \in 1 .. run'.pc - 1 : tx.ixs[i].op = "wrap")
         <=> \E i \in 1 .. run.pc - 1 : tx.ixs[i].op = "wrap"
  BY <1>1, <1>4, <1>5
<1>8. WrappedIsSpent(tx)'
  <2>1. WrappedIsSpent(tx)
    BY <1>1, AccountsParts
  <2>2. ~(run'.pc > routeAt(tx)) /\ run'.leg = 0
    BY <1>4, <1>5, <1>6
  <2>3. tx.order.side = "buy" =>
           chain.bal["wsol"] <= run.saved.bal["wsol"]
              + (IF \E i \in 1 .. run.pc - 1 : tx.ixs[i].op = "wrap"
                 THEN tx.amount_in ELSE 0)
    BY <1>5, <1>6, <2>1 DEF WrappedIsSpent
  <2> QED  BY <1>2, <1>4, <1>7, <2>2, <2>3 DEF WrappedIsSpent
<1> QED  BY <1>3, <1>8 DEF RunKept

(* SOL is wrapped, once, and exactly what the route declares.               *)
LEMMA WrapSolRuns ==
    ASSUME IInv, AccountsInv, WrapSol
    PROVE  RunKept'
<1> DEFINE bal == Move(chain.bal, "sol", "wsol", ix.amount)
           c == [chain EXCEPT !.bal = bal]
<1>1. /\ run # NoRun /\ ~finished /\ ix.op = "wrap" /\ NextIx(c)
      /\ "wsol" \in chain.open /\ ix.amount <= chain.bal["sol"]
  BY DEF WrapSol
<1>2. Sound(chain) /\ Sound(run.saved) /\ ix.amount \in Nat
        /\ tx.amount_in \in Nat
  BY <1>1, IxFacts, TxFacts DEF IInv, TypeOK, Instruction
<1>3. chain.bal \in [Assets -> Nat] /\ run.saved.bal \in [Assets -> Nat]
        /\ "wsol" \in Assets /\ "sol" \in Assets
  BY <1>2, SoundParts DEF Assets, Tokens
<1>4. /\ bal \in [Assets -> Nat]
      /\ \A a \in Assets \ {"sol", "wsol"} : bal[a] = chain.bal[a]
  BY <1>1, <1>2, <1>3, WrapWorth
<1>5. bal["wsol"] = chain.bal["wsol"] + ix.amount
  BY <1>3 DEF Move
<1> HIDE DEF bal
<1>6. /\ c.bal = bal /\ Sound(c) /\ c.open = chain.open
      /\ c.recipient = chain.recipient
  BY <1>1, <1>2, <1>4 DEF Sound, ChainState, Assets, Tokens
<1> HIDE DEF c
<1>7. AccountsKept'
  <2>1. \A a \in Tokens : ~makes(ix, a)
    BY <1>1 DEF makes
  <2> QED  BY <1>1, <1>6, <2>1, AccountsStep
<1>8. /\ chain' = c /\ run'.pc = run.pc + 1 /\ run'.pc - 1 = run.pc
      /\ run'.saved = run.saved /\ run'.leg = run.leg /\ tx' = tx
  BY <1>1, <1>6, NextIxParts
<1>9. /\ run.pc \in DOMAIN tx.ixs
      /\ run.pc \in Nat \ {0} /\ routeAt(tx) \in Nat \ {0}
      /\ run.pc < routeAt(tx) /\ 1 .. run.pc = (1 .. run.pc - 1) \cup {run.pc}
      /\ ix = tx.ixs[run.pc] /\ run.pc \notin 1 .. run.pc - 1
      /\ \A i \in 1 .. run.pc - 1 : i \in DOMAIN tx.ixs
  BY <1>1, IxStands
<1>10. run.leg = 0
  BY <1>1, <1>9 DEF IInv, RunInv
<1>11. /\ ~\E i \in 1 .. run.pc - 1 : tx.ixs[i].op = "wrap"
       /\ \E i \in 1 .. run'.pc - 1 : tx.ixs[i].op = "wrap"
       /\ ix.amount = tx.amount_in
  <2>1. WellOrdered(tx)
    BY <1>1, AccountsParts
  <2>2. ix.amount = tx.amount_in
    BY <1>1, <1>9, <2>1 DEF WellOrdered
  <2>3. \A i \in DOMAIN tx.ixs : tx.ixs[i].op = "wrap" => i = run.pc
    BY <1>1, <1>9, <2>1 DEF WellOrdered
  <2> QED  BY <1>1, <1>8, <1>9, <2>2, <2>3
<1>12. WrappedIsSpent(tx)'
  <2>1. WrappedIsSpent(tx)
    BY <1>1, AccountsParts
  <2>2. ~(run'.pc > routeAt(tx)) /\ run'.leg = 0
    BY <1>8, <1>9, <1>10
  <2>3. tx.order.side = "buy" => chain.bal["wsol"] <= run.saved.bal["wsol"] + 0
    BY <1>9, <1>10, <1>11, <2>1 DEF WrappedIsSpent
  <2>4. tx.order.side = "buy" =>
           c.bal["wsol"] <= run.saved.bal["wsol"] + tx.amount_in
    <3>1. chain.bal["wsol"] \in Nat /\ run.saved.bal["wsol"] \in Nat
      BY <1>3
    <3> QED  BY <1>2, <1>5, <1>6, <1>11, <2>3, <3>1
  <2> QED  BY <1>8, <1>11, <2>2, <2>4 DEF WrappedIsSpent
<1> QED  BY <1>7, <1>12 DEF RunKept

(* An account is closed after the route, and WSOL only goes.                *)
LEMMA CloseAtaRuns ==
    ASSUME IInv, AccountsInv, CloseAta
    PROVE  RunKept'
<1> DEFINE bal == Move(chain.bal, ix.asset, "sol", chain.bal[ix.asset])
           c == [chain EXCEPT !.open = @ \ {ix.asset}, !.bal = bal]
<1>1. /\ run # NoRun /\ ~finished /\ ix.op = "close" /\ NextIx(c)
      /\ ix.asset = "wsol" \/ chain.bal[ix.asset] = 0
  BY DEF CloseAta, closable
<1>2. Sound(chain) /\ Sound(run.saved) /\ ix.asset \in Tokens
  BY <1>1, IxFacts, TxFacts DEF IInv, TypeOK, Instruction
<1>3. chain.bal \in [Assets -> Nat] /\ run.saved.bal \in [Assets -> Nat]
        /\ "wsol" \in Tokens /\ Tokens \subseteq Assets
  BY <1>2, SoundParts DEF Assets, Tokens
<1>4. /\ bal \in [Assets -> Nat] /\ bal[ix.asset] = 0
      /\ \A a \in Tokens \ {ix.asset} : bal[a] = chain.bal[a]
  BY <1>1, <1>2, <1>3, CloseWorth
<1>5. bal["wsol"] <= chain.bal["wsol"]
  <2>1. chain.bal["wsol"] \in Nat
    BY <1>3
  <2> HIDE DEF bal
  <2>2. CASE ix.asset = "wsol"
    BY <1>4, <2>1, <2>2
  <2>3. CASE ix.asset # "wsol"
    BY <1>3, <1>4, <2>1, <2>3
  <2> QED  BY <2>2, <2>3
<1> HIDE DEF bal
<1>6. /\ c.bal = bal /\ Sound(c) /\ c.open = chain.open \ {ix.asset}
      /\ c.recipient = chain.recipient
  BY <1>2, <1>4 DEF Sound, ChainState
<1> HIDE DEF c
<1>7. AccountsKept'
  <2>1. \A a \in Tokens : ~makes(ix, a)
    BY <1>1 DEF makes
  <2>2. \A a \in chain.open : ~shuts(ix, a) => a \in c.open
    BY <1>1, <1>6 DEF shuts
  <2> QED  BY <1>1, <1>6, <2>1, <2>2, AccountsStep
<1>8. /\ chain' = c /\ run'.pc = run.pc + 1
      /\ run'.saved = run.saved /\ run'.leg = run.leg /\ tx' = tx
  BY <1>1, <1>6, NextIxParts
<1>9. /\ run.pc \in Nat \ {0} /\ routeAt(tx) \in Nat \ {0}
      /\ run.pc > routeAt(tx)
  BY <1>1, IxStands
<1>10. WrappedIsSpent(tx)'
  <2>1. tx.order.side = "buy" /\ ~tx.order.exact_out
           => chain.bal["wsol"] <= run.saved.bal["wsol"]
    BY <1>1, <1>9, AccountsParts DEF WrappedIsSpent
  <2>2. tx.order.side = "buy" /\ ~tx.order.exact_out
           => c.bal["wsol"] <= run.saved.bal["wsol"]
    <3>1. /\ chain.bal["wsol"] \in Nat /\ run.saved.bal["wsol"] \in Nat
          /\ bal["wsol"] \in Nat
      BY <1>3, <1>4
    <3> QED  BY <1>5, <1>6, <2>1, <3>1
  <2>3. ~(run'.pc <= routeAt(tx)) /\ run'.pc # routeAt(tx)
    BY <1>8, <1>9
  <2> QED  BY <1>8, <2>2, <2>3 DEF WrappedIsSpent
<1> QED  BY <1>7, <1>10 DEF RunKept

(* A step of the route leaves the accounts as they are. *)
LEMMA AccountsSame ==
    ASSUME AccountsKept, run'.pc = run.pc, run'.saved = run.saved, tx' = tx,
           chain'.open = chain.open, chain'.recipient = chain.recipient
    PROVE  AccountsKept'
BY DEF AccountsKept, makes, shuts

(* The fee of a WSOL leg comes out of what was wrapped.                     *)
LEMMA PayRouterFeeRuns ==
    ASSUME IInv, AccountsInv, PayRouterFee
    PROVE  RunKept'
<1> DEFINE bal == [chain.bal EXCEPT ![input] = @ - checked_fee]
<1>1. /\ routing /\ run # NoRun /\ ~finished /\ ix.op = "route" /\ run.leg = 0
      /\ chain' = [chain EXCEPT !.bal = bal]
      /\ run' = [run EXCEPT !.leg = 1, !.before = chain]
      /\ UNCHANGED <<chain_bps, trade>>
  BY DEF PayRouterFee, routing
<1>2. /\ run \in Running /\ input \in Assets /\ checked_fee \in Nat
      /\ tx.amount_in \in Nat /\ Sound(run.saved)
  BY <1>1, TxFacts
<1>3. Sound(chain)
  BY DEF IInv, TypeOK
<1>4. chain.bal \in [Assets -> Nat] /\ run.saved.bal \in [Assets -> Nat]
        /\ "wsol" \in Assets
  BY <1>2, <1>3, SoundParts DEF Assets, Tokens
<1>5. bal["wsol"] <= chain.bal["wsol"]
  BY <1>2, <1>4
<1> HIDE DEF bal
<1>6. chain'.bal = bal /\ chain'.open = chain.open
        /\ chain'.recipient = chain.recipient
  BY <1>1, <1>3 DEF Sound, ChainState
<1>7. /\ run'.pc = run.pc /\ run'.leg = 1 /\ run'.saved = run.saved
      /\ run'.trade = run.trade /\ run'.before = chain
  BY <1>1, <1>2 DEF Running
<1>8. tx' = tx
  BY <1>1, <1>7 DEF tx
<1>9. input' = input
  BY <1>8 DEF input
<1>10. run.pc = routeAt(tx) /\ routeAt(tx) \in Nat
         /\ \A i \in 1 .. run.pc - 1 : i \in DOMAIN tx.ixs
  BY <1>1, IxStands
<1>11. /\ WellOrdered(tx) /\ AccountsKept /\ WrappedIsSpent(tx)
  BY <1>1, AccountsParts
<1>12. (\E i \in 1 .. run.pc - 1 : tx.ixs[i].op = "wrap") => input = "wsol"
  BY <1>10, <1>11 DEF WellOrdered, input
<1>13. tx.order.side = "buy" =>
          chain.bal["wsol"] <= run.saved.bal["wsol"]
             + (IF input = "wsol" THEN tx.amount_in ELSE 0)
  <2>1. tx.order.side = "buy" =>
           chain.bal["wsol"] <= run.saved.bal["wsol"]
              + (IF \E i \in 1 .. run.pc - 1 : tx.ixs[i].op = "wrap"
                 THEN tx.amount_in ELSE 0)
    BY <1>1, <1>10, <1>11 DEF WrappedIsSpent
  <2>2. chain.bal["wsol"] \in Nat /\ run.saved.bal["wsol"] \in Nat
    BY <1>4
  <2>3. CASE input = "wsol"
    BY <1>2, <2>1, <2>2, <2>3
  <2>4. CASE input # "wsol"
    BY <1>12, <2>1, <2>4
  <2> QED  BY <2>3, <2>4
<1>14. WrappedIsSpent(tx)'
  <2>1. run'.leg # 0 /\ ~(run'.pc > routeAt(tx))
    BY <1>7, <1>10
  <2> QED
    BY <1>5, <1>6, <1>7, <1>8, <1>9, <1>13, <2>1 DEF WrappedIsSpent
<1>15. AccountsKept'
  BY <1>6, <1>7, <1>8, <1>11, AccountsSame
<1> QED  BY <1>14, <1>15 DEF RunKept

(* No leg of a buy brings WSOL.                                             *)
LEMMA SwapLegRuns ==
    ASSUME IInv, AccountsInv, SwapLeg
    PROVE  RunKept'
<1> DEFINE leg == tx.legs[run.leg]
<1>1. PICK taken \in takes(leg), extra \in Surplus :
        /\ taken <= chain.bal[leg.input]
        /\ Step([chain EXCEPT !.bal[leg.input] = @ - taken,
                              !.bal[leg.output] = @ + leg.min + extra],
                IF run.leg = 1 THEN taken ELSE 0)
  BY DEF SwapLeg
<1> DEFINE bal == [chain.bal EXCEPT ![leg.input] = @ - taken,
                                    ![leg.output] = @ + leg.min + extra]
           first == IF run.leg = 1 THEN taken ELSE 0
<1>2. /\ routing /\ run # NoRun /\ ~finished /\ ix.op = "route"
      /\ run.leg \in DOMAIN tx.legs
  BY DEF SwapLeg, routing
<1>3. /\ run \in Running /\ run.leg \in DOMAIN tx.legs /\ leg \in Leg
      /\ run.leg \in Nat \ {0}
  BY <1>2, TxFacts
<1>4. /\ leg.input \in Assets /\ leg.output \in Assets /\ leg.amount \in Nat
  BY <1>3 DEF Leg
<1>5. taken \in Nat
  BY <1>4 DEF takes
<1>6. Sound(chain) /\ chain.bal \in [Assets -> Nat] /\ "wsol" \in Assets
  BY SoundParts DEF IInv, TypeOK, Assets, Tokens
<1>7. /\ WellOrdered(tx) /\ AccountsKept /\ WrappedIsSpent(tx)
  BY <1>2, AccountsParts
<1>8. tx.order.side = "buy" => leg.output # "wsol"
  BY <1>2, <1>7 DEF WellOrdered
<1>9. tx.order.side = "buy" => bal["wsol"] <= chain.bal["wsol"]
  <2>1. chain.bal["wsol"] \in Nat
    BY <1>6
  <2> HIDE DEF leg
  <2> QED  BY <1>4, <1>5, <1>6, <1>8, <2>1
<1>10. /\ chain' = [chain EXCEPT !.bal = bal]
       /\ run' = [run EXCEPT !.leg = @ + 1, !.taken = @ + first]
       /\ UNCHANGED <<chain_bps, trade>>
  <2> HIDE DEF leg
  <2>1. chain = [bal |-> chain.bal, open |-> chain.open,
                 recipient |-> chain.recipient]
    BY <1>6, SoundParts
  <2> QED  BY <1>1, <2>1 DEF Step
<1>11. bal \in [Assets -> Int]
  <2>1. leg.min \in Nat /\ extra \in Nat
    BY <1>3, SdkTradeConstants DEF Leg
  <2> HIDE DEF leg
  <2>2. \A a \in Assets : chain.bal[a] \in Int
    BY <1>6
  <2>3. \A a \in Assets : bal[a] \in Int
    BY <1>4, <1>5, <1>6, <2>1, <2>2
  <2>4. DOMAIN bal = Assets /\ bal = [a \in Assets |-> bal[a]]
    BY <1>6
  <2> HIDE DEF bal
  <2> QED  BY <2>3, <2>4
<1> HIDE DEF bal, leg, first
<1>12. chain'.bal = bal /\ chain'.open = chain.open
         /\ chain'.recipient = chain.recipient
  BY <1>6, <1>10 DEF Sound, ChainState
<1>13. /\ run'.pc = run.pc /\ run'.leg = run.leg + 1 /\ run'.saved = run.saved
       /\ run'.trade = run.trade /\ run'.before = run.before
  <2>1. DOMAIN run = {"trade", "pc", "leg", "taken", "saved", "before"}
    BY <1>3 DEF Running
  <2> QED  BY <1>10, <2>1
<1>14. tx' = tx
  BY <1>10, <1>13 DEF tx
<1>15. input' = input
  BY <1>14 DEF input
<1>16. run.pc = routeAt(tx) /\ routeAt(tx) \in Nat
  BY <1>2, IxStands
<1>17. tx.order.side = "buy" =>
          /\ chain.bal["wsol"] <= run.before.bal["wsol"]
          /\ run.before.bal["wsol"] <= run.saved.bal["wsol"]
                + (IF input = "wsol" THEN tx.amount_in ELSE 0)
  <2>1. run.leg > 0
    BY <1>3
  <2> QED  BY <1>7, <1>16, <2>1 DEF WrappedIsSpent
<1>18. tx.order.side = "buy" => bal["wsol"] <= run.before.bal["wsol"]
  <2>1. /\ chain.bal["wsol"] \in Nat /\ bal["wsol"] \in Int
        /\ run.before.bal["wsol"] \in Nat
    BY <1>3, <1>6, <1>11 DEF Running, ChainState
  <2> QED  BY <1>9, <1>17, <2>1
<1>19. WrappedIsSpent(tx)'
  <2>1. run'.leg # 0 /\ ~(run'.pc > routeAt(tx))
    BY <1>3, <1>13, <1>16
  <2> QED
    BY <1>12, <1>13, <1>14, <1>15, <1>17, <1>18, <2>1 DEF WrappedIsSpent
<1>20. AccountsKept'
  BY <1>7, <1>12, <1>13, <1>14, AccountsSame
<1> QED  BY <1>19, <1>20 DEF RunKept

(* validate_spend takes all of the declared input, so what was wrapped goes *)
(* into the route.                                                          *)
LEMMA SettleRouteRuns ==
    ASSUME IInv, AccountsInv, SettleRoute
    PROVE  RunKept'
<1>1. /\ settling /\ settles /\ NextIx(chain)
  BY DEF SettleRoute
<1>2. /\ run # NoRun /\ run.pc = routeAt(tx) /\ ~finished /\ ix.op = "route"
      /\ run.leg = Len(tx.legs) + 1
      /\ run.before.bal \in [Assets -> Nat] /\ chain.bal \in [Assets -> Nat]
  BY <1>1, AtSettlement DEF settling, routing
<1>3. /\ Sound(chain) /\ Sound(run.saved) /\ tx.amount_in \in Nat
      /\ Len(tx.legs) \in {1, 2}
  BY <1>2, TxFacts DEF IInv, TypeOK
<1>4. run.saved.bal \in [Assets -> Nat] /\ "wsol" \in Assets
  BY <1>3, SoundParts DEF Assets, Tokens
<1>5. AccountsKept'
  <2>1. \A a \in Tokens : ~makes(ix, a)
    BY <1>2 DEF makes
  <2> QED  BY <1>1, <1>2, <1>3, <2>1, AccountsStep
<1>6. /\ chain' = chain /\ run'.pc = run.pc + 1
      /\ run'.saved = run.saved /\ run'.leg = run.leg /\ tx' = tx
  BY <1>1, <1>2, <1>3, NextIxParts
<1>7. routeAt(tx) \in Nat \ {0}
  BY <1>2, IxStands
<1>8. tx.order.side = "buy" /\ ~tx.order.exact_out
         => chain.bal["wsol"] <= run.saved.bal["wsol"]
  <2> SUFFICES ASSUME tx.order.side = "buy", ~tx.order.exact_out
               PROVE  chain.bal["wsol"] <= run.saved.bal["wsol"]
    OBVIOUS
  <2>1. /\ chain.bal["wsol"] <= run.before.bal["wsol"]
        /\ run.before.bal["wsol"] <= run.saved.bal["wsol"]
              + (IF input = "wsol" THEN tx.amount_in ELSE 0)
    <3>1. WrappedIsSpent(tx) /\ run.leg > 0
      BY <1>2, <1>3, AccountsParts
    <3> QED  BY <1>2, <3>1 DEF WrappedIsSpent
  <2>2. run.before.bal[input] - chain.bal[input] = tx.amount_in
    BY <1>1 DEF settles
  <2>3. /\ chain.bal["wsol"] \in Nat /\ run.before.bal["wsol"] \in Nat
        /\ run.saved.bal["wsol"] \in Nat
    BY <1>2, <1>4
  <2>4. CASE input = "wsol"
    BY <1>3, <2>1, <2>2, <2>3, <2>4
  <2>5. CASE input # "wsol"
    BY <2>1, <2>3, <2>5
  <2> QED  BY <2>4, <2>5
<1>9. WrappedIsSpent(tx)'
  <2>1. ~(run'.pc <= routeAt(tx)) /\ run'.pc # routeAt(tx)
    BY <1>2, <1>6, <1>7
  <2> QED  BY <1>6, <1>8, <2>1 DEF WrappedIsSpent
<1> QED  BY <1>5, <1>9 DEF RunKept

(* Where a step stands in a trade does not depend on its status. *)
LEMMA StartedIsOrdered ==
    ASSUME NEW b \in Built, WellOrdered(b)
    PROVE  WellOrdered([b EXCEPT !.status = "running"])
<1> DEFINE c == [b EXCEPT !.status = "running"]
<1>1. /\ c.order = b.order /\ c.amount_in = b.amount_in
      /\ c.legs = b.legs /\ c.ixs = b.ixs
  BY DEF Built
<1> HIDE DEF c
<1>2. routeAt(c) = routeAt(b)
  BY <1>1 DEF routeAt
<1>3. WellOrdered(c)
  BY <1>1, <1>2 DEF WellOrdered
<1> QED  BY <1>3 DEF c

(* A trade that is not being executed changes. *)
LEMMA OtherTradeRuns ==
    ASSUME IInv, AccountsInv, NEW t \in Trades, trade[t].status # "running",
           NEW v, v.status \in {"built", "running"} => WellOrdered(v),
           trade' = [trade EXCEPT ![t] = v], UNCHANGED <<chain, chain_bps, run>>
    PROVE  AccountsInv'
<1>1. /\ trade'[t] = v /\ \A u \in Trades \ {t} : trade'[u] = trade[u]
  BY TypeParts
<1>2. OrderedKept'
  BY <1>1 DEF AccountsInv, OrderedKept
<1>3. run # NoRun => RunKept'
  <2> SUFFICES ASSUME run # NoRun
               PROVE  RunKept'
    OBVIOUS
  <2>1. run.trade \in Trades \ {t}
    BY TypeParts, TxFacts
  <2>2. tx' = tx
    BY <1>1, <2>1 DEF tx
  <2>3. input' = input
    BY <2>2 DEF input
  <2>4. AccountsKept /\ WrappedIsSpent(tx)
    BY AccountsParts
  <2>5. AccountsKept'
    BY <2>2, <2>4, AccountsSame
  <2>6. WrappedIsSpent(tx)'
    BY <2>2, <2>3, <2>4 DEF WrappedIsSpent
  <2> QED  BY <2>5, <2>6 DEF RunKept
<1> QED  BY <1>2, <1>3 DEF AccountsInv, OrderedKept, RunKept

(* Nothing is being executed after the step. *)
LEMMA IdleRuns ==
    ASSUME IInv, AccountsInv, run' = NoRun,
           \A t \in Trades : trade'[t] = trade[t] \/ trade'[t] \in Marks
    PROVE  AccountsInv'
<1>1. \A t \in Trades : trade'[t].status \in {"built", "running"}
         => WellOrdered(trade'[t])
  BY MarkStatus DEF AccountsInv, Marks
<1> QED  BY <1>1 DEF AccountsInv

(* A trade is built.                                                        *)
LEMMA BuildRuns ==
    ASSUME IInv, AccountsInv, NEW t \in Trades, Build(t)
    PROVE  AccountsInv'
<1>0. PICK o \in Orders, quoted \in Hops, min_out \in MinOuts :
        \E swap_spent \in 1 .. spend_after_fee(o.amount_in, ClientBps) :
           trade' = [trade EXCEPT
                        ![t] = BuiltTrade(o, swap_spent, quoted, min_out)]
  BY DEF Build, BuildFrom
<1>1. PICK swap_spent \in 1 .. spend_after_fee(o.amount_in, ClientBps) :
        trade' = [trade EXCEPT
                     ![t] = BuiltTrade(o, swap_spent, quoted, min_out)]
  BY <1>0
<1>2. WellOrdered(BuiltTrade(o, swap_spent, quoted, min_out))
  BY BuiltIsOrdered
<1>3. trade[t].status # "running" /\ UNCHANGED <<chain, chain_bps, run>>
  BY DEF Build, BuildFrom
<1> QED  BY <1>1, <1>2, <1>3, OtherTradeRuns

(* A transaction begins with the accounts and the WSOL that are there.      *)
LEMMA BeginRuns ==
    ASSUME IInv, AccountsInv, NEW t \in Trades, Begin(t)
    PROVE  AccountsInv'
<1> DEFINE c == [trade[t] EXCEPT !.status = "running"]
<1>1. /\ run = NoRun /\ trade[t].status = "built"
      /\ run' = [ trade |-> t, pc |-> 1, leg |-> 0, taken |-> 0,
                  saved |-> chain, before |-> chain ]
      /\ trade' = [trade EXCEPT ![t] = c]
      /\ UNCHANGED <<chain, chain_bps>>
  BY DEF Begin
<1>2. trade[t] \in Built /\ WellBuilt(trade[t]) /\ WellOrdered(trade[t])
  BY <1>1, BuiltStatus DEF IInv, AccountsInv
<1>3. c \in Built /\ WellBuilt(c) /\ WellOrdered(c)
  BY <1>2, StartedIsWell, StartedIsOrdered
<1> HIDE DEF c
<1>4. /\ trade'[t] = c
      /\ \A u \in Trades \ {t} : trade'[u] = trade[u]
  BY <1>1, TypeParts
<1>5. /\ run'.trade = t /\ run'.pc = 1 /\ run'.leg = 0 /\ run'.saved = chain
  BY <1>1
<1>6. OrderedKept'
  BY <1>3, <1>4 DEF AccountsInv, OrderedKept
<1>7. tx' = c
  BY <1>4, <1>5 DEF tx
<1>8. 1 .. run'.pc - 1 = {}
  BY <1>5
<1>9. AccountsKept'
  BY <1>1, <1>5, <1>7, <1>8 DEF AccountsKept
<1>10. WrappedIsSpent(tx)'
  <2>1. routeAt(c) \in Nat \ {0}
    BY <1>3, RouteAt
  <2>2. ~(run'.leg > 0) /\ ~(run'.pc > routeAt(c))
    BY <1>5, <2>1
  <2>3. chain.bal["wsol"] \in Nat
    BY TypeParts, SoundParts DEF Assets, Tokens
  <2>4. chain'.bal["wsol"] <= run'.saved.bal["wsol"] + 0
    BY <1>1, <1>5, <2>3
  <2> QED  BY <1>5, <1>7, <1>8, <2>2, <2>4 DEF WrappedIsSpent
<1> QED  BY <1>6, <1>9, <1>10 DEF AccountsInv, OrderedKept

(* AccountsInv holds where nothing has been built.                          *)
LEMMA AccountsStart ==
    ASSUME Init
    PROVE  AccountsInv
<1>1. /\ run = NoRun /\ trade = [t \in Trades |-> Mark("new")]
  BY DEF Init
<1>2. Mark("new").status \notin {"built", "running"}
  BY MarkStatus
<1> QED  BY <1>1, <1>2 DEF AccountsInv

(* A step of an execution that keeps RunKept keeps AccountsInv. *)
LEMMA RunIsKept ==
    ASSUME AccountsInv, RunKept', UNCHANGED trade
    PROVE  AccountsInv'
BY DEF AccountsInv, RunKept

(* Every step that keeps IInv keeps AccountsInv.                            *)
LEMMA AccountsStay ==
    ASSUME IInv, AccountsInv, [Next]_vars
    PROVE  AccountsInv'
<1>1. ASSUME NEW t \in Trades, Build(t) \/ Begin(t) \/ Expire(t)
      PROVE  AccountsInv'
  <2>1. CASE Build(t)
    BY <2>1, BuildRuns
  <2>2. CASE Begin(t)
    BY <2>2, BeginRuns
  <2>3. CASE Expire(t)
    <3>1. /\ trade' = [trade EXCEPT ![t] = Mark("expired")]
          /\ trade[t].status # "running" /\ UNCHANGED <<chain, chain_bps, run>>
      BY <2>3 DEF Expire
    <3>2. Mark("expired").status \notin {"built", "running"}
      BY MarkStatus
    <3> QED  BY <3>1, <3>2, OtherTradeRuns
  <2> QED  BY <1>1, <2>1, <2>2, <2>3
<1>2. ASSUME NEW o \in PreparedOrders, Prepare(o)
      PROVE  AccountsInv'
  BY <1>2, IdleRuns DEF Prepare
<1>3. ASSUME NEW bps \in ChainBps, SetFee(bps)
      PROVE  AccountsInv'
  BY <1>3, IdleRuns DEF SetFee
<1>4. CASE CreateAta
  BY <1>4, CreateAtaRuns, RunIsKept DEF CreateAta, NextIx
<1>5. CASE WrapSol
  BY <1>5, WrapSolRuns, RunIsKept DEF WrapSol, NextIx
<1>6. CASE PayRouterFee
  BY <1>6, PayRouterFeeRuns, RunIsKept DEF PayRouterFee
<1>7. CASE SwapLeg
  BY <1>7, SwapLegRuns, RunIsKept DEF SwapLeg, Step
<1>8. CASE SettleRoute
  BY <1>8, SettleRouteRuns, RunIsKept DEF SettleRoute, NextIx
<1>9. CASE CloseAta
  BY <1>9, CloseAtaRuns, RunIsKept DEF CloseAta, NextIx
<1>10. CASE Commit
  <2>1. /\ run # NoRun /\ run' = NoRun
        /\ trade' = [trade EXCEPT ![run.trade] = Mark("landed")]
    BY <1>10 DEF Commit
  <2>2. run.trade \in Trades /\ Mark("landed") \in Marks
    BY <2>1, TxFacts, MarkStatus
  <2> QED  BY <2>1, <2>2, TypeParts, IdleRuns
<1>11. CASE Fail
  <2>1. /\ run # NoRun /\ run' = NoRun
        /\ trade' = [trade EXCEPT ![run.trade] = Mark("failed")]
    BY <1>11 DEF Fail, missing_account, cannot_proceed, settling, routing
  <2>2. run.trade \in Trades /\ Mark("failed") \in Marks
    BY <2>1, TxFacts, MarkStatus
  <2> QED  BY <2>1, <2>2, TypeParts, IdleRuns
<1>12. CASE UNCHANGED vars
  <2>1. tx' = tx /\ UNCHANGED <<chain, chain_bps, trade, run>>
    BY <1>12 DEF vars, tx
  <2>2. input' = input
    BY <2>1 DEF input
  <2>3. (AccountsKept' <=> AccountsKept)
          /\ (WrappedIsSpent(tx)' <=> WrappedIsSpent(tx))
    BY <2>1, <2>2 DEF AccountsKept, WrappedIsSpent, makes, shuts
  <2> QED  BY <2>1, <2>3 DEF AccountsInv
<1> QED
  BY <1>1, <1>2, <1>3, <1>4, <1>5, <1>6, <1>7, <1>8, <1>9, <1>10, <1>11,
     <1>12 DEF Next

(* An exact-in buy paid in SOL leaves no more WSOL than there was when its  *)
(* transaction began: what is wrapped before the route is what the route    *)
(* takes, to the unit, also when a clamped pool takes less than the caller  *)
(* offered (trade.rs:563-564, wrap_sol_with_options, validate_spend).       *)
THEOREM NoWsolLeft == Spec => []NoStrandedWsol
<1>1. ASSUME IInv, AccountsInv
      PROVE  NoStrandedWsol
  <2> SUFFICES ASSUME run # NoRun, finished, tx.order.side = "buy",
                      ~tx.order.exact_out
               PROVE  chain.bal["wsol"] <= run.saved.bal["wsol"]
    BY DEF NoStrandedWsol
  <2>1. run.pc > routeAt(tx)
    BY <1>1, IxFacts
  <2> QED  BY <1>1, <2>1, AccountsParts DEF WrappedIsSpent
<1> QED
  BY <1>1, Starts, Keeps, AccountsStart, AccountsStay, PTL DEF Spec

(* The accounts prepare_buy_atas and prepare_sell_atas make are all that    *)
(* the transaction built for such an order needs, under every ATA policy:   *)
(* none is missing when an instruction or a leg asks for it, and none has   *)
(* been closed by then.                                                     *)
THEOREM PreparedIsEnough == Spec => []PreparedSuffices
<1>1. ASSUME IInv, AccountsInv
      PROVE  PreparedSuffices
  <2> DEFINE o == tx.order
  <2> SUFFICES ASSUME missing_account,
                      prepared_user(o) \subseteq run.saved.open,
                      prepared_recipient(o) \subseteq run.saved.recipient,
                      \/ "meme" \in run.saved.open
                      \/ o.side = "buy" /\ "meme" \in creates(o)
               PROVE  FALSE
    BY DEF PreparedSuffices
  <2>1. run # NoRun /\ ~finished
    BY DEF missing_account
  <2>2. /\ WellOrdered(tx) /\ AccountsKept
    BY <1>1, <2>1, AccountsParts
  <2>3. /\ run.pc \in DOMAIN tx.ixs /\ ix = tx.ixs[run.pc]
        /\ run.pc \in Nat \ {0} /\ routeAt(tx) \in Nat \ {0}
        /\ ix.op \in {"create", "wrap"} => run.pc < routeAt(tx)
        /\ ix.op = "close" => run.pc > routeAt(tx)
        /\ ix.op = "route" <=> run.pc = routeAt(tx)
        /\ \A i \in 1 .. run.pc - 1 : i \in DOMAIN tx.ixs
    BY <1>1, <2>1, IxStands
  <2>4. /\ o \in Order /\ Len(tx.legs) \in {1, 2}
        /\ DOMAIN tx.legs = 1 .. Len(tx.legs)
        /\ DOMAIN tx.ixs \subseteq Nat \ {0}
    <3>1. tx \in Built /\ WellBuilt(tx)
      BY <1>1, <2>1, TxFacts
    <3>2. Len(tx.ixs) \in Nat /\ DOMAIN tx.ixs = 1 .. Len(tx.ixs)
      BY <3>1, RouteAt
    <3> QED  BY <1>1, <2>1, <3>2, TxFacts
  <2>5. touched(o) = {"meme"} \cup prepared_user(o)
          /\ touched(o) \subseteq Tokens
    BY DEF touched, prepared_user, Tokens
  <2>6. ASSUME NEW a \in touched(o), run.pc >= routeAt(tx) \/ a # "meme",
               \A i \in 1 .. run.pc - 1 : ~shuts(tx.ixs[i], a)
        PROVE  a \in chain.open
    <3>1. CASE a \in run.saved.open
      BY <2>2, <2>5, <2>6, <3>1 DEF AccountsKept
    <3>2. CASE a \notin run.saved.open
      <4>1. a = "meme" /\ o.side = "buy" /\ "meme" \in creates(o)
        BY <2>5, <2>6, <3>2
      <4>2. PICK i \in DOMAIN tx.ixs :
              i < routeAt(tx) /\ makes(tx.ixs[i], "meme")
        BY <2>2, <4>1 DEF WellOrdered
      <4>3. i \in 1 .. run.pc - 1
        BY <2>3, <2>4, <2>6, <4>1, <4>2
      <4> QED  BY <2>2, <2>5, <2>6, <4>1, <4>2, <4>3 DEF AccountsKept
    <3> QED  BY <3>1, <3>2
  <2>7. ASSUME ix.op = "wrap"
        PROVE  "wsol" \in chain.open
    <3>1. wraps(o)
      BY <2>2, <2>3, <2>7 DEF WellOrdered
    <3>2. "wsol" \in prepared_user(o)
      BY <3>1 DEF wraps, prepared_user, settled_asset, Tokens
    <3>3. \A i \in 1 .. run.pc - 1 : ~shuts(tx.ixs[i], "wsol")
      <4> SUFFICES ASSUME NEW i \in 1 .. run.pc - 1
                   PROVE  tx.ixs[i].op # "close"
        BY DEF shuts
      <4>1. i \in DOMAIN tx.ixs /\ i < routeAt(tx)
        BY <2>3, <2>7
      <4> QED  BY <2>2, <4>1 DEF WellOrdered
    <3> QED  BY <2>5, <2>6, <3>2, <3>3
  <2>8. ASSUME ix.op = "close"
        PROVE  ix.asset \in chain.open
    <3>1. ix.asset \in touched(o)
      BY <2>2, <2>3, <2>8 DEF WellOrdered
    <3>2. \A i \in 1 .. run.pc - 1 : ~shuts(tx.ixs[i], ix.asset)
      <4> SUFFICES ASSUME NEW i \in 1 .. run.pc - 1, shuts(tx.ixs[i], ix.asset)
                   PROVE  FALSE
        OBVIOUS
      <4>1. i \in DOMAIN tx.ixs /\ i # run.pc
        BY <2>3
      <4>2. i = run.pc
        BY <2>2, <2>3, <2>8, <4>1 DEF WellOrdered, shuts
      <4> QED  BY <4>1, <4>2
    <3>3. run.pc >= routeAt(tx)
      BY <2>3, <2>8
    <3> QED  BY <2>6, <3>1, <3>2, <3>3
  <2>9. ASSUME routing, NEW a \in {"sol"} \cup touched(o)
        PROVE  exists(a)
    <3>1. run.pc = routeAt(tx)
      BY <2>3, <2>9 DEF routing
    <3>2. \A i \in 1 .. run.pc - 1 : ~shuts(tx.ixs[i], a)
      <4> SUFFICES ASSUME NEW i \in 1 .. run.pc - 1
                   PROVE  tx.ixs[i].op # "close"
        BY DEF shuts
      <4>1. i \in DOMAIN tx.ixs /\ i < routeAt(tx)
        BY <2>3, <3>1
      <4> QED  BY <2>2, <4>1 DEF WellOrdered
    <3>3. run.pc >= routeAt(tx)
      BY <2>3, <3>1
    <3> QED  BY <2>6, <3>2, <3>3 DEF exists
  <2>10. \A n \in DOMAIN tx.legs :
            {tx.legs[n].input, tx.legs[n].output} \subseteq {"sol"} \cup touched(o)
    BY <2>2 DEF WellOrdered
  <2>11. routing => fee_accounts
    <3> SUFFICES ASSUME routing PROVE fee_accounts
      OBVIOUS
    <3>1. 1 \in DOMAIN tx.legs /\ Len(tx.legs) \in DOMAIN tx.legs
      <4>1. /\ Len(tx.legs) \in {1, 2}
            /\ DOMAIN tx.legs = 1 .. Len(tx.legs)
        BY <2>4
      <4>2. \A n \in {1, 2} : 1 \in 1 .. n /\ n \in 1 .. n
        OBVIOUS
      <4> QED  BY <4>1, <4>2
    <3>2. input \in {"sol"} \cup touched(o) /\ output \in {"sol"} \cup touched(o)
      BY <2>10, <3>1 DEF input, output
    <3>3. input = "sol" \/ input \in chain.recipient
      BY <2>2 DEF WellOrdered, AccountsKept, input
    <3> QED  BY <2>9, <3>2, <3>3 DEF fee_accounts
  <2>12. routing /\ run.leg \in DOMAIN tx.legs => leg_accounts
    BY <2>9, <2>10 DEF leg_accounts
  <2> QED  BY <2>7, <2>8, <2>11, <2>12 DEF missing_account
<1> QED
  BY <1>1, Starts, Keeps, AccountsStart, AccountsStay, PTL DEF Spec
=============================================================================
