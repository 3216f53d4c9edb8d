------------------------- MODULE RouteEncodingProofs -------------------------
(***************************************************************************)
(* What the client encodes is what the program decodes, for every route of  *)
(* up to four legs: the tables of the two sides agree, an instruction is    *)
(* read where it was written, and patching a leg is building it again.      *)
(***************************************************************************)
EXTENDS RouteEncoding, TLAPS

-----------------------------------------------------------------------------
(* Lists.  The provers reason badly about \o and Len inside a long list, so *)
(* these names keep them closed: a list is a sequence over some set.        *)

List(s) == \E S : s \in Seq(S)
Size(s) == Len(s)
Item(s, i) == s[i]
s & t == s \o t

LEMMA ListIs ==
    ASSUME NEW s, List(s)
    PROVE  Size(s) \in Nat /\ Size(s) = Len(s) /\ DOMAIN s = 1 .. Size(s)
           /\ \A i : Item(s, i) = s[i]
  BY DEF List, Size, Item

(* Two lists put together: the size, and where each item comes from.        *)
LEMMA CatSize ==
    ASSUME NEW s, NEW t, List(s), List(t)
    PROVE  List(s & t) /\ Size(s & t) = Size(s) + Size(t)
<1>1. PICK S : s \in Seq(S)
  BY DEF List
<1>2. PICK T : t \in Seq(T)
  BY DEF List
<1> DEFINE U == S \cup T
<1>3. s \in Seq(U) /\ t \in Seq(U)
  BY <1>1, <1>2
<1> HIDE DEF U
<1>4. s \o t \in Seq(U)
  BY <1>3
<1> QED
  BY <1>3, <1>4 DEF List, Size, &

LEMMA CatItem ==
    ASSUME NEW s, NEW t, List(s), List(t)
    PROVE  /\ \A i \in Int : i >= 1 /\ i <= Size(s) => Item(s & t, i) = Item(s, i)
           /\ \A i \in Int : i > Size(s) /\ i <= Size(s) + Size(t) =>
                Item(s & t, i) = Item(t, i - Size(s))
<1>1. PICK S : s \in Seq(S)
  BY DEF List
<1>2. PICK T : t \in Seq(T)
  BY DEF List
<1> DEFINE U == S \cup T
<1>3. s \in Seq(U) /\ t \in Seq(U)
  BY <1>1, <1>2
<1> HIDE DEF U
<1> QED
  BY <1>3 DEF Size, Item, &

LEMMA Single ==
    ASSUME NEW m
    PROVE  List(<<m>>) /\ Size(<<m>>) = 1 /\ Item(<<m>>, 1) = m
<1>1. <<m>> \in Seq({m})
  OBVIOUS
<1> QED
  BY <1>1 DEF List, Size, Item

LEMMA Repeated ==
    ASSUME NEW n \in Nat, NEW m
    PROVE  List([i \in 1 .. n |-> m]) /\ Size([i \in 1 .. n |-> m]) = n
<1> DEFINE s == [i \in 1 .. n |-> m]
<1>1. s \in Seq({m}) /\ DOMAIN s = 1 .. n
  OBVIOUS
<1> HIDE DEF s
<1>2. Len(s) = n
  BY <1>1
<1> QED
  BY <1>1, <1>2 DEF List, Size, s

-----------------------------------------------------------------------------
(* The account lists of the builders.                                       *)

(* The pieces they are made of.                                             *)
Pad(n) == others(n, FALSE)
PadW(n) == others(n, TRUE)
AtaPiece(p, i) == wr(user_ata(p, i))

(* What a meta of an own token account, a mint or a token program is.       *)
OwnAta(p, i) == meta(user_ata(p, i), TRUE, FALSE)
MintOf(p, i) == meta(<<"mint", p.mints[i]>>, FALSE, FALSE)
ProgramOf(p, i) == meta(<<"program", p.programs[i]>>, FALSE, FALSE)

LEMMA MetaFields ==
    ASSUME NEW key, NEW w, NEW s
    PROVE  /\ meta(key, w, s).key = key
           /\ meta(key, w, s).w = w /\ meta(key, w, s).s = s
  BY DEF meta

LEMMA Pieces ==
    /\ List(owner) /\ Size(owner) = 1 /\ Item(owner, 1) = meta(user, FALSE, TRUE)
    /\ List(payer) /\ Size(payer) = 1 /\ Item(payer, 1) = meta(user, TRUE, TRUE)
    /\ \A n \in Nat : List(Pad(n)) /\ Size(Pad(n)) = n
    /\ \A n \in Nat : List(PadW(n)) /\ Size(PadW(n)) = n
  BY Single, Repeated DEF owner, payer, others, Pad, PadW

LEMMA PoolPieces ==
    ASSUME NEW p
    PROVE  /\ \A i : /\ List(AtaPiece(p, i)) /\ Size(AtaPiece(p, i)) = 1
                     /\ Item(AtaPiece(p, i), 1) = OwnAta(p, i)
           /\ \A i : /\ List(mint_key(p, i)) /\ Size(mint_key(p, i)) = 1
                     /\ Item(mint_key(p, i), 1) = MintOf(p, i)
           /\ \A i : /\ List(program_key(p, i)) /\ Size(program_key(p, i)) = 1
                     /\ Item(program_key(p, i), 1) = ProgramOf(p, i)
           /\ List(mint_keys(p)) /\ Size(mint_keys(p)) = 2
           /\ Item(mint_keys(p), 1) = MintOf(p, 1) /\ Item(mint_keys(p), 2) = MintOf(p, 2)
           /\ List(program_keys(p)) /\ Size(program_keys(p)) = 2
           /\ Item(program_keys(p), 1) = ProgramOf(p, 1)
           /\ Item(program_keys(p), 2) = ProgramOf(p, 2)
<1>1. /\ \A i : /\ List(AtaPiece(p, i)) /\ Size(AtaPiece(p, i)) = 1
                /\ Item(AtaPiece(p, i), 1) = OwnAta(p, i)
      /\ \A i : /\ List(mint_key(p, i)) /\ Size(mint_key(p, i)) = 1
                /\ Item(mint_key(p, i), 1) = MintOf(p, i)
      /\ \A i : /\ List(program_key(p, i)) /\ Size(program_key(p, i)) = 1
                /\ Item(program_key(p, i), 1) = ProgramOf(p, i)
  BY Single DEF OwnAta, MintOf, ProgramOf, mint_key, program_key, AtaPiece, wr, rd
<1>2. /\ mint_keys(p) = mint_key(p, 1) & mint_key(p, 2)
      /\ program_keys(p) = program_key(p, 1) & program_key(p, 2)
  BY DEF mint_keys, program_keys, &
<1>3. /\ List(mint_keys(p)) /\ Size(mint_keys(p)) = 2
      /\ List(program_keys(p)) /\ Size(program_keys(p)) = 2
  BY <1>1, <1>2, CatSize
<1>4. /\ Item(mint_keys(p), 1) = MintOf(p, 1) /\ Item(mint_keys(p), 2) = MintOf(p, 2)
      /\ Item(program_keys(p), 1) = ProgramOf(p, 1)
      /\ Item(program_keys(p), 2) = ProgramOf(p, 2)
  BY <1>1, <1>2, CatItem
<1> QED
  BY <1>1, <1>3, <1>4

(* Their sizes and their items, apart.                                      *)
LEMMA Sizes ==
    ASSUME NEW p
    PROVE  /\ List(owner) /\ Size(owner) = 1 /\ List(payer) /\ Size(payer) = 1
           /\ \A n \in Nat : List(Pad(n)) /\ Size(Pad(n)) = n
           /\ \A n \in Nat : List(PadW(n)) /\ Size(PadW(n)) = n
           /\ \A i : List(AtaPiece(p, i)) /\ Size(AtaPiece(p, i)) = 1
           /\ \A i : List(mint_key(p, i)) /\ Size(mint_key(p, i)) = 1
           /\ \A i : List(program_key(p, i)) /\ Size(program_key(p, i)) = 1
           /\ List(mint_keys(p)) /\ Size(mint_keys(p)) = 2
           /\ List(program_keys(p)) /\ Size(program_keys(p)) = 2
  BY Pieces, PoolPieces

LEMMA Items ==
    ASSUME NEW p
    PROVE  /\ \A i : Item(AtaPiece(p, i), 1) = OwnAta(p, i)
           /\ \A i : Item(mint_key(p, i), 1) = MintOf(p, i)
           /\ \A i : Item(program_key(p, i), 1) = ProgramOf(p, i)
           /\ Item(mint_keys(p), 1) = MintOf(p, 1) /\ Item(mint_keys(p), 2) = MintOf(p, 2)
           /\ Item(program_keys(p), 1) = ProgramOf(p, 1)
           /\ Item(program_keys(p), 2) = ProgramOf(p, 2)
  BY PoolPieces

(* The lists of the two directions, by name.                                *)
PumpSwapBuys(p) == pumpswap_accounts(p, TRUE)
PumpSwapSells(p) == pumpswap_accounts(p, FALSE)
PumpFunV2Buys(p) == pumpfun_v2_accounts(p, TRUE)
PumpFunV2Sells(p) == pumpfun_v2_accounts(p, FALSE)

LEMMA LaunchLabList ==
    ASSUME NEW p
    PROVE  LET z == launchlab_accounts(p) IN
           /\ List(z) /\ Size(z) = 18
           /\ Item(z, 6) = OwnAta(p, 1) /\ Item(z, 7) = OwnAta(p, 2)
           /\ Item(z, 10) = MintOf(p, 1) /\ Item(z, 11) = MintOf(p, 2)
           /\ Item(z, 12) = ProgramOf(p, 1) /\ Item(z, 13) = ProgramOf(p, 2)
<1> DEFINE z == payer & Pad(3) & PadW(1) & AtaPiece(p, 1) & AtaPiece(p, 2)
                  & PadW(2) & mint_keys(p) & program_keys(p) & Pad(3)
                  & PadW(2)
<1>1. z = launchlab_accounts(p)
  BY DEF launchlab_accounts, &, Pad, PadW, AtaPiece
<1>2. /\ List(payer) /\ Size(payer) = 1 /\ List(Pad(3)) /\ Size(Pad(3)) = 3
      /\ List(PadW(1)) /\ Size(PadW(1)) = 1 /\ List(AtaPiece(p, 1))
      /\ Size(AtaPiece(p, 1)) = 1 /\ List(AtaPiece(p, 2))
      /\ Size(AtaPiece(p, 2)) = 1 /\ List(PadW(2)) /\ Size(PadW(2)) = 2
      /\ List(mint_keys(p)) /\ Size(mint_keys(p)) = 2 /\ List(program_keys(p))
      /\ Size(program_keys(p)) = 2
  BY Sizes
<1>3. /\ Item(AtaPiece(p, 1), 1) = OwnAta(p, 1)
      /\ Item(AtaPiece(p, 2), 1) = OwnAta(p, 2)
      /\ Item(mint_keys(p), 1) = MintOf(p, 1)
      /\ Item(mint_keys(p), 2) = MintOf(p, 2)
      /\ Item(program_keys(p), 1) = ProgramOf(p, 1)
      /\ Item(program_keys(p), 2) = ProgramOf(p, 2)
  BY Items
<1>4. List(z)
  BY <1>2, CatSize
<1>5. Size(z) = 18
  BY <1>2, CatSize
<1>6. /\ Item(z, 6) = OwnAta(p, 1) /\ Item(z, 7) = OwnAta(p, 2)
      /\ Item(z, 10) = MintOf(p, 1) /\ Item(z, 11) = MintOf(p, 2)
      /\ Item(z, 12) = ProgramOf(p, 1) /\ Item(z, 13) = ProgramOf(p, 2)
  BY <1>2, <1>3, CatSize, CatItem
<1> QED
  BY <1>1, <1>4, <1>5, <1>6

LEMMA CpmmList ==
    ASSUME NEW p, NEW i \in 1 .. 2
    PROVE  LET z == cpmm_accounts(p, i) IN
           /\ List(z) /\ Size(z) = 13
           /\ Item(z, 5) = OwnAta(p, i) /\ Item(z, 6) = OwnAta(p, 3 - i)
           /\ Item(z, 9) = ProgramOf(p, i)
           /\ Item(z, 10) = ProgramOf(p, 3 - i) /\ Item(z, 11) = MintOf(p, i)
           /\ Item(z, 12) = MintOf(p, 3 - i)
<1> DEFINE z == owner & Pad(2) & PadW(1) & AtaPiece(p, i) & AtaPiece(p, 3 - i)
                  & PadW(2) & program_key(p, i) & program_key(p, 3 - i)
                  & mint_key(p, i) & mint_key(p, 3 - i) & PadW(1)
<1>1. z = cpmm_accounts(p, i)
  BY DEF cpmm_accounts, &, Pad, PadW, AtaPiece
<1>2. /\ List(owner) /\ Size(owner) = 1 /\ List(Pad(2)) /\ Size(Pad(2)) = 2
      /\ List(PadW(1)) /\ Size(PadW(1)) = 1 /\ List(AtaPiece(p, i))
      /\ Size(AtaPiece(p, i)) = 1 /\ List(AtaPiece(p, 3 - i))
      /\ Size(AtaPiece(p, 3 - i)) = 1 /\ List(PadW(2)) /\ Size(PadW(2)) = 2
      /\ List(program_key(p, i)) /\ Size(program_key(p, i)) = 1
      /\ List(program_key(p, 3 - i)) /\ Size(program_key(p, 3 - i)) = 1
      /\ List(mint_key(p, i)) /\ Size(mint_key(p, i)) = 1
      /\ List(mint_key(p, 3 - i)) /\ Size(mint_key(p, 3 - i)) = 1
  BY Sizes
<1>3. /\ Item(AtaPiece(p, i), 1) = OwnAta(p, i)
      /\ Item(AtaPiece(p, 3 - i), 1) = OwnAta(p, 3 - i)
      /\ Item(program_key(p, i), 1) = ProgramOf(p, i)
      /\ Item(program_key(p, 3 - i), 1) = ProgramOf(p, 3 - i)
      /\ Item(mint_key(p, i), 1) = MintOf(p, i)
      /\ Item(mint_key(p, 3 - i), 1) = MintOf(p, 3 - i)
  BY Items
<1>4. List(z)
  BY <1>2, CatSize
<1>5. Size(z) = 13
  BY <1>2, CatSize
<1>6. /\ Item(z, 5) = OwnAta(p, i) /\ Item(z, 6) = OwnAta(p, 3 - i)
      /\ Item(z, 9) = ProgramOf(p, i) /\ Item(z, 10) = ProgramOf(p, 3 - i)
      /\ Item(z, 11) = MintOf(p, i) /\ Item(z, 12) = MintOf(p, 3 - i)
  BY <1>2, <1>3, CatSize, CatItem
<1> QED
  BY <1>1, <1>4, <1>5, <1>6

LEMMA PumpFunBuyList ==
    ASSUME NEW p, NEW amount, NEW min
    PROVE  LET z == pumpfun_buy_leg(p, amount, min).accounts IN
           /\ List(z) /\ Size(z) = 18
           /\ Item(z, 3) = MintOf(p, 1) /\ Item(z, 6) = OwnAta(p, 1)
           /\ Item(z, 9) = ProgramOf(p, 1)
<1> DEFINE z == Pad(1) & PadW(1) & mint_key(p, 1) & PadW(2) & AtaPiece(p, 1)
                  & payer & Pad(1) & program_key(p, 1) & PadW(1) & Pad(3)
                  & PadW(1) & Pad(3) & PadW(1)
<1>1. z = pumpfun_buy_leg(p, amount, min).accounts
  BY DEF pumpfun_buy_leg, Leg, &, Pad, PadW, AtaPiece
<1>2. /\ List(Pad(1)) /\ Size(Pad(1)) = 1 /\ List(PadW(1))
      /\ Size(PadW(1)) = 1 /\ List(mint_key(p, 1)) /\ Size(mint_key(p, 1)) = 1
      /\ List(PadW(2)) /\ Size(PadW(2)) = 2 /\ List(AtaPiece(p, 1))
      /\ Size(AtaPiece(p, 1)) = 1 /\ List(payer) /\ Size(payer) = 1
      /\ List(program_key(p, 1)) /\ Size(program_key(p, 1)) = 1
      /\ List(Pad(3)) /\ Size(Pad(3)) = 3
  BY Sizes
<1>3. /\ Item(mint_key(p, 1), 1) = MintOf(p, 1)
      /\ Item(AtaPiece(p, 1), 1) = OwnAta(p, 1)
      /\ Item(program_key(p, 1), 1) = ProgramOf(p, 1)
  BY Items
<1>4. List(z)
  BY <1>2, CatSize
<1>5. Size(z) = 18
  BY <1>2, CatSize
<1>6. /\ Item(z, 3) = MintOf(p, 1) /\ Item(z, 6) = OwnAta(p, 1)
      /\ Item(z, 9) = ProgramOf(p, 1)
  BY <1>2, <1>3, CatSize, CatItem
<1> QED
  BY <1>1, <1>4, <1>5, <1>6

LEMMA PumpFunSellList ==
    ASSUME NEW p, p.extra \in Nat, NEW amount, NEW min
    PROVE  LET z == pumpfun_sell_leg(p, amount, min).accounts IN
           /\ List(z) /\ Size(z) = 16 + p.extra
           /\ Item(z, 3) = MintOf(p, 1) /\ Item(z, 6) = OwnAta(p, 1)
           /\ Item(z, 10) = ProgramOf(p, 1)
<1> DEFINE z == Pad(1) & PadW(1) & mint_key(p, 1) & PadW(2) & AtaPiece(p, 1)
                  & payer & Pad(1) & PadW(1) & program_key(p, 1) & Pad(4)
                  & PadW(p.extra) & Pad(1) & PadW(1)
<1>1. z = pumpfun_sell_leg(p, amount, min).accounts
  BY DEF pumpfun_sell_leg, Leg, &, Pad, PadW, AtaPiece
<1>2. /\ List(Pad(1)) /\ Size(Pad(1)) = 1 /\ List(PadW(1))
      /\ Size(PadW(1)) = 1 /\ List(mint_key(p, 1)) /\ Size(mint_key(p, 1)) = 1
      /\ List(PadW(2)) /\ Size(PadW(2)) = 2 /\ List(AtaPiece(p, 1))
      /\ Size(AtaPiece(p, 1)) = 1 /\ List(payer) /\ Size(payer) = 1
      /\ List(program_key(p, 1)) /\ Size(program_key(p, 1)) = 1
      /\ List(Pad(4)) /\ Size(Pad(4)) = 4 /\ List(PadW(p.extra))
      /\ Size(PadW(p.extra)) = p.extra
  BY Sizes
<1>3. /\ Item(mint_key(p, 1), 1) = MintOf(p, 1)
      /\ Item(AtaPiece(p, 1), 1) = OwnAta(p, 1)
      /\ Item(program_key(p, 1), 1) = ProgramOf(p, 1)
  BY Items
<1>4. List(z)
  BY <1>2, CatSize
<1>5. Size(z) = 16 + p.extra
  BY <1>2, CatSize
<1>6. /\ Item(z, 3) = MintOf(p, 1) /\ Item(z, 6) = OwnAta(p, 1)
      /\ Item(z, 10) = ProgramOf(p, 1)
  BY <1>2, <1>3, CatSize, CatItem
<1> QED
  BY <1>1, <1>4, <1>5, <1>6

LEMMA PumpFunV2BuyList ==
    ASSUME NEW p
    PROVE  LET z == PumpFunV2Buys(p) IN
           /\ List(z) /\ Size(z) = 27
           /\ Item(z, 2) = MintOf(p, 1) /\ Item(z, 3) = MintOf(p, 2)
           /\ Item(z, 4) = ProgramOf(p, 1) /\ Item(z, 5) = ProgramOf(p, 2)
           /\ Item(z, 15) = OwnAta(p, 1) /\ Item(z, 16) = OwnAta(p, 2)
<1> DEFINE z == Pad(1) & mint_keys(p) & program_keys(p) & Pad(1) & PadW(7)
                  & payer & AtaPiece(p, 1) & AtaPiece(p, 2) & PadW(2) & Pad(2)
                  & PadW(2) & Pad(5)
<1>1. z = PumpFunV2Buys(p)
  BY DEF PumpFunV2Buys, pumpfun_v2_accounts, &, Pad, PadW, AtaPiece
<1>2. /\ List(Pad(1)) /\ Size(Pad(1)) = 1 /\ List(mint_keys(p))
      /\ Size(mint_keys(p)) = 2 /\ List(program_keys(p))
      /\ Size(program_keys(p)) = 2 /\ List(PadW(7)) /\ Size(PadW(7)) = 7
      /\ List(payer) /\ Size(payer) = 1 /\ List(AtaPiece(p, 1))
      /\ Size(AtaPiece(p, 1)) = 1 /\ List(AtaPiece(p, 2))
      /\ Size(AtaPiece(p, 2)) = 1 /\ List(PadW(2)) /\ Size(PadW(2)) = 2
      /\ List(Pad(2)) /\ Size(Pad(2)) = 2 /\ List(Pad(5)) /\ Size(Pad(5)) = 5
  BY Sizes
<1>3. /\ Item(mint_keys(p), 1) = MintOf(p, 1)
      /\ Item(mint_keys(p), 2) = MintOf(p, 2)
      /\ Item(program_keys(p), 1) = ProgramOf(p, 1)
      /\ Item(program_keys(p), 2) = ProgramOf(p, 2)
      /\ Item(AtaPiece(p, 1), 1) = OwnAta(p, 1)
      /\ Item(AtaPiece(p, 2), 1) = OwnAta(p, 2)
  BY Items
<1>4. List(z)
  BY <1>2, CatSize
<1>5. Size(z) = 27
  BY <1>2, CatSize
<1>6. /\ Item(z, 2) = MintOf(p, 1) /\ Item(z, 3) = MintOf(p, 2)
      /\ Item(z, 4) = ProgramOf(p, 1) /\ Item(z, 5) = ProgramOf(p, 2)
      /\ Item(z, 15) = OwnAta(p, 1) /\ Item(z, 16) = OwnAta(p, 2)
  BY <1>2, <1>3, CatSize, CatItem
<1> QED
  BY <1>1, <1>4, <1>5, <1>6

LEMMA PumpFunV2SellList ==
    ASSUME NEW p
    PROVE  LET z == PumpFunV2Sells(p) IN
           /\ List(z) /\ Size(z) = 26
           /\ Item(z, 2) = MintOf(p, 1) /\ Item(z, 3) = MintOf(p, 2)
           /\ Item(z, 4) = ProgramOf(p, 1) /\ Item(z, 5) = ProgramOf(p, 2)
           /\ Item(z, 15) = OwnAta(p, 1) /\ Item(z, 16) = OwnAta(p, 2)
<1> DEFINE z == Pad(1) & mint_keys(p) & program_keys(p) & Pad(1) & PadW(7)
                  & payer & AtaPiece(p, 1) & AtaPiece(p, 2) & PadW(2) & Pad(1)
                  & PadW(2) & Pad(5)
<1>1. z = PumpFunV2Sells(p)
  BY DEF PumpFunV2Sells, pumpfun_v2_accounts, &, Pad, PadW, AtaPiece
<1>2. /\ List(Pad(1)) /\ Size(Pad(1)) = 1 /\ List(mint_keys(p))
      /\ Size(mint_keys(p)) = 2 /\ List(program_keys(p))
      /\ Size(program_keys(p)) = 2 /\ List(PadW(7)) /\ Size(PadW(7)) = 7
      /\ List(payer) /\ Size(payer) = 1 /\ List(AtaPiece(p, 1))
      /\ Size(AtaPiece(p, 1)) = 1 /\ List(AtaPiece(p, 2))
      /\ Size(AtaPiece(p, 2)) = 1 /\ List(PadW(2)) /\ Size(PadW(2)) = 2
      /\ List(Pad(5)) /\ Size(Pad(5)) = 5
  BY Sizes
<1>3. /\ Item(mint_keys(p), 1) = MintOf(p, 1)
      /\ Item(mint_keys(p), 2) = MintOf(p, 2)
      /\ Item(program_keys(p), 1) = ProgramOf(p, 1)
      /\ Item(program_keys(p), 2) = ProgramOf(p, 2)
      /\ Item(AtaPiece(p, 1), 1) = OwnAta(p, 1)
      /\ Item(AtaPiece(p, 2), 1) = OwnAta(p, 2)
  BY Items
<1>4. List(z)
  BY <1>2, CatSize
<1>5. Size(z) = 26
  BY <1>2, CatSize
<1>6. /\ Item(z, 2) = MintOf(p, 1) /\ Item(z, 3) = MintOf(p, 2)
      /\ Item(z, 4) = ProgramOf(p, 1) /\ Item(z, 5) = ProgramOf(p, 2)
      /\ Item(z, 15) = OwnAta(p, 1) /\ Item(z, 16) = OwnAta(p, 2)
  BY <1>2, <1>3, CatSize, CatItem
<1> QED
  BY <1>1, <1>4, <1>5, <1>6

LEMMA PumpSwapBuyList ==
    ASSUME NEW p, p.extra \in Nat
    PROVE  LET z == PumpSwapBuys(p) IN
           /\ List(z) /\ Size(z) = 25 + p.extra
           /\ Item(z, 4) = MintOf(p, 1) /\ Item(z, 5) = MintOf(p, 2)
           /\ Item(z, 6) = OwnAta(p, 1) /\ Item(z, 7) = OwnAta(p, 2)
           /\ Item(z, 12) = ProgramOf(p, 1) /\ Item(z, 13) = ProgramOf(p, 2)
<1> DEFINE z == PadW(1) & payer & Pad(1) & mint_keys(p) & AtaPiece(p, 1)
                  & AtaPiece(p, 2) & PadW(2) & Pad(1) & PadW(1)
                  & program_keys(p) & Pad(4) & PadW(1) & Pad(2) & PadW(1)
                  & Pad(3 + p.extra) & PadW(1)
<1>1. z = PumpSwapBuys(p)
  BY DEF PumpSwapBuys, pumpswap_accounts, &, Pad, PadW, AtaPiece
<1>2. /\ List(PadW(1)) /\ Size(PadW(1)) = 1 /\ List(payer) /\ Size(payer) = 1
      /\ List(Pad(1)) /\ Size(Pad(1)) = 1 /\ List(mint_keys(p))
      /\ Size(mint_keys(p)) = 2 /\ List(AtaPiece(p, 1))
      /\ Size(AtaPiece(p, 1)) = 1 /\ List(AtaPiece(p, 2))
      /\ Size(AtaPiece(p, 2)) = 1 /\ List(PadW(2)) /\ Size(PadW(2)) = 2
      /\ List(program_keys(p)) /\ Size(program_keys(p)) = 2 /\ List(Pad(4))
      /\ Size(Pad(4)) = 4 /\ List(Pad(2)) /\ Size(Pad(2)) = 2
      /\ List(Pad(3 + p.extra)) /\ Size(Pad(3 + p.extra)) = 3 + p.extra
  BY Sizes
<1>3. /\ Item(mint_keys(p), 1) = MintOf(p, 1)
      /\ Item(mint_keys(p), 2) = MintOf(p, 2)
      /\ Item(AtaPiece(p, 1), 1) = OwnAta(p, 1)
      /\ Item(AtaPiece(p, 2), 1) = OwnAta(p, 2)
      /\ Item(program_keys(p), 1) = ProgramOf(p, 1)
      /\ Item(program_keys(p), 2) = ProgramOf(p, 2)
  BY Items
<1>4. List(z)
  BY <1>2, CatSize
<1>5. Size(z) = 25 + p.extra
  <2> DEFINE head == PadW(1) & payer & Pad(1) & mint_keys(p) & AtaPiece(p, 1)
                       & AtaPiece(p, 2) & PadW(2) & Pad(1) & PadW(1)
                       & program_keys(p)
  <2>1. List(head) /\ Size(head) = 13
    BY <1>2, CatSize
  <2> HIDE DEF head
  <2>2. z = head & Pad(4) & PadW(1) & Pad(2) & PadW(1) & Pad(3 + p.extra) & PadW(1)
    BY DEF head
  <2> HIDE DEF z
  <2> QED
    BY <1>2, <2>1, <2>2, CatSize
<1>6. /\ Item(z, 4) = MintOf(p, 1) /\ Item(z, 5) = MintOf(p, 2)
      /\ Item(z, 6) = OwnAta(p, 1) /\ Item(z, 7) = OwnAta(p, 2)
      /\ Item(z, 12) = ProgramOf(p, 1) /\ Item(z, 13) = ProgramOf(p, 2)
  BY <1>2, <1>3, CatSize, CatItem
<1> QED
  BY <1>1, <1>4, <1>5, <1>6

LEMMA PumpSwapSellList ==
    ASSUME NEW p, p.extra \in Nat
    PROVE  LET z == PumpSwapSells(p) IN
           /\ List(z) /\ Size(z) = 23 + p.extra
           /\ Item(z, 4) = MintOf(p, 1) /\ Item(z, 5) = MintOf(p, 2)
           /\ Item(z, 6) = OwnAta(p, 1) /\ Item(z, 7) = OwnAta(p, 2)
           /\ Item(z, 12) = ProgramOf(p, 1) /\ Item(z, 13) = ProgramOf(p, 2)
<1> DEFINE z == PadW(1) & payer & Pad(1) & mint_keys(p) & AtaPiece(p, 1)
                  & AtaPiece(p, 2) & PadW(2) & Pad(1) & PadW(1)
                  & program_keys(p) & Pad(4) & PadW(1) & Pad(1) & PadW(0)
                  & Pad(3 + p.extra) & PadW(1)
<1>1. z = PumpSwapSells(p)
  BY DEF PumpSwapSells, pumpswap_accounts, &, Pad, PadW, AtaPiece
<1>2. /\ List(PadW(1)) /\ Size(PadW(1)) = 1 /\ List(payer) /\ Size(payer) = 1
      /\ List(Pad(1)) /\ Size(Pad(1)) = 1 /\ List(mint_keys(p))
      /\ Size(mint_keys(p)) = 2 /\ List(AtaPiece(p, 1))
      /\ Size(AtaPiece(p, 1)) = 1 /\ List(AtaPiece(p, 2))
      /\ Size(AtaPiece(p, 2)) = 1 /\ List(PadW(2)) /\ Size(PadW(2)) = 2
      /\ List(program_keys(p)) /\ Size(program_keys(p)) = 2 /\ List(Pad(4))
      /\ Size(Pad(4)) = 4 /\ List(PadW(0)) /\ Size(PadW(0)) = 0
      /\ List(Pad(3 + p.extra)) /\ Size(Pad(3 + p.extra)) = 3 + p.extra
  BY Sizes
<1>3. /\ Item(mint_keys(p), 1) = MintOf(p, 1)
      /\ Item(mint_keys(p), 2) = MintOf(p, 2)
      /\ Item(AtaPiece(p, 1), 1) = OwnAta(p, 1)
      /\ Item(AtaPiece(p, 2), 1) = OwnAta(p, 2)
      /\ Item(program_keys(p), 1) = ProgramOf(p, 1)
      /\ Item(program_keys(p), 2) = ProgramOf(p, 2)
  BY Items
<1>4. List(z)
  BY <1>2, CatSize
<1>5. Size(z) = 23 + p.extra
  <2> DEFINE head == PadW(1) & payer & Pad(1) & mint_keys(p) & AtaPiece(p, 1)
                       & AtaPiece(p, 2) & PadW(2) & Pad(1) & PadW(1)
                       & program_keys(p)
  <2>1. List(head) /\ Size(head) = 13
    BY <1>2, CatSize
  <2> HIDE DEF head
  <2>2. z = head & Pad(4) & PadW(1) & Pad(1) & PadW(0) & Pad(3 + p.extra) & PadW(1)
    BY DEF head
  <2> HIDE DEF z
  <2> QED
    BY <1>2, <2>1, <2>2, CatSize
<1>6. /\ Item(z, 4) = MintOf(p, 1) /\ Item(z, 5) = MintOf(p, 2)
      /\ Item(z, 6) = OwnAta(p, 1) /\ Item(z, 7) = OwnAta(p, 2)
      /\ Item(z, 12) = ProgramOf(p, 1) /\ Item(z, 13) = ProgramOf(p, 2)
  BY <1>2, <1>3, CatSize, CatItem
<1> QED
  BY <1>1, <1>4, <1>5, <1>6

LEMMA AmmV4List ==
    ASSUME NEW p, NEW i \in 1 .. 2
    PROVE  LET z == raydium_amm_v4_accounts(p, i) IN
           /\ List(z) /\ Size(z) = 8
           /\ Item(z, 1) = ProgramOf(p, 1) /\ Item(z, 6) = OwnAta(p, i)
           /\ Item(z, 7) = OwnAta(p, 3 - i)
<1> DEFINE z == program_key(p, 1) & PadW(1) & Pad(1) & PadW(2)
                  & AtaPiece(p, i) & AtaPiece(p, 3 - i) & owner
<1>1. z = raydium_amm_v4_accounts(p, i)
  BY DEF raydium_amm_v4_accounts, &, Pad, PadW, AtaPiece
<1>2. /\ List(program_key(p, 1)) /\ Size(program_key(p, 1)) = 1
      /\ List(PadW(1)) /\ Size(PadW(1)) = 1 /\ List(Pad(1))
      /\ Size(Pad(1)) = 1 /\ List(PadW(2)) /\ Size(PadW(2)) = 2
      /\ List(AtaPiece(p, i)) /\ Size(AtaPiece(p, i)) = 1
      /\ List(AtaPiece(p, 3 - i)) /\ Size(AtaPiece(p, 3 - i)) = 1
      /\ List(owner) /\ Size(owner) = 1
  BY Sizes
<1>3. /\ Item(program_key(p, 1), 1) = ProgramOf(p, 1)
      /\ Item(AtaPiece(p, i), 1) = OwnAta(p, i)
      /\ Item(AtaPiece(p, 3 - i), 1) = OwnAta(p, 3 - i)
  BY Items
<1>4. List(z)
  BY <1>2, CatSize
<1>5. Size(z) = 8
  BY <1>2, CatSize
<1>6. /\ Item(z, 1) = ProgramOf(p, 1) /\ Item(z, 6) = OwnAta(p, i)
      /\ Item(z, 7) = OwnAta(p, 3 - i)
  BY <1>2, <1>3, CatSize, CatItem
<1> QED
  BY <1>1, <1>4, <1>5, <1>6

LEMMA DammList ==
    ASSUME NEW p, p.extra \in Nat, NEW i \in 1 .. 2, NEW amount, NEW min
    PROVE  LET z == meteora_damm_v2_swap_leg(p, i, amount, min).accounts IN
           /\ List(z) /\ Size(z) = 14 + p.extra
           /\ Item(z, 3) = OwnAta(p, i) /\ Item(z, 4) = OwnAta(p, 3 - i)
           /\ Item(z, 7) = MintOf(p, 1) /\ Item(z, 8) = MintOf(p, 2)
           /\ Item(z, 10) = ProgramOf(p, 1) /\ Item(z, 11) = ProgramOf(p, 2)
<1> DEFINE z == Pad(1) & PadW(1) & AtaPiece(p, i) & AtaPiece(p, 3 - i)
                  & PadW(2) & mint_keys(p) & owner & program_keys(p)
                  & Pad(3 + p.extra)
<1>1. z = meteora_damm_v2_swap_leg(p, i, amount, min).accounts
  BY DEF meteora_damm_v2_swap_leg, Leg, &, Pad, PadW, AtaPiece
<1>2. /\ List(Pad(1)) /\ Size(Pad(1)) = 1 /\ List(PadW(1))
      /\ Size(PadW(1)) = 1 /\ List(AtaPiece(p, i)) /\ Size(AtaPiece(p, i)) = 1
      /\ List(AtaPiece(p, 3 - i)) /\ Size(AtaPiece(p, 3 - i)) = 1
      /\ List(PadW(2)) /\ Size(PadW(2)) = 2 /\ List(mint_keys(p))
      /\ Size(mint_keys(p)) = 2 /\ List(owner) /\ Size(owner) = 1
      /\ List(program_keys(p)) /\ Size(program_keys(p)) = 2
      /\ List(Pad(3 + p.extra)) /\ Size(Pad(3 + p.extra)) = 3 + p.extra
  BY Sizes
<1>3. /\ Item(AtaPiece(p, i), 1) = OwnAta(p, i)
      /\ Item(AtaPiece(p, 3 - i), 1) = OwnAta(p, 3 - i)
      /\ Item(mint_keys(p), 1) = MintOf(p, 1)
      /\ Item(mint_keys(p), 2) = MintOf(p, 2)
      /\ Item(program_keys(p), 1) = ProgramOf(p, 1)
      /\ Item(program_keys(p), 2) = ProgramOf(p, 2)
  BY Items
<1>4. List(z)
  BY <1>2, CatSize
<1>5. Size(z) = 14 + p.extra
  BY <1>2, CatSize
<1>6. /\ Item(z, 3) = OwnAta(p, i) /\ Item(z, 4) = OwnAta(p, 3 - i)
      /\ Item(z, 7) = MintOf(p, 1) /\ Item(z, 8) = MintOf(p, 2)
      /\ Item(z, 10) = ProgramOf(p, 1) /\ Item(z, 11) = ProgramOf(p, 2)
  BY <1>2, <1>3, CatSize, CatItem
<1> QED
  BY <1>1, <1>4, <1>5, <1>6

LEMMA ClmmList ==
    ASSUME NEW p, p.extra \in Nat, NEW i \in 1 .. 2, NEW amount, NEW min
    PROVE  LET z == raydium_clmm_swap_leg(p, i, amount, min).accounts IN
           /\ List(z) /\ Size(z) = 14 + p.extra
           /\ Item(z, 4) = OwnAta(p, i) /\ Item(z, 5) = OwnAta(p, 3 - i)
           /\ Item(z, 12) = MintOf(p, i) /\ Item(z, 13) = MintOf(p, 3 - i)
<1> DEFINE z == owner & Pad(1) & PadW(1) & AtaPiece(p, i) & AtaPiece(p, 3 - i)
                  & PadW(3) & Pad(3) & mint_key(p, i) & mint_key(p, 3 - i)
                  & PadW(1 + p.extra)
<1>1. z = raydium_clmm_swap_leg(p, i, amount, min).accounts
  BY DEF raydium_clmm_swap_leg, Leg, &, Pad, PadW, AtaPiece
<1>2. /\ List(owner) /\ Size(owner) = 1 /\ List(Pad(1)) /\ Size(Pad(1)) = 1
      /\ List(PadW(1)) /\ Size(PadW(1)) = 1 /\ List(AtaPiece(p, i))
      /\ Size(AtaPiece(p, i)) = 1 /\ List(AtaPiece(p, 3 - i))
      /\ Size(AtaPiece(p, 3 - i)) = 1 /\ List(PadW(3)) /\ Size(PadW(3)) = 3
      /\ List(Pad(3)) /\ Size(Pad(3)) = 3 /\ List(mint_key(p, i))
      /\ Size(mint_key(p, i)) = 1 /\ List(mint_key(p, 3 - i))
      /\ Size(mint_key(p, 3 - i)) = 1 /\ List(PadW(1 + p.extra))
      /\ Size(PadW(1 + p.extra)) = 1 + p.extra
  BY Sizes
<1>3. /\ Item(AtaPiece(p, i), 1) = OwnAta(p, i)
      /\ Item(AtaPiece(p, 3 - i), 1) = OwnAta(p, 3 - i)
      /\ Item(mint_key(p, i), 1) = MintOf(p, i)
      /\ Item(mint_key(p, 3 - i), 1) = MintOf(p, 3 - i)
  BY Items
<1>4. List(z)
  BY <1>2, CatSize
<1>5. Size(z) = 14 + p.extra
  BY <1>2, CatSize
<1>6. /\ Item(z, 4) = OwnAta(p, i) /\ Item(z, 5) = OwnAta(p, 3 - i)
      /\ Item(z, 12) = MintOf(p, i) /\ Item(z, 13) = MintOf(p, 3 - i)
  BY <1>2, <1>3, CatSize, CatItem
<1> QED
  BY <1>1, <1>4, <1>5, <1>6

LEMMA WhirlpoolList ==
    ASSUME NEW p, p.extra \in Nat, NEW i \in 1 .. 2, NEW amount, NEW min
    PROVE  LET z == whirlpool_swap_leg(p, i, amount, min).accounts IN
           /\ List(z) /\ Size(z) = 15 + p.extra
           /\ Item(z, 1) = ProgramOf(p, 1) /\ Item(z, 2) = ProgramOf(p, 2)
           /\ Item(z, 6) = MintOf(p, 1) /\ Item(z, 7) = MintOf(p, 2)
           /\ Item(z, 8) = OwnAta(p, 1) /\ Item(z, 10) = OwnAta(p, 2)
<1> DEFINE z == program_keys(p) & Pad(1) & owner & PadW(1) & mint_keys(p)
                  & AtaPiece(p, 1) & PadW(1) & AtaPiece(p, 2)
                  & PadW(5 + p.extra)
<1>1. z = whirlpool_swap_leg(p, i, amount, min).accounts
  BY DEF whirlpool_swap_leg, Leg, &, Pad, PadW, AtaPiece
<1>2. /\ List(program_keys(p)) /\ Size(program_keys(p)) = 2 /\ List(Pad(1))
      /\ Size(Pad(1)) = 1 /\ List(owner) /\ Size(owner) = 1 /\ List(PadW(1))
      /\ Size(PadW(1)) = 1 /\ List(mint_keys(p)) /\ Size(mint_keys(p)) = 2
      /\ List(AtaPiece(p, 1)) /\ Size(AtaPiece(p, 1)) = 1
      /\ List(AtaPiece(p, 2)) /\ Size(AtaPiece(p, 2)) = 1
      /\ List(PadW(5 + p.extra)) /\ Size(PadW(5 + p.extra)) = 5 + p.extra
  BY Sizes
<1>3. /\ Item(program_keys(p), 1) = ProgramOf(p, 1)
      /\ Item(program_keys(p), 2) = ProgramOf(p, 2)
      /\ Item(mint_keys(p), 1) = MintOf(p, 1)
      /\ Item(mint_keys(p), 2) = MintOf(p, 2)
      /\ Item(AtaPiece(p, 1), 1) = OwnAta(p, 1)
      /\ Item(AtaPiece(p, 2), 1) = OwnAta(p, 2)
  BY Items
<1>4. List(z)
  BY <1>2, CatSize
<1>5. Size(z) = 15 + p.extra
  BY <1>2, CatSize
<1>6. /\ Item(z, 1) = ProgramOf(p, 1) /\ Item(z, 2) = ProgramOf(p, 2)
      /\ Item(z, 6) = MintOf(p, 1) /\ Item(z, 7) = MintOf(p, 2)
      /\ Item(z, 8) = OwnAta(p, 1) /\ Item(z, 10) = OwnAta(p, 2)
  BY <1>2, <1>3, CatSize, CatItem
<1> QED
  BY <1>1, <1>4, <1>5, <1>6

LEMMA DlmmList ==
    ASSUME NEW p, p.extra \in Nat, NEW i \in 1 .. 2, NEW amount, NEW min
    PROVE  LET z == meteora_dlmm_swap_leg(p, i, amount, min).accounts IN
           /\ List(z) /\ Size(z) = 17 + p.extra
           /\ Item(z, 5) = OwnAta(p, i) /\ Item(z, 6) = OwnAta(p, 3 - i)
           /\ Item(z, 7) = MintOf(p, 1) /\ Item(z, 8) = MintOf(p, 2)
           /\ Item(z, 12) = ProgramOf(p, 1) /\ Item(z, 13) = ProgramOf(p, 2)
<1> DEFINE z == PadW(4) & AtaPiece(p, i) & AtaPiece(p, 3 - i) & mint_keys(p)
                  & PadW(1) & Pad(1) & owner & program_keys(p) & Pad(3)
                  & PadW(1 + p.extra)
<1>1. z = meteora_dlmm_swap_leg(p, i, amount, min).accounts
  BY DEF meteora_dlmm_swap_leg, Leg, &, Pad, PadW, AtaPiece
<1>2. /\ List(PadW(4)) /\ Size(PadW(4)) = 4 /\ List(AtaPiece(p, i))
      /\ Size(AtaPiece(p, i)) = 1 /\ List(AtaPiece(p, 3 - i))
      /\ Size(AtaPiece(p, 3 - i)) = 1 /\ List(mint_keys(p))
      /\ Size(mint_keys(p)) = 2 /\ List(PadW(1)) /\ Size(PadW(1)) = 1
      /\ List(Pad(1)) /\ Size(Pad(1)) = 1 /\ List(owner) /\ Size(owner) = 1
      /\ List(program_keys(p)) /\ Size(program_keys(p)) = 2 /\ List(Pad(3))
      /\ Size(Pad(3)) = 3 /\ List(PadW(1 + p.extra))
      /\ Size(PadW(1 + p.extra)) = 1 + p.extra
  BY Sizes
<1>3. /\ Item(AtaPiece(p, i), 1) = OwnAta(p, i)
      /\ Item(AtaPiece(p, 3 - i), 1) = OwnAta(p, 3 - i)
      /\ Item(mint_keys(p), 1) = MintOf(p, 1)
      /\ Item(mint_keys(p), 2) = MintOf(p, 2)
      /\ Item(program_keys(p), 1) = ProgramOf(p, 1)
      /\ Item(program_keys(p), 2) = ProgramOf(p, 2)
  BY Items
<1>4. List(z)
  BY <1>2, CatSize
<1>5. Size(z) = 17 + p.extra
  BY <1>2, CatSize
<1>6. /\ Item(z, 5) = OwnAta(p, i) /\ Item(z, 6) = OwnAta(p, 3 - i)
      /\ Item(z, 7) = MintOf(p, 1) /\ Item(z, 8) = MintOf(p, 2)
      /\ Item(z, 12) = ProgramOf(p, 1) /\ Item(z, 13) = ProgramOf(p, 2)
  BY <1>2, <1>3, CatSize, CatItem
<1> QED
  BY <1>1, <1>4, <1>5, <1>6

(* A caller's own leg.                                                      *)
LEMMA RawList ==
    ASSUME NEW p, NEW i \in 1 .. 2, NEW amount, NEW min
    PROVE  LET z == raw_leg(p, i, amount, min).accounts IN List(z) /\ Size(z) \in 3 .. 4
<1> DEFINE two == AtaPiece(p, i) & AtaPiece(p, 3 - i) & owner
           third == meta(user_ata(p, 3), p.mode = 2, FALSE)
<1>1. /\ List(AtaPiece(p, i)) /\ Size(AtaPiece(p, i)) = 1
      /\ List(AtaPiece(p, 3 - i)) /\ Size(AtaPiece(p, 3 - i)) = 1
      /\ List(owner) /\ Size(owner) = 1
  BY Sizes
<1>2. List(two) /\ Size(two) = 3
  BY <1>1, CatSize
<1>3. raw_leg(p, i, amount, min).accounts
        = IF Len(p.mints) = 3 THEN two & <<third>> ELSE two & <<>>
  BY DEF raw_leg, Leg, &, AtaPiece
<1> HIDE DEF third, two
<1>4. List(two & <<third>>) /\ Size(two & <<third>>) = 4
  BY <1>2, Single, CatSize
<1>5. List(<<>>) /\ Size(<<>>) = 0
  <2>1. <<>> \in Seq({1})
    OBVIOUS
  <2> QED
    BY <2>1 DEF List, Size
<1>6. List(two & <<>>) /\ Size(two & <<>>) = 3
  BY <1>2, <1>5, CatSize
<1> QED
  BY <1>3, <1>4, <1>6

-----------------------------------------------------------------------------
(* The two tables.                                                          *)

(* An index of one side of a pool, and of the other.                        *)
LEMMA Sides ==
    /\ 1 \in 1 .. 2 /\ 2 \in 1 .. 2 /\ 3 - 1 = 2 /\ 3 - 2 = 1
    /\ \A i \in 1 .. 2 : (i = 1 \/ i = 2) /\ 3 - i \in 1 .. 2 /\ 3 - (3 - i) = i
  OBVIOUS

LEMMA LegFields ==
    ASSUME NEW dex, NEW accounts, NEW disc, NEW len, NEW offset \in Nat,
           NEW amount, NEW min, NEW flags
    PROVE  LET leg == Leg(dex, accounts, form(disc, len, offset, amount, min, flags)) IN
           /\ leg.program_id = dex /\ leg.accounts = accounts
           /\ leg.data.disc = disc /\ leg.data.len = len /\ leg.data.flags = flags
           /\ leg.data.u64[offset] = amount
  BY DEF Leg, form

(* Patching the amount of a leg makes the leg of the other amount.          *)
LEMMA FormPatch ==
    ASSUME NEW dex, NEW accounts, NEW disc, NEW len, NEW offset \in Nat,
           NEW amount, NEW min, NEW flags, NEW delivered
    PROVE  patch_second_leg_amount(
               Leg(dex, accounts, form(disc, len, offset, amount, min, flags)),
               delivered, offset)
             = Leg(dex, accounts, form(disc, len, offset, delivered, min, flags))
<1> DEFINE u == [at \in {offset, offset + 8} |-> IF at = offset THEN amount ELSE min]
           w == [at \in {offset, offset + 8} |-> IF at = offset THEN delivered ELSE min]
<1>1. [u EXCEPT ![offset] = delivered] = w
  OBVIOUS
<1> HIDE DEF u, w
<1>2. /\ form(disc, len, offset, amount, min, flags)
           = [disc |-> disc, len |-> len, flags |-> flags, u64 |-> u]
      /\ form(disc, len, offset, delivered, min, flags)
           = [disc |-> disc, len |-> len, flags |-> flags, u64 |-> w]
  BY DEF form, u, w
<1> QED
  BY <1>1, <1>2 DEF patch_second_leg_amount, Leg

(* Both tables have a row for the leg, with the same accounts and amount;   *)
(* the accounts are side a of the pool and the other, and where the row     *)
(* looks for a mint or a token program, it is that of the account.          *)
Named(leg, position, m) ==
    position # NO_ACCOUNT => Item(leg.accounts, position + 1) = m

Tokens(p, a, leg) ==
    LET row == dynamic_second_leg(leg) IN
    /\ Named(leg, row.input_mint, MintOf(p, a))
    /\ Named(leg, row.output_mint, MintOf(p, 3 - a))
    /\ Named(leg, row.input_program, ProgramOf(p, a))
    /\ Named(leg, row.output_program, ProgramOf(p, 3 - a))

Positions(row) ==
    { row.input_account, row.output_account, row.signer, row.input_mint,
      row.output_mint, row.input_program, row.output_program } \ {NO_ACCOUNT}

SameRows(leg) ==
    LET row == dynamic_second_leg(leg)
        client == dynamic_leg_layout(leg)
    IN  /\ row # NoLayout /\ client # no_layout
        /\ row.input_account = client.input_account
        /\ row.output_account = client.output_account
        /\ row.signer = client.signer /\ row.amount_offset = client.amount_offset
        /\ {row.input_account, row.output_account, row.signer} \subseteq Nat \ {NO_ACCOUNT}
        /\ \A position \in Positions(row) : position \in Nat /\ position < Size(leg.accounts)

Fits(p, a, leg) ==
    LET row == dynamic_second_leg(leg) IN
    /\ SameRows(leg)
    /\ row.amount_offset = IF p.dex = "amm_v4" THEN 1 ELSE 8
    /\ Item(leg.accounts, row.input_account + 1) = OwnAta(p, a)
    /\ Item(leg.accounts, row.output_account + 1) = OwnAta(p, 3 - a)
    /\ Tokens(p, a, leg) \/ (row.paired_mints /\ Tokens(p, 3 - a, leg))

LEMMA LaunchLabFits ==
    ASSUME NEW p, p.dex = "launchlab", NEW amount, NEW min
    PROVE  Fits(p, 2, launchlab_buy_leg(p, amount, min))
<1> DEFINE leg == launchlab_buy_leg(p, amount, min)
           row == dynamic_second_leg(leg)
           client == dynamic_leg_layout(leg)
<1>1. /\ leg.program_id = "launchlab" /\ leg.accounts = launchlab_accounts(p)
      /\ leg.data.disc = "buy_exact_in" /\ leg.data.len = 32 /\ leg.data.flags = <<0>>
  BY DEF launchlab_buy_leg, Leg, form
<1>10. /\ List(leg.accounts) /\ Size(leg.accounts) \in Nat /\ Size(leg.accounts) >= 18
      /\ Item(leg.accounts, 6) = OwnAta(p, 1)
      /\ Item(leg.accounts, 7) = OwnAta(p, 2)
      /\ Item(leg.accounts, 10) = MintOf(p, 1)
      /\ Item(leg.accounts, 11) = MintOf(p, 2)
      /\ Item(leg.accounts, 12) = ProgramOf(p, 1)
      /\ Item(leg.accounts, 13) = ProgramOf(p, 2)
  BY ListIs, <1>1, LaunchLabList
<1> HIDE DEF leg
<1>2. row = program_row(6, 5, 0, 8, <<10, 9>>, <<12, 11>>, FALSE)
  BY <1>1 DEF dynamic_second_leg, is_form, is_whirlpool
<1>3. client = client_row(6, 5, 0, 8, 13)
  BY <1>1 DEF dynamic_leg_layout, is_form, is_whirlpool
<1>4. /\ row.input_account = 6 /\ row.output_account = 5 /\ row.signer = 0
      /\ row.amount_offset = 8 /\ row.input_mint = 10 /\ row.output_mint = 9
      /\ row.input_program = 12 /\ row.output_program = 11
      /\ row.paired_mints = FALSE /\ row # NoLayout
  BY <1>2 DEF program_row, NoLayout
<1>5. /\ client.input_account = 6 /\ client.output_account = 5 /\ client.signer = 0
      /\ client.amount_offset = 8 /\ client # no_layout
  BY <1>3 DEF client_row, no_layout
<1> HIDE DEF row, client
<1>6. SameRows(leg)
  BY <1>10, <1>4, <1>5 DEF SameRows, Positions, row, client, NO_ACCOUNT
<1>7. Tokens(p, 2, leg)
  BY <1>10, <1>4 DEF Tokens, Named, row, NO_ACCOUNT
<1>8. /\ Item(leg.accounts, row.input_account + 1) = OwnAta(p, 2)
      /\ Item(leg.accounts, row.output_account + 1) = OwnAta(p, 1)
  BY <1>10, <1>4
<1> QED
  BY <1>4, <1>6, <1>7, <1>8 DEF Fits, row, leg

LEMMA CpmmFits ==
    ASSUME NEW p, p.dex = "cpmm", NEW i \in 1 .. 2, NEW amount, NEW min
    PROVE  Fits(p, i, cpmm_swap_leg(p, i, amount, min))
<1> DEFINE leg == cpmm_swap_leg(p, i, amount, min)
           row == dynamic_second_leg(leg)
           client == dynamic_leg_layout(leg)
<1>1. /\ leg.program_id = "cpmm" /\ leg.accounts = cpmm_accounts(p, i)
      /\ leg.data.disc = "swap_base_input" /\ leg.data.len = 24
  BY DEF cpmm_swap_leg, Leg, form
<1>10. /\ List(leg.accounts) /\ Size(leg.accounts) \in Nat /\ Size(leg.accounts) >= 13
      /\ Item(leg.accounts, 5) = OwnAta(p, i)
      /\ Item(leg.accounts, 6) = OwnAta(p, 3 - i)
      /\ Item(leg.accounts, 9) = ProgramOf(p, i)
      /\ Item(leg.accounts, 10) = ProgramOf(p, 3 - i)
      /\ Item(leg.accounts, 11) = MintOf(p, i)
      /\ Item(leg.accounts, 12) = MintOf(p, 3 - i)
  BY ListIs, <1>1, CpmmList
<1> HIDE DEF leg
<1>2. row = program_row(4, 5, 0, 8, <<10, 11>>, <<8, 9>>, FALSE)
  BY <1>1 DEF dynamic_second_leg, is_form, is_whirlpool
<1>3. client = client_row(4, 5, 0, 8, 12)
  BY <1>1 DEF dynamic_leg_layout, is_form, is_whirlpool
<1>4. /\ row.input_account = 4 /\ row.output_account = 5 /\ row.signer = 0
      /\ row.amount_offset = 8 /\ row.input_mint = 10 /\ row.output_mint = 11
      /\ row.input_program = 8 /\ row.output_program = 9
      /\ row.paired_mints = FALSE /\ row # NoLayout
  BY <1>2 DEF program_row, NoLayout
<1>5. /\ client.input_account = 4 /\ client.output_account = 5 /\ client.signer = 0
      /\ client.amount_offset = 8 /\ client # no_layout
  BY <1>3 DEF client_row, no_layout
<1> HIDE DEF row, client
<1>6. SameRows(leg)
  BY <1>10, <1>4, <1>5 DEF SameRows, Positions, row, client, NO_ACCOUNT
<1>7. Tokens(p, i, leg)
  BY <1>10, <1>4 DEF Tokens, Named, row, NO_ACCOUNT
<1>8. /\ Item(leg.accounts, row.input_account + 1) = OwnAta(p, i)
      /\ Item(leg.accounts, row.output_account + 1) = OwnAta(p, 3 - i)
  BY <1>10, <1>4
<1> QED
  BY <1>4, <1>6, <1>7, <1>8 DEF Fits, row, leg

LEMMA PumpSwapBuyFits ==
    ASSUME NEW p, p.dex = "pumpswap", p.extra \in Nat, NEW amount, NEW min
    PROVE  Fits(p, 2, pumpswap_buy_leg(p, amount, min))
<1> DEFINE leg == pumpswap_buy_leg(p, amount, min)
           row == dynamic_second_leg(leg)
           client == dynamic_leg_layout(leg)
<1>1. /\ leg.program_id = "pumpswap" /\ leg.accounts = PumpSwapBuys(p)
      /\ leg.data.disc = "buy_exact_quote_in" /\ leg.data.len = 25 /\ leg.data.flags = <<1>>
  BY DEF pumpswap_buy_leg, Leg, form, PumpSwapBuys
<1>10. /\ List(leg.accounts) /\ Size(leg.accounts) \in Nat /\ Size(leg.accounts) >= 25
      /\ Item(leg.accounts, 4) = MintOf(p, 1)
      /\ Item(leg.accounts, 5) = MintOf(p, 2)
      /\ Item(leg.accounts, 6) = OwnAta(p, 1)
      /\ Item(leg.accounts, 7) = OwnAta(p, 2)
      /\ Item(leg.accounts, 12) = ProgramOf(p, 1)
      /\ Item(leg.accounts, 13) = ProgramOf(p, 2)
  BY ListIs, <1>1, PumpSwapBuyList
<1> HIDE DEF leg
<1>2. row = program_row(6, 5, 1, 8, <<4, 3>>, <<12, 11>>, FALSE)
  BY <1>1 DEF dynamic_second_leg, is_form, is_whirlpool
<1>3. client = client_row(6, 5, 1, 8, 13)
  BY <1>1 DEF dynamic_leg_layout, is_form, is_whirlpool
<1>4. /\ row.input_account = 6 /\ row.output_account = 5 /\ row.signer = 1
      /\ row.amount_offset = 8 /\ row.input_mint = 4 /\ row.output_mint = 3
      /\ row.input_program = 12 /\ row.output_program = 11
      /\ row.paired_mints = FALSE /\ row # NoLayout
  BY <1>2 DEF program_row, NoLayout
<1>5. /\ client.input_account = 6 /\ client.output_account = 5 /\ client.signer = 1
      /\ client.amount_offset = 8 /\ client # no_layout
  BY <1>3 DEF client_row, no_layout
<1> HIDE DEF row, client
<1>6. SameRows(leg)
  BY <1>10, <1>4, <1>5 DEF SameRows, Positions, row, client, NO_ACCOUNT
<1>7. Tokens(p, 2, leg)
  BY <1>10, <1>4 DEF Tokens, Named, row, NO_ACCOUNT
<1>8. /\ Item(leg.accounts, row.input_account + 1) = OwnAta(p, 2)
      /\ Item(leg.accounts, row.output_account + 1) = OwnAta(p, 1)
  BY <1>10, <1>4
<1> QED
  BY <1>4, <1>6, <1>7, <1>8 DEF Fits, row, leg

LEMMA PumpSwapSellFits ==
    ASSUME NEW p, p.dex = "pumpswap", p.extra \in Nat, NEW amount, NEW min
    PROVE  Fits(p, 1, pumpswap_sell_leg(p, amount, min))
<1> DEFINE leg == pumpswap_sell_leg(p, amount, min)
           row == dynamic_second_leg(leg)
           client == dynamic_leg_layout(leg)
<1>1. /\ leg.program_id = "pumpswap" /\ leg.accounts = PumpSwapSells(p)
      /\ leg.data.disc = "sell" /\ leg.data.len = 24
  BY DEF pumpswap_sell_leg, Leg, form, PumpSwapSells
<1>10. /\ List(leg.accounts) /\ Size(leg.accounts) \in Nat /\ Size(leg.accounts) >= 23
      /\ Item(leg.accounts, 4) = MintOf(p, 1)
      /\ Item(leg.accounts, 5) = MintOf(p, 2)
      /\ Item(leg.accounts, 6) = OwnAta(p, 1)
      /\ Item(leg.accounts, 7) = OwnAta(p, 2)
      /\ Item(leg.accounts, 12) = ProgramOf(p, 1)
      /\ Item(leg.accounts, 13) = ProgramOf(p, 2)
  BY ListIs, <1>1, PumpSwapSellList
<1> HIDE DEF leg
<1>2. row = program_row(5, 6, 1, 8, <<3, 4>>, <<11, 12>>, FALSE)
  BY <1>1 DEF dynamic_second_leg, is_form, is_whirlpool
<1>3. client = client_row(5, 6, 1, 8, 13)
  BY <1>1 DEF dynamic_leg_layout, is_form, is_whirlpool
<1>4. /\ row.input_account = 5 /\ row.output_account = 6 /\ row.signer = 1
      /\ row.amount_offset = 8 /\ row.input_mint = 3 /\ row.output_mint = 4
      /\ row.input_program = 11 /\ row.output_program = 12
      /\ row.paired_mints = FALSE /\ row # NoLayout
  BY <1>2 DEF program_row, NoLayout
<1>5. /\ client.input_account = 5 /\ client.output_account = 6 /\ client.signer = 1
      /\ client.amount_offset = 8 /\ client # no_layout
  BY <1>3 DEF client_row, no_layout
<1> HIDE DEF row, client
<1>6. SameRows(leg)
  BY <1>10, <1>4, <1>5 DEF SameRows, Positions, row, client, NO_ACCOUNT
<1>7. Tokens(p, 1, leg)
  BY <1>10, <1>4 DEF Tokens, Named, row, NO_ACCOUNT
<1>8. /\ Item(leg.accounts, row.input_account + 1) = OwnAta(p, 1)
      /\ Item(leg.accounts, row.output_account + 1) = OwnAta(p, 2)
  BY <1>10, <1>4
<1> QED
  BY <1>4, <1>6, <1>7, <1>8 DEF Fits, row, leg

LEMMA AmmV4Fits ==
    ASSUME NEW p, p.dex = "amm_v4", p.programs[1] = p.programs[2], NEW i \in 1 .. 2, NEW amount, NEW min
    PROVE  Fits(p, i, raydium_amm_v4_swap_leg(p, i, amount, min))
<1> DEFINE leg == raydium_amm_v4_swap_leg(p, i, amount, min)
           row == dynamic_second_leg(leg)
           client == dynamic_leg_layout(leg)
<1>1. /\ leg.program_id = "amm_v4" /\ leg.accounts = raydium_amm_v4_accounts(p, i)
      /\ leg.data.disc = "swap_base_in_v2" /\ leg.data.len = 17
  BY DEF raydium_amm_v4_swap_leg, Leg, form
<1>10. /\ List(leg.accounts) /\ Size(leg.accounts) \in Nat /\ Size(leg.accounts) >= 8
      /\ Item(leg.accounts, 1) = ProgramOf(p, 1)
      /\ Item(leg.accounts, 6) = OwnAta(p, i)
      /\ Item(leg.accounts, 7) = OwnAta(p, 3 - i)
  BY ListIs, <1>1, AmmV4List
<1> HIDE DEF leg
<1>2. row = program_row(5, 6, 7, 1, <<NO_ACCOUNT, NO_ACCOUNT>>, <<0, 0>>, FALSE)
  BY <1>1 DEF dynamic_second_leg, is_form, is_whirlpool
<1>3. client = client_row(5, 6, 7, 1, 8)
  BY <1>1 DEF dynamic_leg_layout, is_form, is_whirlpool
<1>4. /\ row.input_account = 5 /\ row.output_account = 6 /\ row.signer = 7
      /\ row.amount_offset = 1 /\ row.input_mint = NO_ACCOUNT /\ row.output_mint = NO_ACCOUNT
      /\ row.input_program = 0 /\ row.output_program = 0
      /\ row.paired_mints = FALSE /\ row # NoLayout
  BY <1>2 DEF program_row, NoLayout
<1>5. /\ client.input_account = 5 /\ client.output_account = 6 /\ client.signer = 7
      /\ client.amount_offset = 1 /\ client # no_layout
  BY <1>3 DEF client_row, no_layout
<1> HIDE DEF row, client
<1>6. SameRows(leg)
  BY <1>10, <1>4, <1>5 DEF SameRows, Positions, row, client, NO_ACCOUNT
<1>7. Tokens(p, i, leg)
  <2>1. ProgramOf(p, i) = ProgramOf(p, 1) /\ ProgramOf(p, 3 - i) = ProgramOf(p, 1)
    BY Sides DEF ProgramOf
  <2> QED
    BY <2>1, <1>10, <1>4 DEF Tokens, Named, row, NO_ACCOUNT
<1>8. /\ Item(leg.accounts, row.input_account + 1) = OwnAta(p, i)
      /\ Item(leg.accounts, row.output_account + 1) = OwnAta(p, 3 - i)
  BY <1>10, <1>4
<1> QED
  BY <1>4, <1>6, <1>7, <1>8 DEF Fits, row, leg

LEMMA DammFits ==
    ASSUME NEW p, p.dex = "damm_v2", p.extra \in Nat, p.mode = 0, NEW i \in 1 .. 2, NEW amount, NEW min
    PROVE  Fits(p, i, meteora_damm_v2_swap_leg(p, i, amount, min))
<1> DEFINE leg == meteora_damm_v2_swap_leg(p, i, amount, min)
           row == dynamic_second_leg(leg)
           client == dynamic_leg_layout(leg)
<1>1. /\ leg.program_id = "damm_v2" /\ leg.accounts = meteora_damm_v2_swap_leg(p, i, amount, min).accounts
      /\ leg.data.disc = "swap2" /\ leg.data.len = 25 /\ leg.data.flags = <<p.mode>>
  BY DEF meteora_damm_v2_swap_leg, Leg, form
<1>10. /\ List(leg.accounts) /\ Size(leg.accounts) \in Nat /\ Size(leg.accounts) >= 14
      /\ Item(leg.accounts, 3) = OwnAta(p, i)
      /\ Item(leg.accounts, 4) = OwnAta(p, 3 - i)
      /\ Item(leg.accounts, 7) = MintOf(p, 1)
      /\ Item(leg.accounts, 8) = MintOf(p, 2)
      /\ Item(leg.accounts, 10) = ProgramOf(p, 1)
      /\ Item(leg.accounts, 11) = ProgramOf(p, 2)
  BY ListIs, DammList
<1> HIDE DEF leg
<1>2. row = program_row(2, 3, 8, 8, <<6, 7>>, <<9, 10>>, TRUE)
  BY <1>1 DEF dynamic_second_leg, is_form, is_whirlpool
<1>3. client = client_row(2, 3, 8, 8, 11)
  BY <1>1 DEF dynamic_leg_layout, is_form, is_whirlpool
<1>4. /\ row.input_account = 2 /\ row.output_account = 3 /\ row.signer = 8
      /\ row.amount_offset = 8 /\ row.input_mint = 6 /\ row.output_mint = 7
      /\ row.input_program = 9 /\ row.output_program = 10
      /\ row.paired_mints = TRUE /\ row # NoLayout
  BY <1>2 DEF program_row, NoLayout
<1>5. /\ client.input_account = 2 /\ client.output_account = 3 /\ client.signer = 8
      /\ client.amount_offset = 8 /\ client # no_layout
  BY <1>3 DEF client_row, no_layout
<1> HIDE DEF row, client
<1>6. SameRows(leg)
  BY <1>10, <1>4, <1>5 DEF SameRows, Positions, row, client, NO_ACCOUNT
<1>7. Tokens(p, 1, leg)
  BY <1>10, <1>4 DEF Tokens, Named, row, NO_ACCOUNT
<1>8. /\ Item(leg.accounts, row.input_account + 1) = OwnAta(p, i)
      /\ Item(leg.accounts, row.output_account + 1) = OwnAta(p, 3 - i)
  BY <1>10, <1>4
<1> QED
  BY <1>4, Sides, <1>6, <1>7, <1>8 DEF Fits, row, leg

LEMMA ClmmFits ==
    ASSUME NEW p, p.dex = "clmm", p.extra \in Nat, NEW i \in 1 .. 2, NEW amount, NEW min
    PROVE  Fits(p, i, raydium_clmm_swap_leg(p, i, amount, min))
<1> DEFINE leg == raydium_clmm_swap_leg(p, i, amount, min)
           row == dynamic_second_leg(leg)
           client == dynamic_leg_layout(leg)
<1>1. /\ leg.program_id = "clmm" /\ leg.accounts = raydium_clmm_swap_leg(p, i, amount, min).accounts
      /\ leg.data.disc = "swap_v2" /\ leg.data.len = 41 /\ leg.data.flags = <<1>>
  BY DEF raydium_clmm_swap_leg, Leg, form
<1>10. /\ List(leg.accounts) /\ Size(leg.accounts) \in Nat /\ Size(leg.accounts) >= 14
      /\ Item(leg.accounts, 4) = OwnAta(p, i)
      /\ Item(leg.accounts, 5) = OwnAta(p, 3 - i)
      /\ Item(leg.accounts, 12) = MintOf(p, i)
      /\ Item(leg.accounts, 13) = MintOf(p, 3 - i)
  BY ListIs, ClmmList
<1> HIDE DEF leg
<1>2. row = program_row(3, 4, 0, 8, <<11, 12>>, <<NO_ACCOUNT, NO_ACCOUNT>>, FALSE)
  BY <1>1 DEF dynamic_second_leg, is_form, is_whirlpool
<1>3. client = client_row(3, 4, 0, 8, 13)
  BY <1>1 DEF dynamic_leg_layout, is_form, is_whirlpool
<1>4. /\ row.input_account = 3 /\ row.output_account = 4 /\ row.signer = 0
      /\ row.amount_offset = 8 /\ row.input_mint = 11 /\ row.output_mint = 12
      /\ row.input_program = NO_ACCOUNT /\ row.output_program = NO_ACCOUNT
      /\ row.paired_mints = FALSE /\ row # NoLayout
  BY <1>2 DEF program_row, NoLayout
<1>5. /\ client.input_account = 3 /\ client.output_account = 4 /\ client.signer = 0
      /\ client.amount_offset = 8 /\ client # no_layout
  BY <1>3 DEF client_row, no_layout
<1> HIDE DEF row, client
<1>6. SameRows(leg)
  BY <1>10, <1>4, <1>5 DEF SameRows, Positions, row, client, NO_ACCOUNT
<1>7. Tokens(p, i, leg)
  BY <1>10, <1>4 DEF Tokens, Named, row, NO_ACCOUNT
<1>8. /\ Item(leg.accounts, row.input_account + 1) = OwnAta(p, i)
      /\ Item(leg.accounts, row.output_account + 1) = OwnAta(p, 3 - i)
  BY <1>10, <1>4
<1> QED
  BY <1>4, <1>6, <1>7, <1>8 DEF Fits, row, leg

LEMMA DlmmFits ==
    ASSUME NEW p, p.dex = "dlmm", p.extra \in Nat, NEW i \in 1 .. 2, NEW amount, NEW min
    PROVE  Fits(p, i, meteora_dlmm_swap_leg(p, i, amount, min))
<1> DEFINE leg == meteora_dlmm_swap_leg(p, i, amount, min)
           row == dynamic_second_leg(leg)
           client == dynamic_leg_layout(leg)
<1>1. /\ leg.program_id = "dlmm" /\ leg.accounts = meteora_dlmm_swap_leg(p, i, amount, min).accounts
      /\ leg.data.disc = "swap2" /\ leg.data.len = 28 /\ leg.data.flags = <<0>>
  BY DEF meteora_dlmm_swap_leg, Leg, form
<1>10. /\ List(leg.accounts) /\ Size(leg.accounts) \in Nat /\ Size(leg.accounts) >= 17
      /\ Item(leg.accounts, 5) = OwnAta(p, i)
      /\ Item(leg.accounts, 6) = OwnAta(p, 3 - i)
      /\ Item(leg.accounts, 7) = MintOf(p, 1)
      /\ Item(leg.accounts, 8) = MintOf(p, 2)
      /\ Item(leg.accounts, 12) = ProgramOf(p, 1)
      /\ Item(leg.accounts, 13) = ProgramOf(p, 2)
  BY ListIs, DlmmList
<1> HIDE DEF leg
<1>2. row = program_row(4, 5, 10, 8, <<6, 7>>, <<11, 12>>, TRUE)
  BY <1>1 DEF dynamic_second_leg, is_form, is_whirlpool
<1>3. client = client_row(4, 5, 10, 8, 13)
  BY <1>1 DEF dynamic_leg_layout, is_form, is_whirlpool
<1>4. /\ row.input_account = 4 /\ row.output_account = 5 /\ row.signer = 10
      /\ row.amount_offset = 8 /\ row.input_mint = 6 /\ row.output_mint = 7
      /\ row.input_program = 11 /\ row.output_program = 12
      /\ row.paired_mints = TRUE /\ row # NoLayout
  BY <1>2 DEF program_row, NoLayout
<1>5. /\ client.input_account = 4 /\ client.output_account = 5 /\ client.signer = 10
      /\ client.amount_offset = 8 /\ client # no_layout
  BY <1>3 DEF client_row, no_layout
<1> HIDE DEF row, client
<1>6. SameRows(leg)
  BY <1>10, <1>4, <1>5 DEF SameRows, Positions, row, client, NO_ACCOUNT
<1>7. Tokens(p, 1, leg)
  BY <1>10, <1>4 DEF Tokens, Named, row, NO_ACCOUNT
<1>8. /\ Item(leg.accounts, row.input_account + 1) = OwnAta(p, i)
      /\ Item(leg.accounts, row.output_account + 1) = OwnAta(p, 3 - i)
  BY <1>10, <1>4
<1> QED
  BY <1>4, Sides, <1>6, <1>7, <1>8 DEF Fits, row, leg

LEMMA WhirlpoolAToBFits ==
    ASSUME NEW p, p.dex = "whirlpool", p.extra \in 0 .. 3, NEW amount, NEW min
    PROVE  Fits(p, 1, whirlpool_swap_leg(p, 1, amount, min))
<1> DEFINE leg == whirlpool_swap_leg(p, 1, amount, min)
           row == dynamic_second_leg(leg)
           client == dynamic_leg_layout(leg)
<1>1. /\ leg.program_id = "whirlpool" /\ leg.accounts = whirlpool_swap_leg(p, 1, amount, min).accounts
      /\ leg.data.disc = "swap_v2" /\ leg.data.len = (IF p.extra = 0 THEN 43 ELSE 49) /\ leg.data.flags = <<1, 1, p.extra>>
  BY DEF whirlpool_swap_leg, Leg, form
<1>10. /\ List(leg.accounts) /\ Size(leg.accounts) \in Nat /\ Size(leg.accounts) >= 15
      /\ Item(leg.accounts, 1) = ProgramOf(p, 1)
      /\ Item(leg.accounts, 2) = ProgramOf(p, 2)
      /\ Item(leg.accounts, 6) = MintOf(p, 1)
      /\ Item(leg.accounts, 7) = MintOf(p, 2)
      /\ Item(leg.accounts, 8) = OwnAta(p, 1)
      /\ Item(leg.accounts, 10) = OwnAta(p, 2)
  BY ListIs, WhirlpoolList
<1> HIDE DEF leg
<1>9. is_whirlpool(leg)
  BY <1>1 DEF is_whirlpool, whirlpool_remaining
<1>2. row = program_row(7, 9, 3, 8, <<5, 6>>, <<0, 1>>, FALSE)
  BY <1>1, <1>9 DEF dynamic_second_leg, is_form, whirlpool_row
<1>3. client = client_row(7, 9, 3, 8, 15 + p.extra)
  BY <1>1, <1>9 DEF dynamic_leg_layout, is_form
<1>4. /\ row.input_account = 7 /\ row.output_account = 9 /\ row.signer = 3
      /\ row.amount_offset = 8 /\ row.input_mint = 5 /\ row.output_mint = 6
      /\ row.input_program = 0 /\ row.output_program = 1
      /\ row.paired_mints = FALSE /\ row # NoLayout
  BY <1>2 DEF program_row, NoLayout
<1>5. /\ client.input_account = 7 /\ client.output_account = 9 /\ client.signer = 3
      /\ client.amount_offset = 8 /\ client # no_layout
  BY <1>3 DEF client_row, no_layout
<1> HIDE DEF row, client
<1>6. SameRows(leg)
  BY <1>10, <1>4, <1>5 DEF SameRows, Positions, row, client, NO_ACCOUNT
<1>7. Tokens(p, 1, leg)
  BY <1>10, <1>4 DEF Tokens, Named, row, NO_ACCOUNT
<1>8. /\ Item(leg.accounts, row.input_account + 1) = OwnAta(p, 1)
      /\ Item(leg.accounts, row.output_account + 1) = OwnAta(p, 2)
  BY <1>10, <1>4
<1> QED
  BY <1>4, <1>6, <1>7, <1>8 DEF Fits, row, leg

LEMMA WhirlpoolBToAFits ==
    ASSUME NEW p, p.dex = "whirlpool", p.extra \in 0 .. 3, NEW amount, NEW min
    PROVE  Fits(p, 2, whirlpool_swap_leg(p, 2, amount, min))
<1> DEFINE leg == whirlpool_swap_leg(p, 2, amount, min)
           row == dynamic_second_leg(leg)
           client == dynamic_leg_layout(leg)
<1>1. /\ leg.program_id = "whirlpool" /\ leg.accounts = whirlpool_swap_leg(p, 2, amount, min).accounts
      /\ leg.data.disc = "swap_v2" /\ leg.data.len = (IF p.extra = 0 THEN 43 ELSE 49) /\ leg.data.flags = <<1, 0, p.extra>>
  BY DEF whirlpool_swap_leg, Leg, form
<1>10. /\ List(leg.accounts) /\ Size(leg.accounts) \in Nat /\ Size(leg.accounts) >= 15
      /\ Item(leg.accounts, 1) = ProgramOf(p, 1)
      /\ Item(leg.accounts, 2) = ProgramOf(p, 2)
      /\ Item(leg.accounts, 6) = MintOf(p, 1)
      /\ Item(leg.accounts, 7) = MintOf(p, 2)
      /\ Item(leg.accounts, 8) = OwnAta(p, 1)
      /\ Item(leg.accounts, 10) = OwnAta(p, 2)
  BY ListIs, WhirlpoolList
<1> HIDE DEF leg
<1>9. is_whirlpool(leg)
  BY <1>1 DEF is_whirlpool, whirlpool_remaining
<1>2. row = program_row(9, 7, 3, 8, <<6, 5>>, <<1, 0>>, FALSE)
  BY <1>1, <1>9 DEF dynamic_second_leg, is_form, whirlpool_row
<1>3. client = client_row(9, 7, 3, 8, 15 + p.extra)
  BY <1>1, <1>9 DEF dynamic_leg_layout, is_form
<1>4. /\ row.input_account = 9 /\ row.output_account = 7 /\ row.signer = 3
      /\ row.amount_offset = 8 /\ row.input_mint = 6 /\ row.output_mint = 5
      /\ row.input_program = 1 /\ row.output_program = 0
      /\ row.paired_mints = FALSE /\ row # NoLayout
  BY <1>2 DEF program_row, NoLayout
<1>5. /\ client.input_account = 9 /\ client.output_account = 7 /\ client.signer = 3
      /\ client.amount_offset = 8 /\ client # no_layout
  BY <1>3 DEF client_row, no_layout
<1> HIDE DEF row, client
<1>6. SameRows(leg)
  BY <1>10, <1>4, <1>5 DEF SameRows, Positions, row, client, NO_ACCOUNT
<1>7. Tokens(p, 2, leg)
  BY <1>10, <1>4 DEF Tokens, Named, row, NO_ACCOUNT
<1>8. /\ Item(leg.accounts, row.input_account + 1) = OwnAta(p, 2)
      /\ Item(leg.accounts, row.output_account + 1) = OwnAta(p, 1)
  BY <1>10, <1>4
<1> QED
  BY <1>4, <1>6, <1>7, <1>8 DEF Fits, row, leg
-----------------------------------------------------------------------------
(* The leg of a pool: which builder makes it, its shape, its rows.          *)

LEMMA PoolFacts ==
    ASSUME NEW p, SoundPool(p)
    PROVE  /\ p.dex \in { "launchlab", "cpmm", "pumpfun", "pumpfun_v2", "pumpswap",
                          "amm_v4", "damm_v2", "clmm", "whirlpool", "dlmm", "raw" }
           /\ p.extra \in Nat /\ p.mode \in 0 .. 2
           /\ p.dex \in {"pumpfun", "damm_v2"} => p.extra <= 1
  BY DEF SoundPool, Pool

LEMMA BuilderOf ==
    ASSUME NEW p, NEW i \in 1 .. 2, NEW amount, NEW min
    PROVE  LET leg == pool_leg(p, i, amount, min) IN
           /\ p.dex = "launchlab" /\ i = 2 => leg = launchlab_buy_leg(p, amount, min)
           /\ p.dex = "launchlab" /\ i = 1 => leg = launchlab_sell_leg(p, amount, min)
           /\ p.dex = "cpmm" /\ p.mode # 2 => leg = cpmm_swap_leg(p, i, amount, min)
           /\ p.dex = "cpmm" /\ p.mode = 2 =>
                leg = cpmm_swap_exact_out_leg(p, i, amount, min)
           /\ p.dex = "pumpfun" /\ i = 2 => leg = pumpfun_buy_leg(p, amount, min)
           /\ p.dex = "pumpfun" /\ i = 1 => leg = pumpfun_sell_leg(p, amount, min)
           /\ p.dex = "pumpfun_v2" /\ i = 2 => leg = pumpfun_buy_v2_leg(p, amount, min)
           /\ p.dex = "pumpfun_v2" /\ i = 1 => leg = pumpfun_sell_v2_leg(p, amount, min)
           /\ p.dex = "pumpswap" /\ i = 2 /\ p.mode # 2 =>
                leg = pumpswap_buy_leg(p, amount, min)
           /\ p.dex = "pumpswap" /\ i = 2 /\ p.mode = 2 =>
                leg = pumpswap_buy_exact_out_leg(p, min, amount)
           /\ p.dex = "pumpswap" /\ i = 1 => leg = pumpswap_sell_leg(p, amount, min)
           /\ p.dex = "amm_v4" /\ p.mode # 2 =>
                leg = raydium_amm_v4_swap_leg(p, i, amount, min)
           /\ p.dex = "amm_v4" /\ p.mode = 2 =>
                leg = raydium_amm_v4_swap_exact_out_leg(p, i, min, amount)
           /\ p.dex = "damm_v2" => leg = meteora_damm_v2_swap_leg(p, i, amount, min)
           /\ p.dex = "clmm" => leg = raydium_clmm_swap_leg(p, i, amount, min)
           /\ p.dex = "whirlpool" => leg = whirlpool_swap_leg(p, i, amount, min)
           /\ p.dex = "dlmm" => leg = meteora_dlmm_swap_leg(p, i, amount, min)
           /\ p.dex = "raw" => leg = raw_leg(p, i, amount, min)
<1>1. i = 1 \/ i = 2
  OBVIOUS
<1> QED
  BY <1>1, SMTT(30) DEF pool_leg

(* What a leg is at least, whoever made it.                                 *)
Shaped(leg) ==
    List(leg.accounts) /\ Size(leg.accounts) \in Nat \ {0} /\ leg.data.len \in Nat

(* The builders that refuse a list that is too long.                        *)
Counted == {"pumpswap", "clmm", "whirlpool", "dlmm"}

LEMMA PoolLegShape ==
    ASSUME NEW p, SoundPool(p), NEW i \in 1 .. 2, NEW amount, NEW min
    PROVE  LET leg == pool_leg(p, i, amount, min) IN
           Shaped(leg) /\ (p.dex \notin Counted => Size(leg.accounts) <= MAX_LEG_ACCOUNTS)
<1> DEFINE leg == pool_leg(p, i, amount, min)
<1> USE DEF MAX_LEG_ACCOUNTS, Counted
<1>1. p.extra \in Nat /\ p.mode \in 0 .. 2 /\ (i = 1 \/ i = 2)
  BY PoolFacts
<1>2. CASE p.dex = "launchlab"
  <2>1. leg.accounts = launchlab_accounts(p) /\ leg.data.len = 32
    BY <1>1, <1>2, BuilderOf DEF launchlab_buy_leg, launchlab_sell_leg, Leg, form
  <2> QED
    BY <2>1, LaunchLabList DEF Shaped
<1>3. CASE p.dex = "cpmm"
  <2>1. leg.accounts = cpmm_accounts(p, i) /\ leg.data.len = 24
    BY <1>1, <1>3, BuilderOf DEF cpmm_swap_leg, cpmm_swap_exact_out_leg, Leg, form
  <2> QED
    BY <2>1, CpmmList DEF Shaped
<1>4. CASE p.dex = "pumpfun"
  <2>1. p.extra <= 1
    BY <1>4, PoolFacts
  <2>2. CASE i = 2
    <3>1. leg = pumpfun_buy_leg(p, amount, min)
      BY <1>4, <2>2, BuilderOf
    <3>2. pumpfun_buy_leg(p, amount, min).data.len = 26
      BY DEF pumpfun_buy_leg, Leg, form
    <3> QED
      BY <3>1, <3>2, PumpFunBuyList DEF Shaped
  <2>3. CASE i = 1
    <3>1. leg = pumpfun_sell_leg(p, amount, min)
      BY <1>4, <2>3, BuilderOf
    <3>2. pumpfun_sell_leg(p, amount, min).data.len = 24
      BY DEF pumpfun_sell_leg, Leg, form
    <3> QED
      BY <1>1, <2>1, <3>1, <3>2, PumpFunSellList DEF Shaped
  <2> QED
    BY <1>1, <2>2, <2>3
<1>5. CASE p.dex = "pumpfun_v2"
  <2>1. CASE i = 2
    <3>1. leg = pumpfun_buy_v2_leg(p, amount, min)
      BY <1>5, <2>1, BuilderOf
    <3>2. /\ pumpfun_buy_v2_leg(p, amount, min).accounts = PumpFunV2Buys(p)
          /\ pumpfun_buy_v2_leg(p, amount, min).data.len = 25
      BY DEF pumpfun_buy_v2_leg, PumpFunV2Buys, Leg, form
    <3> QED
      BY <3>1, <3>2, PumpFunV2BuyList DEF Shaped
  <2>2. CASE i = 1
    <3>1. leg = pumpfun_sell_v2_leg(p, amount, min)
      BY <1>5, <2>2, BuilderOf
    <3>2. /\ pumpfun_sell_v2_leg(p, amount, min).accounts = PumpFunV2Sells(p)
          /\ pumpfun_sell_v2_leg(p, amount, min).data.len = 24
      BY DEF pumpfun_sell_v2_leg, PumpFunV2Sells, Leg, form
    <3> QED
      BY <3>1, <3>2, PumpFunV2SellList DEF Shaped
  <2> QED
    BY <1>1, <2>1, <2>2
<1>6. CASE p.dex = "pumpswap"
  <2>1. CASE i = 2
    <3>1. \/ leg = pumpswap_buy_leg(p, amount, min)
          \/ leg = pumpswap_buy_exact_out_leg(p, min, amount)
      BY <1>6, <2>1, BuilderOf
    <3>2. /\ pumpswap_buy_leg(p, amount, min).accounts = PumpSwapBuys(p)
          /\ pumpswap_buy_leg(p, amount, min).data.len = 25
          /\ pumpswap_buy_exact_out_leg(p, min, amount).accounts = PumpSwapBuys(p)
          /\ pumpswap_buy_exact_out_leg(p, min, amount).data.len = 25
      BY DEF pumpswap_buy_leg, pumpswap_buy_exact_out_leg, PumpSwapBuys, Leg, form
    <3> QED
      BY <1>1, <1>6, <3>1, <3>2, PumpSwapBuyList DEF Shaped
  <2>2. CASE i = 1
    <3>1. leg = pumpswap_sell_leg(p, amount, min)
      BY <1>6, <2>2, BuilderOf
    <3>2. /\ pumpswap_sell_leg(p, amount, min).accounts = PumpSwapSells(p)
          /\ pumpswap_sell_leg(p, amount, min).data.len = 24
      BY DEF pumpswap_sell_leg, PumpSwapSells, Leg, form
    <3> QED
      BY <1>1, <1>6, <3>1, <3>2, PumpSwapSellList DEF Shaped
  <2> QED
    BY <1>1, <2>1, <2>2
<1>7. CASE p.dex = "amm_v4"
  <2>1. leg.accounts = raydium_amm_v4_accounts(p, i) /\ leg.data.len = 17
    BY <1>1, <1>7, BuilderOf
       DEF raydium_amm_v4_swap_leg, raydium_amm_v4_swap_exact_out_leg, Leg, form
  <2> QED
    BY <2>1, AmmV4List DEF Shaped
<1>8. CASE p.dex = "damm_v2"
  <2>1. p.extra <= 1
    BY <1>8, PoolFacts
  <2>2. leg = meteora_damm_v2_swap_leg(p, i, amount, min)
    BY <1>8, BuilderOf
  <2>3. meteora_damm_v2_swap_leg(p, i, amount, min).data.len = 25
    BY DEF meteora_damm_v2_swap_leg, Leg, form
  <2> QED
    BY <1>1, <2>1, <2>2, <2>3, DammList DEF Shaped
<1>9. CASE p.dex = "clmm"
  <2>1. leg = raydium_clmm_swap_leg(p, i, amount, min)
    BY <1>9, BuilderOf
  <2>2. raydium_clmm_swap_leg(p, i, amount, min).data.len = 41
    BY DEF raydium_clmm_swap_leg, Leg, form
  <2> QED
    BY <1>1, <1>9, <2>1, <2>2, ClmmList DEF Shaped
<1>10. CASE p.dex = "whirlpool"
  <2>1. leg = whirlpool_swap_leg(p, i, amount, min)
    BY <1>10, BuilderOf
  <2>2. whirlpool_swap_leg(p, i, amount, min).data.len \in {43, 49}
    BY DEF whirlpool_swap_leg, Leg, form
  <2> QED
    BY <1>1, <1>10, <2>1, <2>2, WhirlpoolList DEF Shaped
<1>11. CASE p.dex = "dlmm"
  <2>1. leg = meteora_dlmm_swap_leg(p, i, amount, min)
    BY <1>11, BuilderOf
  <2>2. meteora_dlmm_swap_leg(p, i, amount, min).data.len = 28
    BY DEF meteora_dlmm_swap_leg, Leg, form
  <2> QED
    BY <1>1, <1>11, <2>1, <2>2, DlmmList DEF Shaped
<1>12. CASE p.dex = "raw"
  <2>1. leg = raw_leg(p, i, amount, min)
    BY <1>12, BuilderOf
  <2>2. raw_leg(p, i, amount, min).data.len = 16
    BY DEF raw_leg, Leg, form
  <2> QED
    BY <2>1, <2>2, RawList DEF Shaped
<1> QED
  BY <1>2, <1>3, <1>4, <1>5, <1>6, <1>7, <1>8, <1>9, <1>10, <1>11, <1>12, PoolFacts

(* The legs that neither side can patch.                                    *)
LEMMA NoRow ==
    ASSUME NEW leg,
           \/ leg.program_id \in {"pumpfun", "raw"}
           \/ leg.data.disc \in {"sell_exact_in", "swap_base_output", "swap_base_out_v2"}
           \/ leg.program_id = "pumpswap" /\ leg.data.disc = "buy"
           \/ leg.program_id = "damm_v2" /\ leg.data.flags[1] # 0
    PROVE  dynamic_leg_layout(leg) = no_layout
  BY DEF dynamic_leg_layout, is_form, is_whirlpool

LEMMA PatchIsRebuild ==
    ASSUME NEW p, NEW i, NEW amount, NEW min, NEW v
    PROVE  /\ patch_second_leg_amount(launchlab_buy_leg(p, amount, min), v, 8)
                = launchlab_buy_leg(p, v, min)
           /\ patch_second_leg_amount(cpmm_swap_leg(p, i, amount, min), v, 8)
                = cpmm_swap_leg(p, i, v, min)
           /\ patch_second_leg_amount(pumpswap_buy_leg(p, amount, min), v, 8)
                = pumpswap_buy_leg(p, v, min)
           /\ patch_second_leg_amount(pumpswap_sell_leg(p, amount, min), v, 8)
                = pumpswap_sell_leg(p, v, min)
           /\ patch_second_leg_amount(raydium_amm_v4_swap_leg(p, i, amount, min), v, 1)
                = raydium_amm_v4_swap_leg(p, i, v, min)
           /\ patch_second_leg_amount(meteora_damm_v2_swap_leg(p, i, amount, min), v, 8)
                = meteora_damm_v2_swap_leg(p, i, v, min)
           /\ patch_second_leg_amount(raydium_clmm_swap_leg(p, i, amount, min), v, 8)
                = raydium_clmm_swap_leg(p, i, v, min)
           /\ patch_second_leg_amount(whirlpool_swap_leg(p, i, amount, min), v, 8)
                = whirlpool_swap_leg(p, i, v, min)
           /\ patch_second_leg_amount(meteora_dlmm_swap_leg(p, i, amount, min), v, 8)
                = meteora_dlmm_swap_leg(p, i, v, min)
<1>1. 8 \in Nat /\ 1 \in Nat
  OBVIOUS
<1>2. /\ patch_second_leg_amount(launchlab_buy_leg(p, amount, min), v, 8)
           = launchlab_buy_leg(p, v, min)
      /\ patch_second_leg_amount(cpmm_swap_leg(p, i, amount, min), v, 8)
           = cpmm_swap_leg(p, i, v, min)
  BY <1>1, FormPatch DEF launchlab_buy_leg, cpmm_swap_leg
<1>3. patch_second_leg_amount(pumpswap_buy_leg(p, amount, min), v, 8) = pumpswap_buy_leg(p, v, min)
  <2> DEFINE accounts == pumpswap_buy_leg(p, amount, min).accounts
  <2>1. \A x : pumpswap_buy_leg(p, x, min)
                 = Leg("pumpswap", accounts,
                       form("buy_exact_quote_in", 25, 8, x, min, <<1>>))
    BY DEF pumpswap_buy_leg, Leg
  <2> HIDE DEF accounts
  <2> QED
    BY <1>1, <2>1, FormPatch
<1>4. patch_second_leg_amount(pumpswap_sell_leg(p, amount, min), v, 8) = pumpswap_sell_leg(p, v, min)
  <2> DEFINE accounts == pumpswap_sell_leg(p, amount, min).accounts
  <2>1. \A x : pumpswap_sell_leg(p, x, min)
                 = Leg("pumpswap", accounts,
                       form("sell", 24, 8, x, min, <<>>))
    BY DEF pumpswap_sell_leg, Leg
  <2> HIDE DEF accounts
  <2> QED
    BY <1>1, <2>1, FormPatch
<1>5. patch_second_leg_amount(raydium_amm_v4_swap_leg(p, i, amount, min), v, 1) = raydium_amm_v4_swap_leg(p, i, v, min)
  <2> DEFINE accounts == raydium_amm_v4_swap_leg(p, i, amount, min).accounts
  <2>1. \A x : raydium_amm_v4_swap_leg(p, i, x, min)
                 = Leg("amm_v4", accounts,
                       form("swap_base_in_v2", 17, 1, x, min, <<>>))
    BY DEF raydium_amm_v4_swap_leg, Leg
  <2> HIDE DEF accounts
  <2> QED
    BY <1>1, <2>1, FormPatch
<1>6. patch_second_leg_amount(meteora_damm_v2_swap_leg(p, i, amount, min), v, 8) = meteora_damm_v2_swap_leg(p, i, v, min)
  <2> DEFINE accounts == meteora_damm_v2_swap_leg(p, i, amount, min).accounts
  <2>1. \A x : meteora_damm_v2_swap_leg(p, i, x, min)
                 = Leg("damm_v2", accounts,
                       form("swap2", 25, 8, x, min, <<p.mode>>))
    BY DEF meteora_damm_v2_swap_leg, Leg
  <2> HIDE DEF accounts
  <2> QED
    BY <1>1, <2>1, FormPatch
<1>7. patch_second_leg_amount(raydium_clmm_swap_leg(p, i, amount, min), v, 8) = raydium_clmm_swap_leg(p, i, v, min)
  <2> DEFINE accounts == raydium_clmm_swap_leg(p, i, amount, min).accounts
  <2>1. \A x : raydium_clmm_swap_leg(p, i, x, min)
                 = Leg("clmm", accounts,
                       form("swap_v2", 41, 8, x, min, <<1>>))
    BY DEF raydium_clmm_swap_leg, Leg
  <2> HIDE DEF accounts
  <2> QED
    BY <1>1, <2>1, FormPatch
<1>8. patch_second_leg_amount(whirlpool_swap_leg(p, i, amount, min), v, 8) = whirlpool_swap_leg(p, i, v, min)
  <2> DEFINE accounts == whirlpool_swap_leg(p, i, amount, min).accounts
  <2>1. \A x : whirlpool_swap_leg(p, i, x, min)
                 = Leg("whirlpool", accounts,
                       form("swap_v2", IF p.extra = 0 THEN 43 ELSE 49, 8, x, min, <<1, 2 - i, p.extra>>))
    BY DEF whirlpool_swap_leg, Leg
  <2> HIDE DEF accounts
  <2> QED
    BY <1>1, <2>1, FormPatch
<1>9. patch_second_leg_amount(meteora_dlmm_swap_leg(p, i, amount, min), v, 8) = meteora_dlmm_swap_leg(p, i, v, min)
  <2> DEFINE accounts == meteora_dlmm_swap_leg(p, i, amount, min).accounts
  <2>1. \A x : meteora_dlmm_swap_leg(p, i, x, min)
                 = Leg("dlmm", accounts,
                       form("swap2", 28, 8, x, min, <<0>>))
    BY DEF meteora_dlmm_swap_leg, Leg
  <2> HIDE DEF accounts
  <2> QED
    BY <1>1, <2>1, FormPatch
<1> QED
  BY <1>2, <1>3, <1>4, <1>5, <1>6, <1>7, <1>8, <1>9

(* A leg that the client can validate as a later leg has the same row in    *)
(* the program's table, and patching it is building it again.               *)
LEMMA RowsAgree ==
    ASSUME NEW p, SoundPool(p), NEW i \in 1 .. 2, NEW amount, NEW min,
           p.dex = "amm_v4" => p.programs = <<"token", "token">>,
           p.dex = "whirlpool" => p.extra <= 3,
           dynamic_leg_layout(pool_leg(p, i, amount, min)) # no_layout
    PROVE  LET leg == pool_leg(p, i, amount, min)
               at == dynamic_second_leg(leg).amount_offset
           IN  /\ p.dex # "pumpfun"
               /\ \E a \in 1 .. 2 : Fits(p, a, leg)
               /\ \A v : patch_second_leg_amount(leg, v, at) = pool_leg(p, i, v, min)
<1> DEFINE leg == pool_leg(p, i, amount, min)
           at == dynamic_second_leg(leg).amount_offset
<1>1. /\ p.extra \in Nat /\ p.mode \in 0 .. 2 /\ (i = 1 \/ i = 2)
      /\ 1 \in 1 .. 2 /\ 2 \in 1 .. 2
  BY PoolFacts
<1>2. ASSUME NEW a, Fits(p, a, leg) PROVE at = IF p.dex = "amm_v4" THEN 1 ELSE 8
  BY <1>2 DEF Fits
<1> HIDE DEF at
<1>3. CASE p.dex = "launchlab"
  <2>1. i = 2
    <3>1. launchlab_sell_leg(p, amount, min).data.disc = "sell_exact_in"
      BY DEF launchlab_sell_leg, Leg, form
    <3> QED
      BY <1>1, <1>3, <3>1, NoRow, BuilderOf
  <2>2. \A v : pool_leg(p, i, v, min) = launchlab_buy_leg(p, v, min)
    BY <1>3, <2>1, BuilderOf
  <2> QED
    BY <1>1, <1>2, <1>3, <2>2, LaunchLabFits, PatchIsRebuild DEF at
<1>4. CASE p.dex = "cpmm"
  <2>1. p.mode # 2
    <3>1. cpmm_swap_exact_out_leg(p, i, amount, min).data.disc = "swap_base_output"
      BY DEF cpmm_swap_exact_out_leg, Leg, form
    <3> QED
      BY <1>4, <3>1, NoRow, BuilderOf
  <2>2. \A v : pool_leg(p, i, v, min) = cpmm_swap_leg(p, i, v, min)
    BY <1>4, <2>1, BuilderOf
  <2> QED
    BY <1>1, <1>2, <1>4, <2>2, CpmmFits, PatchIsRebuild DEF at
<1>5. p.dex # "pumpfun"
  <2>1. /\ pumpfun_buy_leg(p, amount, min).program_id = "pumpfun"
        /\ pumpfun_sell_leg(p, amount, min).program_id = "pumpfun"
    BY DEF pumpfun_buy_leg, pumpfun_sell_leg, Leg
  <2> QED
    BY <1>1, <2>1, NoRow, BuilderOf
<1>6. p.dex # "pumpfun_v2"
  <2>1. /\ pumpfun_buy_v2_leg(p, amount, min).program_id = "pumpfun"
        /\ pumpfun_sell_v2_leg(p, amount, min).program_id = "pumpfun"
    BY DEF pumpfun_buy_v2_leg, pumpfun_sell_v2_leg, Leg
  <2> QED
    BY <1>1, <2>1, NoRow, BuilderOf
<1>7. CASE p.dex = "pumpswap"
  <2>1. i = 2 => p.mode # 2
    <3>1. /\ pumpswap_buy_exact_out_leg(p, min, amount).data.disc = "buy"
          /\ pumpswap_buy_exact_out_leg(p, min, amount).program_id = "pumpswap"
      BY DEF pumpswap_buy_exact_out_leg, Leg, form
    <3> QED
      BY <1>7, <3>1, NoRow, BuilderOf
  <2>2. CASE i = 2
    <3>1. \A v : pool_leg(p, i, v, min) = pumpswap_buy_leg(p, v, min)
      BY <1>7, <2>1, <2>2, BuilderOf
    <3> QED
      BY <1>1, <1>2, <1>7, <3>1, PumpSwapBuyFits, PatchIsRebuild DEF at
  <2>3. CASE i = 1
    <3>1. \A v : pool_leg(p, i, v, min) = pumpswap_sell_leg(p, v, min)
      BY <1>7, <2>3, BuilderOf
    <3> QED
      BY <1>1, <1>2, <1>7, <3>1, PumpSwapSellFits, PatchIsRebuild DEF at
  <2> QED
    BY <1>1, <2>2, <2>3
<1>8. CASE p.dex = "amm_v4"
  <2>1. p.mode # 2
    <3>1. raydium_amm_v4_swap_exact_out_leg(p, i, min, amount).data.disc = "swap_base_out_v2"
      BY DEF raydium_amm_v4_swap_exact_out_leg, Leg, form
    <3> QED
      BY <1>8, <3>1, NoRow, BuilderOf
  <2>2. \A v : pool_leg(p, i, v, min) = raydium_amm_v4_swap_leg(p, i, v, min)
    BY <1>8, <2>1, BuilderOf
  <2>3. p.programs[1] = p.programs[2]
    BY <1>8
  <2> QED
    BY <1>1, <1>2, <1>8, <2>2, <2>3, AmmV4Fits, PatchIsRebuild DEF at
<1>9. CASE p.dex = "damm_v2"
  <2>1. \A v : pool_leg(p, i, v, min) = meteora_damm_v2_swap_leg(p, i, v, min)
    BY <1>9, BuilderOf
  <2>2. p.mode = 0
    <3>1. /\ meteora_damm_v2_swap_leg(p, i, amount, min).program_id = "damm_v2"
          /\ meteora_damm_v2_swap_leg(p, i, amount, min).data.flags[1] = p.mode
      BY DEF meteora_damm_v2_swap_leg, Leg, form
    <3> QED
      BY <2>1, <3>1, NoRow
  <2> QED
    BY <1>1, <1>2, <1>9, <2>1, <2>2, DammFits, PatchIsRebuild DEF at
<1>10. CASE p.dex = "clmm"
  <2>1. \A v : pool_leg(p, i, v, min) = raydium_clmm_swap_leg(p, i, v, min)
    BY <1>10, BuilderOf
  <2> QED
    BY <1>1, <1>2, <1>10, <2>1, ClmmFits, PatchIsRebuild DEF at
<1>11. CASE p.dex = "whirlpool"
  <2>1. \A v : pool_leg(p, i, v, min) = whirlpool_swap_leg(p, i, v, min)
    BY <1>11, BuilderOf
  <2>2. p.extra \in 0 .. 3
    BY <1>1, <1>11
  <2>3. Fits(p, i, leg)
    BY <1>1, <1>11, <2>1, <2>2, WhirlpoolAToBFits, WhirlpoolBToAFits
  <2> QED
    BY <1>2, <1>11, <2>1, <2>3, PatchIsRebuild DEF at
<1>12. CASE p.dex = "dlmm"
  <2>1. \A v : pool_leg(p, i, v, min) = meteora_dlmm_swap_leg(p, i, v, min)
    BY <1>12, BuilderOf
  <2> QED
    BY <1>1, <1>2, <1>12, <2>1, DlmmFits, PatchIsRebuild DEF at
<1>13. p.dex # "raw"
  <2>1. raw_leg(p, i, amount, min).program_id = "raw"
    BY DEF raw_leg, Leg
  <2> QED
    BY <2>1, NoRow, BuilderOf
<1> QED
  BY <1>3, <1>4, <1>5, <1>6, <1>7, <1>8, <1>9, <1>10, <1>11, <1>12, <1>13, PoolFacts

-----------------------------------------------------------------------------
(* A later leg: what the client validates, the program accepts.             *)

(* The leg as the program sees it: the same, with at least its privileges.  *)
Seen(got, leg) ==
    /\ got.program_id = leg.program_id /\ got.data = leg.data
    /\ List(got.accounts) /\ Size(got.accounts) = Size(leg.accounts)
    /\ \A j \in 1 .. Size(leg.accounts) :
         /\ Item(got.accounts, j).key = Item(leg.accounts, j).key
         /\ Item(leg.accounts, j).w => Item(got.accounts, j).w
         /\ Item(leg.accounts, j).s => Item(got.accounts, j).s

LEMMA SameTable ==
    ASSUME NEW got, NEW leg, got.program_id = leg.program_id, got.data = leg.data
    PROVE  dynamic_second_leg(got) = dynamic_second_leg(leg)
  BY DEF dynamic_second_leg, is_form, is_whirlpool

LEMMA SlotKeys ==
    ASSUME NEW p, SoundPool(p), p.dex # "pumpfun", NEW a \in 1 .. 2
    PROVE  /\ OwnAta(p, a).key = user_ata(p, a)
           /\ MintOf(p, a).key = token_mint(user_ata(p, a))
           /\ ProgramOf(p, a).key = token_program(user_ata(p, a))
<1>1. p.mints[a] # "sol"
  <2>1. p.mints \in Seq(STRING) /\ Len(p.mints) \in {2, 3}
    BY DEF SoundPool, Pool
  <2>2. a \in DOMAIN p.mints
    BY <2>1
  <2> QED
    BY <2>2 DEF SoundPool
<1>2. user_ata(p, a) = ata(p.mints[a], p.programs[a])
  BY <1>1 DEF user_ata
<1>3. /\ ata(p.mints[a], p.programs[a])[1] = "ata"
      /\ ata(p.mints[a], p.programs[a])[2] = p.mints[a]
      /\ ata(p.mints[a], p.programs[a])[3] = p.programs[a]
  BY DEF ata
<1>4. ata(p.mints[a], p.programs[a]) # user
  BY <1>3 DEF user
<1>5. OwnAta(p, a).key = user_ata(p, a)
  BY DEF OwnAta, meta
<1>6. MintOf(p, a).key = token_mint(user_ata(p, a))
  BY <1>2, <1>3 DEF MintOf, token_mint, meta
<1>7. ProgramOf(p, a).key = token_program(user_ata(p, a))
  <2>1. ProgramOf(p, a).key = <<"program", p.programs[a]>>
    BY DEF ProgramOf, meta
  <2> QED
    BY <1>2, <1>3, <1>4, <2>1 DEF token_program
<1> QED
  BY <1>5, <1>6, <1>7

LEMMA LaterLegAccepted ==
    ASSUME NEW p, SoundPool(p), NEW i \in 1 .. 2, NEW amount, NEW min,
           p.dex = "amm_v4" => p.programs = <<"token", "token">>,
           p.dex = "whirlpool" => p.extra <= 3,
           NEW input, NEW output, NEW zero \in BOOLEAN, NEW allow \in BOOLEAN,
           validate_dynamic_leg(pool_leg(p, i, amount, min), input, output, zero, allow),
           NEW got, Seen(got, pool_leg(p, i, amount, min))
    PROVE  LET row == dynamic_second_leg(got) IN
           /\ got.program_id = "launchlab" => allow
           /\ row # NoLayout
           /\ zero => got.data.u64[row.amount_offset] = 0
           /\ validate_dynamic_accounts(row, got.accounts, input, output)
<1> DEFINE leg == pool_leg(p, i, amount, min)
           row == dynamic_second_leg(leg)
           client == dynamic_leg_layout(leg)
<1>1. /\ leg.program_id = "launchlab" => allow
      /\ client # no_layout
      /\ At(leg.accounts, client.signer).key = user /\ At(leg.accounts, client.signer).s
      /\ At(leg.accounts, client.input_account).key = input
      /\ At(leg.accounts, client.input_account).w
      /\ At(leg.accounts, client.output_account).key = output
      /\ At(leg.accounts, client.output_account).w
      /\ zero => leg.data.u64[client.amount_offset] = 0
  BY Zenon DEF validate_dynamic_leg
<1>2. /\ p.dex # "pumpfun"
      /\ \E a \in 1 .. 2 : Fits(p, a, leg)
  BY <1>1, RowsAgree
<1>3. PICK a \in 1 .. 2 : Fits(p, a, leg)
  BY <1>2
<1>4. dynamic_second_leg(got) = row
  BY SameTable DEF Seen
<1>5. Seen(got, leg)
  OBVIOUS
<1> HIDE DEF leg, row, client
<1>6. /\ row # NoLayout
      /\ row.input_account = client.input_account
      /\ row.output_account = client.output_account
      /\ row.signer = client.signer /\ row.amount_offset = client.amount_offset
      /\ {row.input_account, row.output_account, row.signer} \subseteq Nat \ {NO_ACCOUNT}
      /\ \A position \in Positions(row) : position \in Nat /\ position < Size(leg.accounts)
  BY <1>3 DEF Fits, SameRows, row, client
<1>7. /\ Item(leg.accounts, row.input_account + 1) = OwnAta(p, a)
      /\ Item(leg.accounts, row.output_account + 1) = OwnAta(p, 3 - a)
      /\ Tokens(p, a, leg) \/ (row.paired_mints /\ Tokens(p, 3 - a, leg))
  BY <1>3 DEF Fits, row
<1>8. At(leg.accounts, row.input_account) = OwnAta(p, a)
      /\ At(leg.accounts, row.output_account) = OwnAta(p, 3 - a)
  BY <1>7 DEF At, Item
<1>9. 3 - a \in 1 .. 2 /\ 3 - (3 - a) = a
  OBVIOUS
<1>10. input = user_ata(p, a) /\ output = user_ata(p, 3 - a)
  BY <1>1, <1>2, <1>6, <1>8, <1>9, SlotKeys
<1>11. ASSUME NEW position \in Nat, position < Size(leg.accounts)
       PROVE  /\ position < Len(got.accounts)
              /\ At(got.accounts, position).key = At(leg.accounts, position).key
              /\ At(leg.accounts, position).w => At(got.accounts, position).w
              /\ At(leg.accounts, position).s => At(got.accounts, position).s
  <2>1. List(got.accounts) /\ Size(got.accounts) = Size(leg.accounts)
    BY <1>5 DEF Seen
  <2>2. Size(got.accounts) = Len(got.accounts) /\ Size(got.accounts) \in Nat
    BY <2>1, ListIs
  <2>3. position + 1 \in 1 .. Size(leg.accounts)
    BY <1>11, <2>1, <2>2
  <2> DEFINE j == position + 1
  <2>4. /\ Item(got.accounts, j).key = Item(leg.accounts, j).key
        /\ Item(leg.accounts, j).w => Item(got.accounts, j).w
        /\ Item(leg.accounts, j).s => Item(got.accounts, j).s
    BY <1>5, <2>3 DEF Seen
  <2> QED
    BY <1>11, <2>1, <2>2, <2>4 DEF At, Item
<1>12. ASSUME NEW position \in Positions(row), NEW m, Named(leg, position, m)
       PROVE  At(got.accounts, position).key = m.key
  <2>1. position # NO_ACCOUNT /\ position \in Nat /\ position < Size(leg.accounts)
    BY <1>6, <1>12 DEF Positions
  <2>2. At(leg.accounts, position) = m
    BY <1>12, <2>1 DEF Named, At, Item
  <2> QED
    BY <1>11, <2>1, <2>2
<1> DEFINE holds(position, key) == position # NO_ACCOUNT => At(got.accounts, position).key = key
<1>13. ASSUME NEW b \in 1 .. 2, Tokens(p, b, leg)
       PROVE  /\ holds(row.input_mint, token_mint(user_ata(p, b)))
              /\ holds(row.output_mint, token_mint(user_ata(p, 3 - b)))
              /\ holds(row.input_program, token_program(user_ata(p, b)))
              /\ holds(row.output_program, token_program(user_ata(p, 3 - b)))
  <2>1. /\ Named(leg, row.input_mint, MintOf(p, b))
        /\ Named(leg, row.output_mint, MintOf(p, 3 - b))
        /\ Named(leg, row.input_program, ProgramOf(p, b))
        /\ Named(leg, row.output_program, ProgramOf(p, 3 - b))
    BY <1>13 DEF Tokens, row
  <2>2. 3 - b \in 1 .. 2
    OBVIOUS
  <2>3. /\ row.input_mint # NO_ACCOUNT => row.input_mint \in Positions(row)
        /\ row.output_mint # NO_ACCOUNT => row.output_mint \in Positions(row)
        /\ row.input_program # NO_ACCOUNT => row.input_program \in Positions(row)
        /\ row.output_program # NO_ACCOUNT => row.output_program \in Positions(row)
    BY DEF Positions
  <2> QED
    BY <1>2, <1>12, <2>1, <2>2, <2>3, SlotKeys
<1>14. \A position \in Positions(row) : position < Len(got.accounts)
  BY <1>6, <1>11
<1>15. /\ row.input_account \in Nat /\ row.output_account \in Nat /\ row.signer \in Nat
       /\ row.input_account < Size(leg.accounts) /\ row.output_account < Size(leg.accounts)
       /\ row.signer < Size(leg.accounts)
  <2>1. \A position \in {row.input_account, row.output_account, row.signer} :
          position # NO_ACCOUNT => position \in Positions(row)
    BY DEF Positions
  <2> QED
    BY <1>6, <2>1
<1>16. /\ At(got.accounts, row.signer).key = user /\ At(got.accounts, row.signer).s
       /\ At(got.accounts, row.input_account).key = input
       /\ At(got.accounts, row.input_account).w
       /\ At(got.accounts, row.output_account).key = output
       /\ At(got.accounts, row.output_account).w
  BY <1>1, <1>6, <1>11, <1>15
<1>17. validate_dynamic_accounts(row, got.accounts, input, output)
  <2>1. CASE Tokens(p, a, leg)
    BY <1>10, <1>13, <1>14, <1>16, <2>1 DEF validate_dynamic_accounts, Positions
  <2>2. CASE row.paired_mints /\ Tokens(p, 3 - a, leg)
    BY <1>9, <1>10, <1>13, <1>14, <1>16, <2>2 DEF validate_dynamic_accounts, Positions
  <2> QED
    BY <1>7, <2>1, <2>2
<1> QED
  BY <1>1, <1>4, <1>5, <1>6, <1>17 DEF Seen

-----------------------------------------------------------------------------
(* The instruction: where the legs begin in its data and in its accounts.   *)

LEMMA EndOf ==
    ASSUME NEW first \in Nat, NEW legs, Len(legs) \in 1 .. MAX_LEGS,
           \A k \in 1 .. Len(legs) : legs[k].data.len \in Nat
    PROVE  /\ end_of(first, legs, 0) = first
           /\ \A k \in 1 .. Len(legs) :
                end_of(first, legs, k) = end_of(first, legs, k - 1) + encoded_len(legs[k])
<1> DEFINE n == Len(legs)
           Body(f) == [k \in 0 .. n |->
                         IF k = 0 THEN first ELSE f[k - 1] + encoded_len(legs[k])]
           f == CHOOSE f : f = Body(f)
           e1 == first + encoded_len(legs[1])
           e2 == e1 + encoded_len(legs[2])
           e3 == e2 + encoded_len(legs[3])
           e4 == e3 + encoded_len(legs[4])
           g == [k \in 0 .. n |-> IF k = 0 THEN first ELSE IF k = 1 THEN e1
                                  ELSE IF k = 2 THEN e2 ELSE IF k = 3 THEN e3 ELSE e4]
<1>1. n \in 1 .. 4
  BY DEF MAX_LEGS
<1>2. \A k : end_of(first, legs, k) = f[k]
  BY DEF end_of
<1> HIDE DEF n, e1, e2, e3, e4
<1>3. g = Body(g)
  <2>1. ASSUME NEW k \in 0 .. n PROVE g[k] = Body(g)[k]
    <3>1. k \in {0, 1, 2, 3, 4}
      BY <1>1
    <3>2. CASE k = 0
      BY <3>2
    <3>3. CASE k = 1
      BY <1>1, <3>3 DEF e1
    <3>4. CASE k = 2
      BY <1>1, <3>4 DEF e2
    <3>5. CASE k = 3
      BY <1>1, <3>5 DEF e3
    <3>6. CASE k = 4
      BY <1>1, <3>6 DEF e4
    <3> QED
      BY <3>1, <3>2, <3>3, <3>4, <3>5, <3>6
  <2> QED
    BY <2>1
<1> HIDE DEF g
<1>4. f = Body(f)
  BY <1>3
<1> HIDE DEF f
<1>5. f[0] = first
  BY <1>1, <1>4
<1>6. ASSUME NEW k \in 1 .. n PROVE f[k] = f[k - 1] + encoded_len(legs[k])
  BY <1>1, <1>4, <1>6
<1> QED
  BY <1>2, <1>5, <1>6 DEF n

(* Where each leg ends in the data: further than where it begins.           *)
LEMMA EndOrder ==
    ASSUME NEW first \in Nat, NEW legs, Len(legs) \in 1 .. MAX_LEGS,
           \A k \in 1 .. Len(legs) : legs[k].data.len \in Nat
    PROVE  /\ \A k \in 0 .. Len(legs) : end_of(first, legs, k) \in Nat
           /\ \A k \in 0 .. Len(legs) : first <= end_of(first, legs, k)
           /\ \A j, k \in 0 .. Len(legs) : j < k => end_of(first, legs, j) < end_of(first, legs, k)
<1> DEFINE n == Len(legs)
           e(k) == end_of(first, legs, k)
<1>1. n \in 1 .. 4
  BY DEF MAX_LEGS
<1>2. e(0) = first
  BY EndOf
<1>3. \A k \in 1 .. n : e(k) = e(k - 1) + (35 + legs[k].data.len)
  BY EndOf DEF encoded_len, LEG_HEADER_LEN
<1> HIDE DEF n, e
<1>4. \A k \in 1 .. n : legs[k].data.len \in Nat
  BY DEF n
<1>5. ASSUME NEW j \in Nat, NEW k \in Nat, j = k - 1, k \in 1 .. n, e(j) \in Nat
      PROVE  e(k) \in Nat /\ e(j) < e(k)
  <2>1. PICK len \in Nat : e(k) = e(j) + (35 + len)
    BY <1>3, <1>4, <1>5, Zenon
  <2> QED
    BY <1>5, <2>1, SMT
<1>6. e(0) \in Nat /\ e(1) \in Nat /\ e(0) < e(1)
  BY <1>1, <1>2, <1>5
<1>7. n >= 2 => e(2) \in Nat /\ e(1) < e(2)
  BY <1>1, <1>5, <1>6
<1>8. n >= 3 => e(3) \in Nat /\ e(2) < e(3)
  BY <1>1, <1>5, <1>6, <1>7
<1>9. n >= 4 => e(4) \in Nat /\ e(3) < e(4)
  BY <1>1, <1>5, <1>7, <1>8
<1>10. \A k \in 0 .. n : e(k) \in Nat
  <2> TAKE k \in 0 .. n
  <2>1. k = 0 \/ k = 1 \/ (k = 2 /\ n >= 2) \/ (k = 3 /\ n >= 3) \/ (k = 4 /\ n >= 4)
    BY <1>1
  <2> QED
    BY <2>1, <1>6, <1>7, <1>8, <1>9
<1>11. \A j, k \in 0 .. n : j < k => e(j) < e(k)
  <2> TAKE j, k \in 0 .. n
  <2>1. j \in 0 .. 4 /\ k \in 0 .. 4 /\ j <= n /\ k <= n
    BY <1>1
  <2>2. j = 0 \/ j = 1 \/ j = 2 \/ j = 3 \/ j = 4
    BY <2>1
  <2>3. k = 0 \/ k = 1 \/ k = 2 \/ k = 3 \/ k = 4
    BY <2>1
  <2>4. e(1) \in Nat /\ e(0) \in Nat
    BY <1>6
  <2>5. CASE k = 0
    BY <2>2, <2>5
  <2>6. CASE k = 1
    BY <2>2, <2>6, <1>6
  <2>7. CASE k = 2
    BY <2>1, <2>2, <2>7, <1>6, <1>7
  <2>8. CASE k = 3
    BY <1>1, <2>1, <2>2, <2>8, <1>6, <1>7, <1>8
  <2>9. CASE k = 4
    BY <1>1, <2>1, <2>2, <2>9, <1>6, <1>7, <1>8, <1>9
  <2> QED
    BY <2>3, <2>5, <2>6, <2>7, <2>8, <2>9
<1>12. \A k \in 0 .. n : first <= e(k)
  <2> TAKE k \in 0 .. n
  <2>1. CASE k = 0
    BY <1>2, <2>1
  <2>2. CASE k # 0
    <3>1. 0 \in 0 .. n /\ 0 < k
      BY <1>1, <2>2
    <3> QED
      BY <1>2, <1>10, <1>11, <3>1
  <2> QED
    BY <2>1, <2>2
<1> QED
  BY <1>10, <1>11, <1>12 DEF n, e

(* How many accounts the first k legs have.                                 *)
Offset(legs, k) ==
      (IF k >= 1 THEN Size(legs[1].accounts) ELSE 0)
    + (IF k >= 2 THEN Size(legs[2].accounts) ELSE 0)
    + (IF k >= 3 THEN Size(legs[3].accounts) ELSE 0)
    + (IF k >= 4 THEN Size(legs[4].accounts) ELSE 0)

LEMMA OffsetSteps ==
    ASSUME NEW legs, Len(legs) \in 1 .. MAX_LEGS,
           \A k \in 1 .. Len(legs) : Shaped(legs[k])
    PROVE  /\ Offset(legs, 0) = 0
           /\ \A k \in 1 .. Len(legs) :
                Offset(legs, k) = Offset(legs, k - 1) + Size(legs[k].accounts)
           /\ \A k \in 0 .. Len(legs) : Offset(legs, k) \in Nat
           /\ \A k \in 0 .. Len(legs) : Offset(legs, k) <= Offset(legs, Len(legs))
<1> DEFINE n == Len(legs)
           s(k) == Size(legs[k].accounts)
<1>1. n \in 1 .. 4
  BY DEF MAX_LEGS
<1>2. \A k \in 1 .. n : s(k) \in Nat
  BY DEF Shaped
<1>3. \A k : Offset(legs, k) = (IF k >= 1 THEN s(1) ELSE 0) + (IF k >= 2 THEN s(2) ELSE 0)
                             + (IF k >= 3 THEN s(3) ELSE 0) + (IF k >= 4 THEN s(4) ELSE 0)
  BY DEF Offset
<1> HIDE DEF n, s
<1>4. /\ s(1) \in Nat /\ (n >= 2 => s(2) \in Nat) /\ (n >= 3 => s(3) \in Nat)
      /\ (n >= 4 => s(4) \in Nat)
  BY <1>1, <1>2
<1>5. Offset(legs, 0) = 0
  BY <1>3
<1>6. /\ Offset(legs, 1) = s(1) /\ (n >= 2 => Offset(legs, 2) = s(1) + s(2))
      /\ (n >= 3 => Offset(legs, 3) = s(1) + s(2) + s(3))
      /\ (n >= 4 => Offset(legs, 4) = s(1) + s(2) + s(3) + s(4))
  BY <1>1, <1>3, <1>4
<1>7. \A k \in 0 .. n : k = 0 \/ k = 1 \/ (k = 2 /\ n >= 2) \/ (k = 3 /\ n >= 3) \/ (k = 4 /\ n >= 4)
  BY <1>1
<1>8. \A k \in 1 .. n : Offset(legs, k) = Offset(legs, k - 1) + s(k)
  BY <1>1, <1>4, <1>5, <1>6, <1>7
<1>9. \A k \in 0 .. n : Offset(legs, k) \in Nat
  <2> TAKE k \in 0 .. n
  <2>1. CASE k = 0
    BY <1>5, <2>1
  <2>2. CASE k = 1
    BY <1>4, <1>6, <2>2
  <2>3. CASE k = 2 /\ n >= 2
    BY <1>4, <1>6, <2>3
  <2>4. CASE k = 3 /\ n >= 3
    BY <1>1, <1>4, <1>6, <2>4
  <2>5. CASE k = 4 /\ n >= 4
    BY <1>1, <1>4, <1>6, <2>5
  <2> QED
    BY <1>7, <2>1, <2>2, <2>3, <2>4, <2>5
<1>10. \A k \in 0 .. n : Offset(legs, k) <= Offset(legs, n)
  <2>1. n = 1 \/ n = 2 \/ n = 3 \/ n = 4
    BY <1>1
  <2>2. CASE n = 1
    BY <1>4, <1>5, <1>6, <1>7, <2>2
  <2>3. CASE n = 2
    BY <1>4, <1>5, <1>6, <1>7, <2>3
  <2>4. CASE n = 3
    BY <1>4, <1>5, <1>6, <1>7, <2>4
  <2>5. CASE n = 4
    BY <1>4, <1>5, <1>6, <1>7, <2>5
  <2> QED
    BY <2>1, <2>2, <2>3, <2>4, <2>5
<1> QED
  BY <1>5, <1>8, <1>9, <1>10 DEF n, s

(* The accounts of all legs, one after the other.                           *)
LEMMA Flattened ==
    ASSUME NEW ss, Len(ss) \in 1 .. MAX_LEGS
    PROVE  /\ Len(ss) = 1 => FlattenSeq(ss) = ss[1]
           /\ Len(ss) = 2 => FlattenSeq(ss) = ss[1] & ss[2]
           /\ Len(ss) = 3 => FlattenSeq(ss) = ss[1] & ss[2] & ss[3]
           /\ Len(ss) = 4 => FlattenSeq(ss) = ss[1] & ss[2] & ss[3] & ss[4]
<1> DEFINE n == Len(ss)
           Body(f) == [i \in 1 .. n |-> IF i = 1 THEN ss[i] ELSE f[i - 1] & ss[i]]
           f == CHOOSE f : f = Body(f)
           e2 == ss[1] & ss[2]
           e3 == e2 & ss[3]
           e4 == e3 & ss[4]
           g == [i \in 1 .. n |-> IF i = 1 THEN ss[1] ELSE IF i = 2 THEN e2
                                  ELSE IF i = 3 THEN e3 ELSE e4]
<1>1. n \in 1 .. 4
  BY DEF MAX_LEGS
<1>2. FlattenSeq(ss) = f[n]
  BY <1>1 DEF FlattenSeq, &
<1> HIDE DEF n, e2, e3, e4
<1>3. g = Body(g)
  <2>1. ASSUME NEW i \in 1 .. n PROVE g[i] = Body(g)[i]
    <3>1. i \in {1, 2, 3, 4}
      BY <1>1
    <3>2. CASE i = 1
      BY <3>2
    <3>3. CASE i = 2
      BY <1>1, <3>3 DEF e2
    <3>4. CASE i = 3
      BY <1>1, <3>4 DEF e3
    <3>5. CASE i = 4
      BY <1>1, <3>5 DEF e4
    <3> QED
      BY <3>1, <3>2, <3>3, <3>4, <3>5
  <2> QED
    BY <2>1
<1> HIDE DEF g
<1>4. f = Body(f)
  BY <1>3
<1> HIDE DEF f
<1>5. f[1] = ss[1]
  BY <1>1, <1>4
<1>6. n >= 2 => f[2] = e2
  BY <1>1, <1>4, <1>5 DEF e2
<1>7. n >= 3 => f[3] = e3
  BY <1>1, <1>4, <1>6 DEF e3
<1>8. n >= 4 => f[4] = e4
  BY <1>1, <1>4, <1>7 DEF e4
<1>9. /\ n = 1 => FlattenSeq(ss) = ss[1]
      /\ n = 2 => FlattenSeq(ss) = e2
      /\ n = 3 => FlattenSeq(ss) = e3
      /\ n = 4 => FlattenSeq(ss) = e4
  BY <1>2, <1>5, <1>6, <1>7, <1>8
<1> QED
  BY <1>9 DEF n, e2, e3, e4

(* A list that begins with s, whatever follows.                             *)
LEMMA CatFront ==
    ASSUME NEW s, NEW t, List(s), List(t), NEW i \in Int, 1 <= i, i <= Size(s)
    PROVE  Item(s & t, i) = Item(s, i)
  BY CatItem

LEMMA CatBack ==
    ASSUME NEW s, NEW t, List(s), List(t), NEW d \in Int, Size(s) = d,
           NEW j \in Int, 1 <= j, j <= Size(t)
    PROVE  Item(s & t, d + j) = Item(t, j)
<1>1. Size(t) \in Nat
  BY ListIs
<1>2. d + j > Size(s) /\ d + j <= Size(s) + Size(t) /\ (d + j) - Size(s) = j
  BY <1>1
<1> QED
  BY <1>2, CatItem

(* Where the accounts of a leg are among those of all legs.                 *)
Placed(flat, legs) ==
    /\ List(flat) /\ Size(flat) = Offset(legs, Len(legs))
    /\ \A k \in 1 .. Len(legs) : \A j \in 1 .. Size(legs[k].accounts) :
         Item(flat, Offset(legs, k - 1) + j) = Item(legs[k].accounts, j)

LEMMA FlatLegs ==
    ASSUME NEW legs, Len(legs) \in 1 .. MAX_LEGS,
           \A k \in 1 .. Len(legs) : Shaped(legs[k])
    PROVE  Placed(FlattenSeq([k \in 1 .. Len(legs) |-> legs[k].accounts]), legs)
<1> DEFINE n == Len(legs)
           ss == [k \in 1 .. n |-> legs[k].accounts]
           flat == FlattenSeq(ss)
           a == legs[1].accounts
           b == legs[2].accounts
           c == legs[3].accounts
           d == legs[4].accounts
           o(k) == Offset(legs, k)
           s(k) == Size(legs[k].accounts)
<1>1. n \in 1 .. 4
  BY DEF MAX_LEGS
<1>2. Len(ss) = n /\ \A k \in 1 .. n : ss[k] = legs[k].accounts
  <2>1. ss \in Seq({legs[k].accounts : k \in 1 .. n}) /\ DOMAIN ss = 1 .. n
    BY <1>1
  <2> QED
    BY <1>1, <2>1
<1>3. \A k \in 1 .. n : List(legs[k].accounts) /\ s(k) \in Nat
  BY DEF Shaped
<1>4. o(0) = 0 /\ (\A k \in 1 .. n : o(k) = o(k - 1) + s(k)) /\ \A k \in 0 .. n : o(k) \in Nat
  BY OffsetSteps
<1> HIDE DEF n, ss, flat, o, s
<1>5. /\ n = 1 => flat = a
      /\ n = 2 => flat = a & b
      /\ n = 3 => flat = a & b & c
      /\ n = 4 => flat = a & b & c & d
  <2>1. Len(ss) \in 1 .. MAX_LEGS
    BY <1>1, <1>2 DEF MAX_LEGS
  <2>2. /\ n >= 1 => ss[1] = a
        /\ n >= 2 => ss[2] = b
        /\ n >= 3 => ss[3] = c
        /\ n >= 4 => ss[4] = d
    BY <1>1, <1>2
  <2>3. /\ Len(ss) = 1 => flat = ss[1]
        /\ Len(ss) = 2 => flat = ss[1] & ss[2]
        /\ Len(ss) = 3 => flat = ss[1] & ss[2] & ss[3]
        /\ Len(ss) = 4 => flat = ss[1] & ss[2] & ss[3] & ss[4]
    BY <2>1, Flattened DEF flat
  <2> HIDE DEF a, b, c, d
  <2>4. Len(ss) = n
    BY <1>2
  <2> QED
    BY <1>1, <2>2, <2>3, <2>4
<1>6. /\ List(a) /\ Size(a) = s(1) /\ s(1) \in Nat
      /\ n >= 2 => List(b) /\ Size(b) = s(2) /\ s(2) \in Nat
      /\ n >= 3 => List(c) /\ Size(c) = s(3) /\ s(3) \in Nat
      /\ n >= 4 => List(d) /\ Size(d) = s(4) /\ s(4) \in Nat
  BY <1>1, <1>3 DEF s
<1>7. /\ o(0) = 0 /\ o(1) = s(1) /\ (n >= 2 => o(2) = s(1) + s(2))
      /\ n >= 3 => o(3) = s(1) + s(2) + s(3)
      /\ n >= 4 => o(4) = s(1) + s(2) + s(3) + s(4)
  <2>1. o(1) = o(0) + s(1)
    BY <1>1, <1>4
  <2>2. n >= 2 => o(2) = o(1) + s(2)
    BY <1>1, <1>4
  <2>3. n >= 3 => o(3) = o(2) + s(3)
    BY <1>1, <1>4
  <2>4. n >= 4 => o(4) = o(3) + s(4)
    BY <1>1, <1>4
  <2> QED
    BY <1>1, <1>4, <1>6, <2>1, <2>2, <2>3, <2>4
<1>12. SUFFICES /\ List(flat) /\ Size(flat) = o(n)
                 /\ \A k \in 1 .. n : \A j \in 1 .. s(k) :
                      Item(flat, o(k - 1) + j) = Item(legs[k].accounts, j)
  BY DEF Placed, flat, ss, n, o, s
<1>8. CASE n = 1
  <2>1. List(flat) /\ Size(flat) = o(n)
    BY <1>5, <1>6, <1>7, <1>8
  <2>2. ASSUME NEW j \in 1 .. s(1) PROVE Item(flat, o(0) + j) = Item(a, j)
    BY <1>5, <1>6, <1>7, <1>8
  <2>20. ASSUME NEW k \in 1 .. n PROVE \A j \in 1 .. s(k) : Item(flat, o(k - 1) + j) = Item(legs[k].accounts, j)
    <3>1. (k = 1 /\ k - 1 = 0)
      BY <1>8
    <3>2. CASE k = 1 /\ k - 1 = 0
      BY <3>2, <2>2
    <3> QED
      BY <3>1, <3>2
  <2> QED
    BY <2>1, <2>20
<1>9. CASE n = 2
  <2>1. List(a & b) /\ Size(a & b) = s(1) + s(2)
    BY <1>6, <1>9, CatSize
  <2>2. List(flat) /\ Size(flat) = o(n)
    BY <1>5, <1>7, <1>9, <2>1
  <2>3. ASSUME NEW j \in 1 .. s(1) PROVE Item(flat, o(0) + j) = Item(a, j)
    BY <1>5, <1>6, <1>7, <1>9, CatFront
  <2>4. ASSUME NEW j \in 1 .. s(2) PROVE Item(flat, o(1) + j) = Item(b, j)
    BY <1>5, <1>6, <1>7, <1>9, CatBack
  <2>20. ASSUME NEW k \in 1 .. n PROVE \A j \in 1 .. s(k) : Item(flat, o(k - 1) + j) = Item(legs[k].accounts, j)
    <3>1. (k = 1 /\ k - 1 = 0) \/ (k = 2 /\ k - 1 = 1)
      BY <1>9
    <3>2. CASE k = 1 /\ k - 1 = 0
      BY <3>2, <2>3
    <3>3. CASE k = 2 /\ k - 1 = 1
      BY <3>3, <2>4
    <3> QED
      BY <3>1, <3>2, <3>3
  <2> QED
    BY <2>2, <2>20
<1>10. CASE n = 3
  <2>1. List(a & b) /\ Size(a & b) = s(1) + s(2)
    BY <1>6, <1>10, CatSize
  <2>2. List(a & b & c) /\ Size(a & b & c) = s(1) + s(2) + s(3)
    BY <1>6, <1>10, <2>1, CatSize
  <2>3. List(flat) /\ Size(flat) = o(n)
    BY <1>5, <1>7, <1>10, <2>2
  <2>4. ASSUME NEW j \in 1 .. s(1) PROVE Item(flat, o(0) + j) = Item(a, j)
    <3>1. Item(a & b, j) = Item(a, j)
      BY <1>6, <1>10, CatFront
    <3>2. Item(a & b & c, j) = Item(a & b, j)
      BY <1>6, <1>10, <2>1, CatFront
    <3> QED
      BY <1>5, <1>7, <1>10, <3>1, <3>2
  <2>5. ASSUME NEW j \in 1 .. s(2) PROVE Item(flat, o(1) + j) = Item(b, j)
    <3>1. Item(a & b, s(1) + j) = Item(b, j)
      BY <1>6, <1>10, CatBack
    <3>2. Item(a & b & c, s(1) + j) = Item(a & b, s(1) + j)
      BY <1>6, <1>10, <2>1, CatFront
    <3> QED
      BY <1>5, <1>7, <1>10, <3>1, <3>2
  <2>6. ASSUME NEW j \in 1 .. s(3) PROVE Item(flat, o(2) + j) = Item(c, j)
    BY <1>5, <1>6, <1>7, <1>10, <2>1, CatBack
  <2>20. ASSUME NEW k \in 1 .. n PROVE \A j \in 1 .. s(k) : Item(flat, o(k - 1) + j) = Item(legs[k].accounts, j)
    <3>1. (k = 1 /\ k - 1 = 0) \/ (k = 2 /\ k - 1 = 1) \/ (k = 3 /\ k - 1 = 2)
      BY <1>10
    <3>2. CASE k = 1 /\ k - 1 = 0
      BY <3>2, <2>4
    <3>3. CASE k = 2 /\ k - 1 = 1
      BY <3>3, <2>5
    <3>4. CASE k = 3 /\ k - 1 = 2
      BY <3>4, <2>6
    <3> QED
      BY <3>1, <3>2, <3>3, <3>4
  <2> QED
    BY <2>3, <2>20
<1>11. CASE n = 4
  <2>1. List(a & b) /\ Size(a & b) = s(1) + s(2)
    BY <1>6, <1>11, CatSize
  <2>2. List(a & b & c) /\ Size(a & b & c) = s(1) + s(2) + s(3)
    BY <1>6, <1>11, <2>1, CatSize
  <2>3. List(a & b & c & d) /\ Size(a & b & c & d) = s(1) + s(2) + s(3) + s(4)
    BY <1>6, <1>11, <2>2, CatSize
  <2>4. List(flat) /\ Size(flat) = o(n)
    BY <1>5, <1>7, <1>11, <2>3
  <2>5. ASSUME NEW j \in 1 .. s(1) PROVE Item(flat, o(0) + j) = Item(a, j)
    <3>1. Item(a & b, j) = Item(a, j)
      BY <1>6, <1>11, CatFront
    <3>2. Item(a & b & c, j) = Item(a & b, j)
      BY <1>6, <1>11, <2>1, CatFront
    <3>3. Item(a & b & c & d, j) = Item(a & b & c, j)
      BY <1>6, <1>11, <2>2, CatFront
    <3> QED
      BY <1>5, <1>7, <1>11, <3>1, <3>2, <3>3
  <2>6. ASSUME NEW j \in 1 .. s(2) PROVE Item(flat, o(1) + j) = Item(b, j)
    <3>1. Item(a & b, s(1) + j) = Item(b, j)
      BY <1>6, <1>11, CatBack
    <3>2. Item(a & b & c, s(1) + j) = Item(a & b, s(1) + j)
      BY <1>6, <1>11, <2>1, CatFront
    <3>3. Item(a & b & c & d, s(1) + j) = Item(a & b & c, s(1) + j)
      BY <1>6, <1>11, <2>2, CatFront
    <3> QED
      BY <1>5, <1>7, <1>11, <3>1, <3>2, <3>3
  <2>7. ASSUME NEW j \in 1 .. s(3) PROVE Item(flat, o(2) + j) = Item(c, j)
    <3>1. Item(a & b & c, (s(1) + s(2)) + j) = Item(c, j)
      BY <1>6, <1>11, <2>1, CatBack
    <3>2. Item(a & b & c & d, (s(1) + s(2)) + j) = Item(a & b & c, (s(1) + s(2)) + j)
      BY <1>6, <1>11, <2>2, CatFront
    <3> QED
      BY <1>5, <1>7, <1>11, <3>1, <3>2
  <2>8. ASSUME NEW j \in 1 .. s(4) PROVE Item(flat, o(3) + j) = Item(d, j)
    BY <1>5, <1>6, <1>7, <1>11, <2>2, CatBack
  <2>20. ASSUME NEW k \in 1 .. n PROVE \A j \in 1 .. s(k) : Item(flat, o(k - 1) + j) = Item(legs[k].accounts, j)
    <3>1. (k = 1 /\ k - 1 = 0) \/ (k = 2 /\ k - 1 = 1) \/ (k = 3 /\ k - 1 = 2) \/ (k = 4 /\ k - 1 = 3)
      BY <1>11
    <3>2. CASE k = 1 /\ k - 1 = 0
      BY <3>2, <2>5
    <3>3. CASE k = 2 /\ k - 1 = 1
      BY <3>3, <2>6
    <3>4. CASE k = 3 /\ k - 1 = 2
      BY <3>4, <2>7
    <3>5. CASE k = 4 /\ k - 1 = 3
      BY <3>5, <2>8
    <3> QED
      BY <3>1, <3>2, <3>3, <3>4, <3>5
  <2> QED
    BY <2>4, <2>20
<1> QED
  BY <1>1, <1>8, <1>9, <1>10, <1>11

(* A function over 1 .. n is a list.                                        *)
LEMMA Tabled ==
    ASSUME NEW n \in Nat, NEW w, w = [k \in 1 .. n |-> w[k]]
    PROVE  List(w) /\ Size(w) = n
<1> DEFINE S == {w[k] : k \in 1 .. n}
<1>1. \A k \in 1 .. n : w[k] \in S
  OBVIOUS
<1> HIDE DEF S
<1>2. w \in [1 .. n -> S]
  BY <1>1
<1>3. w \in Seq(S) /\ Len(w) = n
  BY <1>2
<1> QED
  BY <1>3 DEF List, Size

(* The programs that follow the accounts of the legs are a list.            *)
LEMMA ProgramMetas ==
    ASSUME NEW legs
    PROVE  List(program_metas(legs))
<1> DEFINE first_use == SelectSeq([k \in 1 .. Len(legs) |-> k],
                            LAMBDA k : \A j \in 1 .. k - 1 :
                                legs[j].program_id # legs[k].program_id)
           n == Len(first_use)
           z == [k \in 1 .. n |-> meta(<<"dex", legs[first_use[k]].program_id>>, FALSE, FALSE)]
<1>1. program_metas(legs) = z
  BY DEF program_metas
<1>2. n \in Nat
  OBVIOUS
<1> HIDE DEF n, first_use
<1>3. z = [k \in 1 .. n |-> z[k]]
  OBVIOUS
<1> HIDE DEF z
<1> QED
  BY <1>1, <1>2, <1>3, Tabled

(* The metas of the fixed accounts.                                         *)
Payer == meta(user, TRUE, TRUE)
Writable(key) == meta(key, TRUE, FALSE)
Readable(key) == meta(key, FALSE, FALSE)
ConfigMeta == Readable(<<"config">>)
DestinationMeta == Writable(<<"fee_destination">>)

(* The accounts before those of the legs, each in its place.                *)
Opens(z, source, output, inter, m) ==
    /\ List(z) /\ Size(z) = 6 + m
    /\ Item(z, 1) = Payer /\ Item(z, 2) = ConfigMeta
    /\ Item(z, 3) = DestinationMeta
    /\ Item(z, 4) = Writable(source) /\ Item(z, 5) = Writable(output)
    /\ Item(z, 6) = Readable(token_program(source))
    /\ \A k \in 1 .. m : Item(z, 6 + k) = Writable(inter[k])

LEMMA FixedMetas ==
    ASSUME NEW source, NEW output, NEW inter, NEW m \in Nat, Len(inter) = m
    PROVE  Opens(fixed_metas(source, output, inter), source, output, inter, m)
<1> DEFINE c == rd(<<"config">>)
           f == wr(<<"fee_destination">>)
           s == wr(source)
           o == wr(output)
           t == rd(token_program(source))
           w == [k \in 1 .. m |-> Writable(inter[k])]
           six == payer & c & f & s & o & t
           z == six & w
<1>1. z = fixed_metas(source, output, inter)
  BY DEF fixed_metas, &, Writable
<1>2. /\ List(payer) /\ Size(payer) = 1 /\ Item(payer, 1) = Payer
  BY Pieces DEF Payer
<1>3. /\ List(c) /\ Size(c) = 1 /\ Item(c, 1) = ConfigMeta
      /\ List(f) /\ Size(f) = 1 /\ Item(f, 1) = DestinationMeta
      /\ List(s) /\ Size(s) = 1 /\ Item(s, 1) = Writable(source)
      /\ List(o) /\ Size(o) = 1 /\ Item(o, 1) = Writable(output)
      /\ List(t) /\ Size(t) = 1 /\ Item(t, 1) = Readable(token_program(source))
  BY Single DEF rd, wr, Writable, Readable, ConfigMeta, DestinationMeta
<1>4. List(w) /\ Size(w) = m /\ \A k \in 1 .. m : Item(w, k) = Writable(inter[k])
  <2>1. w = [k \in 1 .. m |-> w[k]]
    OBVIOUS
  <2>2. \A k \in 1 .. m : w[k] = Writable(inter[k])
    OBVIOUS
  <2> HIDE DEF w
  <2>3. List(w) /\ Size(w) = m
    BY <2>1, Tabled
  <2> QED
    BY <2>2, <2>3 DEF Item
<1> DEFINE config == ConfigMeta
           destination == DestinationMeta
           first == Payer
           src == Writable(source)
           out == Writable(output)
           prg == Readable(token_program(source))
<1>9. /\ Item(payer, 1) = first /\ Item(c, 1) = config /\ Item(f, 1) = destination
      /\ Item(s, 1) = src /\ Item(o, 1) = out /\ Item(t, 1) = prg
      /\ List(c) /\ Size(c) = 1 /\ List(f) /\ Size(f) = 1 /\ List(s) /\ Size(s) = 1
      /\ List(o) /\ Size(o) = 1 /\ List(t) /\ Size(t) = 1
  BY <1>2, <1>3
<1> HIDE DEF c, f, s, o, t, w, config, destination, first, src, out, prg
<1>5. List(six) /\ Size(six) = 6
  BY <1>2, <1>9, CatSize
<1>6. /\ Item(six, 1) = first /\ Item(six, 2) = config /\ Item(six, 3) = destination
      /\ Item(six, 4) = src /\ Item(six, 5) = out /\ Item(six, 6) = prg
  BY <1>2, <1>9, CatSize, CatItem
<1> HIDE DEF six
<1>7. /\ List(z) /\ Size(z) = 6 + m
      /\ \A i \in 1 .. 6 : Item(z, i) = Item(six, i)
  BY <1>4, <1>5, CatSize, CatItem
<1>8. \A k \in 1 .. m : Item(z, 6 + k) = Item(w, k)
  BY <1>4, <1>5, CatBack
<1>10. /\ Item(z, 1) = first /\ Item(z, 2) = config /\ Item(z, 3) = destination
       /\ Item(z, 4) = src /\ Item(z, 5) = out /\ Item(z, 6) = prg
  BY <1>6, <1>7
<1>11. \A k \in 1 .. m : Item(z, 6 + k) = Writable(inter[k])
  BY <1>4, <1>8
<1>12. List(z) /\ Size(z) = 6 + m
  BY <1>7
<1> HIDE DEF z
<1>13. Opens(z, source, output, inter, m)
  BY <1>10, <1>11, <1>12 DEF Opens, config, destination, first, src, out, prg
<1> QED
  BY <1>1, <1>13

(* The account list of an instruction: the fixed accounts, then every leg's *)
(* in turn; the mint of a Token-2022 source is among those that follow the  *)
(* fixed ones.                                                              *)
Carries(metas, source, output, inter, m, legs) ==
    /\ List(metas) /\ Size(metas) \in Nat
    /\ Size(metas) >= 6 + m + Offset(legs, Len(legs))
    /\ Item(metas, 1) = Payer
    /\ Item(metas, 4) = Writable(source)
    /\ Item(metas, 5) = Writable(output)
    /\ Item(metas, 6) = Readable(token_program(source))
    /\ \A k \in 1 .. m : Item(metas, 6 + k) = Writable(inter[k])
    /\ \A k \in 1 .. Len(legs) : \A j \in 1 .. Size(legs[k].accounts) :
         Item(metas, 6 + m + Offset(legs, k - 1) + j) = Item(legs[k].accounts, j)

HasFeeMint(metas, source, m) ==
    token_program(source) = <<"program", "token22">> =>
        \E i \in 7 + m .. Size(metas) : Item(metas, i).key = token_mint(source)

AllMetas(source, output, inter, legs) ==
    fixed_metas(source, output, inter)
        \o FlattenSeq([k \in 1 .. Len(legs) |-> legs[k].accounts]) \o program_metas(legs)

Begins(metas, fixed, m) == \A i \in 1 .. 6 + m : Item(metas, i) = Item(fixed, i)

LEMMA MetasCarry ==
    ASSUME NEW legs, Len(legs) \in 1 .. MAX_LEGS,
           \A k \in 1 .. Len(legs) : Shaped(legs[k]),
           NEW source, NEW output, NEW inter, NEW m \in Nat, Len(inter) = m
    PROVE  LET base == AllMetas(source, output, inter, legs)
           IN  /\ Carries(base, source, output, inter, m, legs)
               /\ Begins(base, fixed_metas(source, output, inter), m)
<1> DEFINE F == fixed_metas(source, output, inter)
           L == FlattenSeq([k \in 1 .. Len(legs) |-> legs[k].accounts])
           P == program_metas(legs)
           G == F & L
           base == G & P
           n == Len(legs)
           o(k) == Offset(legs, k)
<1>1. /\ List(F) /\ Size(F) = 6 + m
      /\ Item(F, 1) = Payer
      /\ Item(F, 4) = Writable(source)
      /\ Item(F, 5) = Writable(output)
      /\ Item(F, 6) = Readable(token_program(source))
      /\ \A k \in 1 .. m : Item(F, 6 + k) = Writable(inter[k])
  <2>1. Opens(F, source, output, inter, m)
    BY FixedMetas
  <2> HIDE DEF F
  <2> QED
    BY <2>1 DEF Opens
<1>2. /\ List(L) /\ Size(L) = o(n)
      /\ \A k \in 1 .. n : \A j \in 1 .. Size(legs[k].accounts) :
           Item(L, o(k - 1) + j) = Item(legs[k].accounts, j)
  BY FlatLegs DEF Placed
<1>3. /\ \A k \in 1 .. n : o(k) = o(k - 1) + Size(legs[k].accounts)
      /\ \A k \in 0 .. n : o(k) \in Nat /\ o(k) <= o(n)
      /\ \A k \in 1 .. n : Size(legs[k].accounts) \in Nat
      /\ n \in 1 .. 4
  BY OffsetSteps DEF Shaped, MAX_LEGS
<1>4. List(P)
  BY ProgramMetas
<1>5. Size(P) \in Nat
  BY <1>4, ListIs
<1>6. base = AllMetas(source, output, inter, legs)
  BY DEF &, AllMetas
<1>7. SUFFICES Carries(base, source, output, inter, m, legs)
               /\ \A i \in 1 .. 6 + m : Item(base, i) = Item(F, i)
  BY <1>6 DEF Begins
<1> HIDE DEF F, L, P, n, o
<1>8. n \in 0 .. n /\ o(n) \in Nat
  BY <1>3
<1>9. List(G) /\ Size(G) = 6 + m + o(n)
  BY <1>1, <1>2, <1>8, CatSize
<1>10. List(base) /\ Size(base) = 6 + m + o(n) + Size(P)
  <2> HIDE DEF G
  <2> QED
    BY <1>9, <1>4, CatSize
<1>11. ASSUME NEW i \in 1 .. 6 + m + o(n) PROVE Item(base, i) = Item(G, i)
  <2> HIDE DEF G
  <2> QED
    BY <1>8, <1>9, <1>4, CatFront
<1>12. \A i \in 1 .. 6 + m : Item(base, i) = Item(F, i)
  <2> TAKE i \in 1 .. 6 + m
  <2>1. i \in 1 .. 6 + m + o(n)
    BY <1>8
  <2>2. Item(G, i) = Item(F, i)
    BY <1>1, <1>2, CatFront
  <2> QED
    BY <2>1, <2>2, <1>11
<1>13. ASSUME NEW k \in 1 .. n, NEW j \in 1 .. Size(legs[k].accounts)
       PROVE  Item(base, 6 + m + o(k - 1) + j) = Item(legs[k].accounts, j)
  <2>1. k - 1 \in 0 .. n /\ k \in 0 .. n
    BY <1>3
  <2>2. o(k - 1) \in Nat /\ Size(legs[k].accounts) \in Nat
        /\ o(k - 1) + Size(legs[k].accounts) <= o(n)
    BY <1>3, <2>1
  <2> DEFINE q == o(k - 1) + j
  <2>3. q \in Int /\ 1 <= q /\ q <= o(n)
    BY <1>8, <2>2
  <2>4. Item(L, q) = Item(legs[k].accounts, j)
    BY <1>2
  <2> HIDE DEF q
  <2>5. Item(G, (6 + m) + q) = Item(L, q)
    BY <1>1, <1>2, <2>3, CatBack
  <2>6. Item(base, (6 + m) + q) = Item(G, (6 + m) + q)
    BY <1>8, <1>11, <2>3
  <2>7. (6 + m) + q = 6 + m + o(k - 1) + j
    BY <2>2 DEF q
  <2> QED
    BY <2>4, <2>5, <2>6, <2>7
<1>14. Size(base) \in Nat /\ Size(base) >= 6 + m + o(n)
  BY <1>5, <1>8, <1>10
<1>15. /\ Item(base, 1) = Item(F, 1) /\ Item(base, 4) = Item(F, 4)
       /\ Item(base, 5) = Item(F, 5) /\ Item(base, 6) = Item(F, 6)
       /\ \A k \in 1 .. m : Item(base, 6 + k) = Item(F, 6 + k)
  BY <1>12
<1> HIDE DEF base
<1> QED
  BY <1>1, <1>10, <1>12, <1>13, <1>14, <1>15 DEF Carries, n, o

(* A list with one more account at its end.                                 *)
LEMMA OneMore ==
    ASSUME NEW metas, NEW source, NEW output, NEW inter, NEW m \in Nat, NEW legs,
           Len(legs) \in 1 .. MAX_LEGS, \A k \in 1 .. Len(legs) : Shaped(legs[k]),
           Carries(metas, source, output, inter, m, legs), NEW key
    PROVE  LET more == metas \o rd(key) IN
           /\ Carries(more, source, output, inter, m, legs)
           /\ Size(more) >= 7 + m /\ Item(more, Size(more)).key = key
<1> DEFINE n == Len(legs)
           o(k) == Offset(legs, k)
           one == rd(key)
           more == metas & one
           c == Size(metas)
<1>1. List(one) /\ Size(one) = 1 /\ Item(one, 1).key = key
  BY Single DEF rd, meta
<1>2. /\ List(metas) /\ c \in Nat /\ c >= 6 + m + o(n)
      /\ Item(metas, 1) = Payer
      /\ Item(metas, 4) = Writable(source)
      /\ Item(metas, 5) = Writable(output)
      /\ Item(metas, 6) = Readable(token_program(source))
      /\ \A k \in 1 .. m : Item(metas, 6 + k) = Writable(inter[k])
      /\ \A k \in 1 .. n : \A j \in 1 .. Size(legs[k].accounts) :
           Item(metas, 6 + m + o(k - 1) + j) = Item(legs[k].accounts, j)
  BY DEF Carries
<1>3. /\ \A k \in 1 .. n : o(k) = o(k - 1) + Size(legs[k].accounts)
      /\ \A k \in 0 .. n : o(k) \in Nat /\ o(k) <= o(n)
      /\ \A k \in 1 .. n : Size(legs[k].accounts) \in Nat
      /\ n \in 1 .. 4
  BY OffsetSteps DEF Shaped, MAX_LEGS
<1>4. SUFFICES /\ Carries(more, source, output, inter, m, legs)
               /\ Size(more) >= 7 + m /\ Item(more, Size(more)).key = key
  BY DEF &
<1> HIDE DEF n, o, one, c
<1>5. List(more) /\ Size(more) = c + 1
  BY <1>1, <1>2, CatSize DEF c
<1>6. ASSUME NEW i \in 1 .. c PROVE Item(more, i) = Item(metas, i)
  BY <1>1, <1>2, CatFront DEF c
<1>7. Item(more, c + 1) = Item(one, 1)
  BY <1>1, <1>2, CatBack DEF c
<1> HIDE DEF more
<1>8. n \in 0 .. n /\ o(n) \in Nat
  BY <1>3
<1>9. ASSUME NEW k \in 1 .. n, NEW j \in 1 .. Size(legs[k].accounts)
      PROVE  Item(more, 6 + m + o(k - 1) + j) = Item(legs[k].accounts, j)
  <2>1. k - 1 \in 0 .. n /\ k \in 0 .. n
    BY <1>3
  <2>2. o(k - 1) \in Nat /\ Size(legs[k].accounts) \in Nat
        /\ o(k - 1) + Size(legs[k].accounts) <= o(n)
    BY <1>3, <2>1
  <2>3. c \in Nat /\ c >= 6 + m + o(n)
    BY <1>2
  <2>4. 6 + m + o(k - 1) + j \in 1 .. c
    BY <1>8, <2>2, <2>3, SMT
  <2> QED
    BY <1>2, <1>6, <2>4
<1>10. /\ Item(more, 1) = Item(metas, 1) /\ Item(more, 4) = Item(metas, 4)
       /\ Item(more, 5) = Item(metas, 5) /\ Item(more, 6) = Item(metas, 6)
       /\ \A k \in 1 .. m : Item(more, 6 + k) = Item(metas, 6 + k)
  BY <1>2, <1>6, <1>8
<1>11. Carries(more, source, output, inter, m, legs)
  <2>1. Size(more) \in Nat /\ Size(more) >= 6 + m + o(n)
    BY <1>2, <1>5, <1>8
  <2> QED
    BY <1>2, <1>5, <1>9, <1>10, <2>1 DEF Carries, n, o
<1> QED
  BY <1>1, <1>2, <1>5, <1>7, <1>8, <1>11

(* The key of a mint begins with its kind, that of no other account does.   *)
NotMint(key) == key[1] # "mint"

(* The mint of the fee is looked for in the whole list and found after the  *)
(* fixed accounts, none of which is a mint.                                 *)
LEMMA FeeMintCarried ==
    ASSUME NEW legs, Len(legs) \in 1 .. MAX_LEGS,
           \A k \in 1 .. Len(legs) : Shaped(legs[k]),
           NEW source, NEW output, NEW inter, NEW m \in Nat, Len(inter) = m,
           NotMint(source), NotMint(output),
           \A k \in 1 .. m : NotMint(inter[k])
    PROVE  LET base == AllMetas(source, output, inter, legs)
               metas == append_fee_mint(base, source)
           IN  /\ Carries(metas, source, output, inter, m, legs)
               /\ HasFeeMint(metas, source, m)
<1> DEFINE F == fixed_metas(source, output, inter)
           base == AllMetas(source, output, inter, legs)
           metas == append_fee_mint(base, source)
           mint == token_mint(source)
           n == Len(legs)
<1>1. /\ Carries(base, source, output, inter, m, legs)
      /\ \A i \in 1 .. 6 + m : Item(base, i) = Item(F, i)
  <2>1. Carries(base, source, output, inter, m, legs)
    BY MetasCarry
  <2>2. Begins(base, F, m)
    BY MetasCarry
  <2> QED
    BY <2>1, <2>2 DEF Begins
<1>2. /\ Item(F, 1) = Payer /\ Item(F, 2) = ConfigMeta
      /\ Item(F, 3) = DestinationMeta
      /\ Item(F, 4) = Writable(source) /\ Item(F, 5) = Writable(output)
      /\ Item(F, 6) = Readable(token_program(source))
      /\ \A k \in 1 .. m : Item(F, 6 + k) = Writable(inter[k])
  <2>1. Opens(F, source, output, inter, m)
    BY FixedMetas
  <2> HIDE DEF F
  <2> QED
    BY <2>1 DEF Opens
<1> HIDE DEF F, base
<1>3. mint[1] = "mint"
  BY DEF token_mint
<1> HIDE DEF mint
<1>4. /\ Item(F, 1).key # mint /\ Item(F, 2).key # mint /\ Item(F, 3).key # mint
      /\ Item(F, 6).key # mint
  <2>1. /\ Payer.key = <<"user">>
        /\ ConfigMeta.key = <<"config">>
        /\ DestinationMeta.key = <<"fee_destination">>
        /\ Readable(token_program(source)).key = token_program(source)
    BY DEF Payer, Readable, Writable, ConfigMeta, DestinationMeta, meta, user
  <2>2. token_program(source)[1] = "program"
    BY DEF token_program
  <2>3. <<"user">>[1] = "user" /\ <<"config">>[1] = "config"
        /\ <<"fee_destination">>[1] = "fee_destination"
    OBVIOUS
  <2>4. /\ <<"user">> # mint /\ <<"config">> # mint /\ <<"fee_destination">> # mint
        /\ token_program(source) # mint
    BY <1>3, <2>2, <2>3
  <2> QED
    BY <1>2, <2>1, <2>4
<1>5. /\ Item(F, 4).key # mint /\ Item(F, 5).key # mint
      /\ \A k \in 1 .. m : Item(F, 6 + k).key # mint
  <2>1. \A key : Writable(key).key = key
    BY DEF Writable, meta
  <2>2. source # mint /\ output # mint
    BY <1>3 DEF NotMint
  <2>3. ASSUME NEW k \in 1 .. m PROVE inter[k] # mint
    BY <1>3 DEF NotMint
  <2> QED
    BY <1>2, <2>1, <2>2, <2>3
<1>6. \A i \in 1 .. 6 + m : Item(base, i).key # mint
  <2> TAKE i \in 1 .. 6 + m
  <2>1. Item(F, i).key # mint
    <3>1. CASE i \in 1 .. 6
      BY <1>4, <1>5, <3>1
    <3>2. CASE i \notin 1 .. 6
      <4>1. i - 6 \in 1 .. m /\ 6 + (i - 6) = i
        BY <3>2
      <4> QED
        BY <1>5, <4>1
    <3> QED
      BY <3>1, <3>2
  <2> QED
    BY <1>1, <2>1
<1>7. List(base) /\ Size(base) \in Nat
  BY <1>1 DEF Carries
<1>8. CASE /\ token_program(source) = <<"program", "token22">>
           /\ ~\E x \in ToSet(base) : x.key = mint
  <2> DEFINE more == base \o rd(mint)
  <2>1. metas = more
    BY <1>8 DEF append_fee_mint, mint
  <2>2. /\ Carries(more, source, output, inter, m, legs)
        /\ Size(more) >= 7 + m /\ Item(more, Size(more)).key = mint
    <3> HIDE DEF metas
    <3> QED
      BY <1>1, OneMore
  <2> HIDE DEF more
  <2>3. Size(more) \in Nat
    BY <2>2 DEF Carries
  <2>4. Size(more) \in 7 + m .. Size(more)
    BY <2>2, <2>3
  <2>5. HasFeeMint(more, source, m)
    BY <2>2, <2>4 DEF HasFeeMint, mint
  <2> QED
    BY <2>1, <2>2, <2>5 DEF F, base
<1>9. CASE /\ token_program(source) = <<"program", "token22">>
           /\ \E x \in ToSet(base) : x.key = mint
  <2>1. metas = base
    BY <1>9 DEF append_fee_mint, mint
  <2>2. PICK i \in 1 .. Size(base) : Item(base, i).key = mint
    <3>1. PICK x \in ToSet(base) : x.key = mint
      BY <1>9
    <3>2. PICK i \in DOMAIN base : base[i] = x
      BY <3>1 DEF ToSet
    <3>3. i \in 1 .. Size(base) /\ Item(base, i) = x
      BY <1>7, <3>2, ListIs DEF Item
    <3> QED
      BY <3>1, <3>3
  <2>3. i \in 7 + m .. Size(base)
    BY <1>6, <1>7, <2>2
  <2>4. HasFeeMint(base, source, m)
    BY <2>2, <2>3 DEF HasFeeMint, mint
  <2> QED
    BY <1>1, <2>1, <2>4 DEF F, base
<1>10. CASE token_program(source) # <<"program", "token22">>
  <2>1. metas = base
    BY <1>10 DEF append_fee_mint
  <2>2. HasFeeMint(base, source, m)
    BY <1>10 DEF HasFeeMint
  <2> QED
    BY <1>1, <2>1, <2>2 DEF F, base
<1> QED
  BY <1>8, <1>9, <1>10

(* The instruction of a list of legs: its header, where each leg begins,    *)
(* and its account list.                                                    *)
Written(x, tag, source, output, inter, m, minimums, legs) ==
    LET end(k) == end_of(header_len(m), legs, k) IN
    /\ x.tag = tag /\ x.num_legs = Len(legs) /\ x.minimums = minimums
    /\ x.len = end(Len(legs))
    /\ \A k \in 1 .. Len(legs) :
         end(k - 1) \in DOMAIN x.legs /\ x.legs[end(k - 1)] = leg_header(legs[k])
    /\ Carries(x.metas, source, output, inter, m, legs)
    /\ HasFeeMint(x.metas, source, m)

LEMMA InstructionWritten ==
    ASSUME NEW legs, Len(legs) \in 1 .. MAX_LEGS,
           \A k \in 1 .. Len(legs) : Shaped(legs[k]),
           NEW source, NEW output, NEW inter, NEW m \in Nat, Len(inter) = m,
           NotMint(source), NotMint(output),
           \A k \in 1 .. m : NotMint(inter[k]),
           NEW tag, NEW minimums
    PROVE  Written(instruction(tag, source, output, inter, minimums, legs),
                   tag, source, output, inter, m, minimums, legs)
<1> DEFINE n == Len(legs)
           end(k) == end_of(header_len(m), legs, k)
           starts == {end(k - 1) : k \in 1 .. n}
           pick(at) == CHOOSE k \in 1 .. n : at = end(k - 1)
           table == [at \in starts |-> leg_header(legs[pick(at)])]
           base == AllMetas(source, output, inter, legs)
           metas == append_fee_mint(base, source)
           x == instruction(tag, source, output, inter, minimums, legs)
<1>1. Carries(metas, source, output, inter, m, legs) /\ HasFeeMint(metas, source, m)
  BY FeeMintCarried
<1>2. x = [ tag |-> tag, num_legs |-> n, minimums |-> minimums, source |-> source,
            metas |-> metas, legs |-> table, len |-> end(n) ]
  BY DEF instruction, AllMetas
<1> HIDE DEF metas
<1>3. /\ x.tag = tag /\ x.num_legs = n /\ x.minimums = minimums
      /\ x.metas = metas /\ x.legs = table /\ x.len = end(n)
  <2> HIDE DEF x, table, end
  <2> QED
    BY <1>2
<1>4. /\ \A j, k \in 0 .. n : j < k => end(j) < end(k)
      /\ \A k \in 0 .. n : end(k) \in Nat
  <2>1. header_len(m) \in Nat
    BY DEF header_len, ROUTE_HEADER_LEN
  <2>2. \A k \in 1 .. n : legs[k].data.len \in Nat
    BY DEF Shaped
  <2> QED
    BY <2>1, <2>2, EndOrder
<1>5. n \in 1 .. 4
  BY DEF MAX_LEGS
<1> HIDE DEF n, end
<1>6. ASSUME NEW k \in 1 .. n PROVE pick(end(k - 1)) = k
  <2>1. pick(end(k - 1)) \in 1 .. n /\ end(k - 1) = end(pick(end(k - 1)) - 1)
    BY <1>6
  <2> DEFINE j == pick(end(k - 1))
  <2>2. j \in 1 .. n /\ end(k - 1) = end(j - 1)
    BY <2>1
  <2> HIDE DEF j
  <2>3. j - 1 \in 0 .. n /\ k - 1 \in 0 .. n
    BY <1>5, <2>2
  <2>4. ~(j - 1 < k - 1) /\ ~(k - 1 < j - 1)
    BY <1>4, <2>2, <2>3
  <2>5. j = k
    BY <1>5, <2>2, <2>3, <2>4
  <2> QED
    BY <2>5 DEF j
<1>7. ASSUME NEW k \in 1 .. n
      PROVE  end(k - 1) \in DOMAIN x.legs /\ x.legs[end(k - 1)] = leg_header(legs[k])
  <2>1. end(k - 1) \in starts
    OBVIOUS
  <2>2. pick(end(k - 1)) = k
    BY <1>6
  <2> HIDE DEF pick, starts, x
  <2> QED
    BY <1>3, <2>1, <2>2
<1> HIDE DEF x, table
<1>8. /\ \A k \in 1 .. n : /\ end(k - 1) \in DOMAIN x.legs
                           /\ x.legs[end(k - 1)] = leg_header(legs[k])
  BY <1>7
<1> QED
  BY <1>1, <1>3, <1>8 DEF Written, n, end, x

-----------------------------------------------------------------------------
(* The route: the legs of a request and what the client has checked.        *)

(* A leg is three fields, and only its data depends on the amounts.         *)
Whole(leg) == leg = Leg(leg.program_id, leg.accounts, leg.data)

LEMMA BuilderWhole ==
    ASSUME NEW p, NEW i, NEW amount, NEW min, NEW other, NEW least
    PROVE  /\ Whole(launchlab_buy_leg(p, amount, min))
           /\ launchlab_buy_leg(p, amount, min).accounts
                = launchlab_buy_leg(p, other, least).accounts
           /\ Whole(launchlab_sell_leg(p, amount, min))
           /\ launchlab_sell_leg(p, amount, min).accounts
                = launchlab_sell_leg(p, other, least).accounts
           /\ Whole(cpmm_swap_leg(p, i, amount, min))
           /\ cpmm_swap_leg(p, i, amount, min).accounts
                = cpmm_swap_leg(p, i, other, least).accounts
           /\ Whole(cpmm_swap_exact_out_leg(p, i, amount, min))
           /\ cpmm_swap_exact_out_leg(p, i, amount, min).accounts
                = cpmm_swap_exact_out_leg(p, i, other, least).accounts
           /\ Whole(pumpfun_buy_leg(p, amount, min))
           /\ pumpfun_buy_leg(p, amount, min).accounts
                = pumpfun_buy_leg(p, other, least).accounts
           /\ Whole(pumpfun_sell_leg(p, amount, min))
           /\ pumpfun_sell_leg(p, amount, min).accounts
                = pumpfun_sell_leg(p, other, least).accounts
           /\ Whole(pumpfun_buy_v2_leg(p, amount, min))
           /\ pumpfun_buy_v2_leg(p, amount, min).accounts
                = pumpfun_buy_v2_leg(p, other, least).accounts
           /\ Whole(pumpfun_sell_v2_leg(p, amount, min))
           /\ pumpfun_sell_v2_leg(p, amount, min).accounts
                = pumpfun_sell_v2_leg(p, other, least).accounts
           /\ Whole(pumpswap_buy_leg(p, amount, min))
           /\ pumpswap_buy_leg(p, amount, min).accounts
                = pumpswap_buy_leg(p, other, least).accounts
           /\ Whole(pumpswap_buy_exact_out_leg(p, min, amount))
           /\ pumpswap_buy_exact_out_leg(p, min, amount).accounts
                = pumpswap_buy_exact_out_leg(p, least, other).accounts
           /\ Whole(pumpswap_sell_leg(p, amount, min))
           /\ pumpswap_sell_leg(p, amount, min).accounts
                = pumpswap_sell_leg(p, other, least).accounts
           /\ Whole(raydium_amm_v4_swap_leg(p, i, amount, min))
           /\ raydium_amm_v4_swap_leg(p, i, amount, min).accounts
                = raydium_amm_v4_swap_leg(p, i, other, least).accounts
           /\ Whole(raydium_amm_v4_swap_exact_out_leg(p, i, min, amount))
           /\ raydium_amm_v4_swap_exact_out_leg(p, i, min, amount).accounts
                = raydium_amm_v4_swap_exact_out_leg(p, i, least, other).accounts
           /\ Whole(meteora_damm_v2_swap_leg(p, i, amount, min))
           /\ meteora_damm_v2_swap_leg(p, i, amount, min).accounts
                = meteora_damm_v2_swap_leg(p, i, other, least).accounts
           /\ Whole(raydium_clmm_swap_leg(p, i, amount, min))
           /\ raydium_clmm_swap_leg(p, i, amount, min).accounts
                = raydium_clmm_swap_leg(p, i, other, least).accounts
           /\ Whole(whirlpool_swap_leg(p, i, amount, min))
           /\ whirlpool_swap_leg(p, i, amount, min).accounts
                = whirlpool_swap_leg(p, i, other, least).accounts
           /\ Whole(meteora_dlmm_swap_leg(p, i, amount, min))
           /\ meteora_dlmm_swap_leg(p, i, amount, min).accounts
                = meteora_dlmm_swap_leg(p, i, other, least).accounts
           /\ Whole(raw_leg(p, i, amount, min))
           /\ raw_leg(p, i, amount, min).accounts
                = raw_leg(p, i, other, least).accounts
         
<1>1. /\ Whole(launchlab_buy_leg(p, amount, min))
      /\ launchlab_buy_leg(p, amount, min).accounts
           = launchlab_buy_leg(p, other, least).accounts
  BY DEF launchlab_buy_leg, Leg, Whole
<1>2. /\ Whole(launchlab_sell_leg(p, amount, min))
      /\ launchlab_sell_leg(p, amount, min).accounts
           = launchlab_sell_leg(p, other, least).accounts
  BY DEF launchlab_sell_leg, Leg, Whole
<1>3. /\ Whole(cpmm_swap_leg(p, i, amount, min))
      /\ cpmm_swap_leg(p, i, amount, min).accounts
           = cpmm_swap_leg(p, i, other, least).accounts
  BY DEF cpmm_swap_leg, Leg, Whole
<1>4. /\ Whole(cpmm_swap_exact_out_leg(p, i, amount, min))
      /\ cpmm_swap_exact_out_leg(p, i, amount, min).accounts
           = cpmm_swap_exact_out_leg(p, i, other, least).accounts
  BY DEF cpmm_swap_exact_out_leg, Leg, Whole
<1>5. /\ Whole(pumpfun_buy_leg(p, amount, min))
      /\ pumpfun_buy_leg(p, amount, min).accounts
           = pumpfun_buy_leg(p, other, least).accounts
  BY DEF pumpfun_buy_leg, Leg, Whole
<1>6. /\ Whole(pumpfun_sell_leg(p, amount, min))
      /\ pumpfun_sell_leg(p, amount, min).accounts
           = pumpfun_sell_leg(p, other, least).accounts
  BY DEF pumpfun_sell_leg, Leg, Whole
<1>7. /\ Whole(pumpfun_buy_v2_leg(p, amount, min))
      /\ pumpfun_buy_v2_leg(p, amount, min).accounts
           = pumpfun_buy_v2_leg(p, other, least).accounts
  BY DEF pumpfun_buy_v2_leg, Leg, Whole
<1>8. /\ Whole(pumpfun_sell_v2_leg(p, amount, min))
      /\ pumpfun_sell_v2_leg(p, amount, min).accounts
           = pumpfun_sell_v2_leg(p, other, least).accounts
  BY DEF pumpfun_sell_v2_leg, Leg, Whole
<1>9. /\ Whole(pumpswap_buy_leg(p, amount, min))
      /\ pumpswap_buy_leg(p, amount, min).accounts
           = pumpswap_buy_leg(p, other, least).accounts
  BY DEF pumpswap_buy_leg, Leg, Whole
<1>10. /\ Whole(pumpswap_buy_exact_out_leg(p, min, amount))
      /\ pumpswap_buy_exact_out_leg(p, min, amount).accounts
           = pumpswap_buy_exact_out_leg(p, least, other).accounts
  BY DEF pumpswap_buy_exact_out_leg, Leg, Whole
<1>11. /\ Whole(pumpswap_sell_leg(p, amount, min))
      /\ pumpswap_sell_leg(p, amount, min).accounts
           = pumpswap_sell_leg(p, other, least).accounts
  BY DEF pumpswap_sell_leg, Leg, Whole
<1>12. /\ Whole(raydium_amm_v4_swap_leg(p, i, amount, min))
      /\ raydium_amm_v4_swap_leg(p, i, amount, min).accounts
           = raydium_amm_v4_swap_leg(p, i, other, least).accounts
  BY DEF raydium_amm_v4_swap_leg, Leg, Whole
<1>13. /\ Whole(raydium_amm_v4_swap_exact_out_leg(p, i, min, amount))
      /\ raydium_amm_v4_swap_exact_out_leg(p, i, min, amount).accounts
           = raydium_amm_v4_swap_exact_out_leg(p, i, least, other).accounts
  BY DEF raydium_amm_v4_swap_exact_out_leg, Leg, Whole
<1>14. /\ Whole(meteora_damm_v2_swap_leg(p, i, amount, min))
      /\ meteora_damm_v2_swap_leg(p, i, amount, min).accounts
           = meteora_damm_v2_swap_leg(p, i, other, least).accounts
  BY DEF meteora_damm_v2_swap_leg, Leg, Whole
<1>15. /\ Whole(raydium_clmm_swap_leg(p, i, amount, min))
      /\ raydium_clmm_swap_leg(p, i, amount, min).accounts
           = raydium_clmm_swap_leg(p, i, other, least).accounts
  BY DEF raydium_clmm_swap_leg, Leg, Whole
<1>16. /\ Whole(whirlpool_swap_leg(p, i, amount, min))
      /\ whirlpool_swap_leg(p, i, amount, min).accounts
           = whirlpool_swap_leg(p, i, other, least).accounts
  BY DEF whirlpool_swap_leg, Leg, Whole
<1>17. /\ Whole(meteora_dlmm_swap_leg(p, i, amount, min))
      /\ meteora_dlmm_swap_leg(p, i, amount, min).accounts
           = meteora_dlmm_swap_leg(p, i, other, least).accounts
  BY DEF meteora_dlmm_swap_leg, Leg, Whole
<1>18. /\ Whole(raw_leg(p, i, amount, min))
      /\ raw_leg(p, i, amount, min).accounts
           = raw_leg(p, i, other, least).accounts
  BY DEF raw_leg, Leg, Whole
<1> QED
  BY <1>1, <1>2, <1>3, <1>4, <1>5, <1>6, <1>7, <1>8, <1>9, <1>10, <1>11, <1>12, <1>13, <1>14, <1>15, <1>16, <1>17, <1>18

LEMMA SameAccounts ==
    ASSUME NEW p, SoundPool(p), NEW i \in 1 .. 2,
           NEW amount, NEW min, NEW other, NEW least
    PROVE  /\ Whole(pool_leg(p, i, amount, min))
           /\ pool_leg(p, i, amount, min).accounts = pool_leg(p, i, other, least).accounts
<1> DEFINE leg == pool_leg(p, i, amount, min)
           leg2 == pool_leg(p, i, other, least)
<1>0. /\ p.mode \in 0 .. 2 /\ (i = 1 \/ i = 2)
  BY PoolFacts
<1>1. CASE p.dex = "launchlab" /\ i = 2
  <2>1. leg = launchlab_buy_leg(p, amount, min) /\ leg2 = launchlab_buy_leg(p, other, least)
    BY <1>1, BuilderOf
  <2> QED
    BY <2>1, BuilderWhole
<1>2. CASE p.dex = "launchlab" /\ i = 1
  <2>1. leg = launchlab_sell_leg(p, amount, min) /\ leg2 = launchlab_sell_leg(p, other, least)
    BY <1>2, BuilderOf
  <2> QED
    BY <2>1, BuilderWhole
<1>3. CASE p.dex = "cpmm" /\ p.mode # 2
  <2>1. leg = cpmm_swap_leg(p, i, amount, min) /\ leg2 = cpmm_swap_leg(p, i, other, least)
    BY <1>3, BuilderOf
  <2> QED
    BY <2>1, BuilderWhole
<1>4. CASE p.dex = "cpmm" /\ p.mode = 2
  <2>1. leg = cpmm_swap_exact_out_leg(p, i, amount, min) /\ leg2 = cpmm_swap_exact_out_leg(p, i, other, least)
    BY <1>4, BuilderOf
  <2> QED
    BY <2>1, BuilderWhole
<1>5. CASE p.dex = "pumpfun" /\ i = 2
  <2>1. leg = pumpfun_buy_leg(p, amount, min) /\ leg2 = pumpfun_buy_leg(p, other, least)
    BY <1>5, BuilderOf
  <2> QED
    BY <2>1, BuilderWhole
<1>6. CASE p.dex = "pumpfun" /\ i = 1
  <2>1. leg = pumpfun_sell_leg(p, amount, min) /\ leg2 = pumpfun_sell_leg(p, other, least)
    BY <1>6, BuilderOf
  <2> QED
    BY <2>1, BuilderWhole
<1>7. CASE p.dex = "pumpfun_v2" /\ i = 2
  <2>1. leg = pumpfun_buy_v2_leg(p, amount, min) /\ leg2 = pumpfun_buy_v2_leg(p, other, least)
    BY <1>7, BuilderOf
  <2> QED
    BY <2>1, BuilderWhole
<1>8. CASE p.dex = "pumpfun_v2" /\ i = 1
  <2>1. leg = pumpfun_sell_v2_leg(p, amount, min) /\ leg2 = pumpfun_sell_v2_leg(p, other, least)
    BY <1>8, BuilderOf
  <2> QED
    BY <2>1, BuilderWhole
<1>9. CASE p.dex = "pumpswap" /\ i = 2 /\ p.mode # 2
  <2>1. leg = pumpswap_buy_leg(p, amount, min) /\ leg2 = pumpswap_buy_leg(p, other, least)
    BY <1>9, BuilderOf
  <2> QED
    BY <2>1, BuilderWhole
<1>10. CASE p.dex = "pumpswap" /\ i = 2 /\ p.mode = 2
  <2>1. leg = pumpswap_buy_exact_out_leg(p, min, amount) /\ leg2 = pumpswap_buy_exact_out_leg(p, least, other)
    BY <1>10, BuilderOf
  <2> QED
    BY <2>1, BuilderWhole
<1>11. CASE p.dex = "pumpswap" /\ i = 1
  <2>1. leg = pumpswap_sell_leg(p, amount, min) /\ leg2 = pumpswap_sell_leg(p, other, least)
    BY <1>11, BuilderOf
  <2> QED
    BY <2>1, BuilderWhole
<1>12. CASE p.dex = "amm_v4" /\ p.mode # 2
  <2>1. leg = raydium_amm_v4_swap_leg(p, i, amount, min) /\ leg2 = raydium_amm_v4_swap_leg(p, i, other, least)
    BY <1>12, BuilderOf
  <2> QED
    BY <2>1, BuilderWhole
<1>13. CASE p.dex = "amm_v4" /\ p.mode = 2
  <2>1. leg = raydium_amm_v4_swap_exact_out_leg(p, i, min, amount) /\ leg2 = raydium_amm_v4_swap_exact_out_leg(p, i, least, other)
    BY <1>13, BuilderOf
  <2> QED
    BY <2>1, BuilderWhole
<1>14. CASE p.dex = "damm_v2"
  <2>1. leg = meteora_damm_v2_swap_leg(p, i, amount, min) /\ leg2 = meteora_damm_v2_swap_leg(p, i, other, least)
    BY <1>14, BuilderOf
  <2> QED
    BY <2>1, BuilderWhole
<1>15. CASE p.dex = "clmm"
  <2>1. leg = raydium_clmm_swap_leg(p, i, amount, min) /\ leg2 = raydium_clmm_swap_leg(p, i, other, least)
    BY <1>15, BuilderOf
  <2> QED
    BY <2>1, BuilderWhole
<1>16. CASE p.dex = "whirlpool"
  <2>1. leg = whirlpool_swap_leg(p, i, amount, min) /\ leg2 = whirlpool_swap_leg(p, i, other, least)
    BY <1>16, BuilderOf
  <2> QED
    BY <2>1, BuilderWhole
<1>17. CASE p.dex = "dlmm"
  <2>1. leg = meteora_dlmm_swap_leg(p, i, amount, min) /\ leg2 = meteora_dlmm_swap_leg(p, i, other, least)
    BY <1>17, BuilderOf
  <2> QED
    BY <2>1, BuilderWhole
<1>18. CASE p.dex = "raw"
  <2>1. leg = raw_leg(p, i, amount, min) /\ leg2 = raw_leg(p, i, other, least)
    BY <1>18, BuilderOf
  <2> QED
    BY <2>1, BuilderWhole
<1> QED
  BY <1>0, <1>1, <1>2, <1>3, <1>4, <1>5, <1>6, <1>7, <1>8, <1>9, <1>10, <1>11, <1>12, <1>13, <1>14, <1>15, <1>16, <1>17, <1>18, PoolFacts

(* The sides a route goes in and comes out of its pools.                    *)
Entry(r, k) == side(r.pools[k], r.mints[k])
Legs(r) == Len(r.pools)

LEMMA RequestPools ==
    ASSUME NEW r, RequestOK(r), Well_built(r)
    PROVE  /\ Legs(r) \in 1 .. MAX_LEGS
           /\ \A k \in 1 .. Legs(r) :
                /\ SoundPool(r.pools[k]) /\ Entry(r, k) \in 1 .. 2
                /\ Buildable(r.pools[k], r.mints[k])
                /\ r.amounts[k] \in Nat /\ r.minimums[k] \in Nat
<1>1. /\ Legs(r) \in 1 .. MAX_LEGS
      /\ \A k \in 1 .. Legs(r) : SoundPool(r.pools[k])
      /\ r.amounts \in Seq(Nat) /\ Len(r.amounts) = Legs(r)
      /\ r.minimums \in Seq(Nat) /\ Len(r.minimums) = Legs(r)
  BY DEF RequestOK, Legs
<1>2. \A k \in 1 .. Legs(r) : Buildable(r.pools[k], r.mints[k])
  BY DEF Well_built, Legs
<1>3. ASSUME NEW k \in 1 .. Legs(r) PROVE Entry(r, k) \in 1 .. 2
  <2> DEFINE p == r.pools[k]
  <2>1. r.mints[k] \in {p.mints[1], p.mints[2]}
    BY <1>2 DEF Buildable
  <2>2. \E i \in 1 .. 2 : p.mints[i] = r.mints[k]
    BY <2>1
  <2> QED
    BY <2>2 DEF Entry, side
<1>4. \A k \in 1 .. Legs(r) : r.amounts[k] \in Nat /\ r.minimums[k] \in Nat
  BY <1>1
<1> QED
  BY <1>1, <1>2, <1>3, <1>4

(* The leg of a route for any amount: how it is shaped, how long it may be. *)
LEMMA RouteLeg ==
    ASSUME NEW r, RequestOK(r), Well_built(r), NEW k \in 1 .. Legs(r), NEW amount
    PROVE  LET p == r.pools[k]
               leg == built_leg(r, k, amount)
           IN  /\ leg = pool_leg(p, Entry(r, k), amount, r.minimums[k])
               /\ Shaped(leg) /\ Size(leg.accounts) <= MAX_LEG_ACCOUNTS
               /\ leg = Leg(leg.program_id, leg.accounts, leg.data)
               /\ \A other : built_leg(r, k, other).accounts = leg.accounts
               /\ p.dex = "amm_v4" => p.programs = <<"token", "token">>
               /\ p.dex = "whirlpool" => p.extra <= 3
<1> DEFINE p == r.pools[k]
           i == Entry(r, k)
           leg == built_leg(r, k, amount)
<1>1. /\ SoundPool(p) /\ i \in 1 .. 2 /\ Buildable(p, r.mints[k])
  BY RequestPools
<1>2. \A a : built_leg(r, k, a) = pool_leg(p, i, a, r.minimums[k])
  BY DEF built_leg, Entry
<1>3. /\ p.dex = "amm_v4" => p.programs = <<"token", "token">>
      /\ p.dex = "whirlpool" => p.extra <= 3
      /\ p.dex \in Counted => Len(pool_leg(p, i, 0, 0).accounts) <= MAX_LEG_ACCOUNTS
  BY <1>1 DEF Buildable, Counted, Entry
<1> HIDE DEF p, i
<1>4. \A other : built_leg(r, k, other).accounts = leg.accounts
  BY <1>1, <1>2, SameAccounts
<1>5. Whole(leg)
  BY <1>1, <1>2, SameAccounts
<1>6. leg = Leg(leg.program_id, leg.accounts, leg.data)
  <2> HIDE DEF leg
  <2> QED
    BY <1>5 DEF Whole
<1>7. Shaped(leg) /\ (p.dex \notin Counted => Size(leg.accounts) <= MAX_LEG_ACCOUNTS)
  BY <1>1, <1>2, PoolLegShape
<1>8. Size(leg.accounts) <= MAX_LEG_ACCOUNTS
  <2>1. CASE p.dex \in Counted
    <3>1. pool_leg(p, i, 0, 0).accounts = leg.accounts
      BY <1>1, <1>2, SameAccounts
    <3> QED
      BY <1>3, <2>1, <3>1 DEF Size
  <2> QED
    BY <1>7, <2>1
<1> QED
  BY <1>2, <1>3, <1>4, <1>6, <1>7, <1>8 DEF p, i

(* The own accounts of a route are not mints.                               *)
LEMMA OwnAccounts ==
    ASSUME NEW r
    PROVE  /\ NotMint(route_source(r)) /\ NotMint(route_output(r))
           /\ \A k : NotMint(hop_out(r, k))
<1>1. \A p, i : user_ata(p, i)[1] \in {"user", "ata"}
  BY DEF user_ata, user, ata
<1> QED
  BY <1>1 DEF NotMint, route_source, route_output, hop_out

LEMMA BuiltLegs ==
    ASSUME NEW r, RequestOK(r), Well_built(r)
    PROVE  /\ Len(built_legs(r)) = Legs(r) /\ Legs(r) \in 1 .. MAX_LEGS
           /\ \A k \in 1 .. Legs(r) : /\ built_legs(r)[k] = built_leg(r, k, r.amounts[k])
                                      /\ Shaped(built_legs(r)[k])
<1>1. Legs(r) \in 1 .. MAX_LEGS
  BY RequestPools
<1> DEFINE n == Legs(r)
           b == built_legs(r)
<1>2. b = [k \in 1 .. n |-> built_leg(r, k, r.amounts[k])]
  BY DEF built_legs, Legs
<1> HIDE DEF n
<1>3. n \in Nat
  BY <1>1 DEF n, MAX_LEGS
<1>4. \A k \in 1 .. n : b[k] = built_leg(r, k, r.amounts[k])
  BY <1>2
<1>5. b = [k \in 1 .. n |-> b[k]]
  BY <1>2
<1>6. Size(b) = n
  <2> HIDE DEF b
  <2> QED
    BY <1>3, <1>5, Tabled
<1>7. ASSUME NEW k \in 1 .. n PROVE Shaped(b[k])
  BY <1>4, RouteLeg DEF n
<1> QED
  BY <1>1, <1>4, <1>6, <1>7 DEF n, Size

(* What the kind of a route puts in its header: how many accounts it goes   *)
(* through, which, and the least each must receive.                         *)
Hops(r) == IF r.kind = "static" THEN 0 ELSE IF r.kind = "two_hop" THEN 1 ELSE 2
TagOf(r) == IF r.kind = "static" THEN TAG_ROUTE
            ELSE IF r.kind = "two_hop" THEN TAG_ROUTE_DYNAMIC ELSE TAG_ROUTE_DYNAMIC_THREE
Through(r) == IF r.kind = "static" THEN <<>>
              ELSE IF r.kind = "two_hop" THEN <<hop_out(r, 1)>>
              ELSE <<hop_out(r, 1), hop_out(r, 2)>>
Least(r) == IF r.kind = "static" THEN <<>>
            ELSE IF r.kind = "two_hop" THEN <<r.minimums[1]>>
            ELSE <<r.minimums[1], r.minimums[2]>>

(* What the client checks of a later leg, in the terms of the route.        *)
ThreeHop(r) == r.kind = "three_hop"
LastLeg(r, k) == k = Legs(r)
Checked(r, k) ==
    validate_dynamic_leg(built_legs(r)[k], hop_out(r, k - 1), hop_out(r, k),
                         ThreeHop(r), LastLeg(r, k))

ClientChecked(r) ==
    /\ Legs(r) = Hops(r) + 1
    /\ \A k \in 1 .. Hops(r) :
         /\ hop_out(r, k) \notin {route_source(r), route_output(r)}
         /\ r.minimums[k] > 0
    /\ writes(built_legs(r)[1].accounts, hop_out(r, 1))
    /\ \A k \in 2 .. Legs(r) : Checked(r, k)
    /\ ThreeHop(r) => /\ hop_out(r, 1) # hop_out(r, 2)
                      /\ ~writes(built_legs(r)[1].accounts, hop_out(r, 2))

(* An instruction of a route: written for it, and checked.                  *)
Encoded(r, x) ==
    /\ Well_built(r)
    /\ Written(x, TagOf(r), route_source(r), route_output(r), Through(r), Hops(r),
               Least(r), built_legs(r))
    /\ Hops(r) > 0 => ClientChecked(r)

(* The checks do not depend on how they are written.                        *)
LEMMA SameCheck ==
    ASSUME NEW leg, NEW input, NEW output, NEW zero \in BOOLEAN, NEW allow \in BOOLEAN,
           NEW z \in BOOLEAN, NEW a \in BOOLEAN, z => zero, allow => a,
           validate_dynamic_leg(leg, input, output, zero, allow)
    PROVE  validate_dynamic_leg(leg, input, output, z, a)
<1> DEFINE layout == dynamic_leg_layout(leg)
           One == /\ layout # no_layout
                  /\ Len(leg.accounts) >= layout.minimum_accounts
                  /\ At(leg.accounts, layout.signer).key = user
                  /\ At(leg.accounts, layout.signer).s
                  /\ At(leg.accounts, layout.input_account).key = input
                  /\ At(leg.accounts, layout.input_account).w
                  /\ At(leg.accounts, layout.output_account).key = output
                  /\ At(leg.accounts, layout.output_account).w
           Zero == leg.data.u64[layout.amount_offset] = 0
           FromLaunchLab == leg.program_id = "launchlab"
<1>1. validate_dynamic_leg(leg, input, output, zero, allow)
        <=> (FromLaunchLab => allow) /\ One /\ (zero => Zero)
  BY Zenon DEF validate_dynamic_leg
<1>2. validate_dynamic_leg(leg, input, output, z, a) <=> (FromLaunchLab => a) /\ One /\ (z => Zero)
  BY Zenon DEF validate_dynamic_leg
<1> HIDE DEF One, Zero, FromLaunchLab
<1> QED
  BY <1>1, <1>2, Zenon

(* The client's conditions by name, so that they can be compared.           *)
TwoHopOK(r) ==
    LET legs == built_legs(r) IN
    /\ r.minimums[1] > 0
    /\ hop_out(r, 1) \notin {route_source(r), route_output(r)}
    /\ writes(legs[1].accounts, hop_out(r, 1))
    /\ validate_dynamic_leg(legs[2], hop_out(r, 1), route_output(r), FALSE, TRUE)

ThreeHopOK(r) ==
    LET legs == built_legs(r) IN
    /\ r.minimums[1] > 0 /\ r.minimums[2] > 0
    /\ hop_out(r, 1) # hop_out(r, 2)
    /\ {hop_out(r, 1), hop_out(r, 2)} \cap {route_source(r), route_output(r)} = {}
    /\ writes(legs[1].accounts, hop_out(r, 1))
    /\ ~writes(legs[1].accounts, hop_out(r, 2))
    /\ validate_dynamic_leg(legs[2], hop_out(r, 1), hop_out(r, 2), TRUE, FALSE)
    /\ validate_dynamic_leg(legs[3], hop_out(r, 2), route_output(r), TRUE, TRUE)

LEMMA EncodeCases ==
    ASSUME NEW r, RequestOK(r), encode(r) # NoInstruction
    PROVE  /\ Well_built(r)
           /\ r.kind \in {"static", "two_hop", "three_hop"}
           /\ r.kind = "two_hop" => TwoHopOK(r) /\ Legs(r) = 2
           /\ r.kind = "three_hop" => ThreeHopOK(r) /\ Legs(r) = 3
           /\ encode(r) = instruction(TagOf(r), route_source(r), route_output(r),
                                      Through(r), Least(r), built_legs(r))
<1>1. /\ r.kind \in {"static", "two_hop", "three_hop"}
      /\ r.kind = "two_hop" => Legs(r) = 2
      /\ r.kind = "three_hop" => Legs(r) = 3
  BY DEF RequestOK, Legs
<1>2. Well_built(r)
  BY DEF encode
<1>3. CASE r.kind = "static"
  <2>1. encode(r) = build_route_instruction_ex(r)
    BY <1>2, <1>3 DEF encode
  <2>2. /\ TagOf(r) = TAG_ROUTE /\ Through(r) = <<>> /\ Least(r) = <<>>
    BY <1>3 DEF TagOf, Through, Least
  <2>3. encode(r) = instruction(TagOf(r), route_source(r), route_output(r),
                                Through(r), Least(r), built_legs(r))
    BY <2>1, <2>2 DEF build_route_instruction_ex
  <2> QED
    BY <1>1, <1>2, <1>3, <2>3
<1>4. CASE r.kind = "two_hop"
  <2>1. encode(r) = build_dynamic_route_instruction(r)
    <3>1. encode(r) = build_dynamic_quote_buy(r)
      BY <1>2, <1>4 DEF encode
    <3> QED
      BY <3>1, Zenon DEF build_dynamic_quote_buy
  <2>2. /\ TagOf(r) = TAG_ROUTE_DYNAMIC /\ Through(r) = <<hop_out(r, 1)>>
        /\ Least(r) = <<r.minimums[1]>>
    BY <1>4 DEF TagOf, Through, Least
  <2>3. /\ TwoHopOK(r)
        /\ encode(r) = instruction(TAG_ROUTE_DYNAMIC, route_source(r), route_output(r),
                                   <<hop_out(r, 1)>>, <<r.minimums[1]>>, built_legs(r))
    BY <2>1, Zenon DEF build_dynamic_route_instruction, TwoHopOK
  <2>4. encode(r) = instruction(TagOf(r), route_source(r), route_output(r),
                                Through(r), Least(r), built_legs(r))
    BY <2>2, <2>3
  <2> QED
    BY <1>1, <1>2, <1>4, <2>3, <2>4
<1>5. CASE r.kind = "three_hop"
  <2>1. encode(r) = build_three_hop_route_instruction(r)
    BY <1>2, <1>5 DEF encode
  <2>2. /\ TagOf(r) = TAG_ROUTE_DYNAMIC_THREE
        /\ Through(r) = <<hop_out(r, 1), hop_out(r, 2)>>
        /\ Least(r) = <<r.minimums[1], r.minimums[2]>>
    BY <1>5 DEF TagOf, Through, Least
  <2>3. /\ ThreeHopOK(r)
        /\ encode(r) = instruction(TAG_ROUTE_DYNAMIC_THREE, route_source(r),
                                   route_output(r), <<hop_out(r, 1), hop_out(r, 2)>>,
                                   <<r.minimums[1], r.minimums[2]>>, built_legs(r))
    BY <2>1, Zenon DEF build_three_hop_route_instruction, ThreeHopOK
  <2>4. encode(r) = instruction(TagOf(r), route_source(r), route_output(r),
                                Through(r), Least(r), built_legs(r))
    BY <2>2, <2>3
  <2> QED
    BY <1>1, <1>2, <1>5, <2>3, <2>4
<1> QED
  BY <1>1, <1>3, <1>4, <1>5

Yes == TRUE
No == FALSE

LEMMA EncodedRoute ==
    ASSUME NEW r, RequestOK(r), encode(r) # NoInstruction
    PROVE  Encoded(r, encode(r))
<1> DEFINE legs == built_legs(r)
           m == Hops(r)
           inter == Through(r)
<1>1. /\ Well_built(r)
      /\ r.kind \in {"static", "two_hop", "three_hop"}
      /\ r.kind = "two_hop" => TwoHopOK(r) /\ Legs(r) = 2
      /\ r.kind = "three_hop" => ThreeHopOK(r) /\ Legs(r) = 3
      /\ encode(r) = instruction(TagOf(r), route_source(r), route_output(r),
                                 inter, Least(r), legs)
  BY EncodeCases
<1>2. /\ Len(legs) = Legs(r) /\ Len(legs) \in 1 .. MAX_LEGS
      /\ \A k \in 1 .. Len(legs) : Shaped(legs[k])
  BY <1>1, BuiltLegs
<1>3. m \in Nat /\ Len(inter) = m /\ \A k \in 1 .. m : NotMint(inter[k])
  <2>1. \A k : NotMint(hop_out(r, k))
    BY OwnAccounts
  <2>2. CASE r.kind = "static"
    BY <2>2 DEF Hops, Through
  <2>3. CASE r.kind = "two_hop"
    BY <2>1, <2>3 DEF Hops, Through
  <2>4. CASE r.kind = "three_hop"
    <3>1. m = 2 /\ inter = <<hop_out(r, 1), hop_out(r, 2)>>
      BY <2>4 DEF Hops, Through
    <3>2. \A k \in 1 .. 2 : k = 1 \/ k = 2
      OBVIOUS
    <3> QED
      BY <2>1, <3>1, <3>2
  <2> QED
    BY <1>1, <2>2, <2>3, <2>4
<1>4. Written(encode(r), TagOf(r), route_source(r), route_output(r), inter, m,
              Least(r), legs)
  <2>1. NotMint(route_source(r)) /\ NotMint(route_output(r))
    BY OwnAccounts
  <2> HIDE DEF legs, m, inter
  <2> QED
    BY <1>1, <1>2, <1>3, <2>1, InstructionWritten
<1>5. ASSUME m > 0 PROVE ClientChecked(r)
  <2>1. r.kind = "two_hop" \/ r.kind = "three_hop"
    BY <1>1, <1>5 DEF Hops
  <2>2. route_output(r) = hop_out(r, Legs(r))
    BY DEF route_output, Legs
  <2>3. CASE r.kind = "two_hop"
    <3>1. m = 1 /\ Legs(r) = 2 /\ TwoHopOK(r) /\ ThreeHop(r) = FALSE
      BY <1>1, <2>3 DEF Hops, ThreeHop
    <3>2. validate_dynamic_leg(legs[2], hop_out(r, 1), hop_out(r, 2), No, Yes)
      BY <2>2, <3>1, Zenon DEF TwoHopOK, No, Yes
    <3>3. Checked(r, 2)
      <4>1. /\ No \in BOOLEAN /\ Yes \in BOOLEAN /\ ThreeHop(r) \in BOOLEAN
            /\ LastLeg(r, 2) \in BOOLEAN /\ (ThreeHop(r) => No) /\ (Yes => LastLeg(r, 2))
        BY <3>1 DEF No, Yes, ThreeHop, LastLeg
      <4>2. validate_dynamic_leg(legs[2], hop_out(r, 1), hop_out(r, 2),
                                 ThreeHop(r), LastLeg(r, 2))
        BY <3>2, <4>1, SameCheck
      <4>3. 2 - 1 = 1
        OBVIOUS
      <4> QED
        BY <4>2, <4>3 DEF Checked
    <3>4. /\ r.minimums[1] > 0
          /\ hop_out(r, 1) \notin {route_source(r), route_output(r)}
          /\ writes(legs[1].accounts, hop_out(r, 1))
      BY <3>1 DEF TwoHopOK
    <3>5. /\ \A k \in 1 .. m : k = 1
          /\ \A k \in 2 .. Legs(r) : k = 2
      BY <3>1
    <3> QED
      BY <3>1, <3>3, <3>4, <3>5 DEF ClientChecked
  <2>4. CASE r.kind = "three_hop"
    <3>1. m = 2 /\ Legs(r) = 3 /\ ThreeHopOK(r) /\ ThreeHop(r) = TRUE
      BY <1>1, <2>4 DEF Hops, ThreeHop
    <3>2. /\ validate_dynamic_leg(legs[2], hop_out(r, 1), hop_out(r, 2), Yes, No)
          /\ validate_dynamic_leg(legs[3], hop_out(r, 2), hop_out(r, 3), Yes, Yes)
      BY <2>2, <3>1, Zenon DEF ThreeHopOK, No, Yes
    <3>3. /\ No \in BOOLEAN /\ Yes \in BOOLEAN /\ ThreeHop(r) \in BOOLEAN
          /\ LastLeg(r, 2) \in BOOLEAN /\ LastLeg(r, 3) \in BOOLEAN
          /\ (ThreeHop(r) => Yes) /\ (No => LastLeg(r, 2)) /\ (Yes => LastLeg(r, 3))
      BY <3>1 DEF No, Yes, ThreeHop, LastLeg
    <3>4. Checked(r, 2)
      <4>1. validate_dynamic_leg(legs[2], hop_out(r, 1), hop_out(r, 2),
                                 ThreeHop(r), LastLeg(r, 2))
        BY <3>2, <3>3, SameCheck
      <4>2. 2 - 1 = 1
        OBVIOUS
      <4> QED
        BY <4>1, <4>2 DEF Checked
    <3>5. Checked(r, 3)
      <4>1. validate_dynamic_leg(legs[3], hop_out(r, 2), hop_out(r, 3),
                                 ThreeHop(r), LastLeg(r, 3))
        BY <3>2, <3>3, SameCheck
      <4>2. 3 - 1 = 2
        OBVIOUS
      <4> QED
        BY <4>1, <4>2 DEF Checked
    <3>6. /\ r.minimums[1] > 0 /\ r.minimums[2] > 0
          /\ hop_out(r, 1) \notin {route_source(r), route_output(r)}
          /\ hop_out(r, 2) \notin {route_source(r), route_output(r)}
          /\ writes(legs[1].accounts, hop_out(r, 1))
          /\ hop_out(r, 1) # hop_out(r, 2)
          /\ ~writes(legs[1].accounts, hop_out(r, 2))
      BY <3>1 DEF ThreeHopOK
    <3>7. /\ \A k \in 1 .. m : k = 1 \/ k = 2
          /\ \A k \in 2 .. Legs(r) : k = 2 \/ k = 3
      BY <3>1
    <3> QED
      BY <3>1, <3>4, <3>5, <3>6, <3>7 DEF ClientChecked
  <2> QED
    BY <2>1, <2>3, <2>4
<1> QED
  BY <1>1, <1>4, <1>5 DEF Encoded

-----------------------------------------------------------------------------
(* The program: what it sees of the instruction of a route.                 *)

LEMMA SubList ==
    ASSUME NEW s, List(s), NEW a \in Nat, NEW b \in Nat, a <= b, b <= Size(s)
    PROVE  LET z == SubSeq(s, a + 1, b) IN
           /\ List(z) /\ Size(z) = b - a
           /\ \A i \in 1 .. b - a : Item(z, i) = Item(s, a + i)
<1>1. PICK S : s \in Seq(S)
  BY DEF List
<1> DEFINE z == SubSeq(s, a + 1, b)
<1>2. Size(s) = Len(s) /\ Len(s) \in Nat
  BY ListIs
<1>3. z = [i \in 1 .. b - a |-> s[a + i]]
  <2>1. \A i \in 1 .. b - a : (a + 1) + i - 1 = a + i
    OBVIOUS
  <2>2. b - (a + 1) + 1 = b - a
    OBVIOUS
  <2> QED
    BY <1>1, <1>2, <2>1, <2>2
<1>4. b - a \in Nat
  OBVIOUS
<1>5. z = [i \in 1 .. b - a |-> z[i]] /\ \A i \in 1 .. b - a : z[i] = s[a + i]
  BY <1>3
<1> HIDE DEF z
<1>6. List(z) /\ Size(z) = b - a
  BY <1>4, <1>5, Tabled
<1> QED
  BY <1>5, <1>6 DEF Item, z

LEMMA Merged ==
    ASSUME List(ix.metas), NEW k \in 1 .. Size(ix.metas)
    PROVE  LET m == Item(ix.metas, k) IN
           /\ merged(m).key = m.key
           /\ m.w => merged(m).w
           /\ m.s => merged(m).s
           /\ writes(ix.metas, m.key) => merged(m).w
<1> DEFINE m == Item(ix.metas, k)
           w == writes(ix.metas, m.key)
           s == \E x \in ToSet(ix.metas) : x.key = m.key /\ x.s
<1>1. m \in ToSet(ix.metas)
  BY ListIs DEF ToSet, Item
<1>2. merged(m) = [key |-> m.key, w |-> w, s |-> s]
  BY DEF merged, meta
<1>3. m.w => w
  BY <1>1 DEF writes
<1>4. m.s => s
  BY <1>1
<1> HIDE DEF w, s, m
<1>5. merged(m).key = m.key /\ merged(m).w = w /\ merged(m).s = s
  BY <1>2
<1>6. (w => merged(m).w) /\ (s => merged(m).s)
  BY <1>5, Zenon
<1> QED
  BY <1>3, <1>4, <1>5, <1>6 DEF m, w

LEMMA Views ==
    ASSUME List(ix.metas)
    PROVE  /\ List(views) /\ Size(views) = Size(ix.metas) /\ Size(ix.metas) \in Nat
           /\ \A k \in 1 .. Size(ix.metas) :
                Item(views, k) = merged(Item(ix.metas, k)) /\ views[k] = Item(views, k)
<1> DEFINE v == views
           n == Len(ix.metas)
<1>1. n \in Nat /\ Size(ix.metas) = n
  BY ListIs
<1>2. v = [k \in 1 .. n |-> merged(ix.metas[k])]
  BY DEF views
<1> HIDE DEF v, n
<1>3. v = [k \in 1 .. n |-> v[k]] /\ \A k \in 1 .. n : v[k] = merged(ix.metas[k])
  BY <1>2
<1>4. List(v) /\ Size(v) = n
  BY <1>1, <1>3, Tabled
<1> QED
  BY <1>1, <1>3, <1>4 DEF v, Item

(* The accounts before those of the legs are those of the route, the legs   *)
(* are in the remaining ones.                                               *)
LEMMA HeaderSeen ==
    ASSUME RequestOK(req), Encoded(req, ix)
    PROVE  /\ intermediates = Hops(req) /\ Hops(req) \in 0 .. 2
           /\ fee_source.key = route_source(req) /\ user_output.key = route_output(req)
           /\ fee_program.key = token_program(route_source(req))
           /\ views[1].s
           /\ \A k \in 1 .. Hops(req) :
                intermediate_acc(k).key = hop_out(req, k) /\ intermediate_acc(k).w
           /\ Len(ix.metas) >= 6 + Hops(req)
           /\ List(remaining) /\ Size(remaining) = Size(ix.metas) - 6 - Hops(req)
           /\ Size(ix.metas) \in Nat /\ Size(remaining) \in Nat
           /\ \A i \in 1 .. Size(remaining) :
                Item(remaining, i) = merged(Item(ix.metas, 6 + Hops(req) + i))
           /\ Offset(built_legs(req), Legs(req)) <= Size(remaining)
<1> DEFINE m == Hops(req)
           metas == ix.metas
           c == Size(metas)
           source == route_source(req)
           output == route_output(req)
           inter == Through(req)
           legs == built_legs(req)
           total == Offset(legs, Len(legs))
<1>1. /\ Carries(metas, source, output, inter, m, legs) /\ ix.tag = TagOf(req)
      /\ Well_built(req)
  BY DEF Encoded, Written
<1>2. /\ req.kind \in {"static", "two_hop", "three_hop"}
      /\ m \in 0 .. 2
  BY DEF RequestOK, Hops
<1>3. intermediates = m
  BY <1>1, <1>2 DEF intermediates, TagOf, Hops, TAG_ROUTE, TAG_ROUTE_DYNAMIC,
                    TAG_ROUTE_DYNAMIC_THREE
<1>4. \A k \in 1 .. m : inter[k] = hop_out(req, k)
  <2>1. CASE req.kind = "static"
    BY <2>1 DEF Hops
  <2>2. CASE req.kind = "two_hop"
    BY <2>2 DEF Hops, Through
  <2>3. CASE req.kind = "three_hop"
    <3>1. m = 2 /\ inter = <<hop_out(req, 1), hop_out(req, 2)>>
      BY <2>3 DEF Hops, Through
    <3>2. \A k \in 1 .. 2 : k = 1 \/ k = 2
      OBVIOUS
    <3> QED
      BY <3>1, <3>2
  <2> QED
    BY <1>2, <2>1, <2>2, <2>3
<1>5. total \in Nat /\ Len(legs) = Legs(req)
  <2>1. /\ Len(legs) = Legs(req) /\ Legs(req) \in 1 .. MAX_LEGS
        /\ \A k \in 1 .. Len(legs) : Shaped(legs[k])
    BY <1>1, BuiltLegs
  <2>2. Len(legs) \in 0 .. Len(legs)
    BY <2>1 DEF MAX_LEGS
  <2> QED
    BY <2>1, <2>2, OffsetSteps
<1> HIDE DEF m, metas, source, output, inter, legs, total
<1>6. /\ List(metas) /\ c \in Nat /\ c >= 6 + m + total
      /\ Item(metas, 1) = Payer
      /\ Item(metas, 4) = Writable(source)
      /\ Item(metas, 5) = Writable(output)
      /\ Item(metas, 6) = Readable(token_program(source))
      /\ \A k \in 1 .. m : Item(metas, 6 + k) = Writable(inter[k])
  BY <1>1 DEF Carries, total
<1>7. /\ List(views) /\ Size(views) = c
      /\ \A k \in 1 .. c : Item(views, k) = merged(Item(metas, k)) /\ views[k] = Item(views, k)
  BY <1>6, Views DEF metas
<1>8. \A k \in 1 .. c : /\ views[k].key = Item(metas, k).key
                        /\ Item(metas, k).w => views[k].w
                        /\ Item(metas, k).s => views[k].s
  BY <1>6, <1>7, Merged DEF metas
<1>9. /\ Payer.s /\ \A key : Writable(key).key = key /\ Writable(key).w
      /\ \A key : Readable(key).key = key
  BY DEF Payer, Writable, Readable, meta
<1>10. 1 \in 1 .. c /\ 4 \in 1 .. c /\ 5 \in 1 .. c /\ 6 \in 1 .. c
       /\ \A k \in 1 .. m : 6 + k \in 1 .. c
  BY <1>2, <1>5, <1>6 DEF m
<1>11. /\ fee_source.key = source /\ user_output.key = output
       /\ fee_program.key = token_program(source) /\ views[1].s
  BY <1>6, <1>8, <1>9, <1>10 DEF fee_source, user_output, fee_program
<1>12. \A k \in 1 .. m : intermediate_acc(k).key = hop_out(req, k) /\ intermediate_acc(k).w
  BY <1>4, <1>6, <1>8, <1>9, <1>10 DEF intermediate_acc
<1>13. Len(metas) >= 6 + m
  BY <1>2, <1>5, <1>6 DEF Size, m
<1>14. /\ List(remaining) /\ Size(remaining) = c - (6 + m)
       /\ \A i \in 1 .. c - (6 + m) : Item(remaining, i) = Item(views, (6 + m) + i)
  <2>1. 6 + m \in Nat /\ c \in Nat /\ 6 + m <= c
    BY <1>2, <1>5, <1>6 DEF m
  <2>2. remaining = SubSeq(views, (6 + m) + 1, c)
    <3>1. (6 + m) + 1 = 7 + m
      BY <1>2 DEF m
    <3>2. Len(views) = c
      BY <1>7 DEF Size
    <3> QED
      BY <1>3, <3>1, <3>2 DEF remaining, m
  <2> HIDE DEF c
  <2>3. LET z == SubSeq(views, (6 + m) + 1, c) IN
        /\ List(z) /\ Size(z) = c - (6 + m)
        /\ \A i \in 1 .. c - (6 + m) : Item(z, i) = Item(views, (6 + m) + i)
    BY <1>7, <2>1, SubList
  <2> QED
    BY <2>2, <2>3
<1>15. \A i \in 1 .. c - (6 + m) :
         Item(remaining, i) = merged(Item(metas, 6 + m + i))
  BY <1>2, <1>5, <1>6, <1>7, <1>14 DEF m
<1>16. Size(remaining) \in Nat /\ total <= Size(remaining) /\ Size(remaining) = c - 6 - m
  BY <1>2, <1>5, <1>6, <1>14 DEF m
<1> QED
  BY <1>2, <1>3, <1>5, <1>6, <1>11, <1>12, <1>13, <1>14, <1>15, <1>16
     DEF m, metas, source, output, legs, total

(* The leg under the two cursors is the next leg of the route, and after it *)
(* the cursors are where the one that follows begins.                       *)
End(r, k) == end_of(header_len(Hops(r)), built_legs(r), k)

LEMMA RouteOffsets ==
    ASSUME NEW r, RequestOK(r), Well_built(r)
    PROVE  LET legs == built_legs(r) IN
           /\ Len(legs) = Legs(r) /\ Legs(r) \in 1 .. 4
           /\ \A k \in 1 .. Legs(r) : Shaped(legs[k])
           /\ End(r, 0) = header_len(Hops(r)) /\ Offset(legs, 0) = 0
           /\ \A k \in 1 .. Legs(r) :
                /\ End(r, k) = End(r, k - 1) + LEG_HEADER_LEN + legs[k].data.len
                /\ Offset(legs, k) = Offset(legs, k - 1) + Size(legs[k].accounts)
           /\ \A k \in 0 .. Legs(r) :
                /\ End(r, k) \in Nat /\ header_len(Hops(r)) <= End(r, k)
                /\ End(r, k) <= End(r, Legs(r))
                /\ Offset(legs, k) \in Nat /\ Offset(legs, k) <= Offset(legs, Legs(r))
<1> DEFINE legs == built_legs(r)
           first == header_len(Hops(r))
           n == Legs(r)
<1>1. /\ Len(legs) = n /\ n \in 1 .. MAX_LEGS
      /\ \A k \in 1 .. n : Shaped(legs[k])
  BY BuiltLegs
<1>2. first \in Nat
  BY DEF header_len, Hops, ROUTE_HEADER_LEN
<1>3. \A k \in 1 .. n : legs[k].data.len \in Nat
  BY <1>1 DEF Shaped
<1> HIDE DEF legs, first, n
<1>4. /\ Offset(legs, 0) = 0
      /\ \A k \in 1 .. n : Offset(legs, k) = Offset(legs, k - 1) + Size(legs[k].accounts)
      /\ \A k \in 0 .. n : Offset(legs, k) \in Nat
      /\ \A k \in 0 .. n : Offset(legs, k) <= Offset(legs, n)
  BY <1>1, OffsetSteps
<1> DEFINE e(k) == end_of(first, legs, k)
<1>5. /\ e(0) = first
      /\ \A k \in 1 .. n : e(k) = e(k - 1) + encoded_len(legs[k])
  BY <1>1, <1>2, <1>3, EndOf
<1>6. /\ \A k \in 0 .. n : e(k) \in Nat /\ first <= e(k)
      /\ \A j, k \in 0 .. n : j < k => e(j) < e(k)
  BY <1>1, <1>2, <1>3, EndOrder
<1>7. \A k : End(r, k) = e(k)
  BY DEF End, first, legs
<1> HIDE DEF e
<1>8. n \in 1 .. 4
  BY <1>1 DEF MAX_LEGS
<1>9. ASSUME NEW k \in 1 .. n PROVE e(k) = e(k - 1) + LEG_HEADER_LEN + legs[k].data.len
  <2>1. k - 1 \in 0 .. n
    BY <1>8
  <2>2. e(k - 1) \in Nat /\ legs[k].data.len \in Nat
    BY <1>3, <1>6, <2>1
  <2>3. e(k) = e(k - 1) + (LEG_HEADER_LEN + legs[k].data.len)
    BY <1>5 DEF encoded_len
  <2> QED
    BY <2>2, <2>3 DEF LEG_HEADER_LEN
<1>10. ASSUME NEW k \in 0 .. n PROVE e(k) <= e(n)
  <2>1. n \in 0 .. n /\ e(n) \in Nat /\ (k = n \/ k < n)
    BY <1>6, <1>8
  <2> QED
    BY <1>6, <2>1
<1> QED
  BY <1>1, <1>4, <1>5, <1>6, <1>7, <1>8, <1>9, <1>10 DEF n, legs, first

LEMMA DecodedLeg ==
    ASSUME RequestOK(req), Encoded(req, ix), NEW k \in 1 .. Legs(req),
           cursor = End(req, k - 1), remaining_offset = Offset(built_legs(req), k - 1)
    PROVE  LET leg == built_legs(req)[k]
               header == ix.legs[cursor]
           IN  /\ cursor \in DOMAIN ix.legs /\ decodes(header)
               /\ End(req, k) = cursor + LEG_HEADER_LEN + header.data.len
               /\ Offset(built_legs(req), k) = remaining_offset + header.num_accounts
               /\ Seen(decoded_leg, leg)
               /\ decoded_leg = Leg(leg.program_id, decoded_leg.accounts, leg.data)
               /\ \A j \in 1 .. Size(leg.accounts) :
                    writes(ix.metas, Item(leg.accounts, j).key)
                        => Item(decoded_leg.accounts, j).w
<1> DEFINE legs == built_legs(req)
           leg == legs[k]
           m == Hops(req)
           n == Legs(req)
           header == ix.legs[cursor]
           o == remaining_offset
           c == Size(leg.accounts)
           got == SubSeq(remaining, o + 1, o + c)
<1>1. /\ Well_built(req)
      /\ Written(ix, TagOf(req), route_source(req), route_output(req), Through(req),
                 m, Least(req), legs)
  BY DEF Encoded
<1>2. /\ Len(legs) = n /\ n \in 1 .. 4
      /\ \A j \in 1 .. n : Shaped(legs[j])
      /\ End(req, k) = End(req, k - 1) + LEG_HEADER_LEN + leg.data.len
      /\ Offset(legs, k) = Offset(legs, k - 1) + c
      /\ \A j \in 0 .. n : /\ End(req, j) \in Nat /\ End(req, j) <= End(req, n)
                           /\ Offset(legs, j) \in Nat /\ Offset(legs, j) <= Offset(legs, n)
  BY <1>1, RouteOffsets
<1>3. /\ k - 1 \in 0 .. n /\ k \in 0 .. n
  BY <1>2
<1>4. /\ List(leg.accounts) /\ c \in Nat /\ c >= 1 /\ c <= MAX_LEG_ACCOUNTS
      /\ leg.data.len \in Nat
  <2>1. leg = built_leg(req, k, req.amounts[k])
    BY <1>1, BuiltLegs
  <2>2. Size(leg.accounts) <= MAX_LEG_ACCOUNTS /\ Shaped(leg)
    <3> HIDE DEF leg
    <3> QED
      BY <1>1, <2>1, RouteLeg
  <2> QED
    BY <2>2 DEF Shaped
<1>5. /\ cursor \in DOMAIN ix.legs /\ header = leg_header(leg) /\ ix.len = End(req, n)
      /\ Carries(ix.metas, route_source(req), route_output(req), Through(req), m, legs)
  BY <1>1, <1>2 DEF Written, End
<1>6. header.program_id = leg.program_id /\ header.num_accounts = c /\ header.data = leg.data
  BY <1>5 DEF leg_header, Size
<1>7. /\ List(remaining) /\ Size(remaining) \in Nat
      /\ \A i \in 1 .. Size(remaining) :
           Item(remaining, i) = merged(Item(ix.metas, 6 + m + i))
      /\ Offset(legs, n) <= Size(remaining) /\ m \in 0 .. 2
      /\ Size(remaining) = Size(ix.metas) - 6 - m /\ Size(ix.metas) \in Nat
  BY HeaderSeen
<1>8. /\ o \in Nat /\ o + c <= Size(remaining) /\ Size(remaining) = Len(remaining)
  <2>1. Size(remaining) = Len(remaining)
    BY DEF Size
  <2>2. Offset(legs, k - 1) \in Nat /\ Offset(legs, k) \in Nat
        /\ Offset(legs, k) <= Offset(legs, n) /\ Offset(legs, n) \in Nat
    BY <1>2, <1>3
  <2>3. o = Offset(legs, k - 1) /\ Offset(legs, k) = Offset(legs, k - 1) + c
    BY <1>2
  <2>4. Offset(legs, n) <= Size(remaining) /\ Size(remaining) \in Nat
    BY <1>7
  <2> HIDE DEF legs, c, n
  <2> QED
    BY <1>4, <2>1, <2>2, <2>3, <2>4
<1>9. decodes(header)
  <2>1. /\ End(req, k) \in Nat /\ End(req, k) <= End(req, n)
        /\ End(req, n) \in Nat /\ cursor \in Nat
    BY <1>2, <1>3
  <2>2. cursor + LEG_HEADER_LEN + header.data.len <= ix.len
    BY <1>2, <1>5, <1>6, <2>1
  <2>3. header.num_accounts \in 1 .. MAX_LEG_ACCOUNTS
    BY <1>4, <1>6 DEF MAX_LEG_ACCOUNTS
  <2> QED
    BY <1>6, <1>8, <2>2, <2>3 DEF decodes
<1>10. /\ List(got) /\ Size(got) = c /\ \A j \in 1 .. c : Item(got, j) = Item(remaining, o + j)
  <2> DEFINE b == o + c
  <2>1. b \in Nat /\ o <= b /\ b <= Size(remaining) /\ b - o = c
    BY <1>4, <1>8
  <2> HIDE DEF b, c
  <2>2. LET z == SubSeq(remaining, o + 1, b) IN
        /\ List(z) /\ Size(z) = b - o
        /\ \A j \in 1 .. b - o : Item(z, j) = Item(remaining, o + j)
    BY <1>7, <1>8, <2>1, SubList
  <2> QED
    BY <2>1, <2>2 DEF b
<1>11. ASSUME NEW j \in 1 .. c
       PROVE  /\ Item(got, j).key = Item(leg.accounts, j).key
              /\ Item(leg.accounts, j).w => Item(got, j).w
              /\ Item(leg.accounts, j).s => Item(got, j).s
              /\ writes(ix.metas, Item(leg.accounts, j).key) => Item(got, j).w
  <2> DEFINE q == 6 + m + o + j
  <2>1. /\ o + j \in 1 .. Size(remaining) /\ q \in 1 .. Size(ix.metas)
        /\ 6 + m + (o + j) = q
    <3>1. /\ o \in Nat /\ c \in Nat /\ m \in Nat /\ j \in 1 .. c
          /\ o + c <= Size(remaining) /\ Size(remaining) \in Nat
          /\ Size(remaining) = Size(ix.metas) - 6 - m /\ Size(ix.metas) \in Nat
      BY <1>4, <1>7, <1>8
    <3> HIDE DEF c, m
    <3> QED
      BY <3>1
  <2>2. Item(got, j) = merged(Item(ix.metas, q))
    BY <1>7, <1>10, <2>1
  <2>3. Item(ix.metas, q) = Item(leg.accounts, j) /\ List(ix.metas)
    BY <1>2, <1>5 DEF Carries
  <2> HIDE DEF q, got
  <2> QED
    BY <2>1, <2>2, <2>3, Merged
<1>12. decoded_leg = [program_id |-> leg.program_id, data |-> leg.data, accounts |-> got]
  BY <1>6 DEF decoded_leg
<1> HIDE DEF got, leg
<1>13. /\ decoded_leg.program_id = leg.program_id /\ decoded_leg.data = leg.data
       /\ decoded_leg.accounts = got
  BY <1>12
<1>14. decoded_leg = Leg(leg.program_id, decoded_leg.accounts, leg.data)
  BY <1>12, <1>13 DEF Leg
<1>15. Seen(decoded_leg, leg)
  BY <1>10, <1>11, <1>13 DEF Seen
<1> QED
  BY <1>2, <1>5, <1>6, <1>9, <1>11, <1>13, <1>14, <1>15 DEF leg

(* A later leg of a dynamic route is accepted, and with the amount that was *)
(* delivered in place it is the leg its builder makes for that amount.      *)
LEMMA LaterLeg ==
    ASSUME RequestOK(req), Encoded(req, ix), NEW k \in 2 .. Legs(req), Hops(req) > 0,
           cursor = End(req, k - 1), remaining_offset = Offset(built_legs(req), k - 1),
           Len(sent) = k - 1
    PROVE  /\ later_leg_accepted(decoded_leg)
           /\ \A v : Seen(patch_second_leg_amount(decoded_leg, v,
                              dynamic_second_leg(decoded_leg).amount_offset),
                          built_leg(req, k, v))
<1> DEFINE leg == built_legs(req)[k]
           got == decoded_leg
           p == req.pools[k]
           i == Entry(req, k)
           a == req.amounts[k]
           min == req.minimums[k]
           n == Legs(req)
           row == dynamic_second_leg(got)
<1>1. /\ Well_built(req) /\ ClientChecked(req) /\ ix.num_legs = n
      /\ n = Hops(req) + 1 /\ n \in 1 .. MAX_LEGS
  <2>1. Well_built(req) /\ ClientChecked(req) /\ ix.num_legs = Len(built_legs(req))
    BY DEF Encoded, Written
  <2> QED
    BY <2>1, BuiltLegs DEF ClientChecked
<1>2. k \in 1 .. n /\ n \in 1 .. 4
  BY <1>1 DEF MAX_LEGS
<1>3. /\ leg = pool_leg(p, i, a, min) /\ SoundPool(p) /\ i \in 1 .. 2
      /\ p.dex = "amm_v4" => p.programs = <<"token", "token">>
      /\ p.dex = "whirlpool" => p.extra <= 3
      /\ leg = Leg(leg.program_id, leg.accounts, leg.data)
      /\ \A v : built_leg(req, k, v) = pool_leg(p, i, v, min)
  <2>1. leg = built_leg(req, k, a)
    BY <1>1, <1>2, BuiltLegs
  <2>2. SoundPool(p) /\ i \in 1 .. 2
    BY <1>1, <1>2, RequestPools
  <2>3. \A v : built_leg(req, k, v) = pool_leg(p, i, v, min)
    BY DEF built_leg, Entry
  <2>4. /\ p.dex = "amm_v4" => p.programs = <<"token", "token">>
        /\ p.dex = "whirlpool" => p.extra <= 3
        /\ leg = Leg(leg.program_id, leg.accounts, leg.data)
    <3> HIDE DEF leg
    <3> QED
      BY <1>1, <1>2, <2>1, RouteLeg
  <2> QED
    BY <2>1, <2>2, <2>3, <2>4
<1>4. Seen(got, leg) /\ got = Leg(leg.program_id, got.accounts, leg.data)
  BY <1>2, DecodedLeg
<1> DEFINE zero == ThreeHop(req)
           allow == LastLeg(req, k)
           input == hop_out(req, k - 1)
           output == hop_out(req, k)
<1>5. zero \in BOOLEAN /\ allow \in BOOLEAN
  BY DEF ThreeHop, LastLeg
<1>6. validate_dynamic_leg(leg, input, output, zero, allow)
  BY <1>1 DEF ClientChecked, Checked
<1> HIDE DEF leg, got, p, i, a, min, n, zero, allow, input, output
<1>7. /\ got.program_id = "launchlab" => allow
      /\ row # NoLayout
      /\ zero => got.data.u64[row.amount_offset] = 0
      /\ validate_dynamic_accounts(row, got.accounts, input, output)
  <2>1. /\ validate_dynamic_leg(pool_leg(p, i, a, min), input, output, zero, allow)
        /\ Seen(got, pool_leg(p, i, a, min))
    BY <1>3, <1>4, <1>6
  <2> QED
    BY <1>3, <1>5, <2>1, LaterLegAccepted
<1>8. /\ intermediates = Hops(req) /\ Hops(req) \in 0 .. 2
      /\ user_output.key = route_output(req)
      /\ \A j \in 1 .. Hops(req) : intermediate_acc(j).key = hop_out(req, j)
  BY HeaderSeen
<1>9. /\ leg_index = k - 1 /\ (leg_index = ix.num_legs - 1 <=> k = n)
      /\ intermediate_acc(leg_index).key = input
  <2>1. k - 1 \in 1 .. Hops(req)
    BY <1>1, <1>2, <1>8 DEF n
  <2> QED
    BY <1>1, <1>2, <1>8, <2>1 DEF leg_index, input
<1>10. output = IF leg_index = ix.num_legs - 1 THEN user_output.key
                ELSE intermediate_acc(leg_index + 1).key
  <2>1. CASE k = n
    BY <1>8, <1>9, <2>1 DEF output, n, route_output, Legs
  <2>2. CASE k # n
    <3>1. k \in 1 .. Hops(req) /\ leg_index + 1 = k
      BY <1>1, <1>2, <1>8, <1>9, <2>2 DEF n
    <3> QED
      BY <1>8, <1>9, <2>2, <3>1 DEF output
  <2> QED
    BY <2>1, <2>2
<1>11. /\ allow => leg_index = ix.num_legs - 1
       /\ three_hop => zero
  <2>1. allow => k = n
    BY DEF allow, LastLeg, n
  <2>2. req.kind \in {"static", "two_hop", "three_hop"}
    BY DEF RequestOK
  <2>3. three_hop => zero
    BY <1>8, <2>2 DEF three_hop, zero, ThreeHop, Hops
  <2> QED
    BY <1>9, <2>1, <2>3
<1>12. later_leg_accepted(got)
  BY <1>7, <1>9, <1>10, <1>11 DEF later_leg_accepted
<1>13. ASSUME NEW v
       PROVE  Seen(patch_second_leg_amount(got, v, row.amount_offset), built_leg(req, k, v))
  <2> DEFINE at == dynamic_second_leg(leg).amount_offset
  <2>1. row = dynamic_second_leg(leg)
    BY <1>4, SameTable DEF Seen
  <2>2. dynamic_leg_layout(pool_leg(p, i, a, min)) # no_layout
    BY <1>3, <1>6, Zenon DEF validate_dynamic_leg
  <2>3. patch_second_leg_amount(leg, v, at) = built_leg(req, k, v)
    BY <1>3, <2>2, RowsAgree
  <2> DEFINE w == patch_second_leg_amount(leg, v, at)
             g == patch_second_leg_amount(got, v, at)
  <2>4. /\ w.program_id = leg.program_id /\ w.accounts = leg.accounts
        /\ w.data = [leg.data EXCEPT !.u64[at] = v]
    <3> HIDE DEF at
    <3> DEFINE x == leg.program_id
               y == leg.accounts
               d == leg.data
    <3>1. leg = [program_id |-> x, accounts |-> y, data |-> d]
      BY <1>3 DEF Leg
    <3> HIDE DEF x, y, d
    <3>2. w = [program_id |-> x, accounts |-> y, data |-> [d EXCEPT !.u64[at] = v]]
      BY <3>1 DEF patch_second_leg_amount
    <3> HIDE DEF w
    <3> QED
      BY <3>2 DEF x, y, d
  <2>5. /\ g.program_id = leg.program_id /\ g.accounts = got.accounts
        /\ g.data = [leg.data EXCEPT !.u64[at] = v]
    <3> HIDE DEF at
    <3> DEFINE x == leg.program_id
               y == got.accounts
               d == leg.data
    <3>1. got = [program_id |-> x, accounts |-> y, data |-> d]
      BY <1>4 DEF Leg
    <3> HIDE DEF x, y, d
    <3>2. g = [program_id |-> x, accounts |-> y, data |-> [d EXCEPT !.u64[at] = v]]
      BY <3>1 DEF patch_second_leg_amount
    <3> HIDE DEF g
    <3> QED
      BY <3>2 DEF x, y, d
  <2> HIDE DEF at, w, g
  <2>6. Seen(g, w)
    BY <1>4, <2>4, <2>5 DEF Seen
  <2> QED
    BY <2>1, <2>3, <2>6 DEF w, g, at
<1> QED
  BY <1>12, <1>13 DEF got

(* The first leg is refused only if it reads the second intermediate        *)
(* account, and one that is sent as it came is the leg that was built.      *)
LEMMA FirstLeg ==
    ASSUME RequestOK(req), Encoded(req, ix), Hops(req) > 0,
           cursor = End(req, 0), remaining_offset = Offset(built_legs(req), 0)
    PROVE  first_leg_accepted(decoded_leg) <=> ~ReadsAhead
<1> DEFINE leg == built_legs(req)[1]
           got == decoded_leg
           second == hop_out(req, 2)
<1>1. /\ Well_built(req) /\ ClientChecked(req)
      /\ Carries(ix.metas, route_source(req), route_output(req), Through(req), Hops(req),
                 built_legs(req))
  BY DEF Encoded, Written
<1>2. /\ 1 \in 1 .. Legs(req) /\ 1 - 1 = 0
      /\ leg = built_leg(req, 1, req.amounts[1])
      /\ Shaped(leg)
  <2>1. Legs(req) \in 1 .. MAX_LEGS
    BY <1>1, BuiltLegs
  <2>2. 1 \in 1 .. Legs(req)
    BY <2>1 DEF MAX_LEGS
  <2> QED
    BY <1>1, <2>2, BuiltLegs
<1>3. /\ Seen(got, leg)
      /\ \A j \in 1 .. Size(leg.accounts) :
           writes(ix.metas, Item(leg.accounts, j).key) => Item(got.accounts, j).w
  BY <1>2, DecodedLeg
<1>4. built_leg(req, 1, 0).accounts = leg.accounts
  <2> HIDE DEF leg
  <2> QED
    BY <1>1, <1>2, RouteLeg
<1>5. /\ intermediates = Hops(req) /\ Hops(req) \in 1 .. 2
      /\ \A j \in 1 .. Hops(req) : intermediate_acc(j).key = hop_out(req, j)
  BY HeaderSeen
<1> HIDE DEF leg, got, second
<1>6. \A x : (x \in ToSet(leg.accounts) <=> \E j \in 1 .. Size(leg.accounts) :
                                               x = Item(leg.accounts, j))
  BY <1>2, ListIs DEF Shaped, ToSet, Item
<1>7. \A x : (x \in ToSet(got.accounts) <=> \E j \in 1 .. Size(leg.accounts) :
                                               x = Item(got.accounts, j))
  BY <1>3, ListIs DEF Seen, ToSet, Item
<1>8. writes(got.accounts, hop_out(req, 1))
  <2>1. writes(leg.accounts, hop_out(req, 1))
    BY <1>1 DEF ClientChecked, leg
  <2>2. PICK x \in ToSet(leg.accounts) : x.key = hop_out(req, 1) /\ x.w
    BY <2>1 DEF writes
  <2>3. PICK j \in 1 .. Size(leg.accounts) : x = Item(leg.accounts, j)
    BY <1>6
  <2>4. /\ Item(got.accounts, j).key = hop_out(req, 1) /\ Item(got.accounts, j).w
        /\ Item(got.accounts, j) \in ToSet(got.accounts)
    BY <1>3, <1>7, <2>2, <2>3 DEF Seen
  <2> QED
    BY <2>4 DEF writes
<1>9. ASSUME ThreeHop(req)
      PROVE  writes(got.accounts, second) <=> \E x \in ToSet(leg.accounts) : x.key = second
  <2>1. writes(ix.metas, second)
    <3>1. /\ List(ix.metas) /\ Size(ix.metas) \in Nat /\ Size(ix.metas) >= 8
          /\ Item(ix.metas, 8) = Writable(second)
      <4>1. Hops(req) = 2 /\ Through(req)[2] = second
        BY <1>9 DEF ThreeHop, Hops, Through, second
      <4>2. Offset(built_legs(req), Len(built_legs(req))) \in Nat
        <5>1. /\ Len(built_legs(req)) = Legs(req)
              /\ Offset(built_legs(req), Legs(req)) \in Nat
          <6>1. Legs(req) \in 0 .. Legs(req)
            BY <1>1, RouteOffsets
          <6> QED
            BY <1>1, <6>1, RouteOffsets
        <5> QED
          BY <5>1
      <4>3. 2 \in 1 .. 2 /\ 6 + 2 = 8
        OBVIOUS
      <4> QED
        BY <1>1, <4>1, <4>2, <4>3 DEF Carries
    <3>2. Writable(second).key = second /\ Writable(second).w
      BY DEF Writable, meta
    <3>3. Item(ix.metas, 8) \in ToSet(ix.metas)
      BY <3>1, ListIs DEF ToSet, Item
    <3> QED
      BY <3>1, <3>2, <3>3 DEF writes
  <2>2. ASSUME writes(got.accounts, second)
        PROVE  \E x \in ToSet(leg.accounts) : x.key = second
    <3>1. PICK x \in ToSet(got.accounts) : x.key = second
      BY <2>2 DEF writes
    <3>2. PICK j \in 1 .. Size(leg.accounts) : x = Item(got.accounts, j)
      BY <1>7
    <3>3. Item(leg.accounts, j).key = second /\ Item(leg.accounts, j) \in ToSet(leg.accounts)
      BY <1>3, <1>6, <3>1, <3>2 DEF Seen
    <3> QED
      BY <3>3
  <2>3. ASSUME \E x \in ToSet(leg.accounts) : x.key = second
        PROVE  writes(got.accounts, second)
    <3>1. PICK x \in ToSet(leg.accounts) : x.key = second
      BY <2>3
    <3>2. PICK j \in 1 .. Size(leg.accounts) : x = Item(leg.accounts, j)
      BY <1>6
    <3>3. /\ Item(got.accounts, j).key = second /\ Item(got.accounts, j).w
          /\ Item(got.accounts, j) \in ToSet(got.accounts)
      BY <1>3, <1>7, <2>1, <3>1, <3>2 DEF Seen
    <3> QED
      BY <3>3 DEF writes
  <2> QED
    BY <2>2, <2>3
<1>10. ReadsAhead <=> ThreeHop(req) /\ \E x \in ToSet(leg.accounts) : x.key = second
  BY <1>4 DEF ReadsAhead, ThreeHop, second
<1>11. /\ dynamic /\ intermediate_acc(1).key = hop_out(req, 1)
       /\ three_hop <=> ThreeHop(req)
       /\ three_hop => intermediate_acc(2).key = second
  <2>1. req.kind \in {"static", "two_hop", "three_hop"}
    BY DEF RequestOK
  <2>2. (Hops(req) = 2 <=> ThreeHop(req)) /\ 1 \in 1 .. Hops(req)
    BY <1>5, <2>1 DEF Hops, ThreeHop
  <2> QED
    BY <1>5, <2>2 DEF dynamic, three_hop, second
<1>12. first_leg_accepted(got)
         <=> (three_hop => ~writes(got.accounts, second))
  BY <1>8, <1>11 DEF first_leg_accepted
<1> QED
  BY <1>9, <1>10, <1>11, <1>12 DEF got

(* Whatever its index: the next leg is accepted unless it is a first leg    *)
(* that reads ahead, and it goes out for the amount that is there.          *)
Ready(k) == IF dynamic /\ k > 1 THEN quote_received ELSE req.amounts[k]

LEMMA NextLeg ==
    ASSUME RequestOK(req), Encoded(req, ix), NEW k \in 1 .. Legs(req), Len(sent) = k - 1,
           cursor = End(req, k - 1), remaining_offset = Offset(built_legs(req), k - 1)
    PROVE  /\ cursor \in DOMAIN ix.legs /\ decodes(ix.legs[cursor])
           /\ leg_accepted(decoded_leg) <=> (k = 1 => ~ReadsAhead)
           /\ Seen(invoked(decoded_leg), built_leg(req, k, Ready(k)))
           /\ End(req, k) = cursor + LEG_HEADER_LEN + ix.legs[cursor].data.len
           /\ Offset(built_legs(req), k) = remaining_offset + ix.legs[cursor].num_accounts
<1>1. /\ Well_built(req) /\ Legs(req) \in 1 .. 4 /\ leg_index = k - 1
  BY RouteOffsets DEF Encoded, leg_index
<1>2. /\ cursor \in DOMAIN ix.legs /\ decodes(ix.legs[cursor])
      /\ Seen(decoded_leg, built_legs(req)[k])
      /\ End(req, k) = cursor + LEG_HEADER_LEN + ix.legs[cursor].data.len
      /\ Offset(built_legs(req), k) = remaining_offset + ix.legs[cursor].num_accounts
  BY DecodedLeg
<1>3. intermediates = Hops(req) /\ Hops(req) \in 0 .. 2
  BY HeaderSeen
<1>4. built_legs(req)[k] = built_leg(req, k, req.amounts[k])
  BY <1>1, BuiltLegs
<1>5. CASE k > 1 /\ Hops(req) > 0
  <2>1. k \in 2 .. Legs(req)
    BY <1>1, <1>5
  <2>2. /\ later_leg_accepted(decoded_leg)
        /\ \A v : Seen(patch_second_leg_amount(decoded_leg, v,
                           dynamic_second_leg(decoded_leg).amount_offset),
                       built_leg(req, k, v))
    BY <1>5, <2>1, LaterLeg
  <2>3. dynamic /\ spends_delivered /\ leg_index # 0
    BY <1>1, <1>3, <1>5 DEF dynamic, spends_delivered
  <2>4. leg_accepted(decoded_leg)
    BY <2>2, <2>3 DEF leg_accepted
  <2>5. Seen(invoked(decoded_leg), built_leg(req, k, Ready(k)))
    BY <1>5, <2>2, <2>3 DEF invoked, Ready
  <2> QED
    BY <1>2, <1>5, <2>4, <2>5
<1>6. CASE k = 1
  <2>1. ~spends_delivered /\ leg_index = 0
    BY <1>1, <1>6 DEF spends_delivered
  <2>2. leg_accepted(decoded_leg) <=> first_leg_accepted(decoded_leg)
    BY <2>1 DEF leg_accepted
  <2>3. first_leg_accepted(decoded_leg) <=> ~ReadsAhead
    <3>1. CASE Hops(req) > 0
      <4>1. k - 1 = 0
        BY <1>6
      <4> QED
        BY <3>1, <4>1, FirstLeg
    <3>2. CASE Hops(req) = 0
      <4>1. ~dynamic /\ req.kind # "three_hop"
        BY <1>3, <3>2 DEF dynamic, Hops
      <4> QED
        BY <4>1 DEF first_leg_accepted, ReadsAhead
    <3> QED
      BY <1>3, <3>1, <3>2
  <2>4. invoked(decoded_leg) = decoded_leg /\ Ready(k) = req.amounts[k]
    BY <1>6, <2>1 DEF invoked, Ready
  <2> QED
    BY <1>2, <1>4, <1>6, <2>2, <2>3, <2>4
<1>7. CASE k > 1 /\ Hops(req) = 0
  <2>1. ~dynamic
    BY <1>3, <1>7 DEF dynamic
  <2>2. ~spends_delivered /\ leg_index # 0
    BY <1>1, <1>7, <2>1 DEF spends_delivered
  <2>3. leg_accepted(decoded_leg)
    BY <2>2 DEF leg_accepted
  <2>4. invoked(decoded_leg) = decoded_leg /\ Ready(k) = req.amounts[k]
    BY <2>1, <2>2 DEF invoked, Ready
  <2> QED
    BY <1>2, <1>4, <1>7, <2>3, <2>4
<1> QED
  BY <1>1, <1>3, <1>5, <1>6, <1>7

(* The header of an instruction that the client built is accepted.          *)
LEMMA HeaderOK ==
    ASSUME RequestOK(req), Encoded(req, ix)
    PROVE  header_accepted /\ intermediates_accepted
<1> DEFINE m == Hops(req)
           n == Legs(req)
<1>1. /\ Well_built(req) /\ (m > 0 => ClientChecked(req))
      /\ ix.num_legs = Len(built_legs(req)) /\ ix.minimums = Least(req)
      /\ ix.len = end_of(header_len(m), built_legs(req), Len(built_legs(req)))
  BY DEF Encoded, Written
<1>2. /\ Len(built_legs(req)) = n /\ n \in 1 .. 4
      /\ \A k \in 0 .. n : End(req, k) \in Nat /\ header_len(m) <= End(req, k)
  BY <1>1, RouteOffsets
<1>3. /\ intermediates = m /\ m \in 0 .. 2
      /\ fee_source.key = route_source(req) /\ user_output.key = route_output(req)
      /\ fee_program.key = token_program(route_source(req))
      /\ views[1].s
      /\ \A k \in 1 .. m : intermediate_acc(k).key = hop_out(req, k) /\ intermediate_acc(k).w
      /\ Len(ix.metas) >= 6 + m
  BY HeaderSeen
<1>4. req.kind \in {"static", "two_hop", "three_hop"}
  BY DEF RequestOK
<1> HIDE DEF m, n
<1>5. ix.len >= header_len(m)
  <2>1. n \in 0 .. n /\ End(req, n) = ix.len
    BY <1>1, <1>2 DEF End, m
  <2>2. header_len(m) \in Nat
    BY <1>3 DEF header_len, ROUTE_HEADER_LEN
  <2> QED
    BY <1>2, <2>1, <2>2
<1>6. ix.num_legs \in 1 .. MAX_LEGS /\ (dynamic => ix.num_legs = m + 1)
  <2>1. dynamic => m > 0
    BY <1>3 DEF dynamic
  <2>2. dynamic => n = m + 1
    BY <1>1, <2>1 DEF ClientChecked, n, m
  <2> QED
    BY <1>1, <1>2, <2>2 DEF MAX_LEGS
<1>7. \A k \in 1 .. Len(ix.minimums) : ix.minimums[k] > 0
  <2>1. CASE req.kind = "static"
    <3>1. Len(ix.minimums) = 0
      BY <1>1, <2>1 DEF Least
    <3> QED
      BY <3>1
  <2>2. CASE req.kind = "two_hop"
    <3>1. m = 1 /\ ix.minimums = <<req.minimums[1]>>
      BY <1>1, <2>2 DEF Least, Hops, m
    <3>2. req.minimums[1] > 0
      BY <1>1, <3>1 DEF ClientChecked, m
    <3>3. Len(ix.minimums) = 1 /\ ix.minimums[1] = req.minimums[1]
      BY <3>1
    <3> QED
      BY <3>2, <3>3
  <2>3. CASE req.kind = "three_hop"
    <3>1. m = 2 /\ ix.minimums = <<req.minimums[1], req.minimums[2]>>
      BY <1>1, <2>3 DEF Least, Hops, m
    <3>2. req.minimums[1] > 0 /\ req.minimums[2] > 0
      BY <1>1, <3>1 DEF ClientChecked, m
    <3>3. /\ Len(ix.minimums) = 2 /\ ix.minimums[1] = req.minimums[1]
          /\ ix.minimums[2] = req.minimums[2]
      BY <3>1
    <3>4. \A k \in 1 .. 2 : k = 1 \/ k = 2
      OBVIOUS
    <3> QED
      BY <3>2, <3>3, <3>4
  <2> QED
    BY <1>4, <2>1, <2>2, <2>3
<1>8. header_accepted
  BY <1>3, <1>5, <1>6, <1>7 DEF header_accepted
<1>9. \A k \in 1 .. m : hop_out(req, k) \notin {route_source(req), route_output(req)}
  BY <1>1, <1>3 DEF ClientChecked, m
<1>10. three_hop => intermediate_acc(1).key # intermediate_acc(2).key
  <2>1. SUFFICES ASSUME three_hop PROVE intermediate_acc(1).key # intermediate_acc(2).key
    OBVIOUS
  <2>2. m = 2
    BY <1>3, <2>1 DEF three_hop
  <2>3. ThreeHop(req)
    BY <1>4, <2>2 DEF ThreeHop, Hops, m
  <2>4. hop_out(req, 1) # hop_out(req, 2)
    BY <1>1, <2>2, <2>3 DEF ClientChecked
  <2> QED
    BY <1>3, <2>2, <2>4
<1>11. intermediates_accepted
  BY <1>3, <1>9, <1>10 DEF intermediates_accepted
<1> QED
  BY <1>8, <1>11

(* The mint of a Token-2022 fee is among the remaining accounts.            *)
LEMMA FeeSearch ==
    ASSUME RequestOK(req), Encoded(req, ix)
    PROVE  (/\ fee_program.key = <<"program", "token22">>
            /\ \E x \in ToSet(remaining) : x.key = token_mint(fee_source.key))
           <=> token_program(route_source(req)) = <<"program", "token22">>
<1> DEFINE m == Hops(req)
           mint == token_mint(route_source(req))
<1>1. /\ m \in 0 .. 2 /\ fee_source.key = route_source(req)
      /\ fee_program.key = token_program(route_source(req))
      /\ List(remaining) /\ Size(remaining) = Size(ix.metas) - 6 - m
      /\ Size(ix.metas) \in Nat /\ Size(remaining) \in Nat
      /\ \A i \in 1 .. Size(remaining) :
           Item(remaining, i) = merged(Item(ix.metas, 6 + m + i))
  BY HeaderSeen
<1>2. HasFeeMint(ix.metas, route_source(req), m) /\ List(ix.metas)
  BY DEF Encoded, Written, Carries
<1> HIDE DEF m
<1>3. ASSUME token_program(route_source(req)) = <<"program", "token22">>
      PROVE  \E x \in ToSet(remaining) : x.key = mint
  <2>1. PICK i \in 7 + m .. Size(ix.metas) : Item(ix.metas, i).key = mint
    BY <1>2, <1>3 DEF HasFeeMint
  <2> DEFINE j == i - 6 - m
  <2>2. j \in 1 .. Size(remaining) /\ 6 + m + j = i /\ i \in 1 .. Size(ix.metas)
    BY <1>1
  <2>3. Item(remaining, j) = merged(Item(ix.metas, i))
    BY <1>1, <2>2
  <2> HIDE DEF j
  <2>4. Item(remaining, j).key = mint
    BY <1>2, <2>1, <2>2, <2>3, Merged
  <2>5. Item(remaining, j) \in ToSet(remaining)
    BY <1>1, <2>2, ListIs DEF ToSet, Item
  <2> QED
    BY <2>4, <2>5
<1> QED
  BY <1>1, <1>3

-----------------------------------------------------------------------------
(* The invariant.                                                           *)

(* A call under way is about the instruction of a route that was asked for. *)
Underway == req \in Requests /\ ix # NoInstruction /\ ix = encode(req)

(* Between two legs the cursors are where the next leg begins, and a first  *)
(* leg that reads ahead was not sent.                                       *)
Between ==
    /\ Len(sent) <= Legs(req)
    /\ cursor = End(req, Len(sent))
    /\ remaining_offset = Offset(built_legs(req), Len(sent))
    /\ Len(sent) >= 1 => ~ReadsAhead

Arrived ==
    \A k \in 1 .. Len(sent) : Seen(sent[k].cpi, built_leg(req, k, amount_due(k)))

Stages == {"ask", "unbuilt", "header", "legs", "slippage", "refused", "done"}

RouteInv ==
    /\ pc \in Stages /\ fee_transfer \in {"none", "plain", "checked"}
    /\ quote_received \in Received \cup {0} /\ List(sent)
    /\ pc \in {"ask", "unbuilt", "header"} =>
         sent = <<>> /\ fee_transfer = "none" /\ remaining_offset = 0
    /\ pc \in {"ask", "unbuilt"} => ix = NoInstruction
    /\ pc \notin {"ask", "unbuilt"} => Underway
    /\ pc \in {"legs", "slippage", "done"} => Between
    /\ pc = "done" => Len(sent) = Legs(req)
    /\ pc = "refused" => ReadsAhead
    /\ Arrived
    /\ pc = "legs" /\ Len(sent) \in 1 .. Hops(req) =>
         quote_received = sent[Len(sent)].delivered
    /\ FeeMintFound

LEMMA UnderwayFacts ==
    ASSUME Underway
    PROVE  /\ RequestOK(req) /\ Encoded(req, ix) /\ Well_built(req)
           /\ Legs(req) \in 1 .. 4 /\ Hops(req) \in 0 .. 2
           /\ intermediates = Hops(req) /\ ix.num_legs = Legs(req)
           /\ ix.len = End(req, Legs(req))
           /\ Hops(req) > 0 => Legs(req) = Hops(req) + 1
<1>1. RequestOK(req)
  BY RouteEncodingConstants DEF Underway
<1>2. Encoded(req, ix)
  BY <1>1, EncodedRoute DEF Underway
<1>3. /\ Well_built(req) /\ ix.num_legs = Len(built_legs(req))
      /\ ix.len = end_of(header_len(Hops(req)), built_legs(req), Len(built_legs(req)))
      /\ (Hops(req) > 0 => Legs(req) = Hops(req) + 1)
  BY <1>2 DEF Encoded, Written, ClientChecked
<1>4. Len(built_legs(req)) = Legs(req) /\ Legs(req) \in 1 .. 4
  BY <1>1, <1>3, RouteOffsets
<1>5. intermediates = Hops(req) /\ Hops(req) \in 0 .. 2
  BY <1>1, <1>2, HeaderSeen
<1> QED
  BY <1>1, <1>2, <1>3, <1>4, <1>5 DEF End

(* One more CPI.                                                            *)
LEMMA Appended ==
    ASSUME NEW s, List(s), NEW e
    PROVE  /\ List(Append(s, e)) /\ Len(Append(s, e)) = Len(s) + 1 /\ Len(s) \in Nat
           /\ Append(s, e)[Len(s) + 1] = e
           /\ \A k \in 1 .. Len(s) : Append(s, e)[k] = s[k]
<1>1. PICK S : s \in Seq(S)
  BY DEF List
<1> DEFINE T == S \cup {e}
<1>2. s \in Seq(T) /\ e \in T
  BY <1>1
<1> HIDE DEF T
<1>3. Append(s, e) \in Seq(T)
  BY <1>2
<1> QED
  BY <1>2, <1>3 DEF List

LEMMA RouteInit == Init => RouteInv
<1> SUFFICES ASSUME Init PROVE RouteInv
  OBVIOUS
<1>1. sent = <<>> /\ Len(sent) = 0 /\ List(sent)
  <2>1. sent = <<>>
    BY DEF Init
  <2>2. <<>> \in Seq({})
    OBVIOUS
  <2> QED
    BY <2>1, <2>2 DEF List
<1>2. /\ pc = "ask" /\ ix = NoInstruction /\ fee_transfer = "none"
      /\ remaining_offset = 0 /\ quote_received = 0
  BY DEF Init
<1>3. Arrived
  BY <1>1 DEF Arrived
<1> QED
  BY <1>1, <1>2, <1>3 DEF RouteInv, Stages, FeeMintFound

LEMMA RouteBuild ==
    ASSUME RouteInv, Build
    PROVE  RouteInv'
<1>1. PICK r \in Requests :
        /\ req' = r /\ ix' = encode(r)
        /\ pc' = IF ix' = NoInstruction THEN "unbuilt" ELSE "header"
  BY Zenon DEF Build
<1>2. /\ pc = "ask"
      /\ fee_transfer' = fee_transfer /\ cursor' = cursor /\ sent' = sent
      /\ remaining_offset' = remaining_offset /\ quote_received' = quote_received
  BY DEF Build
<1>3. /\ sent = <<>> /\ fee_transfer = "none" /\ remaining_offset = 0 /\ List(sent)
      /\ quote_received \in Received \cup {0}
  BY <1>2 DEF RouteInv
<1>4. Arrived'
  <2>1. Len(sent') = 0
    BY <1>2, <1>3
  <2> QED
    BY <2>1 DEF Arrived
<1>5. pc' \in {"unbuilt", "header"} /\ (pc' = "unbuilt" <=> ix' = NoInstruction)
  BY <1>1
<1>6. Underway' \/ pc' = "unbuilt"
  BY <1>1, <1>5 DEF Underway
<1>7. FeeMintFound'
  BY <1>2, <1>3 DEF FeeMintFound
<1>8. List(sent)'
  BY <1>2, <1>3
<1> QED
  BY <1>2, <1>3, <1>4, <1>5, <1>6, <1>7, <1>8 DEF RouteInv, Stages

LEMMA RouteHeader ==
    ASSUME RouteInv, Header
    PROVE  RouteInv'
<1>1. /\ pc = "header" /\ req' = req /\ ix' = ix /\ sent' = sent
      /\ remaining_offset' = remaining_offset /\ quote_received' = quote_received
  BY DEF Header
<1>2. /\ sent = <<>> /\ remaining_offset = 0 /\ List(sent) /\ Underway
      /\ quote_received \in Received \cup {0}
  BY <1>1 DEF RouteInv
<1>3. /\ RequestOK(req) /\ Encoded(req, ix) /\ Well_built(req) /\ intermediates = Hops(req)
      /\ Legs(req) \in 1 .. 4
  BY <1>2, UnderwayFacts
<1>4. header_accepted /\ intermediates_accepted
  BY <1>3, HeaderOK
<1>5. /\ pc' = "legs" /\ cursor' = header_len(intermediates)
      /\ fee_transfer' =
           IF /\ fee_program.key = <<"program", "token22">>
              /\ \E m \in ToSet(remaining) : m.key = token_mint(fee_source.key)
           THEN "checked" ELSE "plain"
  BY <1>4 DEF Header
<1>6. /\ fee_transfer' \in {"plain", "checked"}
      /\ fee_transfer' = "checked" <=>
           token_program(route_source(req)) = <<"program", "token22">>
  BY <1>3, <1>5, FeeSearch
<1>7. FeeMintFound'
  BY <1>1, <1>6 DEF FeeMintFound
<1>8. Len(sent') = 0
  BY <1>1, <1>2
<1>9. Arrived'
  BY <1>8 DEF Arrived
<1>10. Between'
  <2>1. End(req, 0) = header_len(Hops(req)) /\ Offset(built_legs(req), 0) = 0
    BY <1>3, RouteOffsets
  <2>2. /\ cursor' = End(req', Len(sent')) /\ Len(sent') <= Legs(req')
        /\ remaining_offset' = Offset(built_legs(req'), Len(sent'))
    BY <1>1, <1>2, <1>3, <1>5, <1>8, <2>1
  <2> QED
    BY <1>8, <2>2 DEF Between
<1>11. Underway'
  BY <1>1, <1>2 DEF Underway
<1>12. List(sent)'
  BY <1>1, <1>2
<1>13. fee_transfer' \in {"none", "plain", "checked"} /\ quote_received' \in Received \cup {0}
  BY <1>1, <1>2, <1>6
<1>14. ~(Len(sent') \in 1 .. Hops(req'))
  BY <1>8
<1> QED
  BY <1>5, <1>7, <1>9, <1>10, <1>11, <1>12, <1>13, <1>14 DEF RouteInv, Stages

LEMMA RouteFinish ==
    ASSUME RouteInv, Finish
    PROVE  RouteInv'
<1>1. /\ pc = "legs" /\ leg_index = ix.num_legs
      /\ pc' = IF dynamic /\ cursor # ix.len THEN "refused" ELSE "done"
      /\ req' = req /\ ix' = ix /\ fee_transfer' = fee_transfer /\ cursor' = cursor
      /\ remaining_offset' = remaining_offset /\ quote_received' = quote_received
      /\ sent' = sent
  BY DEF Finish
<1>2. /\ Underway /\ Between /\ Arrived /\ FeeMintFound /\ List(sent)
      /\ quote_received \in Received \cup {0}
      /\ fee_transfer \in {"none", "plain", "checked"}
  BY <1>1 DEF RouteInv
<1>3. /\ ix.num_legs = Legs(req) /\ ix.len = End(req, Legs(req))
  BY <1>2, UnderwayFacts
<1>4. Len(sent) = Legs(req)
  BY <1>1, <1>3 DEF leg_index
<1>5. cursor = ix.len
  BY <1>2, <1>3, <1>4 DEF Between
<1>6. pc' = "done"
  BY <1>1, <1>5
<1>7. Underway' /\ Between' /\ Arrived' /\ FeeMintFound' /\ List(sent)'
  BY <1>1, <1>2 DEF Underway, Between, Arrived, FeeMintFound, ReadsAhead,
                    amount_due, dynamic, intermediates
<1> QED
  BY <1>1, <1>2, <1>4, <1>6, <1>7 DEF RouteInv, Stages

(* One leg: the next one is sent for what was delivered, and the cursors    *)
(* move to the one after it.                                                *)
LEMMA RouteLegStep ==
    ASSUME RouteInv, LegStep
    PROVE  RouteInv'
<1> DEFINE k == Len(sent) + 1
           good == cursor \in DOMAIN ix.legs /\ decodes(ix.legs[cursor])
                     /\ leg_accepted(decoded_leg)
           cpi == invoked(decoded_leg)
<1>1. pc = "legs" /\ leg_index < ix.num_legs /\ req' = req /\ ix' = ix
      /\ fee_transfer' = fee_transfer
  BY DEF LegStep
<1>2. /\ Underway /\ Between /\ Arrived /\ FeeMintFound /\ List(sent)
      /\ quote_received \in Received \cup {0}
      /\ fee_transfer \in {"none", "plain", "checked"}
      /\ Len(sent) \in 1 .. Hops(req) => quote_received = sent[Len(sent)].delivered
  BY <1>1 DEF RouteInv
<1>3. /\ RequestOK(req) /\ Encoded(req, ix) /\ Well_built(req)
      /\ Legs(req) \in 1 .. 4 /\ Hops(req) \in 0 .. 2
      /\ intermediates = Hops(req) /\ ix.num_legs = Legs(req)
      /\ (Hops(req) > 0 => Legs(req) = Hops(req) + 1)
  BY <1>2, UnderwayFacts
<1>4. Len(sent) \in Nat
  BY <1>2, Appended
<1>5. k \in 1 .. Legs(req) /\ Len(sent) = k - 1 /\ leg_index = Len(sent)
  BY <1>1, <1>3, <1>4 DEF leg_index
<1>6. cursor = End(req, k - 1) /\ remaining_offset = Offset(built_legs(req), k - 1)
      /\ (Len(sent) >= 1 => ~ReadsAhead)
  BY <1>2, <1>5 DEF Between
<1>7. /\ cursor \in DOMAIN ix.legs /\ decodes(ix.legs[cursor])
      /\ leg_accepted(decoded_leg) <=> (k = 1 => ~ReadsAhead)
      /\ Seen(cpi, built_leg(req, k, Ready(k)))
      /\ End(req, k) = cursor + LEG_HEADER_LEN + ix.legs[cursor].data.len
      /\ Offset(built_legs(req), k) = remaining_offset + ix.legs[cursor].num_accounts
  <2> HIDE DEF k
  <2> QED
    BY <1>3, <1>5, <1>6, NextLeg
<1>8. /\ Underway' /\ FeeMintFound' /\ fee_transfer' \in {"none", "plain", "checked"}
      /\ (ReadsAhead' <=> ReadsAhead) /\ (dynamic' <=> dynamic)
  BY <1>1, <1>2 DEF Underway, FeeMintFound, ReadsAhead, dynamic, intermediates
<1>9. good <=> ~ReadsAhead
  BY <1>4, <1>5, <1>6, <1>7
<1> HIDE DEF good, cpi
<1>10. CASE ~good
  <2>1. /\ pc' = "refused" /\ cursor' = cursor /\ remaining_offset' = remaining_offset
        /\ quote_received' = quote_received /\ sent' = sent
    BY <1>10 DEF LegStep, good
  <2>2. ReadsAhead'
    BY <1>8, <1>9, <1>10
  <2>3. Arrived' /\ List(sent)' /\ quote_received' \in Received \cup {0}
    BY <1>1, <1>2, <2>1 DEF Arrived, amount_due, dynamic, intermediates
  <2> QED
    BY <1>8, <2>1, <2>2, <2>3 DEF RouteInv, Stages
<1>11. CASE good
  <2>1. /\ cursor' = cursor + LEG_HEADER_LEN + ix.legs[cursor].data.len
        /\ remaining_offset' = remaining_offset + ix.legs[cursor].num_accounts
        /\ IF leg_index < intermediates
           THEN \E delivered \in Received :
                  /\ sent' = Append(sent, [cpi |-> cpi, delivered |-> delivered])
                  /\ quote_received' = received_quote(Held, Held + delivered)
                  /\ pc' = IF quote_received' < ix.minimums[leg_index + 1]
                           THEN "slippage" ELSE pc
           ELSE /\ sent' = Append(sent, [cpi |-> cpi, delivered |-> 0])
                /\ UNCHANGED <<quote_received, pc>>
    BY <1>11 DEF LegStep, good, cpi
  <2>2. \E d \in Received \cup {0} :
          /\ sent' = Append(sent, [cpi |-> cpi, delivered |-> d])
          /\ quote_received' \in Received \cup {0}
          /\ k \in 1 .. Hops(req) => quote_received' = d
          /\ pc' \in {"slippage", "legs"}
    <3>1. CASE leg_index < intermediates
      <4>1. PICK d \in Received :
              /\ sent' = Append(sent, [cpi |-> cpi, delivered |-> d])
              /\ quote_received' = received_quote(Held, Held + d)
              /\ pc' = IF quote_received' < ix.minimums[leg_index + 1]
                       THEN "slippage" ELSE pc
        BY <2>1, <3>1
      <4>2. d \in Nat /\ Held \in Nat
        BY RouteEncodingConstants
      <4>3. quote_received' = d
        BY <4>1, <4>2 DEF received_quote
      <4>4. pc' \in {"slippage", "legs"}
        BY <1>1, <4>1
      <4> QED
        BY <4>1, <4>3, <4>4
    <3>2. CASE ~(leg_index < intermediates)
      <4>1. /\ sent' = Append(sent, [cpi |-> cpi, delivered |-> 0])
            /\ quote_received' = quote_received /\ pc' = pc
        BY <2>1, <3>2
      <4>2. k \notin 1 .. Hops(req)
        BY <1>3, <1>4, <1>5, <3>2
      <4> QED
        BY <1>1, <1>2, <4>1, <4>2
    <3> QED
      BY <3>1, <3>2
  <2>3. PICK d \in Received \cup {0} :
          /\ sent' = Append(sent, [cpi |-> cpi, delivered |-> d])
          /\ quote_received' \in Received \cup {0}
          /\ k \in 1 .. Hops(req) => quote_received' = d
          /\ pc' \in {"slippage", "legs"}
    BY <2>2
  <2>4. /\ List(sent') /\ Len(sent') = k
        /\ sent'[k] = [cpi |-> cpi, delivered |-> d]
        /\ \A j \in 1 .. Len(sent) : sent'[j] = sent[j]
    BY <1>2, <2>3, Appended
  <2>5. sent'[k].cpi = cpi /\ sent'[k].delivered = d
    BY <2>4
  <2>6. Between'
    <3>1. /\ cursor' = End(req, k) /\ remaining_offset' = Offset(built_legs(req), k)
      BY <1>7, <2>1
    <3>2. ~ReadsAhead'
      BY <1>8, <1>9, <1>11
    <3>3. Len(sent') <= Legs(req)
      BY <1>3, <1>5, <2>4
    <3> HIDE DEF k
    <3> QED
      BY <1>1, <2>4, <3>1, <3>2, <3>3 DEF Between
  <2>7. ASSUME NEW j \in 1 .. k
        PROVE  Seen(sent'[j].cpi, built_leg(req', j, amount_due(j)'))
    <3>1. CASE j \in 1 .. Len(sent)
      <4>1. sent'[j] = sent[j] /\ (j > 1 => sent'[j - 1] = sent[j - 1])
        BY <1>4, <2>4, <3>1
      <4>2. amount_due(j)' = amount_due(j)
        BY <1>1, <1>8, <4>1 DEF amount_due
      <4>3. Seen(sent[j].cpi, built_leg(req, j, amount_due(j)))
        BY <1>2, <3>1 DEF Arrived
      <4> QED
        BY <1>1, <4>1, <4>2, <4>3
    <3>2. CASE j = k
      <4>1. amount_due(j)' = Ready(k)
        <5>1. CASE dynamic /\ k > 1
          <6>1. k - 1 \in 1 .. Len(sent) /\ Len(sent) \in 1 .. Hops(req)
            BY <1>3, <1>4, <1>5, <5>1 DEF dynamic
          <6>2. sent'[k - 1].delivered = quote_received
            BY <1>2, <1>5, <2>4, <6>1
          <6> QED
            BY <1>8, <3>2, <5>1, <6>2 DEF amount_due, Ready
        <5>2. CASE ~(dynamic /\ k > 1)
          BY <1>1, <1>8, <3>2, <5>2 DEF amount_due, Ready
        <5> QED
          BY <5>1, <5>2
      <4> QED
        BY <1>1, <1>7, <2>5, <3>2, <4>1
    <3> QED
      BY <1>4, <3>1, <3>2
  <2>8. Arrived'
    BY <2>4, <2>7 DEF Arrived
  <2>9. Len(sent') \in 1 .. Hops(req') => quote_received' = sent'[Len(sent')].delivered
    BY <1>1, <2>3, <2>4, <2>5
  <2>10. /\ pc' \in Stages /\ pc' \notin {"ask", "unbuilt", "header"}
         /\ pc' # "done" /\ pc' # "refused"
    BY <2>3 DEF Stages
  <2>11. List(sent)' /\ quote_received' \in Received \cup {0}
    BY <2>3, <2>4
  <2> QED
    BY <1>8, <2>6, <2>8, <2>9, <2>10, <2>11 DEF RouteInv
<1> QED
  BY <1>10, <1>11

LEMMA RouteStutter ==
    ASSUME RouteInv, UNCHANGED vars
    PROVE  RouteInv'
  BY DEF RouteInv, vars, Underway, Between, Arrived, FeeMintFound, ReadsAhead,
         amount_due, dynamic, intermediates

(* RouteInv holds of every call: of the request as it is built, of its      *)
(* header, and after each of its legs.                                      *)
THEOREM RouteInvariant == Spec => []RouteInv
<1>1. Init => RouteInv
  BY RouteInit
<1>2. RouteInv /\ [Next]_vars => RouteInv'
  BY RouteBuild, RouteHeader, RouteLegStep, RouteFinish, RouteStutter DEF Next
<1> QED
  BY <1>1, <1>2, PTL DEF Spec

(* The reads of process_inner stay inside the instruction that was built:   *)
(* the cursor in its data, the accounts consumed in the remaining ones, the *)
(* CPIs within the legs that it announces.                                  *)
THEOREM EncodingTypes == Spec => []TypeOK
<1>1. ASSUME RouteInv PROVE TypeOK
  <2>1. /\ pc \in Stages /\ fee_transfer \in {"none", "plain", "checked"}
        /\ quote_received \in Received \cup {0}
        /\ (pc \in {"ask", "unbuilt"} <=> ix = NoInstruction)
    BY <1>1 DEF RouteInv, Underway
  <2>2. ASSUME pc \in {"legs", "slippage", "done"}
        PROVE  /\ cursor \in header_len(intermediates) .. ix.len
               /\ remaining_offset \in 0 .. Len(remaining)
               /\ Len(sent) <= ix.num_legs
    <3>1. Underway /\ Between /\ List(sent)
      BY <1>1, <2>2 DEF RouteInv
    <3>2. /\ RequestOK(req) /\ Encoded(req, ix) /\ Well_built(req)
          /\ Legs(req) \in 1 .. 4 /\ Hops(req) \in 0 .. 2
          /\ intermediates = Hops(req) /\ ix.num_legs = Legs(req)
          /\ ix.len = End(req, Legs(req))
      BY <3>1, UnderwayFacts
    <3>3. /\ Len(sent) \in 0 .. Legs(req) /\ Legs(req) \in 0 .. Legs(req)
          /\ cursor = End(req, Len(sent))
          /\ remaining_offset = Offset(built_legs(req), Len(sent))
      BY <3>1, <3>2, Appended DEF Between
    <3>4. /\ cursor \in Nat /\ header_len(Hops(req)) <= cursor /\ cursor <= ix.len
          /\ ix.len \in Nat
          /\ remaining_offset \in Nat
          /\ remaining_offset <= Offset(built_legs(req), Legs(req))
          /\ Offset(built_legs(req), Legs(req)) \in Nat
      BY <3>2, <3>3, RouteOffsets
    <3>5. Offset(built_legs(req), Legs(req)) <= Len(remaining) /\ Len(remaining) \in Nat
      BY <3>2, HeaderSeen DEF Size
    <3>6. header_len(Hops(req)) \in Nat
      BY <3>2 DEF header_len, ROUTE_HEADER_LEN
    <3>7. Len(sent) <= ix.num_legs
      BY <3>2, <3>3
    <3> QED
      BY <3>2, <3>4, <3>5, <3>6, <3>7
  <2> QED
    BY <2>1, <2>2 DEF TypeOK, Stages
<1> QED
  BY <1>1, RouteInvariant, PTL

(* A route that the client agrees to build is never refused by              *)
(* process_inner for its layout, except the one whose own first leg reads   *)
(* the second intermediate account, and that one never completes: the       *)
(* tables of the two sides agree for every DEX, direction and amount.       *)
THEOREM RoutesAccepted == Spec => []BuiltRoutesAccepted
<1>1. ASSUME RouteInv PROVE BuiltRoutesAccepted
  <2>1. pc = "refused" => ReadsAhead
    BY <1>1 DEF RouteInv
  <2>2. ASSUME pc = "done" PROVE ~ReadsAhead
    <3>1. Underway /\ Between /\ Len(sent) = Legs(req)
      BY <1>1, <2>2 DEF RouteInv
    <3>2. Legs(req) \in 1 .. 4
      BY <3>1, UnderwayFacts
    <3> QED
      BY <3>1, <3>2 DEF Between
  <2> QED
    BY <2>1, <2>2 DEF BuiltRoutesAccepted
<1> QED
  BY <1>1, RouteInvariant, PTL

(* Every CPI of process_inner is the leg that its builder would have made   *)
(* for the amount that really arrives: program, accounts, privileges and    *)
(* data, whatever the DEXs and the amounts delivered; a completed route     *)
(* made all of them.                                                        *)
THEOREM CpisAsBuilt == Spec => []LegsArriveAsBuilt
<1>1. ASSUME RouteInv PROVE LegsArriveAsBuilt
  <2>1. Arrived /\ List(sent)
    BY <1>1 DEF RouteInv
  <2>2. ASSUME NEW k \in 1 .. Len(sent)
        PROVE  LET asked == built_leg(req, k, amount_due(k))
                   cpi == sent[k].cpi
               IN  /\ cpi.program_id = asked.program_id
                   /\ cpi.data = asked.data
                   /\ Len(cpi.accounts) = Len(asked.accounts)
                   /\ \A j \in 1 .. Len(asked.accounts) :
                        /\ cpi.accounts[j].key = asked.accounts[j].key
                        /\ asked.accounts[j].w => cpi.accounts[j].w
                        /\ asked.accounts[j].s => cpi.accounts[j].s
    <3>1. Seen(sent[k].cpi, built_leg(req, k, amount_due(k)))
      BY <2>1 DEF Arrived
    <3> QED
      BY <3>1 DEF Seen, Size, Item
  <2>3. pc = "done" => Len(sent) = Len(req.pools)
    BY <1>1 DEF RouteInv, Legs
  <2> QED
    BY <2>2, <2>3 DEF LegsArriveAsBuilt
<1> QED
  BY <1>1, RouteInvariant, PTL

(* The platform fee of a Token-2022 input is always a checked transfer, its *)
(* mint being found among the remaining accounts, and that of a classic     *)
(* input never is, whichever DEX comes first.                               *)
THEOREM FeeMintAlwaysFound == Spec => []FeeMintFound
<1>1. RouteInv => FeeMintFound
  BY DEF RouteInv
<1> QED
  BY <1>1, RouteInvariant, PTL
=============================================================================
