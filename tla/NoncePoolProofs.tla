--------------------------- MODULE NoncePoolProofs ---------------------------
(***************************************************************************)
(* The nonce pool for any accounts, any number of trades and any bound on   *)
(* retries: its entries keep their types, and an account that is configured *)
(* once and read only after its trades are through never serves two trades. *)
(***************************************************************************)
EXTENDS NoncePool, FiniteSetTheorems, TLAPS

(* Where the one entry of an account is when it is not in the pool. *)
Holds(t, a) ==
    /\ refresh[t].status \in {"sleeping", "fetching", "read", "gave_up"}
    /\ refresh[t].account = a

(* A task that may still fail has an attempt left.                          *)
Attempts ==
    \A t \in Trades :
        refresh[t].status \in {"sleeping", "fetching"} => refresh[t].attempt < MaxAttempts

(* Every trade that took an entry has a task on its account, no other has.  *)
Linked ==
    \A t \in Trades :
        IF trade[t].status \in {"new", "denied"} THEN refresh[t].status = "none"
        ELSE refresh[t].account = trade[t].account

(* The entry of an account that was loaded once is in one place.            *)
OnePlace ==
    \A a \in NonceAccounts : LoadedOnce(a) =>
        /\ \A i, j \in DOMAIN ready :
              ready[i].account = a /\ ready[j].account = a => i = j
        /\ \A s, t \in Trades : Holds(s, a) /\ Holds(t, a) => s = t
        /\ \A t \in Trades : Holds(t, a) =>
              \A i \in DOMAIN ready : ready[i].account # a

(* And while the account is not read early, it is current wherever it is,   *)
(* and a trade in flight still has it.                                      *)
Current ==
    \A a \in NonceAccounts : LoadedOnce(a) /\ a \notin early =>
        /\ \A i \in DOMAIN ready : ready[i].account = a => ready[i].value = stored[a]
        /\ \A t \in Trades :
              refresh[t].status = "read" /\ refresh[t].account = a
                  => refresh[t].value = stored[a]
        /\ \A t \in Trades :
              trade[t].status = "in_flight" /\ trade[t].account = a
                  => refresh[t].status \in {"sleeping", "fetching", "gave_up"}

PoolInv == TypeOK /\ Attempts /\ Linked /\ OnePlace /\ Current

(* The pool starts with what was loaded, and no trade has an entry yet.     *)
LEMMA InitPool == Init => PoolInv
<1> SUFFICES ASSUME Init PROVE PoolInv
  OBVIOUS
<1>1. ready \in Seq(Entry) /\ \A i \in DOMAIN ready : ready[i].value = 0
  <2> DEFINE Loaded(accounts, n, order) ==
                ready = [k \in 1 .. n |-> [account |-> accounts[order[k]], value |-> 0]]
  <2>4. PICK accounts \in Configured :
          \E n \in 1 .. Len(accounts) : \E order \in [1 .. n -> DOMAIN accounts] :
              Loaded(accounts, n, order)
    BY DEF Init, warm
  <2>5. PICK n \in 1 .. Len(accounts) :
          \E order \in [1 .. n -> DOMAIN accounts] : Loaded(accounts, n, order)
    BY <2>4
  <2>1. PICK order \in [1 .. n -> DOMAIN accounts] : Loaded(accounts, n, order)
    BY <2>5
  <2>2. accounts \in Seq(NonceAccounts)
    BY NoncePoolConstants
  <2>3. n \in Nat /\ \A k \in 1 .. n : accounts[order[k]] \in NonceAccounts
    BY <2>2
  <2> QED
    BY <2>1, <2>3 DEF Entry
<1>2. AnyAccount \in NonceAccounts
  BY NoncePoolConstants DEF AnyAccount
<1>3. /\ stored = [a \in NonceAccounts |-> 0]
      /\ loaded = ready /\ early = {}
      /\ trade = [t \in Trades |->
                    [status |-> "new", account |-> AnyAccount, value |-> 0]]
      /\ refresh = [t \in Trades |->
                      [status |-> "none", account |-> AnyAccount, value |-> 0,
                       attempt |-> 0]]
  BY DEF Init
<1>4. TypeOK
  BY <1>1, <1>2, <1>3, NoncePoolConstants DEF TypeOK
<1>5. \A t \in Trades : trade[t].status = "new" /\ refresh[t].status = "none"
  BY <1>3
<1>6. Attempts /\ Linked
  BY <1>5 DEF Attempts, Linked
<1>7. OnePlace
  BY <1>3, <1>5 DEF OnePlace, Holds, LoadedOnce
<1>8. Current
  BY <1>1, <1>3, <1>5 DEF Current
<1> QED
  BY <1>4, <1>6, <1>7, <1>8 DEF PoolInv

(* The head of the pool goes to the trade, with a task of its own.          *)
LEMMA TakePool ==
    ASSUME PoolInv, NEW t \in Trades, take(t)
    PROVE  PoolInv'
<1> DEFINE e == Head(ready)
<1>1. /\ trade[t].status = "new" /\ ready # <<>> /\ ready' = Tail(ready)
      /\ trade' = [trade EXCEPT ![t] = [status |-> "in_flight", account |-> e.account,
                                        value |-> e.value]]
      /\ refresh' = [refresh EXCEPT ![t] = [status |-> "sleeping", account |-> e.account,
                                            value |-> 0, attempt |-> 0]]
      /\ UNCHANGED <<stored, loaded, early>>
  BY DEF take
<1>2. /\ ready \in Seq(Entry) /\ e = ready[1] /\ e \in Entry /\ 1 \in DOMAIN ready
      /\ ready' \in Seq(Entry)
      /\ \A i \in DOMAIN ready' : i + 1 \in DOMAIN ready /\ i + 1 # 1 /\ ready'[i] = ready[i + 1]
  BY <1>1 DEF PoolInv, TypeOK
<1>3. e.account \in NonceAccounts /\ e.value \in Nat
  BY <1>2 DEF Entry
<1> HIDE DEF e
<1>4. TypeOK'
  BY <1>1, <1>2, <1>3, NoncePoolConstants DEF PoolInv, TypeOK
<1>5. /\ trade'[t].status = "in_flight" /\ trade'[t].account = e.account
      /\ refresh'[t].status = "sleeping" /\ refresh'[t].account = e.account
      /\ refresh'[t].attempt = 0
      /\ \A s \in Trades \ {t} : trade'[s] = trade[s] /\ refresh'[s] = refresh[s]
  BY <1>1 DEF PoolInv, TypeOK
<1>6. Attempts'
  BY <1>5, NoncePoolConstants DEF PoolInv, Attempts
<1>7. Linked'
  BY <1>5 DEF PoolInv, Linked
<1>8. OnePlace'
  <2> SUFFICES ASSUME NEW a \in NonceAccounts, LoadedOnce(a)
               PROVE  /\ \A i, j \in DOMAIN ready' :
                            ready'[i].account = a /\ ready'[j].account = a => i = j
                      /\ \A s, u \in Trades : Holds(s, a)' /\ Holds(u, a)' => s = u
                      /\ \A s \in Trades : Holds(s, a)' =>
                            \A i \in DOMAIN ready' : ready'[i].account # a
    BY <1>1 DEF OnePlace, LoadedOnce
  <2>1. /\ \A i, j \in DOMAIN ready :
              ready[i].account = a /\ ready[j].account = a => i = j
        /\ \A s, u \in Trades : Holds(s, a) /\ Holds(u, a) => s = u
        /\ \A s \in Trades : Holds(s, a) => \A i \in DOMAIN ready : ready[i].account # a
    BY DEF PoolInv, OnePlace
  <2>2. \A s \in Trades \ {t} : Holds(s, a)' = Holds(s, a)
    BY <1>5 DEF Holds
  <2>3. Holds(t, a)' => e.account = a
    BY <1>5 DEF Holds
  <2>4. e.account = a => /\ \A s \in Trades : ~Holds(s, a)
                         /\ \A i \in DOMAIN ready' : ready'[i].account # a
    BY <1>2, <2>1
  <2>5. \A i, j \in DOMAIN ready' : ready'[i].account = a /\ ready'[j].account = a => i = j
    <3> SUFFICES ASSUME NEW i \in DOMAIN ready', NEW j \in DOMAIN ready',
                        ready'[i].account = a, ready'[j].account = a
                 PROVE  i = j
      OBVIOUS
    <3>1. i + 1 = j + 1
      BY <1>2, <2>1
    <3> QED
      BY <1>2, <3>1
  <2>6. \A i \in DOMAIN ready' : \E k \in DOMAIN ready : ready'[i] = ready[k]
    BY <1>2
  <2> QED
    BY <2>1, <2>2, <2>3, <2>4, <2>5, <2>6
<1>9. Current'
  <2> SUFFICES ASSUME NEW a \in NonceAccounts, LoadedOnce(a), a \notin early
               PROVE  /\ \A i \in DOMAIN ready' :
                            ready'[i].account = a => ready'[i].value = stored[a]
                      /\ \A s \in Trades :
                            refresh'[s].status = "read" /\ refresh'[s].account = a
                                => refresh'[s].value = stored[a]
                      /\ \A s \in Trades :
                            trade'[s].status = "in_flight" /\ trade'[s].account = a
                                => refresh'[s].status \in {"sleeping", "fetching", "gave_up"}
    BY <1>1 DEF Current, LoadedOnce
  <2>1. /\ \A i \in DOMAIN ready : ready[i].account = a => ready[i].value = stored[a]
        /\ \A s \in Trades :
              refresh[s].status = "read" /\ refresh[s].account = a
                  => refresh[s].value = stored[a]
        /\ \A s \in Trades :
              trade[s].status = "in_flight" /\ trade[s].account = a
                  => refresh[s].status \in {"sleeping", "fetching", "gave_up"}
    BY DEF PoolInv, Current
  <2>2. \A i \in DOMAIN ready' : ready'[i].account = a => ready'[i].value = stored[a]
    BY <1>2, <2>1
  <2> QED
    BY <1>5, <2>1, <2>2
<1> QED
  BY <1>4, <1>6, <1>7, <1>8, <1>9 DEF PoolInv

(* A step of a task that keeps the entry: it stays where it was.            *)
LEMMA TaskPool ==
    ASSUME PoolInv, NEW t \in Trades, wake(t) \/ fetched(t) \/ refresh_failed(t)
    PROVE  PoolInv'
<1>1. /\ UNCHANGED <<stored, ready, loaded, trade>>
      /\ refresh[t].status \in {"sleeping", "fetching"}
      /\ \A s \in Trades \ {t} : refresh'[s] = refresh[s]
      /\ refresh'[t].account = refresh[t].account
      /\ refresh'[t].status \in {"sleeping", "fetching", "read", "gave_up"}
      /\ early \subseteq early'
  BY DEF wake, fetched, refresh_failed, read_of, PoolInv, TypeOK
<1>2. TypeOK' /\ Attempts'
  <2>1. refresh[t] \in [status : {"none", "sleeping", "fetching", "read", "done", "gave_up"},
                        account : NonceAccounts, value : Nat, attempt : 0 .. MaxAttempts]
    BY DEF PoolInv, TypeOK
  <2>2. refresh[t].attempt < MaxAttempts
    BY <1>1 DEF PoolInv, Attempts
  <2>3. CASE wake(t)
    <3>1. refresh' = [refresh EXCEPT ![t].status = "fetching"] /\ UNCHANGED early
      BY <2>3 DEF wake
    <3>2. TypeOK'
      BY <1>1, <3>1, <2>1 DEF PoolInv, TypeOK
    <3>3. refresh'[t].attempt < MaxAttempts
      BY <3>1, <2>1, <2>2 DEF PoolInv, TypeOK
    <3> QED
      BY <1>1, <3>2, <3>3 DEF PoolInv, Attempts
  <2>4. CASE fetched(t)
    <3>1. /\ refresh' = [refresh EXCEPT ![t].status = "read",
                                        ![t].value = stored[refresh[t].account]]
          /\ early' \in {early, early \cup {refresh[t].account}}
      BY <2>4 DEF fetched, read_of
    <3>2. stored[refresh[t].account] \in Nat
      BY <2>1 DEF PoolInv, TypeOK
    <3>3. TypeOK'
      BY <1>1, <3>1, <3>2, <2>1 DEF PoolInv, TypeOK
    <3>4. refresh'[t].status = "read"
      BY <3>1 DEF PoolInv, TypeOK
    <3> QED
      BY <1>1, <3>3, <3>4 DEF PoolInv, Attempts
  <2>5. CASE refresh_failed(t)
    <3> DEFINE tries == refresh[t].attempt + 1
               status == IF tries = MaxAttempts THEN "gave_up" ELSE "sleeping"
    <3>1. /\ refresh' = [refresh EXCEPT ![t].attempt = tries, ![t].status = status]
          /\ UNCHANGED early
      BY <2>5 DEF refresh_failed
    <3>2. tries \in 0 .. MaxAttempts /\ status \in {"gave_up", "sleeping"}
      BY <2>1, <2>2, NoncePoolConstants
    <3>3. status = "sleeping" => tries < MaxAttempts
      BY <3>2, NoncePoolConstants
    <3> HIDE DEF tries, status
    <3>4. TypeOK'
      BY <1>1, <3>1, <3>2, <2>1 DEF PoolInv, TypeOK
    <3>5. refresh'[t].status = status /\ refresh'[t].attempt = tries
      BY <3>1 DEF PoolInv, TypeOK
    <3> QED
      BY <1>1, <3>2, <3>3, <3>4, <3>5 DEF PoolInv, Attempts
  <2> QED
    BY <2>3, <2>4, <2>5
<1>3. Linked'
  BY <1>1 DEF PoolInv, Linked
<1>4. \A s \in Trades : \A a \in NonceAccounts : Holds(s, a)' = Holds(s, a)
  BY <1>1 DEF Holds
<1>5. OnePlace'
  BY <1>1, <1>4 DEF PoolInv, OnePlace, LoadedOnce
<1>6. Current'
  <2> SUFFICES ASSUME NEW a \in NonceAccounts, LoadedOnce(a), a \notin early'
               PROVE  /\ refresh'[t].status = "read" /\ refresh'[t].account = a
                             => refresh'[t].value = stored[a]
                      /\ trade[t].status = "in_flight" /\ trade[t].account = a
                             => refresh'[t].status \in {"sleeping", "fetching", "gave_up"}
    BY <1>1 DEF PoolInv, Current, LoadedOnce
  <2>1. CASE fetched(t)
    <3>1. /\ refresh'[t].status = "read" /\ refresh'[t].value = stored[refresh[t].account]
          /\ early' = IF trade[t].status = "in_flight" THEN early \cup {refresh[t].account}
                      ELSE early
      BY <2>1 DEF fetched, read_of, PoolInv, TypeOK
    <3>2. trade[t].status = "in_flight" => refresh[t].account = trade[t].account
      BY DEF PoolInv, Linked
    <3> QED
      BY <1>1, <3>1, <3>2
  <2>2. CASE wake(t) \/ refresh_failed(t)
    <3>1. refresh'[t].status \in {"sleeping", "fetching", "gave_up"}
      BY <2>2 DEF wake, refresh_failed, PoolInv, TypeOK
    <3> QED
      BY <3>1
  <2> QED
    BY <2>1, <2>2
<1> QED
  BY <1>2, <1>3, <1>5, <1>6 DEF PoolInv

(* The entry goes back to the pool, which had none of the account.          *)
LEMMA PushPool ==
    ASSUME PoolInv, NEW t \in Trades, push_back(t)
    PROVE  PoolInv'
<1> DEFINE e == [account |-> refresh[t].account, value |-> refresh[t].value]
           n == Len(ready)
<1>1. /\ refresh[t].status = "read" /\ ready' = Append(ready, e)
      /\ refresh' = [refresh EXCEPT ![t].status = "done"]
      /\ UNCHANGED <<stored, loaded, trade, early>>
  BY DEF push_back
<1>2. e \in Entry /\ e.account = refresh[t].account /\ e.value = refresh[t].value
  BY DEF PoolInv, TypeOK, Entry
<1> HIDE DEF e
<1>3. /\ ready \in Seq(Entry) /\ n \in Nat /\ DOMAIN ready = 1 .. n
      /\ ready' \in Seq(Entry) /\ DOMAIN ready' = 1 .. n + 1
      /\ \A i \in 1 .. n : ready'[i] = ready[i]
      /\ ready'[n + 1] = e
  BY <1>1, <1>2 DEF PoolInv, TypeOK
<1>4. /\ refresh'[t].status = "done" /\ refresh'[t].account = refresh[t].account
      /\ \A s \in Trades \ {t} : refresh'[s] = refresh[s]
  BY <1>1 DEF PoolInv, TypeOK
<1>5. TypeOK'
  <2> DEFINE R == [status : {"none", "sleeping", "fetching", "read", "done", "gave_up"},
                   account : NonceAccounts, value : Nat, attempt : 0 .. MaxAttempts]
  <2>1. refresh \in [Trades -> R]
    BY DEF PoolInv, TypeOK
  <2>2. refresh[t] \in R
    BY <2>1
  <2>3. [refresh[t] EXCEPT !.status = "done"] \in R
    BY <2>2
  <2>4. refresh' = [refresh EXCEPT ![t] = [refresh[t] EXCEPT !.status = "done"]]
    BY <1>1
  <2> HIDE DEF R
  <2>5. refresh' \in [Trades -> R]
    BY <2>1, <2>3, <2>4
  <2> QED
    BY <1>1, <1>3, <2>5 DEF PoolInv, TypeOK, R
<1>6. Attempts' /\ Linked'
  BY <1>1, <1>4 DEF PoolInv, Attempts, Linked
<1> HIDE DEF n
<1>7. OnePlace'
  <2> SUFFICES ASSUME NEW a \in NonceAccounts, LoadedOnce(a)
               PROVE  /\ \A i, j \in DOMAIN ready' :
                            ready'[i].account = a /\ ready'[j].account = a => i = j
                      /\ \A s, u \in Trades : Holds(s, a)' /\ Holds(u, a)' => s = u
                      /\ \A s \in Trades : Holds(s, a)' =>
                            \A i \in DOMAIN ready' : ready'[i].account # a
    BY <1>1 DEF OnePlace, LoadedOnce
  <2>1. /\ \A i, j \in DOMAIN ready :
              ready[i].account = a /\ ready[j].account = a => i = j
        /\ \A s, u \in Trades : Holds(s, a) /\ Holds(u, a) => s = u
        /\ \A s \in Trades : Holds(s, a) => \A i \in DOMAIN ready : ready[i].account # a
    BY DEF PoolInv, OnePlace
  <2>2. ~Holds(t, a)' /\ \A s \in Trades \ {t} : Holds(s, a)' = Holds(s, a)
    BY <1>4 DEF Holds
  <2>3. e.account = a => /\ Holds(t, a)
                         /\ \A i \in 1 .. n : ready[i].account # a
    BY <1>1, <1>2, <1>3, <2>1 DEF Holds
  <2>4. \A i \in DOMAIN ready' : i \in 1 .. n \/ i = n + 1
    BY <1>3
  <2> QED
    BY <1>3, <2>1, <2>2, <2>3, <2>4
<1>8. Current'
  <2> SUFFICES ASSUME NEW a \in NonceAccounts, LoadedOnce(a), a \notin early
               PROVE  /\ \A i \in DOMAIN ready' :
                            ready'[i].account = a => ready'[i].value = stored[a]
                      /\ \A s \in Trades :
                            refresh'[s].status = "read" /\ refresh'[s].account = a
                                => refresh'[s].value = stored[a]
                      /\ \A s \in Trades :
                            trade[s].status = "in_flight" /\ trade[s].account = a
                                => refresh'[s].status \in {"sleeping", "fetching", "gave_up"}
    BY <1>1 DEF Current, LoadedOnce
  <2>1. /\ \A i \in DOMAIN ready : ready[i].account = a => ready[i].value = stored[a]
        /\ \A s \in Trades :
              refresh[s].status = "read" /\ refresh[s].account = a
                  => refresh[s].value = stored[a]
        /\ \A s \in Trades :
              trade[s].status = "in_flight" /\ trade[s].account = a
                  => refresh[s].status \in {"sleeping", "fetching", "gave_up"}
    BY DEF PoolInv, Current
  <2>2. \A i \in DOMAIN ready' : i \in 1 .. n \/ i = n + 1
    BY <1>3
  <2>3. \A i \in DOMAIN ready' : ready'[i].account = a => ready'[i].value = stored[a]
    BY <1>1, <1>2, <1>3, <2>1, <2>2
  <2> QED
    BY <1>1, <1>4, <2>1, <2>3
<1> QED
  BY <1>5, <1>6, <1>7, <1>8 DEF PoolInv

(* A trade without a clock, or one that is lost: the pool does not hear.    *)
LEMMA GonePool ==
    ASSUME PoolInv, NEW t \in Trades, take_empty(t) \/ lose(t)
    PROVE  PoolInv'
<1>1. /\ UNCHANGED <<stored, ready, loaded, refresh, early>>
      /\ \A s \in Trades \ {t} : trade'[s] = trade[s]
      /\ \/ trade[t].status = "new" /\ trade' = [trade EXCEPT ![t].status = "denied"]
         \/ trade[t].status = "in_flight" /\ trade' = [trade EXCEPT ![t].status = "lost"]
  BY DEF take_empty, lose, PoolInv, TypeOK
<1>2. /\ trade[t].status = "new" => trade'[t].status = "denied"
      /\ trade[t].status # "new" => trade[t].status = "in_flight" /\ trade'[t].status = "lost"
      /\ trade'[t].account = trade[t].account
  BY <1>1 DEF PoolInv, TypeOK
<1>3. TypeOK'
  <2> DEFINE R == [status : {"new", "in_flight", "landed", "lost", "denied"},
                   account : NonceAccounts, value : Nat]
  <2>1. trade \in [Trades -> R]
    BY DEF PoolInv, TypeOK
  <2>2. \E s \in {"denied", "lost"} : trade' = [trade EXCEPT ![t] = [trade[t] EXCEPT !.status = s]]
    BY <1>1
  <2>3. trade[t] \in R
    BY <2>1
  <2>4. \A s \in {"denied", "lost"} : [trade[t] EXCEPT !.status = s] \in R
    BY <2>3
  <2> HIDE DEF R
  <2>5. trade' \in [Trades -> R]
    BY <2>1, <2>2, <2>4
  <2> QED
    BY <1>1, <2>5 DEF PoolInv, TypeOK, R
<1>4. Attempts' /\ Linked'
  BY <1>1, <1>2 DEF PoolInv, Attempts, Linked
<1>5. OnePlace'
  BY <1>1 DEF PoolInv, OnePlace, LoadedOnce, Holds
<1>6. Current'
  <2> SUFFICES ASSUME NEW a \in NonceAccounts, LoadedOnce(a), a \notin early
               PROVE  \A s \in Trades :
                            trade'[s].status = "in_flight" /\ trade'[s].account = a
                                => refresh[s].status \in {"sleeping", "fetching", "gave_up"}
    BY <1>1 DEF PoolInv, Current, LoadedOnce
  <2>1. \A s \in Trades : trade'[s].status = "in_flight" => s # t
    BY <1>2
  <2> QED
    BY <1>1, <2>1 DEF PoolInv, Current
<1> QED
  BY <1>3, <1>4, <1>5, <1>6 DEF PoolInv

(* The chain advances a nonce: the trade that lands still has the only      *)
(* entry of it, so no entry of the pool and no answer on its way is made    *)
(* old, unless the account was read early.                                  *)
LEMMA LandPool ==
    ASSUME PoolInv, NEW t \in Trades, land(t)
    PROVE  PoolInv'
<1> DEFINE b == trade[t].account
<1>1. /\ trade[t].status = "in_flight"
      /\ stored' = [stored EXCEPT ![b] = @ + 1]
      /\ trade' = [trade EXCEPT ![t].status = "landed"]
      /\ UNCHANGED <<ready, loaded, refresh, early>>
  BY DEF land
<1>2. /\ b \in NonceAccounts /\ b = refresh[t].account
      /\ trade'[t].status = "landed" /\ trade'[t].account = b
      /\ \A s \in Trades \ {t} : trade'[s] = trade[s]
      /\ \A a \in NonceAccounts \ {b} : stored'[a] = stored[a]
  BY <1>1 DEF PoolInv, TypeOK, Linked
<1>3. TypeOK'
  <2>1. stored' \in [NonceAccounts -> Nat]
    BY <1>1, <1>2 DEF PoolInv, TypeOK
  <2>2. trade[t] \in [status : {"new", "in_flight", "landed", "lost", "denied"},
                      account : NonceAccounts, value : Nat]
    BY DEF PoolInv, TypeOK
  <2>3. trade' \in [Trades ->
                      [status : {"new", "in_flight", "landed", "lost", "denied"},
                       account : NonceAccounts, value : Nat]]
    BY <1>1, <2>2 DEF PoolInv, TypeOK
  <2> QED
    BY <1>1, <2>1, <2>3 DEF PoolInv, TypeOK
<1>4. Attempts' /\ Linked'
  BY <1>1, <1>2 DEF PoolInv, Attempts, Linked
<1>5. OnePlace'
  BY <1>1 DEF PoolInv, OnePlace, LoadedOnce, Holds
<1>6. Current'
  <2> SUFFICES ASSUME NEW a \in NonceAccounts, LoadedOnce(a), a \notin early
               PROVE  /\ \A i \in DOMAIN ready :
                            ready[i].account = a => ready[i].value = stored'[a]
                      /\ \A s \in Trades :
                            refresh[s].status = "read" /\ refresh[s].account = a
                                => refresh[s].value = stored'[a]
                      /\ \A s \in Trades :
                            trade'[s].status = "in_flight" /\ trade'[s].account = a
                                => refresh[s].status \in {"sleeping", "fetching", "gave_up"}
    BY <1>1 DEF Current, LoadedOnce
  <2>1. /\ \A i \in DOMAIN ready : ready[i].account = a => ready[i].value = stored[a]
        /\ \A s \in Trades :
              refresh[s].status = "read" /\ refresh[s].account = a
                  => refresh[s].value = stored[a]
        /\ \A s \in Trades :
              trade[s].status = "in_flight" /\ trade[s].account = a
                  => refresh[s].status \in {"sleeping", "fetching", "gave_up"}
    BY DEF PoolInv, Current
  <2>2. /\ \A s, u \in Trades : Holds(s, a) /\ Holds(u, a) => s = u
        /\ \A s \in Trades : Holds(s, a) => \A i \in DOMAIN ready : ready[i].account # a
    BY DEF PoolInv, OnePlace
  <2>3. a = b => Holds(t, a) /\ refresh[t].status # "read"
    BY <1>1, <1>2, <2>1 DEF Holds
  <2>4. a = b => /\ \A i \in DOMAIN ready : ready[i].account # a
                 /\ \A s \in Trades : ~(refresh[s].status = "read" /\ refresh[s].account = a)
    BY <2>2, <2>3 DEF Holds
  <2>5. a # b => stored'[a] = stored[a]
    BY <1>2
  <2>6. \A s \in Trades : trade'[s].status = "in_flight" => trade'[s] = trade[s]
    BY <1>2
  <2> QED
    BY <2>1, <2>4, <2>5, <2>6
<1> QED
  BY <1>3, <1>4, <1>5, <1>6 DEF PoolInv

(* Every step keeps PoolInv.                                                *)
LEMMA NextPool == PoolInv /\ [Next]_vars => PoolInv'
<1> SUFFICES ASSUME PoolInv, [Next]_vars PROVE PoolInv'
  OBVIOUS
<1>1. CASE UNCHANGED vars
  BY <1>1 DEF vars, PoolInv, TypeOK, Attempts, Linked, OnePlace, Current, Holds, LoadedOnce
<1>2. ASSUME NEW t \in Trades,
             take(t) \/ take_empty(t) \/ background(t) \/ land(t) \/ lose(t)
      PROVE  PoolInv'
  <2>1. CASE take(t)
    BY <2>1, TakePool
  <2>2. CASE wake(t) \/ fetched(t) \/ refresh_failed(t)
    BY <2>2, TaskPool
  <2>3. CASE push_back(t)
    BY <2>3, PushPool
  <2>4. CASE take_empty(t) \/ lose(t)
    BY <2>4, GonePool
  <2>5. CASE land(t)
    BY <2>5, LandPool
  <2> QED
    BY <1>2, <2>1, <2>2, <2>3, <2>4, <2>5 DEF background
<1> QED
  BY <1>1, <1>2 DEF Next

(* Where every entry of the pool is between take, the task spawn_refresh    *)
(* starts and the chain, for any number of accounts, trades and attempts.   *)
THEOREM PoolInvariant == Spec => []PoolInv
<1>1. Init => PoolInv
  BY InitPool
<1>2. PoolInv /\ [Next]_vars => PoolInv'
  BY NextPool
<1> QED
  BY <1>1, <1>2, PTL DEF Spec

(* The entries, answers and retry counts of warm, take and spawn_refresh    *)
(* stay in range; no task makes more than MaxAttempts attempts.             *)
THEOREM NonceTypeCorrect == Spec => []TypeOK
<1>1. PoolInv => TypeOK
  BY DEF PoolInv
<1> QED
  BY <1>1, PoolInvariant, PTL

(* Two trades in flight never rely on one nonce: the entry take removed for *)
(* the one is what the other would need, and it comes back only through a   *)
(* read that followed the first trade's end.                                *)
THEOREM NoSharedNonce == Spec => []NonceHeldOnce
<1>1. PoolInv => NonceHeldOnce
  <2> SUFFICES ASSUME PoolInv, NEW s \in Trades, NEW t \in Trades, s # t,
                      trade[s].status = "in_flight", trade[t].status = "in_flight",
                      trade[t].account = trade[s].account,
                      LoadedOnce(trade[s].account), trade[s].account \notin early
               PROVE  FALSE
    BY DEF NonceHeldOnce
  <2> DEFINE a == trade[s].account
  <2>1. a \in NonceAccounts
    BY DEF PoolInv, TypeOK
  <2>2. refresh[s].account = a /\ refresh[t].account = a
    BY DEF PoolInv, Linked
  <2>3. Holds(s, a) /\ Holds(t, a)
    BY <2>1, <2>2 DEF PoolInv, Current, Holds
  <2> QED
    BY <2>1, <2>3 DEF PoolInv, OnePlace
<1> QED
  BY <1>1, PoolInvariant, PTL

(* What spawn_refresh pushed back is the account's current nonce, if every  *)
(* read came after its trade: no landing makes an entry of the pool old.    *)
THEOREM LateReadsAreFresh == Spec => []FreshIfReadLate
<1>1. PoolInv => FreshIfReadLate
  <2> SUFFICES ASSUME PoolInv, NEW i \in DOMAIN ready,
                      LoadedOnce(ready[i].account), ready[i].account \notin early
               PROVE  ready[i].value = stored[ready[i].account]
    BY DEF FreshIfReadLate
  <2>1. ready \in Seq(Entry)
    BY DEF PoolInv, TypeOK
  <2>2. ready[i] \in Entry
    BY <2>1
  <2>3. ready[i].account \in NonceAccounts
    BY <2>2 DEF Entry
  <2> QED
    BY <2>3 DEF PoolInv, Current
<1> QED
  BY <1>1, PoolInvariant, PTL

-----------------------------------------------------------------------------
(* Counting the entries of an account: in the pool, with a task, given up.  *)

FinitePlaces ==
    \A a \in NonceAccounts : IsFiniteSet(Refreshing(a)) /\ IsFiniteSet(GivenUp(a))

(* The positions of a queue's entries are finitely many.                    *)
LEMMA FiniteEntries ==
    ASSUME NEW q \in Seq(Entry), NEW a
    PROVE  IsFiniteSet(EntriesOf(a, q)) /\ Cardinality(EntriesOf(a, q)) \in Nat
<1>1. IsFiniteSet(1 .. Len(q))
  BY FS_Interval
<1>2. EntriesOf(a, q) \in SUBSET (1 .. Len(q))
  BY DEF EntriesOf
<1>3. IsFiniteSet(EntriesOf(a, q))
  BY <1>1, <1>2, FS_Subset
<1> QED
  BY <1>3, FS_CardinalityType

(* What is behind the head of a queue moves up by one, and is as much.      *)
LEMMA TailEntries ==
    ASSUME NEW q \in Seq(Entry), q # <<>>, NEW a
    PROVE  Cardinality(EntriesOf(a, Tail(q)))
             = IF Head(q).account = a THEN Cardinality(EntriesOf(a, q)) - 1
               ELSE Cardinality(EntriesOf(a, q))
<1> DEFINE S == EntriesOf(a, Tail(q))
           T == EntriesOf(a, q) \ {1}
           f == [i \in S |-> i + 1]
<1>1. /\ Tail(q) \in Seq(Entry) /\ DOMAIN q = 1 .. Len(q) /\ Len(q) \in Nat \ {0}
      /\ DOMAIN Tail(q) = 1 .. Len(q) - 1 /\ Head(q) = q[1]
      /\ \A i \in 1 .. Len(q) - 1 : Tail(q)[i] = q[i + 1]
  BY DEF Entry
<1>2. /\ \A i \in S : i \in 1 .. Len(q) - 1 /\ i + 1 \in T
      /\ \A j \in T : j - 1 \in S /\ j \in Int
  BY <1>1 DEF EntriesOf
<1> HIDE DEF S, T
<1>3. f \in [S -> T]
  BY <1>2
<1>4. \A i, j \in S : f[i] = f[j] => i = j
  BY <1>2
<1>5. \A j \in T : \E i \in S : f[i] = j
  <2> SUFFICES ASSUME NEW j \in T PROVE f[j - 1] = j /\ j - 1 \in S
    OBVIOUS
  <2> QED
    BY <1>2
<1>6. f \in Bijection(S, T)
  BY <1>3, <1>4, <1>5 DEF Bijection, Injection, Surjection, IsInjective
<1>7. IsFiniteSet(S)
  BY <1>1, FiniteEntries DEF S
<1>8. Cardinality(S) = Cardinality(T)
  BY <1>6, <1>7, FS_Bijection DEF ExistsBijection
<1>9. IsFiniteSet(EntriesOf(a, q))
  BY FiniteEntries
<1>10. Cardinality(T) = IF 1 \in EntriesOf(a, q) THEN Cardinality(EntriesOf(a, q)) - 1
                        ELSE Cardinality(EntriesOf(a, q))
  BY <1>9, FS_RemoveElement DEF T
<1>11. 1 \in EntriesOf(a, q) <=> Head(q).account = a
  BY <1>1 DEF EntriesOf
<1> QED
  BY <1>8, <1>10, <1>11 DEF S

(* What is pushed is one more of its account.                               *)
LEMMA AppendEntries ==
    ASSUME NEW q \in Seq(Entry), NEW e \in Entry, NEW a
    PROVE  Cardinality(EntriesOf(a, Append(q, e)))
             = IF e.account = a THEN Cardinality(EntriesOf(a, q)) + 1
               ELSE Cardinality(EntriesOf(a, q))
<1> DEFINE n == Len(q)
           p == Append(q, e)
<1>1. /\ n \in Nat /\ DOMAIN q = 1 .. n /\ DOMAIN p = 1 .. n + 1
      /\ \A i \in 1 .. n : p[i] = q[i]
      /\ p[n + 1] = e
  BY DEF Entry
<1> HIDE DEF n, p
<1>2. /\ n + 1 \notin EntriesOf(a, q)
      /\ e.account = a => EntriesOf(a, p) = EntriesOf(a, q) \cup {n + 1}
      /\ e.account # a => EntriesOf(a, p) = EntriesOf(a, q)
  <2>1. \A i : i \in 1 .. n + 1 <=> i \in 1 .. n \/ i = n + 1
    BY <1>1
  <2>2. n + 1 \notin 1 .. n
    BY <1>1
  <2> QED
    BY <1>1, <2>1, <2>2 DEF EntriesOf
<1>3. IsFiniteSet(EntriesOf(a, q))
  BY FiniteEntries
<1>4. Cardinality(EntriesOf(a, q) \cup {n + 1}) = Cardinality(EntriesOf(a, q)) + 1
  BY <1>2, <1>3, FS_AddElement
<1> QED
  BY <1>2, <1>4 DEF p

(* Taking moves an entry from the pool to a task.                           *)
LEMMA TakeConserves ==
    ASSUME PoolInv, FinitePlaces, EntriesConserved, NEW t \in Trades, take(t)
    PROVE  (FinitePlaces /\ EntriesConserved)'
<1> DEFINE b == Head(ready).account
<1>1. /\ ready \in Seq(Entry) /\ ready # <<>> /\ ready' = Tail(ready)
      /\ refresh[t].status = "none" /\ UNCHANGED loaded
  BY DEF take, PoolInv, TypeOK, Linked
<1>2. /\ refresh'[t].status = "sleeping" /\ refresh'[t].account = b
      /\ \A s \in Trades \ {t} : refresh'[s] = refresh[s]
  BY DEF take, PoolInv, TypeOK
<1> HIDE DEF b
<1> SUFFICES ASSUME NEW a \in NonceAccounts
             PROVE  /\ IsFiniteSet(Refreshing(a)') /\ IsFiniteSet(GivenUp(a)')
                    /\ Cardinality(EntriesOf(a, loaded))
                        = Cardinality(EntriesOf(a, ready')) + Cardinality(Refreshing(a)')
                            + Cardinality(GivenUp(a)')
  BY <1>1 DEF FinitePlaces, EntriesConserved, EntriesOf
<1>3. /\ GivenUp(a)' = GivenUp(a) /\ t \notin Refreshing(a)
      /\ b = a => Refreshing(a)' = Refreshing(a) \cup {t}
      /\ b # a => Refreshing(a)' = Refreshing(a)
  BY <1>1, <1>2 DEF Refreshing, GivenUp
<1>4. /\ IsFiniteSet(Refreshing(a)) /\ IsFiniteSet(GivenUp(a))
      /\ Cardinality(EntriesOf(a, loaded))
           = Cardinality(EntriesOf(a, ready)) + Cardinality(Refreshing(a))
               + Cardinality(GivenUp(a))
  BY DEF FinitePlaces, EntriesConserved
<1>5. /\ IsFiniteSet(Refreshing(a) \cup {t})
      /\ Cardinality(Refreshing(a) \cup {t}) = Cardinality(Refreshing(a)) + 1
  BY <1>3, <1>4, FS_AddElement
<1>6. /\ Cardinality(Refreshing(a)) \in Nat /\ Cardinality(GivenUp(a)) \in Nat
      /\ Cardinality(EntriesOf(a, ready)) \in Nat
  BY <1>1, <1>4, FS_CardinalityType, FiniteEntries
<1>7. Cardinality(EntriesOf(a, ready'))
        = IF b = a THEN Cardinality(EntriesOf(a, ready)) - 1
          ELSE Cardinality(EntriesOf(a, ready))
  BY <1>1, TailEntries DEF b
<1>8. CASE b = a
  <2>1. Refreshing(a)' = Refreshing(a) \cup {t} /\ GivenUp(a)' = GivenUp(a)
    BY <1>3, <1>8
  <2>2. /\ IsFiniteSet(Refreshing(a)') /\ IsFiniteSet(GivenUp(a)')
        /\ Cardinality(Refreshing(a)') = Cardinality(Refreshing(a)) + 1
    BY <1>4, <1>5, <2>1
  <2>3. Cardinality(EntriesOf(a, ready')) = Cardinality(EntriesOf(a, ready)) - 1
    BY <1>7, <1>8
  <2>4. Cardinality(GivenUp(a)') = Cardinality(GivenUp(a))
    BY <2>1
  <2> QED
    BY <1>4, <1>6, <2>2, <2>3, <2>4
<1>9. CASE b # a
  BY <1>3, <1>4, <1>6, <1>7, <1>9
<1> QED
  BY <1>8, <1>9

(* Pushing back moves it from the task to the pool.                         *)
LEMMA PushConserves ==
    ASSUME PoolInv, FinitePlaces, EntriesConserved, NEW t \in Trades, push_back(t)
    PROVE  (FinitePlaces /\ EntriesConserved)'
<1> DEFINE e == [account |-> refresh[t].account, value |-> refresh[t].value]
<1>1. /\ ready \in Seq(Entry) /\ e \in Entry /\ ready' = Append(ready, e)
      /\ refresh[t].status = "read" /\ UNCHANGED loaded
  BY DEF push_back, PoolInv, TypeOK, Entry
<1>2. e.account = refresh[t].account
  OBVIOUS
<1> HIDE DEF e
<1>3. /\ refresh'[t].status = "done" /\ refresh'[t].account = refresh[t].account
      /\ \A s \in Trades \ {t} : refresh'[s] = refresh[s]
  BY DEF push_back, PoolInv, TypeOK
<1> SUFFICES ASSUME NEW a \in NonceAccounts
             PROVE  /\ IsFiniteSet(Refreshing(a)') /\ IsFiniteSet(GivenUp(a)')
                    /\ Cardinality(EntriesOf(a, loaded))
                        = Cardinality(EntriesOf(a, ready')) + Cardinality(Refreshing(a)')
                            + Cardinality(GivenUp(a)')
  BY <1>1 DEF FinitePlaces, EntriesConserved, EntriesOf
<1>4. /\ GivenUp(a)' = GivenUp(a)
      /\ e.account = a => t \in Refreshing(a) /\ Refreshing(a)' = Refreshing(a) \ {t}
      /\ e.account # a => Refreshing(a)' = Refreshing(a)
  BY <1>1, <1>2, <1>3 DEF Refreshing, GivenUp
<1>5. /\ IsFiniteSet(Refreshing(a)) /\ IsFiniteSet(GivenUp(a))
      /\ Cardinality(EntriesOf(a, loaded))
           = Cardinality(EntriesOf(a, ready)) + Cardinality(Refreshing(a))
               + Cardinality(GivenUp(a))
  BY DEF FinitePlaces, EntriesConserved
<1>6. /\ IsFiniteSet(Refreshing(a) \ {t})
      /\ t \in Refreshing(a) =>
            Cardinality(Refreshing(a) \ {t}) = Cardinality(Refreshing(a)) - 1
  BY <1>5, FS_RemoveElement
<1>7. /\ Cardinality(Refreshing(a)) \in Nat /\ Cardinality(GivenUp(a)) \in Nat
      /\ Cardinality(EntriesOf(a, ready)) \in Nat
  BY <1>1, <1>5, FS_CardinalityType, FiniteEntries
<1>8. Cardinality(EntriesOf(a, ready'))
        = IF e.account = a THEN Cardinality(EntriesOf(a, ready)) + 1
          ELSE Cardinality(EntriesOf(a, ready))
  BY <1>1, AppendEntries
<1> QED
  BY <1>4, <1>5, <1>6, <1>7, <1>8

(* A task that goes on keeps it, and one that gives up is counted there.    *)
LEMMA TaskConserves ==
    ASSUME PoolInv, FinitePlaces, EntriesConserved, NEW t \in Trades,
           wake(t) \/ fetched(t) \/ refresh_failed(t)
    PROVE  (FinitePlaces /\ EntriesConserved)'
<1>1. /\ UNCHANGED <<ready, loaded>>
      /\ refresh[t].status \in {"sleeping", "fetching"}
      /\ \A s \in Trades \ {t} : refresh'[s] = refresh[s]
      /\ refresh'[t].account = refresh[t].account
      /\ refresh'[t].status \in {"sleeping", "fetching", "read", "gave_up"}
  BY DEF wake, fetched, refresh_failed, read_of, PoolInv, TypeOK
<1> SUFFICES ASSUME NEW a \in NonceAccounts
             PROVE  /\ IsFiniteSet(Refreshing(a)') /\ IsFiniteSet(GivenUp(a)')
                    /\ Cardinality(EntriesOf(a, loaded))
                        = Cardinality(EntriesOf(a, ready)) + Cardinality(Refreshing(a)')
                            + Cardinality(GivenUp(a)')
  BY <1>1 DEF FinitePlaces, EntriesConserved, EntriesOf
<1>2. /\ IsFiniteSet(Refreshing(a)) /\ IsFiniteSet(GivenUp(a))
      /\ Cardinality(EntriesOf(a, loaded))
           = Cardinality(EntriesOf(a, ready)) + Cardinality(Refreshing(a))
               + Cardinality(GivenUp(a))
  BY DEF FinitePlaces, EntriesConserved
<1>3. CASE refresh'[t].status = "gave_up" /\ refresh[t].account = a
  <2>1. /\ t \in Refreshing(a) /\ t \notin GivenUp(a)
        /\ Refreshing(a)' = Refreshing(a) \ {t} /\ GivenUp(a)' = GivenUp(a) \cup {t}
    BY <1>1, <1>3 DEF Refreshing, GivenUp
  <2>2. /\ IsFiniteSet(Refreshing(a) \ {t}) /\ IsFiniteSet(GivenUp(a) \cup {t})
        /\ Cardinality(Refreshing(a) \ {t}) = Cardinality(Refreshing(a)) - 1
        /\ Cardinality(GivenUp(a) \cup {t}) = Cardinality(GivenUp(a)) + 1
    BY <1>2, <2>1, FS_RemoveElement, FS_AddElement
  <2>3. /\ Cardinality(Refreshing(a)) \in Nat /\ Cardinality(GivenUp(a)) \in Nat
        /\ Cardinality(EntriesOf(a, ready)) \in Nat
    BY <1>2, FS_CardinalityType, FiniteEntries DEF PoolInv, TypeOK
  <2> QED
    BY <1>2, <2>1, <2>2, <2>3
<1>4. CASE refresh'[t].status # "gave_up" \/ refresh[t].account # a
  <2>1. Refreshing(a)' = Refreshing(a) /\ GivenUp(a)' = GivenUp(a)
    BY <1>1, <1>4 DEF Refreshing, GivenUp
  <2> QED
    BY <1>2, <2>1
<1> QED
  BY <1>3, <1>4

(* The pool neither grows nor loses an entry: what warm loaded is in the    *)
(* pool, with a task of spawn_refresh or given up after MaxAttempts reads,  *)
(* for accounts that are configured more than once too.                     *)
THEOREM NoEntryLost == Spec => []EntriesConserved
<1>1. Init => FinitePlaces /\ EntriesConserved
  <2> SUFFICES ASSUME Init, NEW a \in NonceAccounts
               PROVE  /\ IsFiniteSet(Refreshing(a)) /\ IsFiniteSet(GivenUp(a))
                      /\ Cardinality(EntriesOf(a, loaded))
                          = Cardinality(EntriesOf(a, ready)) + Cardinality(Refreshing(a))
                              + Cardinality(GivenUp(a))
    BY DEF FinitePlaces, EntriesConserved
  <2>1. Refreshing(a) = {} /\ GivenUp(a) = {} /\ loaded = ready
    BY DEF Init, Refreshing, GivenUp
  <2>2. Cardinality(EntriesOf(a, ready)) \in Nat
    BY InitPool, FiniteEntries DEF PoolInv, TypeOK
  <2> QED
    BY <2>1, <2>2, FS_EmptySet
<1>2. PoolInv /\ FinitePlaces /\ EntriesConserved /\ [Next]_vars
        => (FinitePlaces /\ EntriesConserved)'
  <2> SUFFICES ASSUME PoolInv, FinitePlaces, EntriesConserved, [Next]_vars
               PROVE  (FinitePlaces /\ EntriesConserved)'
    OBVIOUS
  <2>1. ASSUME UNCHANGED <<ready, loaded, refresh>>
        PROVE  (FinitePlaces /\ EntriesConserved)'
    BY <2>1 DEF FinitePlaces, EntriesConserved, Refreshing, GivenUp, EntriesOf
  <2>2. CASE UNCHANGED vars
    BY <2>1, <2>2 DEF vars
  <2>3. ASSUME NEW t \in Trades, take_empty(t) \/ land(t) \/ lose(t)
        PROVE  (FinitePlaces /\ EntriesConserved)'
    BY <2>1, <2>3 DEF take_empty, land, lose
  <2> QED
    BY <2>2, <2>3, TakeConserves, PushConserves, TaskConserves DEF Next, background
<1> QED
  BY <1>1, <1>2, PoolInvariant, PTL DEF Spec
=============================================================================
