----------------------------- MODULE NoncePool -----------------------------
(***************************************************************************)
(* The durable-nonce pool the example bots take their transaction clock     *)
(* from.  A trade pops one entry; a background task sleeps and then reads   *)
(* the nonce account again and pushes what it read.  The task is timed by a *)
(* sleep and not by the trade: nothing orders its read after the trade's    *)
(* transaction lands.                                                       *)
(***************************************************************************)
EXTENDS Integers, Sequences, FiniteSets

CONSTANTS
    NonceAccounts,   \* nonce accounts on chain
    Configured,      \* the NONCE_ACCOUNT lists an operator may set
    Trades,          \* bound: the trades that are attempted
    MaxAttempts      \* 8 in the code

VARIABLES
    stored,          \* on chain: how often each nonce was advanced
    ready,           \* the pool, a queue of entries [account, value]
    loaded,          \* the entries prefetched by warm
    trade,           \* the entry each trade took, and what became of it
    refresh,         \* the refresh task each trade spawned
    early            \* history: the accounts that were read while the trade
                     \* that took their entry was in flight

vars == <<stored, ready, loaded, trade, refresh, early>>

Entry == [account : NonceAccounts, value : Nat]

TypeOK ==
    /\ stored \in [NonceAccounts -> Nat]
    /\ ready \in Seq(Entry)
    /\ loaded \in Seq(Entry)
    /\ early \subseteq NonceAccounts
    /\ trade \in [Trades ->
          [status : {"new", "in_flight", "landed", "lost", "denied"},
           account : NonceAccounts, value : Nat]]
    /\ refresh \in [Trades ->
          [status : {"none", "sleeping", "fetching", "read", "done", "gave_up"},
           account : NonceAccounts, value : Nat, attempt : 0 .. MaxAttempts]]

(* Where in a queue the entries of an account are. *)
EntriesOf(a, queue) == {i \in DOMAIN queue : queue[i].account = a}

AnyAccount == CHOOSE a \in NonceAccounts : TRUE

(* Prefetch every configured account in order; some of the reads may fail,  *)
(* and the bot does not start with none.                                    *)
warm ==
    \E accounts \in Configured : \E n \in 1 .. Len(accounts) :
        \E order \in [1 .. n -> DOMAIN accounts] :
            /\ \A i, j \in 1 .. n : i < j => order[i] < order[j]
            /\ ready = [k \in 1 .. n |-> [account |-> accounts[order[k]], value |-> 0]]

Init ==
    /\ stored = [a \in NonceAccounts |-> 0]
    /\ warm
    /\ loaded = ready
    /\ early = {}
    /\ trade = [t \in Trades |->
                  [status |-> "new", account |-> AnyAccount, value |-> 0]]
    /\ refresh = [t \in Trades |->
                    [status |-> "none", account |-> AnyAccount, value |-> 0,
                     attempt |-> 0]]

-----------------------------------------------------------------------------

(* A slip: the entry is handed out without a refresh of its account. *)
take_only(t) ==
    /\ trade[t].status = "new"
    /\ ready # <<>>
    /\ ready' = Tail(ready)
    /\ trade' = [trade EXCEPT ![t] = [status |-> "in_flight",
                                      account |-> Head(ready).account,
                                      value |-> Head(ready).value]]
    /\ UNCHANGED <<stored, loaded, refresh, early>>

(* A slip: the entry is read and left in the pool. *)
take_front(t) ==
    /\ trade[t].status = "new"
    /\ ready # <<>>
    /\ trade' = [trade EXCEPT ![t] = [status |-> "in_flight",
                                      account |-> Head(ready).account,
                                      value |-> Head(ready).value]]
    /\ refresh' = [refresh EXCEPT ![t] = [status |-> "sleeping",
                                          account |-> Head(ready).account,
                                          value |-> 0, attempt |-> 0]]
    /\ UNCHANGED <<stored, loaded, ready, early>>

take(t) ==
    /\ trade[t].status = "new"
    /\ ready # <<>>
    /\ ready' = Tail(ready)
    /\ trade' = [trade EXCEPT ![t] = [status |-> "in_flight",
                                      account |-> Head(ready).account,
                                      value |-> Head(ready).value]]
    /\ refresh' = [refresh EXCEPT ![t] = [status |-> "sleeping",
                                          account |-> Head(ready).account,
                                          value |-> 0, attempt |-> 0]]
    /\ UNCHANGED <<stored, loaded, early>>

(* "nonce pool empty": the trade is given up by its caller. *)
take_empty(t) ==
    /\ trade[t].status = "new"
    /\ ready = <<>>
    /\ trade' = [trade EXCEPT ![t].status = "denied"]
    /\ UNCHANGED <<stored, ready, loaded, refresh, early>>

(* The sleep before the first read, or between two attempts. *)
wake(t) ==
    /\ refresh[t].status = "sleeping"
    /\ refresh' = [refresh EXCEPT ![t].status = "fetching"]
    /\ UNCHANGED <<stored, ready, loaded, trade, early>>

read_of(t) ==
    /\ early' = IF trade[t].status = "in_flight" THEN early \cup {refresh[t].account}
                ELSE early
    /\ UNCHANGED <<stored, ready, loaded, trade>>

(* A slip: the entry is remembered as it was taken. *)
unread(t) ==
    /\ refresh[t].status = "fetching"
    /\ refresh' = [refresh EXCEPT ![t].status = "read",
                                  ![t].value = trade[t].value]
    /\ read_of(t)

(* fetch_nonce_info read the account: the RPC node answers with the value   *)
(* it has, whether or not the trade that took the entry has landed.         *)
fetched(t) ==
    /\ refresh[t].status = "fetching"
    /\ refresh' = [refresh EXCEPT ![t].status = "read",
                                  ![t].value = stored[refresh[t].account]]
    /\ read_of(t)

(* The pool's lock is taken after the answer: other steps come in between. *)
push_back(t) ==
    /\ refresh[t].status = "read"
    /\ ready' = Append(ready, [account |-> refresh[t].account,
                               value |-> refresh[t].value])
    /\ refresh' = [refresh EXCEPT ![t].status = "done"]
    /\ UNCHANGED <<stored, loaded, trade, early>>

(* Slips: an attempt too many, and attempts without a count. *)
refresh_failed_once_more(t) ==
    /\ refresh[t].status = "fetching"
    /\ LET tries == refresh[t].attempt + 1
       IN  refresh' = [refresh EXCEPT
             ![t].attempt = tries,
             ![t].status = IF tries > MaxAttempts THEN "gave_up" ELSE "sleeping"]
    /\ UNCHANGED <<stored, ready, loaded, trade, early>>

refresh_failed_uncounted(t) ==
    /\ refresh[t].status = "fetching"
    /\ refresh' = [refresh EXCEPT ![t].status = "sleeping"]
    /\ UNCHANGED <<stored, ready, loaded, trade, early>>

refresh_failed(t) ==
    /\ refresh[t].status = "fetching"
    /\ LET tries == refresh[t].attempt + 1
       IN  refresh' = [refresh EXCEPT
             ![t].attempt = tries,
             ![t].status = IF tries = MaxAttempts THEN "gave_up" ELSE "sleeping"]
    /\ UNCHANGED <<stored, ready, loaded, trade, early>>

(* The chain executes a transaction only with the current nonce, and        *)
(* advances it.                                                             *)
land(t) ==
    /\ trade[t].status = "in_flight"
    /\ trade[t].value = stored[trade[t].account]
    /\ stored' = [stored EXCEPT ![trade[t].account] = @ + 1]
    /\ trade' = [trade EXCEPT ![t].status = "landed"]
    /\ UNCHANGED <<ready, loaded, refresh, early>>

(* No lane delivers the transaction, or its nonce is spent. *)
lose(t) ==
    /\ trade[t].status = "in_flight"
    /\ trade' = [trade EXCEPT ![t].status = "lost"]
    /\ UNCHANGED <<stored, ready, loaded, refresh, early>>

background(t) ==
    wake(t) \/ fetched(t) \/ push_back(t) \/ refresh_failed(t)

Next == \E t \in Trades :
    take(t) \/ take_empty(t) \/ background(t) \/ land(t) \/ lose(t)

(* The runtime runs every spawned task: sleeps end and reads return.        *)
Spec == Init /\ [][Next]_vars /\ \A t \in Trades : WF_vars(background(t))

-----------------------------------------------------------------------------

InFlight(a) == {t \in Trades : trade[t].status = "in_flight" /\ trade[t].account = a}

Refreshing(a) ==
    {t \in Trades : refresh[t].status \in {"sleeping", "fetching", "read"}
                    /\ refresh[t].account = a}

GivenUp(a) ==
    {t \in Trades : refresh[t].status = "gave_up" /\ refresh[t].account = a}

(* Every entry warm loaded is in the pool, on its way back or given up      *)
(* after eight failed reads; the pool neither grows beyond its accounts nor *)
(* loses one in another way (take, spawn_refresh).                          *)
EntriesConserved ==
    \A a \in NonceAccounts :
        Cardinality(EntriesOf(a, loaded))
            = Cardinality(EntriesOf(a, ready)) + Cardinality(Refreshing(a))
                + Cardinality(GivenUp(a))

LoadedOnce(a) ==
    \A i, j \in DOMAIN loaded :
        loaded[i].account = a /\ loaded[j].account = a => i = j

(* Two trades in flight never rely on the same nonce: one of them could not *)
(* land, and would be retried or dropped by a bot that believes it was sent *)
(* (take removes the entry it returns, spawn_refresh reads a newer one).    *)
(* The account is configured once and was never read before the trade that  *)
(* used it was through: the pool itself guards against neither.             *)
NonceHeldOnce ==
    \A s, t \in Trades :
        LET a == trade[s].account
        IN  s # t /\ trade[s].status = "in_flight" /\ trade[t].status = "in_flight"
                /\ trade[t].account = a /\ LoadedOnce(a) /\ a \notin early
            => trade[s].value # trade[t].value

(* Every entry taken comes back to the pool or is given up: the refresh     *)
(* task never runs forever (spawn_refresh's bounded retries).               *)
RefreshEnds ==
    \A t \in Trades :
        refresh[t].status = "sleeping" ~> refresh[t].status \in {"done", "gave_up"}

(* An entry of the pool is its account's current nonce as long as every     *)
(* refresh came after its trade was through, however the refreshes of       *)
(* several trades, their retries and other trades' landings interleave      *)
(* (take, spawn_refresh).                                                   *)
FreshIfReadLate ==
    \A i \in DOMAIN ready :
        LET a == ready[i].account
        IN  LoadedOnce(a) /\ a \notin early => ready[i].value = stored[a]

(* NONCE_CACHE.md:66, "After landing, pool refreshes that account": once no *)
(* trade on the account is in flight and no refresh of it is running, the   *)
(* entries of the pool hold the account's current nonce.                    *)
FreshAfterLanding ==
    \A i \in DOMAIN ready :
        LET a == ready[i].account
        IN  InFlight(a) = {} /\ Refreshing(a) = {} => ready[i].value = stored[a]

ASSUME NoncePoolConstants ==
    /\ NonceAccounts # {}
    /\ Configured \subseteq Seq(NonceAccounts)
    /\ MaxAttempts \in Nat \ {0}
=============================================================================
