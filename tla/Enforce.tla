------------------------------ MODULE Enforce ------------------------------
(***************************************************************************)
(* Nickname protection (modules/nickserv/enforce.c, with the callers in    *)
(* nickserv/main.c, access.c and set_enforcetime.c).                       *)
(*                                                                         *)
(* A client that takes a protected nickname without identifying is put on  *)
(* enforce_list with a time limit.  One one-shot timer serves the whole    *)
(* list: it must be armed for the head, and the list must stay sorted,     *)
(* because the check stops at the first entry that is not due.  Entries    *)
(* name a nickname and a host, not a client, and outlive the client's use  *)
(* of the nickname.                                                        *)
(***************************************************************************)
EXTENDS Integers, Sequences, FiniteSets

CONSTANTS
    Clients,      \* remote clients
    Hosts,
    Host,         \* the host of each client
    Accounts,
    Nicks,        \* registered nicknames
    Owner,        \* the account that owns each of them
    Delays,       \* the grace periods: enforce_delay and SET ENFORCETIME
    DefaultDelay, \* nicksvs.enforce_delay
    MaxTime,      \* bound: the clock stops here
    MaxPending,   \* bound: length of enforce_list
    None

ASSUME EnforceAssumption ==
    /\ IsFiniteSet(Clients)
    /\ Host \in [Clients -> Hosts]
    /\ Owner \in [Nicks -> Accounts]
    /\ Delays \subseteq Nat /\ DefaultDelay \in Delays
    /\ MaxTime \in Nat /\ MaxPending \in Nat
    /\ None \notin Nicks \union Accounts

VARIABLES
    now,           \* CURRTIME
    held,          \* the registered nickname a client uses, or None
    myuser,        \* u->myuser
    access,        \* the hosts on each account's access list
    protected,     \* the accounts with private:doenforce
    enforcetime,   \* private:enforcetime, or the default
    enforce_list,
    enforce_next,  \* what the timer is armed for, 0 if it is not
    timers,        \* the pending enforce_timeout_check timers
    doenforce,     \* the clients the ircd was asked to rename (UF_DOENFORCE)
    enforcers      \* the nicknames held by enforcers

userVars == <<held, myuser, access, protected, enforcetime>>
listVars == <<enforce_list, enforce_next, timers>>
actVars == <<doenforce, enforcers>>
enforceVars == <<now, userVars, listVars, actVars>>

Entry == [nick : Nicks, host : Hosts, timelimit : Nat]

-----------------------------------------------------------------------------
(* The list *)

\* Mutant of InsertPoints: new entries go to the tail.
InsertPointsTail(l, t) == {Len(l)}

\* Where the scan of check_enforce() from the tail stops: after the last entry
\* whose limit is not later than t (there is one such place).
InsertPoints(l, t) ==
    {p \in 0..Len(l) : /\ p = 0 \/ l[p].timelimit <= t
                       /\ \A j \in (p + 1)..Len(l) : l[j].timelimit > t}

\* mowgli_node_add_head(), mowgli_node_add() or mowgli_node_add_before() of
\* the entries es, one after the other.
InsertAt(l, es, p) == SubSeq(l, 1, p) \o es \o SubSeq(l, p + 1, Len(l))

\* How many entries enforce_timeout_check() visits: it stops at the first that
\* is not due (there is one such number).
StopPoints(l, t) ==
    {k \in 0..Len(l) : /\ \A i \in 1..k : l[i].timelimit <= t
                       /\ k = Len(l) \/ l[k + 1].timelimit > t}

\* The increasing enumerations of a set of positions (there is one): the nodes
\* that a MOWGLI_ITER_FOREACH_SAFE loop leaves keep their order.
Enumerations(K) ==
    {f \in [1..Cardinality(K) -> K] :
        \A i, j \in 1..Cardinality(K) : i < j => f[i] < f[j]}

-----------------------------------------------------------------------------
(* check_enforce() *)

\* c is logged in to the owner of n or on its access list.
MayUse(c, n) == myuser[c] = Owner[n] \/ Host[c] \in access[Owner[n]]

\* The orders in which the clients S can be visited.
Orders(S) ==
    {cs \in [1..Cardinality(S) -> S] :
        \A i, j \in 1..Cardinality(S) : cs[i] = cs[j] => i = j}

\* Mutant of Enqueue: the timer is armed only when it is not running.
EnqueueNoRearm(cs, on, t) ==
    /\ Len(enforce_list) + Len(cs) <= MaxPending
    /\ \E p \in InsertPoints(enforce_list, t) :
          enforce_list' = InsertAt(enforce_list,
             [i \in 1..Len(cs) |-> [nick |-> on[cs[i]], host |-> Host[cs[i]],
                                    timelimit |-> t]], p)
    /\ enforce_next' = IF enforce_next = 0 THEN t ELSE enforce_next
    /\ timers' = IF enforce_next = 0 THEN timers \union {t} ELSE timers

\* check_enforce() of the clients cs, which are on the nicknames on[c], with
\* the time limit t: sorted insertion, and the timer is armed again when the
\* new limit is earlier than what it was armed for.
Enqueue(cs, on, t) ==
    /\ Len(enforce_list) + Len(cs) <= MaxPending
    /\ \E p \in InsertPoints(enforce_list, t) :
          enforce_list' = InsertAt(enforce_list,
             [i \in 1..Len(cs) |-> [nick |-> on[cs[i]], host |-> Host[cs[i]],
                                    timelimit |-> t]], p)
    /\ IF enforce_next = 0 \/ enforce_next > t
       THEN /\ enforce_next' = t
            /\ timers' = (timers \ {enforce_next}) \union {t}
       ELSE UNCHANGED <<enforce_next, timers>>

\* check_enforce() of the clients S for nicknames of a, in some order.  Only
\* those whose nicknames were used within enforce_expiry are put on the list:
\* which ones is left open.
CheckEnforce(S, on, a) ==
    \/ UNCHANGED listVars
    \/ \E R \in SUBSET S \ {{}} : \E cs \in Orders(R) :
          Enqueue(cs, on, now + enforcetime[a])

\* nickserv_handle_nickchange() for c on the nickname n.
HandleNickchange(c, n) ==
    IF MayUse(c, n) \/ Owner[n] \notin protected
    THEN UNCHANGED listVars
    ELSE CheckEnforce({c}, [d \in {c} |-> n], Owner[n])

-----------------------------------------------------------------------------
(* Clients *)

\* A client changes to a registered nickname that is free.
TakeNick(c, n) ==
    /\ held[c] = None
    /\ n \notin enforcers /\ \A d \in Clients : held[d] # n
    /\ held' = [held EXCEPT ![c] = n]
    /\ HandleNickchange(c, n)
    /\ UNCHANGED <<now, myuser, access, protected, enforcetime, actVars>>

\* handle_nickchange() once more for the nickname c has (server_eob, m_signon).
Recheck(c) ==
    /\ held[c] # None
    /\ HandleNickchange(c, held[c])
    /\ UNCHANGED <<now, userVars, actVars>>

\* The client leaves its nickname: user_changenick(), because it wants to or
\* because the ircd was asked to.  UF_DOENFORCE leaves an enforcer behind.
LeaveNick(c) ==
    /\ held[c] # None
    /\ held' = [held EXCEPT ![c] = None]
    /\ doenforce' = doenforce \ {c}
    /\ enforcers' = enforcers \union (IF c \in doenforce THEN {held[c]} ELSE {})
    /\ UNCHANGED <<now, myuser, access, protected, enforcetime, listVars>>

\* myuser_login() of a client that is not logged in.
Identify(c, a) ==
    /\ myuser[c] = None
    /\ myuser' = [myuser EXCEPT ![c] = a]
    /\ UNCHANGED <<now, held, access, protected, enforcetime, listVars, actVars>>

\* The client logs out, or quits and comes back.
Logout(c) ==
    /\ myuser[c] # None
    /\ myuser' = [myuser EXCEPT ![c] = None]
    /\ UNCHANGED <<now, held, access, protected, enforcetime, listVars, actVars>>

-----------------------------------------------------------------------------
(* Commands *)

\* The clients on nicknames of a that have no right to them, given its list of
\* hosts.
Strangers(a, hosts) ==
    {c \in Clients : /\ held[c] # None /\ Owner[held[c]] = a
                     /\ myuser[c] # a /\ Host[c] \notin hosts}

\* SET ENFORCE ON, with check_enforce_all().
SetEnforceOn(a) ==
    /\ a \notin protected
    /\ protected' = protected \union {a}
    /\ CheckEnforce(Strangers(a, access[a]), held, a)
    /\ UNCHANGED <<now, held, myuser, access, enforcetime, actVars>>

\* SET ENFORCE OFF.  Entries stay on the list.
SetEnforceOff(a) ==
    /\ a \in protected
    /\ protected' = protected \ {a}
    /\ UNCHANGED <<now, held, myuser, access, enforcetime, listVars, actVars>>

\* SET ENFORCETIME, to a number of seconds or back to the default.
SetEnforceTime(a, d) ==
    /\ a \in protected
    /\ enforcetime' = [enforcetime EXCEPT ![a] = d]
    /\ UNCHANGED <<now, held, myuser, access, protected, listVars, actVars>>

\* ACCESS ADD of the host h.
AccessAdd(a, h) ==
    /\ h \notin access[a]
    /\ access' = [access EXCEPT ![a] = @ \union {h}]
    /\ UNCHANGED <<now, held, myuser, protected, enforcetime, listVars, actVars>>

\* ACCESS DEL, myuser_access_delete_enforce(): who had a right to the nickname
\* only by h is checked again.
AccessDel(a, h) ==
    LET lost == {c \in Strangers(a, access[a] \ {h}) : Host[c] = h}
    IN  /\ h \in access[a]
        /\ access' = [access EXCEPT ![a] = @ \ {h}]
        /\ IF a \in protected
           THEN CheckEnforce(lost, held, a)
           ELSE UNCHANGED listVars
        /\ UNCHANGED <<now, held, myuser, protected, enforcetime, actVars>>

\* The entries of (n, h) are taken off the list; the timer is not touched.
Forget(n, h) ==
    LET keep == {i \in DOMAIN enforce_list :
                   ~(enforce_list[i].nick = n /\ enforce_list[i].host = h)}
    IN  /\ \E f \in Enumerations(keep) :
              enforce_list' = [i \in 1..Cardinality(keep) |-> enforce_list[f[i]]]
        /\ UNCHANGED <<enforce_next, timers>>

\* log_enforce_victim_out() and guest_nickname() of whoever is on n (nobody,
\* an enforcer or a client other than c).  An ircd without logout kills a
\* victim that was logged in to the owner.
Evict(n, c) ==
    \/ /\ \A v \in Clients : held[v] # n
       /\ enforcers' = enforcers \ {n}
       /\ UNCHANGED <<held, doenforce>>
    \/ \E v \in Clients \ {c} :
          /\ held[v] = n
          /\ doenforce' = doenforce \union {v}
          /\ UNCHANGED <<held, enforcers>>
    \/ \E v \in Clients \ {c} :
          /\ held[v] = n /\ myuser[v] = Owner[n]
          /\ held' = [held EXCEPT ![v] = None]
          /\ doenforce' = doenforce \ {v}
          /\ enforcers' = enforcers \union (IF v \in doenforce THEN {n} ELSE {})

\* The victim of Evict(n, c) is no longer logged in to the owner of n.
LoggedOut(n, c) ==
    [v \in Clients |-> IF v # c /\ held[v] = n /\ myuser[v] = Owner[n]
                       THEN None ELSE myuser[v]]

\* RELEASE of n by c, which is logged in to the owner or knows the password.
Release(c, n) ==
    /\ held[c] # n
    /\ Forget(n, Host[c])
    /\ Evict(n, c)
    /\ myuser' = LoggedOut(n, c)
    /\ UNCHANGED <<now, access, protected, enforcetime>>

\* REGAIN of n by c: as RELEASE, then c is logged in to the owner unless that
\* has maxlogins sessions.  The ircd is asked to give c the nickname: TakeNick.
\* (An ircd whose logout kills c when it had another account: LeaveNick and
\* Logout follow.)
Regain(c, n) ==
    /\ held[c] # n
    /\ Forget(n, Host[c])
    /\ Evict(n, c)
    /\ \/ myuser' = LoggedOut(n, c)
       \/ myuser' = [LoggedOut(n, c) EXCEPT ![c] = Owner[n]]
    /\ UNCHANGED <<now, access, protected, enforcetime>>

-----------------------------------------------------------------------------
(* Timers *)

Tick ==
    /\ now < MaxTime
    /\ now' = now + 1
    /\ UNCHANGED <<userVars, listVars, actVars>>

\* c uses the nickname and host of the entry e and has no right to.
Violates(c, e) ==
    /\ held[c] = e.nick /\ Host[c] = e.host
    /\ ~MayUse(c, e.nick)
    /\ Owner[e.nick] \in protected

\* The clients that the first k entries rename.
Victims(k) == {c \in Clients : \E i \in 1..k : Violates(c, enforce_list[i])}

\* Mutant of TimeoutCheck: of the entries that are due, only the first is served.
TimeoutCheckFirst ==
    /\ \E t \in timers : t <= now
    /\ \E k \in StopPoints(enforce_list, now) :
          /\ enforce_list' = SubSeq(enforce_list, k + 1, Len(enforce_list))
          /\ enforce_next' = IF k = Len(enforce_list) THEN 0
                             ELSE enforce_list[k + 1].timelimit
          /\ timers' = {t \in timers : t > now} \union ({enforce_next'} \ {0})
          /\ doenforce' = doenforce \union Victims(IF k = 0 THEN 0 ELSE 1)
    /\ UNCHANGED <<now, userVars, enforcers>>

\* enforce_timeout_check(), on an ircd without IRCD_HOLDNICK.
TimeoutCheck ==
    /\ \E t \in timers : t <= now
    /\ \E k \in StopPoints(enforce_list, now) :
          /\ enforce_list' = SubSeq(enforce_list, k + 1, Len(enforce_list))
          /\ enforce_next' = IF k = Len(enforce_list) THEN 0
                             ELSE enforce_list[k + 1].timelimit
          /\ timers' = {t \in timers : t > now} \union ({enforce_next'} \ {0})
          /\ doenforce' = doenforce \union Victims(k)
    /\ UNCHANGED <<now, userVars, enforcers>>

\* enforce_remove_enforcers(), every 300 seconds.
RemoveEnforcers ==
    /\ enforcers # {}
    /\ enforcers' = {}
    /\ UNCHANGED <<now, userVars, listVars, doenforce>>

-----------------------------------------------------------------------------
EnforceInit ==
    /\ now = 1
    /\ held = [c \in Clients |-> None]
    /\ myuser = [c \in Clients |-> None]
    /\ access = [a \in Accounts |-> {}]
    /\ protected = {}
    /\ enforcetime = [a \in Accounts |-> DefaultDelay]
    /\ enforce_list = <<>>
    /\ enforce_next = 0
    /\ timers = {}
    /\ doenforce = {}
    /\ enforcers = {}

EnforceNext ==
    \/ \E c \in Clients :
          \/ \E n \in Nicks : TakeNick(c, n) \/ Release(c, n) \/ Regain(c, n)
          \/ Recheck(c) \/ LeaveNick(c) \/ Logout(c)
          \/ \E a \in Accounts : Identify(c, a)
    \/ \E a \in Accounts :
          \/ SetEnforceOn(a) \/ SetEnforceOff(a)
          \/ \E d \in Delays : SetEnforceTime(a, d)
          \/ \E h \in Hosts : AccessAdd(a, h) \/ AccessDel(a, h)
    \/ Tick \/ TimeoutCheck \/ RemoveEnforcers

EnforceSpec == EnforceInit /\ [][EnforceNext]_enforceVars

\* The event loop runs a timer that is due; time passes.
EnforceFairSpec == EnforceSpec /\ WF_enforceVars(TimeoutCheck) /\ WF_enforceVars(Tick)

-----------------------------------------------------------------------------
(* Properties *)

\* Every variable keeps its type (the list, timers and clients of enforce.c).
EnforceTypeOK ==
    /\ now \in Nat \ {0}
    /\ held \in [Clients -> Nicks \union {None}]
    /\ myuser \in [Clients -> Accounts \union {None}]
    /\ access \in [Accounts -> SUBSET Hosts]
    /\ protected \subseteq Accounts
    /\ enforcetime \in [Accounts -> Delays]
    /\ enforce_list \in Seq(Entry)
    /\ enforce_next \in Nat
    /\ timers \subseteq Nat
    /\ doenforce \subseteq Clients
    /\ enforcers \subseteq Nicks

\* "assume sorted list" (enforce.c:503): the entries are in the order of their
\* limits, whatever grace periods the owners choose and whatever is released.
SortedList ==
    \A i, j \in DOMAIN enforce_list :
        i < j => enforce_list[i].timelimit <= enforce_list[j].timelimit

\* Exactly one timer runs while enforce_next is set and none otherwise, and the
\* timer is not later than any entry: no entry can be forgotten.
TimerCoversList ==
    /\ timers = IF enforce_next = 0 THEN {} ELSE {enforce_next}
    /\ \A i \in DOMAIN enforce_list :
          enforce_next # 0 /\ enforce_next <= enforce_list[i].timelimit

\* Nothing on the list is forgotten: enforce_timeout_check(), which stops at
\* the first entry that is not due, has run for every entry by its limit.
DeadlinesKept == SortedList /\ TimerCoversList

\* A check leaves nothing that was due on the list.
CheckVisitsAllDue ==
    [][TimeoutCheck => \A i \in DOMAIN enforce_list' :
                          enforce_list'[i].timelimit > now]_enforceVars

\* A client that has an entry and no right to the nickname is asked to change it
\* in the end, unless it leaves, gains the right or the owner turns ENFORCE off:
\* that the entry is gone is not enough (enforce.c:511-529).
DueEntriesAreServed ==
    \A c \in Clients, n \in Nicks :
        (\E i \in DOMAIN enforce_list :
            enforce_list[i].timelimit <= MaxTime /\ Violates(c, enforce_list[i])
              /\ enforce_list[i].nick = n)
        ~> (c \in doenforce \/ held[c] # n \/ MayUse(c, n) \/ Owner[n] \notin protected)

\* A client on a protected nickname is told how long it has (enforce.c:640),
\* and has an entry for it: when the timer renames a client, its last entry is
\* due.
GracePeriodKept ==
    [][TimeoutCheck =>
          \A c \in doenforce' \ doenforce : \A i \in DOMAIN enforce_list' :
              ~(enforce_list'[i].nick = held[c]
                  /\ enforce_list'[i].host = Host[c])]_enforceVars
=============================================================================
