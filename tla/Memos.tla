------------------------------- MODULE Memos -------------------------------
(***************************************************************************)
(* MemoServ: the memos of the accounts, the count of unread ones that is   *)
(* kept beside the list, and the ignore lists (modules/memoserv, with the  *)
(* memos of myuser_delete() and of the database).                          *)
(*                                                                         *)
(* A memo remembers its sender by name, and so do the ignore lists: both   *)
(* outlive the account, and mean whoever registers the name next.          *)
(* Grouped nicknames and renamed accounts are left to the module Nicks.    *)
(*                                                                         *)
(* Left out: the rate limit (more than 5 memos in 180 seconds) and         *)
(* MU_WAITAUTH, which only refuse commands; e-mail copies; the texts.      *)
(***************************************************************************)
EXTENDS Lists, FiniteSets

CONSTANTS
    Users,       \* account names
    MS,          \* the name of MemoServ
    MaxMemos,    \* maxmemos, the limit of memoserv/main
    MdLimit,     \* me.mdlimit, the limit FORWARD and receipts go by
    MaxIgnores,  \* MAXMSIGNORES
    ReadAtOnce   \* MAX_READ_AT_ONCE

\* What the constants are.
MemosAssumption ==
    /\ MS \notin Users
    /\ MaxMemos \in Nat \ {0} /\ MdLimit \in Nat
    /\ MaxIgnores \in Nat /\ ReadAtOnce \in Nat \ {0}

VARIABLES
    exist,    \* the accounts there are
    memos,    \* mu->memos
    new,      \* mu->memoct_new
    ignores,  \* mu->memo_ignores
    nomemo    \* the accounts with MU_NOMEMO

vars == <<exist, memos, new, ignores, nomemo>>

Memo == [from : Users \union {MS}, read : BOOLEAN, chan : BOOLEAN]
Limit == IF MaxMemos > MdLimit THEN MaxMemos ELSE MdLimit

TypeOK ==
    /\ exist \subseteq Users /\ nomemo \subseteq exist
    /\ memos \in [Users -> Seq(Memo)] /\ new \in [Users -> Nat]
    /\ ignores \in [Users -> SUBSET Users]

Init ==
    /\ exist = Users
    /\ memos = [u \in Users |-> <<>>] /\ new = [u \in Users |-> 0]
    /\ ignores = [u \in Users |-> {}] /\ nomemo = {}

-----------------------------------------------------------------------------
(* Sending *)

Unread(from, chan) == [from |-> from, read |-> FALSE, chan |-> chan]

\* The unread memos of a list.
UnreadOf(s) == {i \in DOMAIN s : ~s[i].read}

\* The memo is put at the end of the list of each of ts.
Add(ts, memo) ==
    /\ memos' = [u \in Users |-> IF u \in ts THEN Append(memos[u], memo) ELSE memos[u]]
    /\ new' = [u \in Users |-> IF u \in ts THEN new[u] + 1 ELSE new[u]]
    /\ UNCHANGED <<exist, ignores, nomemo>>

\* Those of ts that send_user_memo() delivers to; an ignored sender is not told.
Receives(ts, s) == {t \in ts \ nomemo : Len(memos[t]) < MaxMemos /\ s \notin ignores[t]}
send_user_memo(s, ts, chan) == Add(Receives(ts, s), Unread(s, chan))

ms_cmd_send(s, t) == send_user_memo(s, {t}, FALSE)

\* SENDOPS to a channel and SENDGROUP to a group, whose operators or members
\* with GA_MEMOS are ts.
ms_cmd_sendops(s, ts) == send_user_memo(s, ts \ {s}, TRUE)
ms_cmd_sendgroup(s, ts) == send_user_memo(s, ts \ {s}, TRUE)

\* Mutant of Listening: SENDALL also goes to those that ignore the sender.
AllListen(s) == {t \in exist \ (nomemo \union {s}) : Len(memos[t]) < MaxMemos}

\* Whom SENDALL goes to.
Listening(s) == {t \in exist \ (nomemo \union {s}) : Len(memos[t]) < MaxMemos /\ s \notin ignores[t]}
ms_cmd_sendall(s) == Add(Listening(s), Unread(s, TRUE))

\* What services tell an account themselves (changed access, changed settings).
send_user_memo_misc(t) ==
    /\ t \notin nomemo /\ Len(memos[t]) < MaxMemos
    /\ \E chan \in BOOLEAN : Add({t}, Unread(MS, chan))

ms_cmd_forward(s, t) ==
    /\ s # t /\ memos[s] # <<>> /\ t \notin nomemo
    /\ Len(memos[t]) < MdLimit /\ s \notin ignores[t]
    /\ Add({t}, Unread(s, FALSE))

-----------------------------------------------------------------------------
(* Reading and deleting *)

\* The sender of the memo is sent a memo that it was read, unless the sender is
\* logged in (one of on) and is told at once.
Receipted(m, on) ==
    /\ ~m.read /\ ~m.chan /\ m.from \in exist \ on
    /\ Len(memos[m.from]) < MdLimit

\* u has read the memos numbered in which; if r is not MS, it is sent a receipt.
Read(u, which, r) ==
    LET marked == [i \in DOMAIN memos[u] |->
                      IF i \in which THEN [memos[u][i] EXCEPT !.read = TRUE] ELSE memos[u][i]]
        lists == [memos EXCEPT ![u] = marked]
        seen == Cardinality(which \intersect UnreadOf(memos[u]))
        counts == [new EXCEPT ![u] = @ - seen]
    IN  /\ memos' = IF r = MS THEN lists ELSE [lists EXCEPT ![r] = Append(@, Unread(MS, FALSE))]
        /\ new' = IF r = MS THEN counts ELSE [counts EXCEPT ![r] = @ + 1]
        /\ UNCHANGED <<exist, ignores, nomemo>>

\* READ <number>.
ReadOne(u, i, on) ==
    /\ i \in DOMAIN memos[u]
    /\ Read(u, {i}, IF Receipted(memos[u][i], on) THEN memos[u][i].from ELSE MS)

\* READ NEW.  The loop goes on from the node of a receipt it has made, the end
\* of another list, so that it stops there.
ReadNew(u, on) ==
    LET unread == UnreadOf(memos[u])
        stops == {i \in unread :
                     \/ Receipted(memos[u][i], on)
                     \/ Cardinality({j \in unread : j <= i}) = ReadAtOnce}
        last == IF stops = {} THEN Len(memos[u])
                ELSE CHOOSE i \in stops : \A j \in stops : i <= j
    IN  /\ unread # {}
        /\ Read(u, {i \in unread : i <= last},
                IF last \in stops /\ Receipted(memos[u][last], on) THEN memos[u][last].from ELSE MS)

ms_cmd_read(u, on) == ReadNew(u, on) \/ \E i \in 1 .. Limit : ReadOne(u, i, on)

Numbers(u) == {{i} : i \in DOMAIN memos[u]}
All(u) == DOMAIN memos[u]
Old(u) == DOMAIN memos[u] \ UnreadOf(memos[u])

\* The list without the memos numbered in which.
Without(s, which) == Selected(s, DOMAIN s \ which)

\* Mutant of Deleted: the count of unread memos is not told of a deletion.
DeletedOnly(u, which) ==
    /\ memos' = [memos EXCEPT ![u] = Without(@, which)]
    /\ UNCHANGED new

\* The memos numbered in which are taken out of the list.
Deleted(u, which) ==
    /\ memos' = [memos EXCEPT ![u] = Without(@, which)]
    /\ new' = [new EXCEPT ![u] = @ - Cardinality(which \intersect UnreadOf(memos[u]))]

\* DELETE <number>, ALL or OLD.
ms_cmd_delete(u) ==
    /\ memos[u] # <<>>
    /\ \E which \in Numbers(u) \union {All(u), Old(u)} : Deleted(u, which)
    /\ UNCHANGED <<exist, ignores, nomemo>>

-----------------------------------------------------------------------------
(* Settings, accounts and restarts *)

ms_cmd_ignore_add(u, t) ==
    /\ t # u /\ t \in exist \ ignores[u] /\ Cardinality(ignores[u]) < MaxIgnores
    /\ ignores' = [ignores EXCEPT ![u] = @ \union {t}]
    /\ UNCHANGED <<exist, memos, new, nomemo>>

ms_cmd_ignore_del(u, t) ==
    /\ t \in ignores[u]
    /\ ignores' = [ignores EXCEPT ![u] = @ \ {t}]
    /\ UNCHANGED <<exist, memos, new, nomemo>>

ms_cmd_ignore_clear(u) ==
    /\ ignores[u] # {}
    /\ ignores' = [ignores EXCEPT ![u] = {}]
    /\ UNCHANGED <<exist, memos, new, nomemo>>

ns_cmd_set_nomemo(u) ==
    /\ nomemo' = IF u \in nomemo THEN nomemo \ {u} ELSE nomemo \union {u}
    /\ UNCHANGED <<exist, memos, new, ignores>>

\* The account is dropped with what it had.
myuser_delete(u) ==
    /\ exist' = exist \ {u} /\ nomemo' = nomemo \ {u}
    /\ memos' = [memos EXCEPT ![u] = <<>>] /\ new' = [new EXCEPT ![u] = 0]
    /\ ignores' = [ignores EXCEPT ![u] = {}]

\* The name is registered again.
Register(u) ==
    /\ u \notin exist /\ exist' = exist \union {u}
    /\ UNCHANGED <<memos, new, ignores, nomemo>>

\* Services start again: the records of the database give the lists back, and
\* the count is counted from them.
corestorage_h_me ==
    /\ new' = [u \in Users |-> Cardinality(UnreadOf(memos[u]))]
    /\ UNCHANGED <<exist, memos, ignores, nomemo>>

Next ==
    \/ \E s \in exist :
         \/ \E t \in exist : ms_cmd_send(s, t) \/ ms_cmd_forward(s, t)
                               \/ ms_cmd_ignore_add(s, t)
         \/ \E ts \in SUBSET exist : ms_cmd_sendops(s, ts) \/ ms_cmd_sendgroup(s, ts)
         \/ ms_cmd_sendall(s) \/ send_user_memo_misc(s)
         \/ \E on \in SUBSET exist : ms_cmd_read(s, on)
         \/ ms_cmd_delete(s)
         \/ \E t \in Users : ms_cmd_ignore_del(s, t)
         \/ ms_cmd_ignore_clear(s) \/ ns_cmd_set_nomemo(s) \/ myuser_delete(s)
    \/ \E u \in Users : Register(u)
    \/ corestorage_h_me

Spec == Init /\ [][Next]_vars

-----------------------------------------------------------------------------

\* memoct_new is the number of unread memos in the list, which never grows past
\* the larger of the two limits: the notices at login and the end of READ NEW
\* go by the count.
UnreadCounted ==
    \A u \in Users :
        /\ new[u] = Cardinality(UnreadOf(memos[u]))
        /\ Len(memos[u]) <= Limit

\* Nobody is sent a memo by an account it ignores, or any but receipts while it
\* has NOMEMO, whichever command the memo was sent with.
Unwanted ==
    \E t \in exist : \E i \in DOMAIN memos'[t] :
        /\ i > Len(memos[t])
        /\ \/ memos'[t][i].from \in ignores[t]
           \/ t \in nomemo /\ memos'[t][i].from # MS
=============================================================================
