------------------------------- MODULE Uplink -------------------------------
(***************************************************************************)
(* The connection to the network: which uplink{} services try, the         *)
(* reconnect timer, the ping timer that notices a dead uplink, and a rehash *)
(* that changes the list under a live connection (libathemecore/uplink.c,  *)
(* packet.c, node.c, conf.c and connection.c).                             *)
(*                                                                         *)
(* Time goes by in units; a timer that is due runs before time goes on.    *)
(* The connection's queues are module Datastream; here CF_DEAD may be set  *)
(* at any time, by a full send queue or a failed write.                    *)
(***************************************************************************)
EXTENDS Integers, Sequences

CONSTANTS
    Uplinks,     \* the names an uplink{} block can have
    Period,      \* the period of ping_uplink_timer, 300 s, in units
    DeadAfter,   \* the silence that ends a connection, 600 s, in units
    MaxRehash,   \* bound: how often the configuration is read again
    MaxBlocks,   \* bound: uplink{} blocks in a file
    None

ASSUME UplinkAssumption ==
    /\ None \notin Uplinks /\ None \notin 0..Period
    /\ Period \in Nat \ {0} /\ DeadAfter \in Nat \ {0}
    /\ MaxRehash \in Nat /\ MaxBlocks \in Nat

VARIABLES
    booting,    \* main() has not called uplink_connect() yet
    exited,     \* uplink_close() has left the process
    uplinks,    \* the list uplinks, in order
    illegal,    \* the entries with UPF_ILLEGAL
    conf,       \* history: the uplink{} blocks of the last accepted file
    curr,       \* curr_uplink
    conn,       \* curr_uplink->conn: none, connecting or up
    connected,  \* me.connected
    dead,       \* the connection has CF_DEAD
    reconn,     \* how many reconn timers are pending
    pingleft,   \* time to the next run of ping_uplink_timer, None if NULL
    strays,     \* the same for ping timers that nothing points to any more
    age,        \* CURRTIME - me.uplinkpong while connected
    rehashes    \* how often conf_rehash() has run

listVars == <<uplinks, illegal, conf, rehashes>>
pingVars == <<pingleft, strays, age>>
vars == <<booting, exited, listVars, curr, conn, connected, dead, reconn,
          pingVars>>

\* The entries of a list.
Entries(l) == {l[i] : i \in 1..Len(l)}

\* The part of the list l that is in S: uplink_delete() for the others.
Only(l, S) == SelectSeq(l, LAMBDA u : u \in S)

\* The files' uplink{} blocks: uplink_add() refuses a duplicate.
Configs == {l \in UNION {[1..n -> Uplinks] : n \in 0..MaxBlocks} :
               \A i, j \in 1..Len(l) : l[i] = l[j] => i = j}

-----------------------------------------------------------------------------
(* uplink_connect() *)

\* Mutant of NextUplink: the last entry is tried over and over.
NextUplinkNoWrap(u) ==
    LET i == CHOOSE k \in 1..Len(uplinks) : uplinks[k] = u
    IN  IF i < Len(uplinks) THEN uplinks[i + 1] ELSE u

\* The entry after u, the first after the last.
NextUplink(u) ==
    LET i == CHOOSE k \in 1..Len(uplinks) : uplinks[k] = u
    IN  IF i < Len(uplinks) THEN uplinks[i + 1] ELSE uplinks[1]

\* What opening a connection comes to: a connect() under way, or NULL when the
\* resolver, the socket, the vhost or connect() itself fails.
connection_open_tcp == {"connecting", "none"}

\* Mutant of TryConnect: an uplink that cannot be opened is given up.
TryConnectOnce(n) ==
    /\ reconn' = n
    /\ \/ /\ curr = None /\ uplinks = <<>>
          /\ UNCHANGED <<curr, conn>>
       \/ /\ curr # None \/ uplinks # <<>>
          /\ curr' = IF curr = None THEN uplinks[1] ELSE NextUplink(curr)
          /\ conn' \in connection_open_tcp

\* Without uplinks nothing is tried, now or later.  A connection that cannot
\* be opened is tried again later.  n is how many reconn timers are pending.
TryConnect(n) ==
    \/ /\ curr = None /\ uplinks = <<>>
       /\ reconn' = n
       /\ UNCHANGED <<curr, conn>>
    \/ /\ curr # None \/ uplinks # <<>>
       /\ curr' = IF curr = None THEN uplinks[1] ELSE NextUplink(curr)
       /\ conn' \in connection_open_tcp
       /\ reconn' = IF conn' = "none" THEN n + 1 ELSE n

\* main() calls it once, before the event loop.
Boot ==
    /\ booting /\ booting' = FALSE
    /\ TryConnect(reconn)
    /\ UNCHANGED <<exited, listVars, connected, dead, pingVars>>

\* reconn(), from a timer that runs once.
Reconn ==
    /\ ~exited /\ reconn > 0
    /\ \/ ~connected /\ TryConnect(reconn - 1)
       \/ connected /\ reconn' = reconn - 1 /\ UNCHANGED <<curr, conn>>
    /\ UNCHANGED <<booting, exited, listVars, connected, dead, pingVars>>

-----------------------------------------------------------------------------
(* The connection and its ping timer *)

\* irc_handle_connect(): the socket is writable, connected or not (a refused
\* connection shows in the next recv()).
HandleConnect ==
    /\ ~exited /\ conn = "connecting"
    /\ conn' = "up" /\ connected' = TRUE /\ dead' = FALSE
    /\ pingleft' = Period
    /\ age' = 0
    /\ UNCHANGED <<booting, exited, listVars, curr, reconn, strays>>

\* irc_recvq_handler(): a line has come.
RecvLine ==
    /\ ~exited /\ conn = "up" /\ ~dead
    /\ age' = 0
    /\ UNCHANGED <<booting, exited, listVars, curr, conn, connected, dead,
                   reconn, pingleft, strays>>

\* sendq_add() over the limit, or sendq_flush() with a write error.
SendFails ==
    /\ ~exited /\ conn = "up" /\ ~dead
    /\ dead' = TRUE
    /\ UNCHANGED <<booting, exited, listVars, curr, conn, connected, reconn,
                   pingVars>>

\* uplink_close(): an entry that was removed from the configuration goes now,
\* and the process with the last one.
UplinkClose ==
    /\ reconn' = reconn + 1
    /\ connected' = FALSE /\ conn' = "none" /\ dead' = FALSE
    /\ \/ /\ curr \notin illegal
          /\ UNCHANGED <<uplinks, illegal, exited, curr>>
       \/ /\ curr \in illegal
          /\ uplinks' = Only(uplinks, Uplinks \ {curr})
          /\ illegal' = illegal \ {curr}
          /\ exited' = (uplinks' = <<>>)
          /\ curr' = IF uplinks' = <<>> THEN None ELSE uplinks'[1]
    /\ UNCHANGED <<booting, conf, rehashes>>

\* recvq_put(): the peer has closed, the read fails, or CF_DEAD is set.
RecvClosed ==
    /\ ~exited /\ conn = "up"
    /\ UplinkClose
    /\ age' = 0
    /\ UNCHANGED <<pingleft, strays>>

\* Mutant of Check: uplinkpong is looked at while disconnected only.
CheckNever ==
    /\ age' = age
    /\ UNCHANGED <<booting, exited, listVars, curr, conn, connected, dead,
                   reconn>>

\* What ping_uplink() does to the connection.
Check ==
    \/ /\ connected /\ age >= DeadAfter
       /\ UplinkClose
       /\ age' = 0
    \/ /\ ~connected \/ age < DeadAfter
       /\ UNCHANGED <<booting, exited, listVars, curr, conn, connected, dead,
                      reconn, age>>

\* ping_uplink(), from the timer ping_uplink_timer points to.  The timer goes
\* on when the pointer is cleared.
PingUplink ==
    /\ ~exited /\ pingleft = 0
    /\ Check
    /\ \/ connected' /\ pingleft' = Period /\ strays' = strays
       \/ ~connected' /\ pingleft' = None /\ strays' = strays \union {Period}

\* ping_uplink(), from a timer nothing points to: it clears the pointer too.
StrayPing ==
    /\ ~exited /\ 0 \in strays
    /\ Check
    /\ LET again == (strays \ {0}) \union {Period} IN
       \/ /\ connected' \/ pingleft = None
          /\ strays' = again /\ pingleft' = pingleft
       \/ /\ ~connected' /\ pingleft # None
          /\ strays' = again \union {pingleft} /\ pingleft' = None

Due == pingleft = 0 \/ 0 \in strays

\* Time goes on once the timers that are due have run.
Tick ==
    /\ ~exited /\ ~booting /\ ~Due
    /\ pingleft' = IF pingleft = None THEN None ELSE pingleft - 1
    /\ strays' = {t - 1 : t \in strays}
    /\ age' = IF connected /\ age < DeadAfter + Period THEN age + 1 ELSE age
    /\ UNCHANGED <<booting, exited, listVars, curr, conn, connected, dead,
                   reconn>>

-----------------------------------------------------------------------------
(* conf_rehash() *)

\* What uplink_add() appends for the blocks of a file.
Added(l) == Only(l, Uplinks \ Entries(uplinks))

\* remove_illegals() spares the entry in use.
RemoveIllegals(l, new) ==
    /\ uplinks' = Only(l, Entries(new) \union {curr})
    /\ illegal' = {curr} \ (Entries(new) \union {None})

\* The file is read, and accepted or not.  A refused file has added its
\* uplinks, and unmark_all_illegal() makes every entry legal.
Rehash(new, accepted) ==
    /\ ~exited /\ ~booting /\ rehashes < MaxRehash
    /\ rehashes' = rehashes + 1
    /\ \/ /\ accepted
          /\ RemoveIllegals(uplinks \o Added(new), new)
          /\ conf' = Entries(new)
       \/ /\ ~accepted
          /\ uplinks' = uplinks \o Added(new) /\ illegal' = {}
          /\ conf' = conf
    /\ UNCHANGED <<booting, exited, curr, conn, connected, dead, reconn,
                   pingVars>>

-----------------------------------------------------------------------------
(* The specification *)

Init ==
    /\ booting = TRUE /\ exited = FALSE
    /\ uplinks \in Configs /\ illegal = {} /\ conf = Entries(uplinks)
    /\ curr = None /\ conn = "none" /\ connected = FALSE /\ dead = FALSE
    /\ reconn = 0
    /\ pingleft = None /\ strays = {} /\ age = 0
    /\ rehashes = 0

Next ==
    \/ Boot \/ Reconn \/ HandleConnect \/ RecvLine \/ SendFails \/ RecvClosed
    \/ PingUplink \/ StrayPing \/ Tick
    \/ \E new \in Configs, accepted \in BOOLEAN : Rehash(new, accepted)

Spec == Init /\ [][Next]_vars

\* The event loop runs every timer, and the kernel ends every connect().
Fairness == WF_vars(Boot) /\ WF_vars(Reconn) /\ WF_vars(HandleConnect)

FairSpec == Spec /\ Fairness

-----------------------------------------------------------------------------
(* Properties *)

\* Every variable keeps its type; the list has no entry twice, and curr_uplink
\* is always one of its entries, never one that uplink_delete() has freed
\* (node.c:113).
TypeOK ==
    /\ booting \in BOOLEAN /\ exited \in BOOLEAN
    /\ \A i \in 1..Len(uplinks) : uplinks[i] \in Uplinks
    /\ \A i, j \in 1..Len(uplinks) : uplinks[i] = uplinks[j] => i = j
    /\ illegal \subseteq Entries(uplinks) /\ conf \subseteq Uplinks
    /\ curr \in Entries(uplinks) \union {None}
    /\ conn \in {"none", "connecting", "up"}
    /\ connected \in BOOLEAN /\ dead \in BOOLEAN
    /\ reconn \in Nat
    /\ pingleft \in 0..Period \union {None} /\ strays \subseteq 0..Period
    /\ age \in 0..(DeadAfter + Period)

\* Once services have an uplink there is always exactly one thing under way:
\* a connection, or one reconn timer.  Without it services would stay off the
\* network (uplink.c:163 and 186), with two they would connect twice.
OneAttempt ==
    ~booting /\ ~exited /\ curr # None =>
        reconn = (IF conn = "none" THEN 1 ELSE 0)

\* ping_uplink(): an uplink that says nothing is dropped at the first ping
\* after DeadAfter, although the check runs on a timer of its own that is not
\* in step with the silence (packet.c:66-78).
SilentUplinkDropped ==
    connected => age < DeadAfter + Period

\* The uplinks of the accepted configuration stay usable: neither a refused
\* file nor the end of a connection loses one (node.c:92-116, uplink.c:190).
ConfiguredKept ==
    ~exited => conf \subseteq Entries(uplinks) \ illegal

\* Once services have tried one uplink, every uplink that stays in the list
\* is tried again and again as long as connections keep ending
\* (uplink.c:141-154).
AllTried ==
    \A u \in Uplinks :
        (/\ <>[](u \in Entries(uplinks))
         /\ []<>(conn = "none") /\ <>(curr # None) /\ []~exited)
            => []<>(curr = u)

\* packet.c:108: "ping our uplink every 5 minutes": no second timer does.
OnePingTimer == connected => strays = {}

=============================================================================
