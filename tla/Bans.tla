------------------------------- MODULE Bans --------------------------------
(***************************************************************************)
(* Network bans: AKILLs (k-lines), SGLINEs (x-lines) and SQLINEs (q-lines) *)
(* (libathemecore/node.c, modules/operserv/akill.c, sgline.c, sqline.c).   *)
(*                                                                         *)
(* Services keep a list of each kind, save it with the database and expire *)
(* it by a timer.  The servers keep bans of their own, which services only *)
(* ever set and lift by mask: nothing tells them what the servers hold.    *)
(*                                                                         *)
(* Times are minutes from now; the end of a permanent ban is Permanent,    *)
(* which does not come closer.  A ban that is over has 0 left; it stays on *)
(* the list until the timer runs.                                          *)
(***************************************************************************)
EXTENDS Integers, Sequences, FiniteSets, SequencesExt, Lists

CONSTANTS
    Kinds,       \* the lists: "kline", "xline", "qline", or fewer
    Masks,       \* masks that the commands accept
    Matches,     \* the pairs <<mask, name>> of masks that match() accepts; a mask with an
                 \* escaped wildcard does not match its own text
    Ranges,      \* those that only match_ips() accepts: a CIDR range, an address
    Clients,
    MaskOf,      \* the mask that names just this client: its address, name or nick
    Exempt,      \* clients the servers exempt from bans
    Durations,   \* of timed bans
    Permanent,   \* longer than any of these
    KeepSpecific,\* kline_do_not_remove_more_specific
    MaxBans,     \* bound: bans listed, of all kinds
    MaxId        \* bound: bans numbered, of all kinds

\* What the constants are.
BansAssumption ==
    /\ Kinds \subseteq {"kline", "xline", "qline"}
    /\ Matches \subseteq Masks \X Masks /\ Ranges \subseteq Masks \X Masks
    /\ MaskOf \in [Clients -> Masks] /\ Exempt \subseteq Clients
    /\ Durations \subseteq Nat \ {0}
    /\ Permanent \in Nat /\ \A d \in Durations : d < Permanent
    /\ KeepSpecific \in BOOLEAN /\ MaxBans \in Nat /\ MaxId \in Nat

VARIABLES
    lines,      \* klnlist, xlnlist, qlnlist
    lastid,     \* me.kline_id; xcnt and qcnt
    disk,       \* the lists in the database, and the KID row
    connected,  \* me.connected
    online,     \* clients that services know of
    klinesent,  \* of these, the ones with UF_KLINESENT
    net         \* the bans the servers hold: minutes left, 0 for none

vars == <<lines, lastid, disk, connected, online, klinesent, net>>

Ends == Durations \union {Permanent}
Active(b) == b.left > 0
Covers(m, n) == <<m, n>> \in Matches \union Ranges

Init ==
    /\ lines = [k \in Kinds |-> <<>>]
    /\ lastid = [k \in Kinds |-> 0]
    /\ disk = [lines |-> lines, kid |-> 0]
    /\ connected = TRUE
    /\ online = {} /\ klinesent = {}
    /\ net = [k \in Kinds |-> [m \in Masks |-> 0]]

-----------------------------------------------------------------------------
(* What the servers do with it.                                            *)

\* A server that has a ban on the mask keeps that one or takes the new one.
\* sts() drops everything while there is no uplink.
Sent(n, k, bans) ==
    IF ~connected THEN {n}
    ELSE {[n EXCEPT ![k] = f] : f \in {g \in [Masks -> {0} \union 1 .. Permanent] :
            \A m \in Masks :
               LET new == {b.left : b \in {b \in bans : b.mask = m}}
               IN  g[m] \in IF new = {} THEN {n[k][m]} ELSE new \union ({n[k][m]} \ {0})}}

\* They are lifted, but for those that are over, which the servers drop themselves.
Lifted(n, k, bans) ==
    [n EXCEPT ![k] = [m \in Masks |-> IF connected /\ \E b \in bans : Active(b) /\ b.mask = m THEN 0 ELSE @[m]]]

-----------------------------------------------------------------------------
(* The lists.                                                              *)

\* kline_find and xline_find take the first that matches the mask, over or
\* not; qline_find compares.
Found(k, list, m) ==
    {i \in DOMAIN list : IF k = "qline" THEN list[i].mask = m ELSE <<list[i].mask, m>> \in Matches}

First(I) == CHOOSE i \in I : \A j \in I : i <= j

Without(list, I) == Selected(list, DOMAIN list \ I)

\* The bounds.
Room(k, kept) ==
    /\ Cardinality({b \in Kinds \X (1 .. MaxId) : b[2] <= lastid[b[1]]}) < MaxId
    /\ Cardinality({b \in Kinds \X (1 .. MaxBans) :
           b[2] <= IF b[1] = k THEN Len(kept) ELSE Len(lines[b[1]])}) < MaxBans

\* Mutant of line_add: the number is taken before the counter counts.
LateCountingAdd(k, m, left, kept, n) ==
    /\ Room(k, kept)
    /\ lines' = [lines EXCEPT ![k] = Append(kept, [mask |-> m, left |-> left, number |-> lastid[k]])]
    /\ lastid' = [lastid EXCEPT ![k] = @ + 1]
    /\ net' \in Sent(n, k, {[mask |-> m, left |-> left]})

\* kline_add, xline_add and qline_add.
line_add(k, m, left, kept, n) ==
    /\ Room(k, kept)
    /\ lines' = [lines EXCEPT ![k] = Append(kept, [mask |-> m, left |-> left, number |-> lastid[k] + 1])]
    /\ lastid' = [lastid EXCEPT ![k] = @ + 1]
    /\ net' \in Sent(n, k, {[mask |-> m, left |-> left]})

\* Mutant of line_delete: the servers are told of timed bans only.
LiftTimedOnly(k, gone) ==
    /\ lines' = [lines EXCEPT ![k] = Without(@, gone)]
    /\ net' = Lifted(net, k, {b \in {lines[k][i] : i \in gone} : b.left # Permanent})
    /\ UNCHANGED <<lastid, disk, connected, online, klinesent>>

\* kline_delete, xline_delete and qline_delete of the bans at some positions.
line_delete(k, gone) ==
    /\ lines' = [lines EXCEPT ![k] = Without(@, gone)]
    /\ net' = Lifted(net, k, {lines[k][i] : i \in gone})
    /\ UNCHANGED <<lastid, disk, connected, online, klinesent>>

\* What goes for the ban at i, while those at left are on the list: a k-line is
\* deleted by its address, the others by their mask, and then it is the first that
\* the search for the mask comes upon, if any.
Victims(k, left, i) ==
    LET I == IF k = "kline" THEN {i} ELSE Found(k, lines[k], lines[k][i].mask) \intersect left
    IN  {v \in I : \A j \in I : v <= j}

-----------------------------------------------------------------------------
(* Commands.                                                               *)

\* Mutant of Redundant: also those that outlive the new one.
AnyCovered(m, left) ==
    {i \in DOMAIN lines["kline"] : ~KeepSpecific /\ Covers(m, lines["kline"][i].mask)}

\* The AKILLs a new one makes redundant: those it covers that end no later.
Redundant(m, left) ==
    {i \in DOMAIN lines["kline"] :
        /\ ~KeepSpecific
        /\ Covers(m, lines["kline"][i].mask)
        /\ lines["kline"][i].left <= left}

os_cmd_akill_add(m, left) ==
    LET list == lines["kline"]
        gone == Redundant(m, left)
    IN  /\ "kline" \in Kinds
        /\ Found("kline", list, m) = {}
        /\ line_add("kline", m, left, Without(list, gone), Lifted(net, "kline", {list[i] : i \in gone}))
        /\ UNCHANGED <<disk, connected, online, klinesent>>

\* Mutant of line_cmd_add: a mask that is matched already is added too.
UncheckedAdd(k, m, left) ==
    /\ k \in Kinds \ {"kline"}
    /\ line_add(k, m, left, lines[k], net)
    /\ UNCHANGED <<disk, connected, online, klinesent>>

\* SGLINE ADD and SQLINE ADD.
line_cmd_add(k, m, left) ==
    /\ k \in Kinds \ {"kline"}
    /\ Found(k, lines[k], m) = {}
    /\ line_add(k, m, left, lines[k], net)
    /\ UNCHANGED <<disk, connected, online, klinesent>>

\* DEL with a number: the first ban that has it.
DelNumber(k, n) ==
    LET I == {i \in DOMAIN lines[k] : lines[k][i].number = n}
    IN  I # {} /\ line_delete(k, Victims(k, DOMAIN lines[k], First(I)))

\* DEL with a mask: the first ban that matches it.
DelMask(k, m) ==
    LET I == Found(k, lines[k], m)
    IN  I # {} /\ line_delete(k, {First(I)})

\* SYNC sends every ban that is not over.
Sync(k) ==
    /\ net' \in Sent(net, k, {lines[k][i] : i \in {i \in DOMAIN lines[k] : Active(lines[k][i])}})
    /\ UNCHANGED <<lines, lastid, disk, connected, online, klinesent>>

\* Services ban a client themselves: it floods services (floodcheck) or a
\* channel (antiflood_enforce_kline), or CLEARCHAN hits it (clear).  Nobody
\* looks whether it is banned already.
kline_add_user(u, left, clear) ==
    /\ "kline" \in Kinds /\ connected /\ u \in online
    /\ clear => u \notin klinesent
    /\ line_add("kline", MaskOf[u], left, lines["kline"], net)
    /\ klinesent' = IF clear THEN klinesent \union {u} ELSE klinesent
    /\ UNCHANGED <<disk, connected, online>>

-----------------------------------------------------------------------------
(* Clients, the uplink and time.                                           *)

\* The ban of a kind a client meets: the first that is not over.
Hit(k, u) ==
    {i \in DOMAIN lines[k] :
        /\ Active(lines[k][i])
        /\ IF k = "kline" THEN Covers(lines[k][i].mask, MaskOf[u])
                          ELSE <<lines[k][i].mask, MaskOf[u]>> \in Matches}

\* What the servers have after it was sent to them again; those in keep had
\* a ban on the mask and keep it.
Resent(k, u, keep) ==
    IF Hit(k, u) = {} THEN net[k]
    ELSE LET b == lines[k][First(Hit(k, u))]
         IN  IF k \in keep /\ net[k][b.mask] > 0 THEN net[k] ELSE [net[k] EXCEPT ![b.mask] = b.left]

Barred(u) ==
    u \notin Exempt /\ \E k \in Kinds, m \in Masks : net[k][m] > 0 /\ Covers(m, MaskOf[u])

\* A client is introduced: a server had not the ban.  It gets it again.
UserAdd(u) ==
    /\ connected /\ u \notin online /\ ~Barred(u)
    /\ online' = online \union {u}
    /\ klinesent' = IF "kline" \in Kinds /\ Hit("kline", u) # {} THEN klinesent \union {u} ELSE klinesent
    /\ \E keep \in SUBSET Kinds : net' = [k \in Kinds |-> Resent(k, u, keep)]
    /\ UNCHANGED <<lines, lastid, disk, connected>>

\* It changes its nick, or joins a channel, that is banned.
MeetQline(u) ==
    /\ "qline" \in Kinds /\ u \in online
    /\ \E keep \in SUBSET {"qline"} : net' = [net EXCEPT !["qline"] = Resent("qline", u, keep)]
    /\ UNCHANGED <<lines, lastid, disk, connected, online, klinesent>>

UserDelete(u) ==
    /\ u \in online
    /\ online' = online \ {u} /\ klinesent' = klinesent \ {u}
    /\ UNCHANGED <<lines, lastid, disk, connected, net>>

Disconnect ==
    /\ connected /\ connected' = FALSE
    /\ online' = {} /\ klinesent' = {}
    /\ UNCHANGED <<lines, lastid, disk, net>>

Connect ==
    /\ ~connected /\ connected' = TRUE
    /\ UNCHANGED <<lines, lastid, disk, online, klinesent, net>>

\* The loop that deletes each ban that is over: what is gone when it has come to
\* each position.
Expired(k) ==
    LET list == lines[k]
        gone[i \in 0 .. Len(list)] ==
            IF i = 0 THEN {}
            ELSE IF Active(list[i]) \/ i \in gone[i - 1] THEN gone[i - 1]
            ELSE gone[i - 1] \union Victims(k, DOMAIN list \ gone[i - 1], i)
    IN  gone

\* Where the loop ends: after the list, or where it has deleted the ban that comes
\* next.  It reads the freed node of that one, and may go on or not.
LoopEnds(k) ==
    LET gone == Expired(k)
        After(i) == {j \in DOMAIN lines[k] \ gone[i - 1] : j > i}
    IN  {Len(lines[k])} \union {i \in DOMAIN lines[k] : After(i) # {} /\ First(After(i)) \in gone[i]}

\* kline_expire, xline_expire and qline_expire.
line_expire(k) ==
    /\ \E i \in DOMAIN lines[k] : ~Active(lines[k][i])
    /\ \E end \in LoopEnds(k) : line_delete(k, Expired(k)[end])

Sooner(left) == IF left \in {0, Permanent} THEN left ELSE left - 1
Age(list) == [i \in DOMAIN list |-> [list[i] EXCEPT !.left = Sooner(@)]]

\* A minute passes; the servers drop the bans that are over.
Tick ==
    /\ lines' = [k \in Kinds |-> Age(lines[k])]
    /\ disk' = [disk EXCEPT !.lines = [k \in Kinds |-> Age(disk.lines[k])]]
    /\ net' = [k \in Kinds |-> [m \in Masks |-> Sooner(net[k][m])]]
    /\ UNCHANGED <<lastid, connected, online, klinesent>>

-----------------------------------------------------------------------------
(* The database.                                                           *)

Save ==
    /\ disk' = [lines |-> lines, kid |-> IF "kline" \in Kinds THEN lastid["kline"] ELSE 0]
    /\ UNCHANGED <<lines, lastid, connected, online, klinesent, net>>

\* Mutant of LoadedId: every counter counts the bans loaded.
CountLoaded(k) == Len(disk.lines[k])

\* The counters after a load: KID is read, the others count the bans loaded.
LoadedId(k) == IF k = "kline" THEN disk.kid ELSE Len(disk.lines[k])

\* Services stop, or crash, and start again.
Restart ==
    /\ lines' = disk.lines
    /\ lastid' = [k \in Kinds |-> LoadedId(k)]
    /\ connected' = FALSE /\ online' = {} /\ klinesent' = {}
    /\ UNCHANGED <<disk, net>>

Command ==
    \/ \E m \in Masks, left \in Ends : os_cmd_akill_add(m, left)
    \/ \E k \in Kinds, m \in Masks, left \in Ends : line_cmd_add(k, m, left)
    \/ \E k \in Kinds, n \in 1 .. MaxId : DelNumber(k, n)
    \/ \E k \in Kinds, m \in Masks : DelMask(k, m)
    \/ \E k \in Kinds : Sync(k)
    \/ \E u \in Clients, left \in Durations, clear \in BOOLEAN : kline_add_user(u, left, clear)

Next ==
    \/ Command
    \/ \E u \in Clients : UserAdd(u) \/ MeetQline(u) \/ UserDelete(u)
    \/ Disconnect \/ Connect
    \/ \E k \in Kinds : line_expire(k)
    \/ Tick
    \/ Save \/ Restart

Spec == Init /\ [][Next]_vars

-----------------------------------------------------------------------------
(* Properties.                                                             *)

Bans(left) == [mask : Masks, left : left, number : 1 .. MaxId]
Lists == [Kinds -> UNION {[1 .. n -> Bans(0 .. Permanent)] : n \in 0 .. MaxBans}]

\* Every variable has its type.
TypeOK ==
    /\ lines \in Lists
    /\ lastid \in [Kinds -> 0 .. MaxId]
    /\ disk \in [lines : Lists, kid : 0 .. MaxId]
    /\ connected \in BOOLEAN
    /\ online \subseteq Clients /\ klinesent \subseteq online
    /\ net \in [Kinds -> [Masks -> 0 .. Permanent]]

Distinct(list) == \A i, j \in DOMAIN list : list[i].number = list[j].number => i = j

\* AKILL DEL names an AKILL by its number, which is kept over restarts: no
\* two AKILLs ever have the same, in the list or in the database.
AkillNumbersDistinct ==
    "kline" \in Kinds => Distinct(lines["kline"]) /\ Distinct(disk.lines["kline"])

\* A search for the mask of an SGLINE that is over stops at that one or before.
Findable == "xline" \in Kinds => \A i \in DOMAIN lines["xline"] :
    Active(lines["xline"][i]) \/ i \in Found("xline", lines["xline"], lines["xline"][i].mask)

OnlyOverExpire ==
    \A k \in Kinds : line_expire(k) =>
        lines'[k] = Selected(lines[k], {i \in DOMAIN lines[k] : Active(lines[k][i])})

\* The timer deletes the bans that are over, and no other, although it
\* deletes SGLINEs and SQLINEs by searching for their mask: a wider ban that
\* runs on is never taken for the narrower one that is over, while the SGLINEs that
\* are over match their own masks.
ExpireExact == [][Findable => OnlyOverExpire]_vars

\* So without that exception.  (Not so: an SGLINE with an escaped wildcard is not
\* found when it is over, and a wider one added after it goes instead.)
TimerExact == [][OnlyOverExpire]_vars

CoveredUntil(u) == Max({0} \union {lines["kline"][i].left : i \in Hit("kline", u)})

\* What matches a mask matches any that covers it.  So it is with names and
\* with ranges; but a mask may match the text of a range that it does not cover.
Nested == \A l, m, n \in Masks : Covers(l, m) /\ Covers(m, n) => Covers(l, n)

\* An AKILL ADD leaves no client free earlier than it was to be before.
NobodyFreed ==
    \A m \in Masks, left \in Ends : os_cmd_akill_add(m, left) =>
        \A u \in Clients : CoveredUntil(u)' >= CoveredUntil(u)

\* So the AKILLs that it removes, which end at different times, are redundant,
\* while masks are nested.
CoverageKept == [][NobodyFreed \/ ~Nested]_vars

\* "They are now redundant" of any masks.  (Not so: 10.* matches 10.0.0.0/7.)
OnlyRedundantRemoved == [][NobodyFreed]_vars

\* The bans of the servers that services would not lift: no ban on the list
\* has this mask and lasts as long.
Unbacked ==
    {b \in Kinds \X Masks :
        LET k == b[1]
            m == b[2]
        IN  /\ net[k][m] > 0
            /\ ~ \E i \in DOMAIN lines[k] : lines[k][i].mask = m /\ lines[k][i].left >= net[k][m]}

NothingStrays == connected /\ connected' => Unbacked' \subseteq Unbacked

\* While services are up and linked, they never lose track of a ban they
\* have set: what leaves the list is lifted, or over.
NoStrayBans == [][NothingStrays]_vars

\* SGLINE DEL names an SGLINE by its number on the list; but the counter
\* starts again with every start, and the numbers are kept.
SglineNumbersDistinct == "xline" \in Kinds => Distinct(lines["xline"])

OnMask(list, m) == {i \in DOMAIN list : list[i].mask = m}

\* AKILL DEL answers that the AKILL on the mask it was given was removed.
\* It removes the first that matches the mask: with an AKILL on the mask on
\* the list, another may go.
DelRemovesNamed ==
    [][\A m \in Masks : DelMask("kline", m) /\ OnMask(lines["kline"], m) # {} =>
           Cardinality(OnMask(lines'["kline"], m)) < Cardinality(OnMask(lines["kline"], m))]_vars
=============================================================================
