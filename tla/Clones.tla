------------------------------ MODULE Clones -------------------------------
(***************************************************************************)
(* Clone detection (modules/operserv/clones.c): the clients of every IP    *)
(* address, the limits that apply to it, and what is done with a client    *)
(* that exceeds them: a warning, a kill, or a k-line after so many kills.  *)
(*                                                                         *)
(* It all happens in the hook that is called while a client is introduced; *)
(* a warning only sends a message and is left out, but for its limit.      *)
(* Times are minutes from now: an exemption that is over has 0 left, a     *)
(* permanent one has Permanent.                                            *)
(***************************************************************************)
EXTENDS Integers, Sequences, FiniteSets, SequencesExt

CONSTANTS
    Clients,
    IPs,
    IP,           \* the address of a client
    Masks,        \* addresses and CIDR masks of exemptions
    Ranges,       \* the pairs <<mask, address>> that match_ips() accepts
    Immune,       \* clients that are is_autokline_exempt()
    Limits,       \* numbers of clones in the commands; 0 is no limit
    DefaultAllowed,  \* default_clone_allowed
    Increase,     \* clone_identified_increase_limit
    Counts,       \* kills before a k-line, in CLONES KLINE: 0, 1, ...
    Window,       \* CLONES_GRACE_TIMEPERIOD
    Durations, Permanent,
    MaxExempts    \* bound: exemptions

\* What the constants have to be.
ClonesAssumption ==
    /\ IP \in [Clients -> IPs]
    /\ IPs \subseteq Masks /\ Ranges \subseteq Masks \X IPs
    /\ Immune \subseteq Clients
    /\ Limits \subseteq Nat
    /\ Counts \subseteq Nat /\ \A n \in Counts : 0 .. n \subseteq Counts
    /\ DefaultAllowed \in Nat \ {0}
    /\ Increase \in BOOLEAN
    /\ Window \in Nat \ {0} /\ MaxExempts \in Nat
    /\ Durations \subseteq Nat \ {0}
    /\ Permanent \in Nat /\ \A d \in Durations : d < Permanent

VARIABLES
    hostlist,   \* for each address its clients, gracekills, and for how long
                \*   firstkill will be recent
    exempts,    \* clone_exempts
    clones_allowed,
    kline,      \* kline_enabled and grace_count
    online,     \* the clients services know of
    loggedin,   \* of these, the ones logged in
    klinesent,  \* of these, the ones with UF_KLINESENT
    lastkill    \* history: minutes since the last kill for clones, by address

vars == <<hostlist, exempts, clones_allowed, kline, online, loggedin, klinesent, lastkill>>

Ends == Durations \union {Permanent}
NoHost == [clients |-> {}, gracekills |-> 0, period |-> 0]
Over(c) == c.left = 0

Init ==
    /\ hostlist = [ip \in IPs |-> NoHost]
    /\ exempts = <<>>
    /\ clones_allowed = DefaultAllowed
    /\ kline = [enabled |-> FALSE, grace |-> 0]
    /\ online = {} /\ loggedin = {} /\ klinesent = {}
    /\ lastkill = [ip \in IPs |-> Window + 1]

-----------------------------------------------------------------------------
(* Limits.                                                                 *)

First(I) == CHOOSE i \in I : \A j \in I : i <= j

\* The exemption of the address, else the first whose mask contains it; over
\* or not.
find_exempt(ip) ==
    LET exact == {i \in DOMAIN exempts : exempts[i].mask = ip}
        cidr == {i \in DOMAIN exempts : <<exempts[i].mask, ip>> \in Ranges}
    IN  IF exact # {} THEN First(exact) ELSE IF cidr # {} THEN First(cidr) ELSE 0

\* What the operators have set for the address.
Base(ip) == IF find_exempt(ip) = 0 THEN clones_allowed ELSE exempts[find_exempt(ip)].allowed

\* Mutant of Raised: the cap is left out.
UncappedRaise(limit, identified) == IF ~Increase \/ limit = 0 THEN limit ELSE limit + identified

\* Clients that are logged in raise a limit, to at most twice of it.
Raised(limit, identified) ==
    IF ~Increase \/ limit = 0 THEN limit
    ELSE IF limit + identified > 2 * limit THEN 2 * limit ELSE limit + identified

-----------------------------------------------------------------------------
(* Clients.                                                                *)

\* The clients of an address with one more, and what it makes of the limits.
Joined(u) == hostlist[IP[u]].clients \union {u}
Allowed(u) == Raised(Base(IP[u]), Cardinality(Joined(u) \intersect loggedin))

Excess(u) == Allowed(u) # 0 /\ Cardinality(Joined(u)) > Allowed(u)

\* Mutant of Grace: kills count however long ago they were.
GraceForever(u) == ~kline.enabled \/ hostlist[IP[u]].gracekills < kline.grace

\* Within the grace: it is killed only.
Grace(u) ==
    LET he == hostlist[IP[u]]
    IN  \/ ~kline.enabled
        \/ he.gracekills < kline.grace
        \/ kline.grace > 0 /\ he.period = 0

\* The period starts with the first kill, and the count with the period.
\* Beyond the counts there are, the number of kills makes no difference.
Counted(he) ==
    IF he.period = 0 THEN [he EXCEPT !.period = Window + 1, !.gracekills = 1]
    ELSE [he EXCEPT !.gracekills = IF @ \in Counts THEN @ + 1 ELSE @]

\* Mutant of clones_userquit: the entry is freed with the first client.
FreeEarly(he, u) == NoHost

\* The last client of an address takes its entry along.
clones_userquit(he, u) == IF he.clients \subseteq {u} THEN NoHost ELSE [he EXCEPT !.clients = @ \ {u}]

\* clones_newuser: a client is introduced.  Its login comes later.
Introduce(u) ==
    /\ u \notin online
    /\ online' = online \union {u}
    /\ hostlist' = [hostlist EXCEPT ![IP[u]].clients = Joined(u)]
    /\ UNCHANGED <<exempts, clones_allowed, kline, loggedin, lastkill>>

Stay(u) ==
    /\ Introduce(u)
    /\ ~Excess(u) \/ u \in Immune
    /\ UNCHANGED klinesent

\* kill_user calls clones_userquit at once.
Kill(u) ==
    /\ u \notin online /\ Excess(u) /\ u \notin Immune /\ Grace(u)
    /\ hostlist' = [hostlist EXCEPT ![IP[u]] =
                       clones_userquit(Counted([@ EXCEPT !.clients = Joined(u)]), u)]
    /\ lastkill' = [lastkill EXCEPT ![IP[u]] = 0]
    /\ UNCHANGED <<exempts, clones_allowed, kline, online, loggedin, klinesent>>

\* The client stays until a server applies the k-line.
Kline(u) ==
    /\ Introduce(u)
    /\ Excess(u) /\ u \notin Immune /\ ~Grace(u)
    /\ klinesent' = klinesent \union {u}

UserDelete(u) ==
    /\ u \in online
    /\ hostlist' = [hostlist EXCEPT ![IP[u]] = clones_userquit(@, u)]
    /\ online' = online \ {u} /\ loggedin' = loggedin \ {u} /\ klinesent' = klinesent \ {u}
    /\ UNCHANGED <<exempts, clones_allowed, kline, lastkill>>

SetLogin(u, login) ==
    /\ u \in online
    /\ loggedin' = IF login THEN loggedin \union {u} ELSE loggedin \ {u}
    /\ UNCHANGED <<hostlist, exempts, clones_allowed, kline, online, klinesent, lastkill>>

-----------------------------------------------------------------------------
(* Commands, and time.                                                     *)

\* CLONES KLINE ON, OFF or a count.
os_cmd_clones_kline(enabled, grace) ==
    /\ kline' = [enabled |-> enabled, grace |-> IF enabled THEN grace ELSE kline.grace]
    /\ UNCHANGED <<hostlist, exempts, clones_allowed, online, loggedin, klinesent, lastkill>>

SetExempts(list) ==
    /\ exempts' = list
    /\ UNCHANGED <<hostlist, clones_allowed, kline, online, loggedin, klinesent, lastkill>>

Exemption(m, n, left) == [mask |-> m, allowed |-> n, warn |-> n, left |-> left]
On(m) == {i \in DOMAIN exempts : exempts[i].mask = m}

\* An exemption of the same mask is changed, even one that is over.
os_cmd_clones_addexempt(m, n, left) ==
    IF On(m) = {}
    THEN Len(exempts) < MaxExempts /\ SetExempts(Append(exempts, Exemption(m, n, left)))
    ELSE SetExempts([exempts EXCEPT ![First(On(m))] = Exemption(m, n, left)])

\* DELEXEMPT and SETEXEMPT look for the mask from the start and drop what is
\* over on the way, so they never find an exemption that is over.
Live(m) == {i \in On(m) : ~Over(exempts[i])}
Swept(list, to) ==
    LET keep == SetToSortSeq({i \in DOMAIN list : i >= to \/ ~Over(list[i])}, LAMBDA i, j : i < j)
    IN  [i \in DOMAIN keep |-> list[keep[i]]]

os_cmd_clones_delexempt(m) ==
    IF Live(m) = {} THEN SetExempts(Swept(exempts, Len(exempts) + 1))
    ELSE LET i == First(Live(m))
         IN  SetExempts(Swept(SubSeq(exempts, 1, i - 1), i) \o SubSeq(exempts, i + 1, Len(exempts)))

\* Mutant of SetExempt: ALLOWED is not compared with the warning limit.
SetUnordered(c, what, n) ==
    CASE what = "ALLOWED" -> [c EXCEPT !.allowed = n]
      [] what = "WARN"    -> IF n <= c.allowed THEN [c EXCEPT !.warn = n] ELSE c

SetExempt(c, what, n) ==
    CASE what = "ALLOWED" -> IF n >= c.warn THEN [c EXCEPT !.allowed = n] ELSE c
      [] what = "WARN"    -> IF n <= c.allowed THEN [c EXCEPT !.warn = n] ELSE c

Changed(m, c) ==
    LET i == First(Live(m))
    IN  Live(m) # {} /\ SetExempts(Swept([exempts EXCEPT ![i] = c], i))

os_cmd_clones_setexempt(m, what, n) == Changed(m, SetExempt(exempts[First(Live(m))], what, n))
SetDuration(m, left) == Changed(m, [exempts[First(Live(m))] EXCEPT !.left = left])

\* SETEXEMPT DEFAULT ALLOWED.
SetDefault(n) ==
    /\ clones_allowed' = n
    /\ UNCHANGED <<hostlist, exempts, kline, online, loggedin, klinesent, lastkill>>

\* LISTEXEMPT, and a save that blocks (a background save is done by a child):
\* what is over is dropped.
Sweep == SetExempts(Swept(exempts, Len(exempts) + 1))

\* clones_configready, after a rehash.
Rehash ==
    /\ clones_allowed' = DefaultAllowed
    /\ UNCHANGED <<hostlist, exempts, kline, online, loggedin, klinesent, lastkill>>

Sooner(left) == IF left \in {0, Permanent} THEN left ELSE left - 1

Tick ==
    /\ exempts' = [i \in DOMAIN exempts |-> [exempts[i] EXCEPT !.left = Sooner(@)]]
    /\ hostlist' = [ip \in IPs |-> [hostlist[ip] EXCEPT !.period = IF @ > 0 THEN @ - 1 ELSE 0]]
    /\ lastkill' = [ip \in IPs |-> IF lastkill[ip] > Window THEN lastkill[ip] ELSE lastkill[ip] + 1]
    /\ UNCHANGED <<clones_allowed, kline, online, loggedin, klinesent>>

Next ==
    \/ \E u \in Clients : Stay(u) \/ Kill(u) \/ Kline(u) \/ UserDelete(u)
    \/ \E u \in Clients, login \in BOOLEAN : SetLogin(u, login)
    \/ \E enabled \in BOOLEAN, n \in Counts : os_cmd_clones_kline(enabled, n)
    \/ \E m \in Masks, n \in Limits, left \in Ends : os_cmd_clones_addexempt(m, n, left)
    \/ \E m \in Masks : os_cmd_clones_delexempt(m)
    \/ \E m \in Masks, what \in {"ALLOWED", "WARN"}, n \in Limits : os_cmd_clones_setexempt(m, what, n)
    \/ \E m \in Masks, left \in Ends : SetDuration(m, left)
    \/ \E n \in Limits : SetDefault(n)
    \/ Sweep \/ Rehash \/ Tick

Spec == Init /\ [][Next]_vars

-----------------------------------------------------------------------------
(* Properties.                                                             *)

\* The counts are those of the clients there are: who was killed while being
\* introduced, or has left, is counted for no address, and who is there is
\* counted for his.
HostsExact == \A ip \in IPs : hostlist[ip].clients = {u \in online : IP[u] = ip}

\* SETEXEMPT changes the two limits of an exemption one at a time and keeps
\* the warning at or below the limit, in whatever order it is done.
WarnBelowAllowed == \A i \in DOMAIN exempts : exempts[i].warn <= exempts[i].allowed

\* Only clients beyond what the operators allow are removed, and logins get
\* an address no more than twice of it.
LimitBounds ==
    [][\A u \in Clients \ Immune :
          LET base == Base(IP[u])
              n == Cardinality({c \in online : IP[c] = IP[u]}) + 1
          IN  /\ Kill(u) \/ Kline(u) => n > base /\ base # 0
              /\ Stay(u) => n <= 2 * base \/ base = 0]_vars

\* With a count, a k-line is set only after a kill within the period: the
\* count starts again with the period.
GraceGiven == [][\A u \in Clients : Kline(u) /\ kline.grace > 0 => lastkill[IP[u]] <= Window]_vars

\* CLONES KLINE with a count kills so many clients before it sets a k-line:
\* with a count of one, a second client in the period is not killed.  But
\* the entry that counts is freed with the last client of the address.
GraceCountKept ==
    [][\A u \in Clients : Kill(u) /\ kline.enabled /\ kline.grace = 1 => lastkill[IP[u]] > Window]_vars

\* An exemption with a duration ends: no client is judged by one that is
\* over.
ExemptionsEnd ==
    [][\A u \in Clients : Stay(u) \/ Kill(u) \/ Kline(u) =>
          find_exempt(IP[u]) = 0 \/ ~Over(exempts[find_exempt(IP[u])])]_vars
=============================================================================
