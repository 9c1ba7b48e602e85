------------------------------- MODULE Bursts -------------------------------
(***************************************************************************)
(* Who is on a channel and who is operator there, as services and the rest *)
(* of the network see it, while each may create the channel and servers    *)
(* link with another version of it.  A channel has a timestamp (TS): of    *)
(* two versions the older one keeps its statuses.  Each protocol module    *)
(* applies this rule in its own handlers; ngircd and ircnet have no TS and *)
(* join the versions.                                                      *)
(*                                                                         *)
(* The links keep the order of messages and take time.  The rest of the    *)
(* network (net) follows its protocol; it is not part of services.         *)
(* Modes and bans (module Modes), topics and kicks are left out, and so    *)
(* are statuses but those in Statuses: all are alike.                      *)
(***************************************************************************)
EXTENDS Naturals, Sequences, FiniteSets

CONSTANTS
    Protos,     \* which of "ts6", "insp", "p10", "nefarious", "unreal", "unreal40", "bahamut",
                \* "ngircd", "ircnet"
    Users,      \* users of the network
    CS,         \* ChanServ
    Statuses,   \* "o", and "q": a status whose prefix is not @, % or +
    TSs,        \* bound: timestamps of new channels
    RegTSs,     \* TSs the registration may have; None: changets is not set
    MaxEvents,  \* bound: what happens on either side
    MaxSent,    \* bound: messages under way in a direction
    None

\* What the constants are.
BurstsAssumption ==
    /\ CS \notin Users /\ TSs \subseteq Nat /\ RegTSs \subseteq Nat \union {None} /\ None \notin Nat
    /\ MaxEvents \in Nat /\ MaxSent \in Nat /\ "o" \in Statuses

VARIABLES
    proto,   \* the protocol module
    regts,   \* TS of the registration if changets is set
    svc,     \* services' channel_t: its TS and its members with their statuses
    net,     \* the same on the network
    toSvc, toNet,
    newer,   \* services have kept or taken something of the newer version
    died,    \* a version died, or came again, while messages of its earlier life were under way
    events

vars == <<proto, regts, svc, net, toSvc, toNet, newer, died, events>>

Clients == Users \union {CS}
NoChan == [ts |-> None, mem |-> <<>>]
Exists(c) == c # NoChan

HasTS == proto \notin {"ngircd", "ircnet"}
Unreal == proto \in {"unreal", "unreal40"}
Cautious == proto \in {"ts6", "insp", "bahamut"}

TypeOK ==
    /\ proto \in Protos /\ regts \in RegTSs /\ {newer, died} \subseteq BOOLEAN /\ events \in 0 .. MaxEvents
    /\ \A c \in {svc, net} :
          Exists(c) => c.ts \in Nat /\ DOMAIN c.mem \subseteq Clients /\ \A u \in DOMAIN c.mem : c.mem[u] \subseteq Statuses

Init ==
    /\ proto \in Protos /\ regts \in RegTSs /\ svc = NoChan /\ net = NoChan
    /\ toSvc = <<>> /\ toNet = <<>> /\ newer = FALSE /\ died = FALSE /\ events = 0

-----------------------------------------------------------------------------
(* Members and messages *)

Member(u, st) == [x \in {u} |-> st]
Bare(mem) == [u \in DOMAIN mem |-> {}]

\* chanuser_add() of each: who is there already gets the new statuses too.
chanuser_add(mem, new) ==
    [u \in DOMAIN mem \union DOMAIN new |->
        (IF u \in DOMAIN mem THEN mem[u] ELSE {}) \union (IF u \in DOMAIN new THEN new[u] ELSE {})]

\* A channel without members is deleted.
chanuser_delete(c, u) ==
    LET rest == [x \in DOMAIN c.mem \ {u} |-> c.mem[x]] IN
    IF DOMAIN rest = {} THEN NoChan ELSE [c EXCEPT !.mem = rest]

Burst(ts, mem) == [t |-> "burst", ts |-> ts, mem |-> mem]
Create(ts, u) == [t |-> "create", ts |-> ts, u |-> u]
Join(ts, u) == [t |-> "join", ts |-> ts, u |-> u]
Part(u) == [t |-> "part", u |-> u]
Mode(ts, u, st, add) == [t |-> "mode", ts |-> ts, u |-> u, st |-> st, add |-> add]
Clear == [t |-> "clear"]
Resynch == [t |-> "resynch"]

\* What a handler leaves: the channel, what it sends, and whether it kept or took
\* something of the newer version.
Result(c, out, odd) == [c |-> c, out |-> out, odd |-> odd]

\* A version goes, with messages other than those about this under way.
Dies(c, d, in, out) == died' = (died \/ (Exists(c) /\ ~Exists(d) /\ in \o out # <<>>))

HasStatus(mem) == \E u \in DOMAIN mem : mem[u] # {}

-----------------------------------------------------------------------------
(* What services send *)

\* join_sts() of ChanServ; only P10 creates channels with a message of its own.
join_sts(c, isnew) ==
    IF proto \in {"p10", "nefarious"}
    THEN IF isnew THEN <<Create(c.ts, CS)>> ELSE <<Join(c.ts, CS), Mode(c.ts, CS, "o", TRUE)>>
    ELSE <<Burst(c.ts, Member(CS, {"o"}))>>

\* Mutant of cs_newchan: the TS of the registration is not told to the network.
QuietNewchan(ts) ==
    IF HasTS /\ regts # None /\ regts < ts
    THEN [c |-> [ts |-> regts, mem |-> Member(CS, {"o"})], out |-> <<>>]
    ELSE [c |-> [ts |-> ts, mem |-> <<>>], out |-> <<>>]

\* A channel appears that is younger than its registration: services lower its
\* TS, with ChanServ as its only operator (chan_lowerts).
cs_newchan(ts) ==
    IF HasTS /\ regts # None /\ regts < ts
    THEN [c |-> [ts |-> regts, mem |-> Member(CS, {"o"})], out |-> <<Burst(regts, Member(CS, {"o"}))>>]
    ELSE [c |-> [ts |-> ts, mem |-> <<>>], out |-> <<>>]

\* The channel a message names, which is added if there is none.
channel_add(ts) == IF Exists(svc) THEN [c |-> svc, out |-> <<>>] ELSE cs_newchan(ts)

\* All lose their statuses, but our clients are operators.
Cleared(mem) == [u \in DOMAIN mem |-> IF u = CS THEN {"o"} ELSE {}]

\* How our clients become operators again on the older channel: by leaving and
\* joining, or by a mode change.
Rejoin(mem, ts) == IF CS \in DOMAIN mem THEN <<Part(CS), Burst(ts, Member(CS, {"o"}))>> ELSE <<>>
Regain(mem, ts) == IF CS \in DOMAIN mem THEN <<Mode(ts, CS, "o", TRUE)>> ELSE <<>>

\* Services' client was deopped: it leaves and joins, or another one ops it if
\* it is alone.
reop_service(c) ==
    IF Cardinality(DOMAIN c.mem) > 1 THEN <<Part(CS)>> \o join_sts(c, FALSE)
    ELSE <<Mode(c.ts, CS, "o", TRUE)>>

-----------------------------------------------------------------------------
(* What services receive: the channel with members of a server or a user *)

\* Members of the newer version without the statuses @, % and +.
Stripped(mem) == [u \in DOMAIN mem |-> mem[u] \ {"o"}]

\* Mutant of SjoinTs6: statuses of a newer version are kept.
SjoinKeepsAll(m) ==
    LET a == channel_add(m.ts) IN
    IF m.ts < a.c.ts
    THEN Result([ts |-> m.ts, mem |-> chanuser_add(Cleared(a.c.mem), m.mem)], a.out \o Rejoin(a.c.mem, m.ts), FALSE)
    ELSE Result([a.c EXCEPT !.mem = chanuser_add(@, m.mem)], a.out, FALSE)

\* SJOIN of the TS6 protocols and of bahamut; TS 0 joins the versions.
SjoinTs6(m) ==
    LET a == channel_add(m.ts) IN
    IF 0 \in {m.ts, a.c.ts} THEN Result([ts |-> 0, mem |-> chanuser_add(a.c.mem, m.mem)], a.out, FALSE)
    ELSE IF m.ts < a.c.ts
    THEN Result([ts |-> m.ts, mem |-> chanuser_add(Cleared(a.c.mem), m.mem)], a.out \o Rejoin(a.c.mem, m.ts), FALSE)
    ELSE LET new == IF m.ts > a.c.ts THEN Stripped(m.mem) ELSE m.mem IN
         Result([a.c EXCEPT !.mem = chanuser_add(@, new)], a.out, m.ts > a.c.ts /\ HasStatus(new))

\* SJOIN of bahamut, from a server.
SjoinBahamut(m) == SjoinTs6(m)

\* FJOIN of InspIRCd: all statuses of a newer version are ignored.
Fjoin(m) ==
    LET a == channel_add(m.ts) IN
    IF m.ts < a.c.ts
    THEN Result([ts |-> m.ts, mem |-> chanuser_add(Cleared(a.c.mem), m.mem)], a.out \o Regain(a.c.mem, m.ts), FALSE)
    ELSE LET new == IF m.ts > a.c.ts THEN Bare(m.mem) ELSE m.mem IN
         Result([a.c EXCEPT !.mem = chanuser_add(@, new)], a.out, FALSE)

\* BURST of P10, and of nefarious, which takes all statuses.
BurstP10(m) == Fjoin(m)
BurstNefarious(m) ==
    IF Exists(svc) /\ m.ts < svc.ts THEN BurstP10(m)
    ELSE LET a == channel_add(m.ts) IN
         Result([a.c EXCEPT !.mem = chanuser_add(@, m.mem)], a.out, m.ts > a.c.ts /\ HasStatus(m.mem))

\* SJOIN of UnrealIRCd takes all statuses, and ours are lost with the others.
SjoinUnreal(m) ==
    LET a == channel_add(m.ts) IN
    IF m.ts < a.c.ts THEN Result([ts |-> m.ts, mem |-> chanuser_add(Bare(a.c.mem), m.mem)], a.out, FALSE)
    ELSE Result([a.c EXCEPT !.mem = chanuser_add(@, m.mem)], a.out, m.ts > a.c.ts /\ HasStatus(m.mem))

\* NJOIN has no TS.
Njoin(m) == LET a == channel_add(m.ts) IN Result([a.c EXCEPT !.mem = chanuser_add(@, m.mem)], a.out, FALSE)

-----------------------------------------------------------------------------
(* The handlers *)

Got(t) == toSvc # <<>> /\ Head(toSvc).t = t
Msg == Head(toSvc)
Take(r) ==
    /\ svc' = r.c /\ toNet' = toNet \o r.out /\ newer' = (newer \/ r.odd)
    /\ Dies(svc, r.c, Tail(toSvc), toNet) /\ toSvc' = Tail(toSvc) /\ UNCHANGED <<proto, regts, net, events>>

m_sjoin == proto = "ts6" /\ Got("burst") /\ Take(SjoinTs6(Msg))
m_fjoin == proto = "insp" /\ Got("burst") /\ Take(Fjoin(Msg))
m_burst == proto = "p10" /\ Got("burst") /\ Take(BurstP10(Msg))
nefarious_m_burst == proto = "nefarious" /\ Got("burst") /\ Take(BurstNefarious(Msg))
unreal_m_sjoin == proto = "unreal" /\ Got("burst") /\ Take(SjoinUnreal(Msg))
unreal40_m_sjoin == proto = "unreal40" /\ Got("burst") /\ Take(SjoinUnreal(Msg))
bahamut_m_sjoin == proto = "bahamut" /\ Got("burst") /\ Take(SjoinBahamut(Msg))
ngircd_m_njoin == proto = "ngircd" /\ Got("burst") /\ Take(Njoin(Msg))
ircnet_m_njoin == proto = "ircnet" /\ Got("burst") /\ Take(Njoin(Msg))

\* JOIN of TS6: the rule of SJOIN for one user without a status.
m_join == proto = "ts6" /\ Got("join") /\ Take(SjoinTs6(Burst(Msg.ts, Member(Msg.u, {}))))

\* JOIN of P10 and ngircd: the TS counts for a new channel only.
p10_m_join ==
    /\ proto \in {"p10", "nefarious", "ngircd"} /\ Got("join")
    /\ LET a == channel_add(Msg.ts) IN Take(Result([a.c EXCEPT !.mem = chanuser_add(@, Member(Msg.u, {}))], a.out, HasTS /\ Msg.ts < a.c.ts))

\* SJOIN of bahamut from a user: services ask for the channel if they know it not,
\* or only a newer version of it.
bahamut_m_sjoin_user ==
    /\ proto = "bahamut" /\ Got("join")
    /\ IF ~Exists(svc) \/ Msg.ts < svc.ts THEN Take(Result(svc, <<Resynch>>, FALSE))
       ELSE Take(Result([svc EXCEPT !.mem = chanuser_add(@, Member(Msg.u, {}))], <<>>, FALSE))

\* CREATE of P10: the TS of a channel services know stays, also if it is newer.
m_create ==
    /\ proto \in {"p10", "nefarious"} /\ Got("create")
    /\ LET a == channel_add(Msg.ts)
           st == IF Msg.ts <= a.c.ts THEN {"o"} ELSE {}
       IN  Take(Result([a.c EXCEPT !.mem = chanuser_add(@, Member(Msg.u, st))], a.out, Msg.ts < a.c.ts))

m_part ==
    /\ Got("part")
    /\ Take(Result(IF Exists(svc) THEN chanuser_delete(svc, Msg.u) ELSE svc, <<>>, FALSE))

\* channel_mode() of one status.
channel_mode(m) ==
    IF ~Exists(svc) \/ m.u \notin DOMAIN svc.mem THEN Result(svc, <<>>, FALSE)
    ELSE IF m.add THEN Result([svc EXCEPT !.mem[m.u] = @ \union {m.st}], <<>>, HasTS /\ m.ts > svc.ts)
    ELSE IF m.u = CS /\ m.st = "o" THEN Result(svc, reop_service(svc), FALSE)
    ELSE Result([svc EXCEPT !.mem[m.u] = @ \ {m.st}], <<>>, HasTS /\ m.ts > svc.ts)

\* TMODE, FMODE and bahamut's MODE: changes of a newer version are ignored.
m_tmode ==
    /\ Cautious /\ Got("mode")
    /\ IF Exists(svc) /\ Msg.ts > svc.ts THEN Take(Result(svc, <<>>, FALSE)) ELSE Take(channel_mode(Msg))

\* MODE of P10: so is a change with a TS, which a server need not give.
p10_m_mode ==
    /\ proto = "p10" /\ Got("mode")
    /\ \E given \in BOOLEAN :
          IF given /\ Exists(svc) /\ Msg.ts > svc.ts THEN Take(Result(svc, <<>>, FALSE)) ELSE Take(channel_mode(Msg))

m_mode == proto \in {"nefarious", "unreal", "unreal40", "ngircd", "ircnet"} /\ Got("mode") /\ Take(channel_mode(Msg))

\* CLEARMODE of P10: all are deopped, and ChanServ ops itself again.
m_clearmode ==
    /\ proto \in {"p10", "nefarious"} /\ Got("clear")
    /\ IF ~Exists(svc) THEN Take(Result(svc, <<>>, FALSE))
       ELSE Take(Result([svc EXCEPT !.mem = [u \in DOMAIN @ |-> IF u = CS THEN @[u] ELSE @[u] \ {"o"}]],
                        Regain(svc.mem, svc.ts), FALSE))

-----------------------------------------------------------------------------
(* ChanServ joins and leaves (services.c) *)

Event == events < MaxEvents /\ events' = events + 1

\* A new channel gets the TS of the registration, or the time.
join(ts) ==
    LET isnew == ~Exists(svc)
        c == IF isnew THEN [ts |-> ts, mem |-> <<>>] ELSE svc
    IN  /\ Event /\ Len(toNet) < MaxSent /\ CS \notin DOMAIN c.mem
        /\ (isnew /\ HasTS /\ regts # None) => ts = regts
        /\ ~isnew => ts = svc.ts
        /\ svc' = [c EXCEPT !.mem = chanuser_add(@, Member(CS, {"o"}))]
        /\ toNet' = toNet \o join_sts(c, isnew) /\ died' = (died \/ (isnew /\ toNet # <<>>))
        /\ UNCHANGED <<proto, regts, net, toSvc, newer>>

part ==
    /\ Event /\ Len(toNet) < MaxSent /\ Exists(svc) /\ CS \in DOMAIN svc.mem
    /\ svc' = chanuser_delete(svc, CS) /\ toNet' = Append(toNet, Part(CS))
    /\ Dies(svc, chanuser_delete(svc, CS), toSvc, toNet)
    /\ UNCHANGED <<proto, regts, net, toSvc, newer>>

-----------------------------------------------------------------------------
(* The network *)

\* The older version keeps its statuses.
Merge(ts, mem) ==
    IF ~Exists(net) THEN [ts |-> ts, mem |-> mem]
    ELSE IF ~HasTS THEN [net EXCEPT !.mem = chanuser_add(@, mem)]
    ELSE IF proto \in {"ts6", "bahamut"} /\ 0 \in {ts, net.ts} THEN [ts |-> 0, mem |-> chanuser_add(net.mem, mem)]
    ELSE IF ts < net.ts THEN [ts |-> ts, mem |-> chanuser_add(Bare(net.mem), mem)]
    ELSE [net EXCEPT !.mem = chanuser_add(@, IF ts > net.ts THEN Bare(mem) ELSE mem)]

NetSends(c, m) ==
    /\ Event /\ Len(toSvc) < MaxSent
    /\ IF Exists(net) THEN Dies(net, c, toSvc, toNet) ELSE died' = (died \/ toSvc # <<>>)
    /\ net' = c /\ toSvc' = Append(toSvc, m) /\ UNCHANGED <<proto, regts, svc, toNet, newer>>

\* The first user of a channel becomes operator.
UserJoins(u, ts) ==
    /\ ~Exists(net) \/ (u \notin DOMAIN net.mem /\ ts = net.ts)
    /\ LET st == IF Exists(net) THEN {} ELSE {"o"} IN
       NetSends(Merge(ts, Member(u, st)),
          IF proto \in {"p10", "nefarious"} /\ ~Exists(net) THEN Create(ts, u)
          ELSE IF proto \in {"ts6", "p10", "nefarious", "bahamut", "ngircd"} /\ Exists(net) THEN Join(ts, u)
          ELSE Burst(ts, Member(u, st)))

\* A server links with its version of the channel; what is left of it is passed on.
ServerLinks(u, ts, st) ==
    LET c == Merge(ts, Member(u, st)) IN
    /\ Exists(net) => u \notin DOMAIN net.mem
    /\ NetSends(c, Burst(c.ts, Member(u, c.mem[u])))

UserParts(u) == Exists(net) /\ u \in DOMAIN net.mem /\ NetSends(chanuser_delete(net, u), Part(u))

IsOp(u) == Exists(net) /\ u \in DOMAIN net.mem /\ net.mem[u] # {}

UserModes(u, v, st, add) ==
    /\ IsOp(u) /\ v \in DOMAIN net.mem /\ (st \in net.mem[v]) # add
    /\ NetSends([net EXCEPT !.mem[v] = IF add THEN @ \union {st} ELSE @ \ {st}], Mode(net.ts, v, st, add))

UserClears(u) ==
    /\ proto \in {"p10", "nefarious"} /\ IsOp(u)
    /\ NetSends([net EXCEPT !.mem = [x \in DOMAIN @ |-> @[x] \ {"o"}]], Clear)

\* A message of services arrives.
NetReceives ==
    /\ toNet # <<>> /\ toNet' = Tail(toNet)
    /\ LET m == Head(toNet) IN
       /\ net' = CASE m.t = "burst" -> Merge(m.ts, m.mem)
                   [] m.t = "create" -> Merge(m.ts, Member(m.u, {"o"}))
                   [] m.t = "join" -> Merge(m.ts, Member(m.u, {}))
                   [] m.t = "part" /\ Exists(net) -> chanuser_delete(net, m.u)
                   [] m.t = "mode" /\ Exists(net) /\ m.u \in DOMAIN net.mem /\ (Cautious => m.ts <= net.ts) ->
                        [net EXCEPT !.mem[m.u] = @ \union {m.st}]
                   [] OTHER -> net
       /\ toSvc' = IF m.t = "resynch" /\ Exists(net) THEN Append(toSvc, Burst(net.ts, net.mem)) ELSE toSvc
    /\ Dies(net, net', toSvc, Tail(toNet))
    /\ UNCHANGED <<proto, regts, svc, newer, events>>

Next ==
    \/ m_sjoin \/ m_fjoin \/ m_burst \/ nefarious_m_burst \/ unreal_m_sjoin \/ unreal40_m_sjoin \/ bahamut_m_sjoin
    \/ ngircd_m_njoin \/ ircnet_m_njoin \/ m_join \/ p10_m_join \/ bahamut_m_sjoin_user
    \/ m_create \/ m_part \/ m_tmode \/ p10_m_mode \/ m_mode \/ m_clearmode
    \/ (\E ts \in (TSs \union {svc.ts, regts}) \ {None} : join(ts)) \/ part
    \/ \E u \in Users :
          \/ \E ts \in (TSs \union {net.ts}) \ {None} : UserJoins(u, ts)
          \/ \E ts \in TSs, st \in SUBSET Statuses : ServerLinks(u, ts, st)
          \/ UserParts(u) \/ UserClears(u)
          \/ \E v \in Clients, st \in Statuses, add \in BOOLEAN : UserModes(u, v, st, add)
    \/ NetReceives

Spec == Init /\ [][Next]_vars

-----------------------------------------------------------------------------

\* What both sides must agree on.  Of ChanServ's own statuses only that of operator
\* counts, which it gets again whenever it joins: another may have been given to it
\* while it left and joined.  With UnrealIRCd not even that.
View(c) ==
    [ts |-> IF HasTS THEN c.ts ELSE None,
     mem |-> [u \in DOMAIN c.mem |->
                IF u # CS THEN c.mem[u] ELSE IF Unreal THEN {} ELSE c.mem[u] \intersect {"o"}]]

\* When all messages have arrived, services and the network agree on the TS of
\* the channel, on its members and on their statuses, unless a handler kept or
\* took something of the newer version, or the channel came again too soon; and
\* where services op their clients again they know them as operators.
VersionsAgree ==
    ~died =>
    /\ (toSvc = <<>> /\ toNet = <<>> /\ ~newer) => View(svc) = View(net)
    /\ (~Unreal /\ Exists(svc) /\ CS \in DOMAIN svc.mem) => "o" \in svc.mem[CS]

\* What the code does not keep: nothing is taken from the newer version
\* (unreal.c and nefarious.c compare no TS before they take statuses, and
\* m_create() of p10-generic.c keeps the newer TS).
NothingNewer == ~newer
=============================================================================
