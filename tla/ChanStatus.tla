----------------------------- MODULE ChanStatus -----------------------------
(***************************************************************************)
(* The commands of ChanServ that act on the members of a channel: statuses *)
(* (OP, HALFOP, VOICE, PROTECT, OWNER), KICK, KICKBAN, BAN, QUIET, CLEAR,  *)
(* SYNC and RECOVER, and what ChanServ does when a user joins or gets a    *)
(* status.  Services change their copy of the channel (c) at once; the     *)
(* server (sv) is told by messages, and mode changes wait on a stack first *)
(* (module Modes has its details).  Meanwhile users join, leave and change *)
(* modes on the server, which services learn later.                        *)
(*                                                                         *)
(* The channel is registered, guarded (module Presence has the rest) and   *)
(* not closed; its access list (module Access) does not change.  A command *)
(* with several targets does for each what it does for one.                *)
(***************************************************************************)
EXTENDS Naturals, Sequences, FiniteSets, SequencesExt

CONSTANTS
    Users,       \* users; none of them is a service
    HostOf,      \* the host of each
    FlagsOf,     \* the flags each has in the channel
    Immune,      \* users whom ChanServ does not kick
    NoOp,        \* users who have set NOOP
    Statuses,    \* the statuses of the ircd: "o", "v", and of "q", "a", "h" those it has
    BanTypes,    \* its list modes, of "b", "e" (exception), "I" (invite exception), "mute"
    Limits,      \* bound: values of +l, 0 for none
    MaxUnder,    \* bound: messages under way in a direction when something is sent
    MaxEvents,   \* bound: commands and acts of users
    None

\* What the constants are.
ChanStatusAssumption ==
    /\ DOMAIN HostOf = Users /\ DOMAIN FlagsOf = Users /\ Immune \subseteq Users /\ NoOp \subseteq Users
    /\ {"o", "v"} \subseteq Statuses /\ Statuses \subseteq {"q", "a", "o", "h", "v"} /\ "b" \in BanTypes
    /\ BanTypes \subseteq {"b", "e", "I", "mute"} /\ IsFiniteSet(Users) /\ None \notin Users
    /\ Limits \subseteq Nat /\ 0 \in Limits /\ MaxUnder \in Nat \ {0} /\ MaxEvents \in Nat

VARIABLES
    secure,     \* MC_SECURE
    c,          \* services' channel_t: members with statuses, list modes, modes and limit
    sv,         \* the same on the server, and who is invited
    stack,      \* mode changes that services have made and not yet sent
    out, in,    \* messages of services to the server and back
    banned,     \* users who were kicked and banned by KICKBAN, and no one has let them in since
    muted,      \* users who were silenced by QUIET, and no one has given them voice since
    recoverer,  \* the user who used RECOVER from outside, and no one has changed anything since
    cleared,    \* users whom CLEAR USERS has kicked, until the limit is lifted
    mistaken,   \* users whom services took for members when they joined
    events

vars == <<secure, c, sv, stack, out, in, banned, muted, recoverer, cleared, mistaken, events>>
ghosts == <<banned, muted, recoverer, cleared, mistaken>>

Hosts == {HostOf[u] : u \in Users}
Masks == Users \union Hosts   \* a host, or all of a user's name
Matches(mask, u) == mask = u \/ mask = HostOf[u]
Modes == {"i", "k"}

TypeOK ==
    /\ secure \in BOOLEAN /\ events \in 0 .. MaxEvents /\ recoverer \in Users \union {None}
    /\ banned \union muted \union cleared \union mistaken \subseteq Users
    /\ \A x \in {c, sv} :
        /\ DOMAIN x.mem \subseteq Users /\ \A u \in DOMAIN x.mem : x.mem[u] \subseteq Statuses
        /\ x.bans \subseteq BanTypes \X Masks /\ x.modes \subseteq Modes /\ x.limit \in Limits \union {1}

-----------------------------------------------------------------------------
(* Mode changes and messages *)

Toggle(S, e, on) == IF on THEN S \union {e} ELSE S \ {e}

\* A change: whether it adds, the mode, and its parameter.
Change(on, mode, arg) == <<on, mode, arg>>

\* A change of the mode of someone who is not there is ignored.
Apply(ch, x) ==
    CASE x[2] \in Statuses -> IF x[3] \in DOMAIN ch.mem THEN [ch EXCEPT !.mem[x[3]] = Toggle(@, x[2], x[1])] ELSE ch
      [] x[2] \in BanTypes -> [ch EXCEPT !.bans = Toggle(@, <<x[2], x[3]>>, x[1])]
      [] x[2] = "l" -> [ch EXCEPT !.limit = IF x[1] THEN x[3] ELSE 0]
      [] OTHER -> [ch EXCEPT !.modes = Toggle(@, x[2], x[1])]

ApplyAll(ch, xs) == FoldLeft(Apply, ch, xs)

Without(ch, u) == [ch EXCEPT !.mem = [x \in DOMAIN @ \ {u} |-> @[x]]]

MODE(xs) == [t |-> "MODE", x |-> xs]
KICK(u) == [t |-> "KICK", u |-> u]
INVITE(u) == [t |-> "INVITE", u |-> u]

\* The server takes a message; it keeps an invitation only while the channel is +i.
Deliver(s, m) ==
    CASE m.t = "MODE" -> ApplyAll(s, m.x)
      [] m.t = "KICK" -> Without(s, m.u)
      [] m.t = "INVITE" /\ "i" \in s.modes -> [s EXCEPT !.invited = @ \union {m.u}]
      [] OTHER -> s

\* The server's channel once all that services have sent has arrived.
Arrived == FoldLeft(Deliver, sv, out)

\* The same once what is on the stack has arrived too.
Settled == ApplyAll(Arrived, stack)

\* Services know the channel: what they have sent and what is on the stack make the
\* server's theirs.  Changes that crossed earlier may have left the two different.
Knows ==
    /\ in = <<>> /\ c.mem = Settled.mem /\ c.bans = Settled.bans
    /\ c.modes = Settled.modes /\ c.limit = Settled.limit

Listed(ch, t, u) == \E m \in Masks : <<t, m>> \in ch.bans /\ Matches(m, u)
Barred(ch, u) == Listed(ch, "b", u) /\ ~Listed(ch, "e", u)
Silent(ch, u) == ch.mem[u] = {} /\ Listed(ch, "mute", u) /\ ~Listed(ch, "e", u)

\* Whom the server lets in; ChanServ is on the channel and counts.
Open(ch, u) ==
    /\ ~Barred(ch, u)
    /\ "i" \in ch.modes => u \in ch.invited \/ Listed(ch, "I", u)
    /\ ch.limit = 0 \/ Cardinality(DOMAIN ch.mem) + 1 < ch.limit

\* modestack_flush_now(): what is on the stack is sent, if anything.
Flushed(xs) == IF xs = <<>> THEN <<>> ELSE <<MODE(xs)>>

\* The changes that make the entries of a list with some of the masks go.
Deletions(ch, t, ms) == SetToSeq({Change(FALSE, t, m) : m \in {x \in ms : <<t, x>> \in ch.bans}})

Matching(u) == {m \in Masks : Matches(m, u)}

Has(u, fs) == FlagsOf[u] \intersect fs # {}

-----------------------------------------------------------------------------
(* Services act: the parts of a command *)

Under == Len(out) < MaxUnder /\ events < MaxEvents /\ events' = events + 1

\* Services change the channel and leave the changes on the stack.
Stacked(xs) == c' = ApplyAll(c, xs) /\ stack' = stack \o xs /\ UNCHANGED <<out, in, sv, secure, mistaken>>

\* They change it, send what is on the stack or leave it there, then send messages.
Leaving(flush, ch, xs, ms) ==
    /\ c' = ch /\ stack' = IF flush THEN <<>> ELSE stack \o xs
    /\ out' = out \o (IF flush THEN Flushed(stack \o xs) ELSE <<>>) \o ms
    /\ UNCHANGED <<in, sv, secure, mistaken>>

\* ban(): nothing is added if services know the ban.
ban(ch, u) == IF <<"b", HostOf[u]>> \in ch.bans THEN <<>> ELSE <<Change(TRUE, "b", HostOf[u])>>

remove_ban_exceptions(ch, u) == Deletions(ch, "e", Matching(u))

\* ban() sends the stack with a ban that is new, and remove_ban_exceptions() where
\* the ircd has exceptions; otherwise the changes stay on the stack.
Flushes(xs) == xs # <<>> \/ "e" \in BanTypes

\* try_kick(): immune users are not kicked.
try_kick(u) == IF u \in Immune THEN <<>> ELSE <<KICK(u)>>
Kicked(ch, u) == IF u \in Immune THEN ch ELSE Without(ch, u)

\* What lets a user in, gives one voice, or changes anything.
LetIn(S) == banned' = banned \ S
Voiced(S) == muted' = muted \ S
Meddled == recoverer' = None

-----------------------------------------------------------------------------
(* Statuses *)

\* Whoever is to be given the status in a SECURE channel must have access.
SecureFor(s, t, on, fs) == on /\ t # s /\ secure => Has(t, fs)

Set(t, mode, on) ==
    /\ t \in DOMAIN c.mem /\ (mode \in c.mem[t]) # on
    /\ Stacked(<<Change(on, mode, t)>>)
    /\ IF on THEN Voiced({t}) ELSE UNCHANGED muted
    /\ Meddled /\ UNCHANGED <<banned, cleared>>

cmd_op(s, t, on) ==
    /\ Under
    /\ Has(s, {"op", "founder"}) \/ (t = s /\ Has(s, {"autoop"}))
    /\ SecureFor(s, t, on, {"op", "autoop"})
    /\ Set(t, "o", on)

cmd_halfop(s, t, on) ==
    /\ Under /\ "h" \in Statuses
    /\ Has(s, {"halfop", "founder"})
    /\ SecureFor(s, t, on, {"halfop", "autohalfop"})
    /\ Set(t, "h", on)

cmd_voice(s, t, on) ==
    /\ Under
    /\ Has(s, {"voice", "founder"}) \/ (t = s /\ Has(s, {"autovoice"}))
    /\ Set(t, "v", on)

\* The access that SECURE asks of the target is that of an operator.
cmd_owner(s, t, on) ==
    /\ Under /\ "q" \in Statuses
    /\ Has(s, {"owner", "founder"})
    /\ SecureFor(s, t, on, {"op", "autoop"})
    /\ Set(t, "q", on)

cmd_protect(s, t, on) ==
    /\ Under /\ "a" \in Statuses
    /\ Has(s, {"protect", "founder"})
    /\ SecureFor(s, t, on, {"op", "autoop"})
    /\ Set(t, "a", on)

-----------------------------------------------------------------------------
(* Kicks, bans and quiets *)

Protected(t) == c.mem[t] \intersect {"q", "a"} # {}

\* The kick does not wait for the changes on the stack, nor they for it.
cs_cmd_kick(s, t) ==
    /\ Under /\ Has(s, {"remove", "founder"})
    /\ t \in DOMAIN c.mem /\ ~Protected(t)
    /\ c' = Kicked(c, t) /\ out' = out \o try_kick(t)
    /\ Meddled /\ UNCHANGED <<secure, sv, stack, in, banned, muted, cleared, mistaken>>

\* The ban that KICKBAN finds is not with the server yet and stays on the stack.
Waits(t) == ~Flushes(ban(c, t)) /\ \E i \in DOMAIN stack : stack[i] = Change(TRUE, "b", HostOf[t])

\* Whom KICKBAN keeps out: not those whose ban waits behind the kick.
KeptOut(t) == banned' = IF Knows /\ t \notin Immune /\ ~Waits(t) THEN banned \union {t} ELSE banned

KickbanWith(s, t, flush) ==
    /\ Under /\ Has(s, {"remove"})
    /\ t \in DOMAIN c.mem /\ ~Protected(t)
    /\ LET xs == ban(c, t) \o remove_ban_exceptions(c, t)
       IN Leaving(flush, Kicked(ApplyAll(c, xs), t), xs, try_kick(t))
    /\ KeptOut(t) /\ Meddled /\ UNCHANGED <<muted, cleared>>

\* Mutant of cs_cmd_kickban: the new ban stays on the stack too.
KickThenBan(s, t) == KickbanWith(s, t, FALSE)

cs_cmd_kickban(s, t) == KickbanWith(s, t, Flushes(ban(c, t)))

\* BAN of someone's host or of a mask; the ban is sent again if there is one.
cs_cmd_ban(s, m) ==
    /\ Under /\ Has(s, {"remove", "founder"})
    /\ Stacked(<<Change(TRUE, "b", m)>>)
    /\ Meddled /\ UNCHANGED <<banned, muted, cleared>>

\* All entries of a list that match the user go.
Unlisted(t, type) ==
    /\ Stacked(Deletions(c, type, Matching(t)))
    /\ IF type = "b" THEN LetIn({u \in Users : Listed(c, "b", u)}) /\ UNCHANGED muted
       ELSE Voiced({u \in Users : Listed(c, "mute", u)}) /\ UNCHANGED banned
    /\ Meddled /\ UNCHANGED cleared

MayUnlist(s, t) == Has(s, {"remove"}) \/ (Has(s, {"exempt"}) /\ t = s)

\* UNBAN of a user; UNBAN of a mask removes that one.
cs_cmd_unban(s, t) == Under /\ MayUnlist(s, t) /\ Unlisted(t, "b")

\* UNBAN of the module unban_self: only of oneself.
cs_cmd_unban_self(s) == Under /\ Has(s, {"remove", "exempt", "founder"}) /\ Unlisted(s, "b")

\* The changes that take the statuses of a member who is to be silenced; only an
\* operator's and a voice's need the access for them.
devoice_user(s, t) ==
    IF t \notin DOMAIN c.mem THEN [ok |-> TRUE, xs |-> <<>>]
    ELSE [ok |-> /\ "o" \in c.mem[t] => Has(s, {"op", "founder"})
                 /\ "o" \notin c.mem[t] /\ "v" \in c.mem[t] => Has(s, {"voice", "founder"})
                 /\ ~Protected(t),
          xs |-> SetToSeq({Change(FALSE, m, t) : m \in c.mem[t]})]

place_quietmask(t) == <<Change(TRUE, "mute", HostOf[t])>>

cs_cmd_quiet(s, t) ==
    /\ Under /\ Has(s, {"remove"}) /\ "mute" \in BanTypes
    /\ devoice_user(s, t).ok
    /\ LET xs == devoice_user(s, t).xs \o place_quietmask(t)
           es == remove_ban_exceptions(c, t)
       IN Leaving(Flushes(<<>>), ApplyAll(c, xs \o es), xs \o es, <<>>)
    /\ muted' = IF Knows /\ t \in DOMAIN c.mem THEN muted \union {t} ELSE muted
    /\ Meddled /\ UNCHANGED <<banned, cleared>>

cs_cmd_unquiet(s, t) == Under /\ MayUnlist(s, t) /\ "mute" \in BanTypes /\ Unlisted(t, "mute")

-----------------------------------------------------------------------------
(* CLEAR *)

MayClear(s) == Has(s, {"recover", "founder"})

\* All entries of the given lists go.
Emptied(ts) ==
    /\ Stacked(SetToSeq({Change(FALSE, b[1], b[2]) : b \in {x \in c.bans : x[1] \in ts}}))
    /\ IF "b" \in ts THEN LetIn(Users) ELSE UNCHANGED banned
    /\ IF "mute" \in ts THEN Voiced(Users) ELSE UNCHANGED muted
    /\ Meddled /\ UNCHANGED cleared

cs_cmd_clear_bans(s) == Under /\ MayClear(s) /\ Emptied({"b"})
cs_cmd_clear_excepts(s) == Under /\ MayClear(s) /\ "e" \in BanTypes /\ Emptied({"e"})
cs_cmd_clear_invex(s) == Under /\ MayClear(s) /\ "I" \in BanTypes /\ Emptied({"I"})
cs_cmd_clear_quiets(s) == Under /\ MayClear(s) /\ "mute" \in BanTypes /\ Emptied({"mute"})

\* CLEAR BANS of the module clear_bans_any: the lists are named.
cs_cmd_clear_bans_any(s, ts) == Under /\ MayClear(s) /\ ts # {} /\ Emptied(ts)

\* A limit keeps the users out while they are kicked; it is then put back, with the
\* mode changes to come.  The copy of services keeps the old limit.
cs_cmd_clear_users(s) ==
    /\ Under /\ MayClear(s)
    /\ LET kicks == DOMAIN c.mem \ ({s} \union Immune)
           close == IF c.limit # 1 THEN <<Change(TRUE, "l", 1)>> ELSE <<>>
       IN
       /\ c' = [c EXCEPT !.mem = [u \in DOMAIN @ \ kicks |-> @[u]]]
       /\ out' = out \o Flushed(stack \o close) \o SetToSeq({KICK(u) : u \in kicks})
       /\ stack' = IF c.limit = 1 THEN <<>> ELSE <<Change(c.limit # 0, "l", c.limit)>>
       /\ cleared' = IF Knows THEN kicks ELSE {}
    /\ Meddled /\ UNCHANGED <<secure, sv, in, banned, muted, mistaken>>

-----------------------------------------------------------------------------
(* RECOVER *)

\* All but the requester lose the statuses they have, other than voice.
Deopped(s) ==
    SetToSeq(UNION {{Change(FALSE, m, u) : m \in c.mem[u] \ {"v"}} : u \in DOMAIN c.mem \ {s}})

\* Modes that keep people out go when the requester is outside; inside, it is opped.
Reopened(s) ==
    IF s \in DOMAIN c.mem THEN IF "o" \in c.mem[s] THEN <<>> ELSE <<Change(TRUE, "o", s)>>
    ELSE (IF c.limit # 0 THEN <<Change(FALSE, "l", 0)>> ELSE <<>>)
         \o (IF "k" \in c.modes THEN <<Change(FALSE, "k", 0)>> ELSE <<>>)

Guarded(s) ==
    IF s \in DOMAIN c.mem \/ Has(s, {"op", "autoop"}) THEN <<Change(TRUE, "i", 0)>>
    ELSE IF "i" \in c.modes THEN <<Change(FALSE, "i", 0)>> ELSE <<>>

Exempted(s) ==
    Deletions(c, "b", Matching(s))
    \o IF s \notin DOMAIN c.mem /\ "e" \in BanTypes /\ <<"e", s>> \notin c.bans THEN <<Change(TRUE, "e", s)>> ELSE <<>>

cs_cmd_recover(s) ==
    /\ Under /\ Has(s, {"recover", "founder"})
    /\ LET xs == Deopped(s) \o Reopened(s) \o Guarded(s) \o Exempted(s)
           inv == IF s \in DOMAIN c.mem THEN <<>> ELSE <<INVITE(s)>>
       IN Leaving(TRUE, ApplyAll(c, xs), xs, inv)
    /\ recoverer' = IF Knows /\ s \notin DOMAIN c.mem THEN s ELSE None
    /\ LetIn(Users)
    /\ IF s \in DOMAIN c.mem THEN Voiced({s}) ELSE Voiced(Users)
    /\ UNCHANGED cleared

-----------------------------------------------------------------------------
(* What services do of themselves *)

\* The statuses a user has after joining with some.
OnJoin(u, st) ==
    LET auto == Has(u, {"autoop"}) /\ u \notin NoOp
        q == IF "q" \notin Statuses THEN st
             ELSE IF Has(u, {"owner"}) THEN IF auto THEN st \union {"q"} ELSE st
             ELSE IF secure THEN st \ {"q"} ELSE st
        a == IF "a" \notin Statuses THEN q
             ELSE IF Has(u, {"protect"}) THEN IF auto /\ "q" \notin q THEN q \union {"a"} ELSE q
             ELSE IF secure THEN q \ {"a"} ELSE q
        o == IF Has(u, {"autoop"}) THEN IF auto THEN a \union {"o"} ELSE a
             ELSE IF secure /\ ~Has(u, {"op"}) THEN a \ {"o"} ELSE a
        h == IF "h" \notin Statuses THEN o
             ELSE IF Has(u, {"autohalfop"}) THEN IF u \notin NoOp /\ "o" \notin o THEN o \union {"h"} ELSE o
             ELSE IF secure /\ ~Has(u, {"halfop"}) THEN o \ {"h"} ELSE o
    IN IF Has(u, {"autovoice"}) /\ u \notin NoOp /\ h \intersect {"o", "h", "v"} = {} THEN h \union {"v"} ELSE h

\* The changes that lead from some statuses of a user to others.
Between(u, st, new) == {Change(FALSE, m, u) : m \in st \ new} \union {Change(TRUE, m, u) : m \in new \ st}

cs_join(u, st) ==
    LET new == OnJoin(u, st) IN
    /\ c' = [c EXCEPT !.mem = [x \in DOMAIN @ \union {u} |-> IF x = u THEN new ELSE @[x]]]
    /\ stack' = stack \o SetToSeq(Between(u, st, new))

\* The statuses SYNC leaves a member with.
OnSync(u, st) ==
    LET auto == Has(u, {"autoop"}) /\ u \notin NoOp
        q == IF "q" \notin Statuses THEN st
             ELSE IF Has(u, {"owner"}) THEN IF auto THEN st \union {"q"} ELSE st ELSE st \ {"q"}
        a == IF "a" \notin Statuses THEN q
             ELSE IF Has(u, {"protect"}) THEN IF auto /\ "q" \notin q THEN q \union {"a"} ELSE q ELSE q \ {"a"}
        o == IF Has(u, {"autoop", "op"}) THEN IF auto THEN a \union {"o"} ELSE a ELSE a \ {"o"}
        h == IF "h" \notin Statuses THEN o
             ELSE IF ~Has(u, {"autohalfop", "halfop"}) THEN o \ {"h"}
             ELSE IF Has(u, {"autohalfop"}) /\ u \notin NoOp THEN o \union {"h"} ELSE o
        v == IF ~Has(u, {"autovoice", "voice"}) THEN h \ {"v"}
             ELSE IF Has(u, {"autovoice"}) /\ u \notin NoOp THEN h \union {"v"} ELSE h
    IN IF Has(u, {"autoop", "op"}) /\ "o" \in o THEN o
       ELSE IF "h" \in Statuses /\ Has(u, {"autohalfop", "halfop"}) /\ "h" \in h THEN h
       ELSE v

cs_cmd_sync(s) ==
    /\ Under /\ Has(s, {"recover", "founder"})
    /\ Stacked(SetToSeq(UNION {Between(u, c.mem[u], OnSync(u, c.mem[u])) : u \in DOMAIN c.mem}))
    /\ Voiced({u \in DOMAIN c.mem : OnSync(u, c.mem[u]) # {}})
    /\ Meddled /\ UNCHANGED <<banned, cleared>>

\* A status that someone without the access for it is given in a SECURE channel.
Unwanted(x) ==
    /\ secure /\ x[1] /\ x[2] \in Statuses /\ x[3] \in DOMAIN c.mem
    /\ \/ x[2] = "q" /\ ~Has(x[3], {"owner"})
       \/ x[2] = "a" /\ ~Has(x[3], {"protect"})
       \/ x[2] = "o" /\ ~Has(x[3], {"op", "autoop"})
       \/ x[2] = "h" /\ ~Has(x[3], {"halfop", "autohalfop"})

cs_bounce_mode_change(x) == IF Unwanted(x) THEN <<Change(FALSE, x[2], x[3])>> ELSE <<>>

\* The stack is sent when its timer runs.
modestack_flush_callback ==
    /\ stack # <<>> /\ out' = out \o Flushed(stack) /\ stack' = <<>>
    /\ UNCHANGED <<secure, c, sv, in, ghosts, events>>

\* Services take a message.
Receive ==
    /\ in # <<>> /\ in' = Tail(in)
    /\ LET m == Head(in) IN
       CASE m.t = "JOIN" /\ m.u \notin DOMAIN c.mem -> cs_join(m.u, m.st)
         [] m.t = "JOIN" /\ m.u \in DOMAIN c.mem -> c' = [c EXCEPT !.mem[m.u] = @ \union m.st] /\ UNCHANGED stack
         [] m.t = "PART" -> c' = Without(c, m.u) /\ UNCHANGED stack
         [] m.t = "MODE" -> LET xs == cs_bounce_mode_change(m.x) IN
                            c' = ApplyAll(c, <<m.x>> \o xs) /\ stack' = stack \o xs
         [] OTHER -> UNCHANGED <<c, stack>>
    /\ mistaken' = mistaken \union {u \in DOMAIN c.mem : Head(in).t = "JOIN" /\ Head(in).u = u}
    /\ UNCHANGED <<secure, sv, out, banned, muted, recoverer, cleared, events>>

-----------------------------------------------------------------------------
(* The server and its users *)

Acts == events < MaxEvents /\ events' = events + 1 /\ Len(in) < MaxUnder

\* The server takes a message of services; lifting the limit ends a CLEAR USERS.
Take ==
    /\ out # <<>> /\ out' = Tail(out) /\ sv' = Deliver(sv, Head(out))
    /\ cleared' = IF sv'.limit # 1 /\ sv.limit = 1 THEN {} ELSE cleared
    /\ UNCHANGED <<secure, c, stack, in, banned, muted, recoverer, mistaken, events>>

\* A user joins, or comes back from a split with a status it had.
Joins(u, st) ==
    /\ Acts /\ u \notin DOMAIN sv.mem /\ Open(sv, u)
    /\ sv' = [sv EXCEPT !.mem = [x \in DOMAIN @ \union {u} |-> IF x = u THEN st ELSE @[x]], !.invited = @ \ {u}]
    /\ in' = Append(in, [t |-> "JOIN", u |-> u, st |-> st])
    /\ recoverer' = None /\ muted' = muted \ {u}
    /\ UNCHANGED <<secure, c, stack, out, banned, cleared, mistaken>>

Parts(u) ==
    /\ Acts /\ u \in DOMAIN sv.mem /\ sv' = Without(sv, u)
    /\ in' = Append(in, [t |-> "PART", u |-> u])
    /\ recoverer' = None /\ muted' = muted \ {u}
    /\ UNCHANGED <<secure, c, stack, out, banned, cleared, mistaken>>

\* An operator changes a mode.
Sets(u, x) ==
    /\ Acts /\ u \in DOMAIN sv.mem /\ "o" \in sv.mem[u] /\ Apply(sv, x) # sv
    /\ sv' = Apply(sv, x) /\ in' = Append(in, [t |-> "MODE", x |-> x])
    /\ banned' = IF (x[2] = "b" /\ ~x[1]) \/ (x[2] = "e" /\ x[1]) THEN {} ELSE banned
    /\ muted' = IF x[1] # (x[2] = "mute") THEN {} ELSE muted
    /\ cleared' = IF x[2] = "l" THEN {} ELSE cleared
    /\ recoverer' = None /\ UNCHANGED <<secure, c, stack, out, mistaken>>

\* Services and the server agree; some users are there, with the statuses services
\* give, and one entry is on a list.
Init ==
    /\ secure \in BOOLEAN
    /\ \E S \in SUBSET Users, B \in {{}} \union {{b} : b \in BanTypes \X Hosts}, ms \in {{}, {"i"}}, l \in Limits :
        c = [mem |-> [u \in S |-> OnJoin(u, {})], bans |-> B, modes |-> ms, limit |-> l, invited |-> {}]
    /\ sv = c
    /\ stack = <<>> /\ out = <<>> /\ in = <<>>
    /\ banned = {} /\ muted = {} /\ recoverer = None /\ cleared = {} /\ mistaken = {} /\ events = 0

OpChanges ==
    {Change(on, m, u) : on \in BOOLEAN, m \in Statuses, u \in Users}
    \union {Change(on, t, m) : on \in BOOLEAN, t \in BanTypes, m \in Hosts}
    \union {Change(on, m, 0) : on \in BOOLEAN, m \in Modes}
    \union {Change(l # 0, "l", l) : l \in Limits}

Next ==
    \/ Take \/ Receive \/ modestack_flush_callback
    \/ \E s \in Users :
        \/ \E t \in Users :
            \/ \E on \in BOOLEAN :
                \/ cmd_op(s, t, on) \/ cmd_halfop(s, t, on) \/ cmd_voice(s, t, on)
                \/ cmd_owner(s, t, on) \/ cmd_protect(s, t, on)
            \/ cs_cmd_kick(s, t) \/ cs_cmd_kickban(s, t)
            \/ cs_cmd_unban(s, t) \/ cs_cmd_quiet(s, t) \/ cs_cmd_unquiet(s, t)
        \/ \E m \in Hosts : cs_cmd_ban(s, m)
        \/ cs_cmd_unban_self(s) \/ cs_cmd_sync(s)
        \/ cs_cmd_clear_bans(s) \/ cs_cmd_clear_excepts(s) \/ cs_cmd_clear_invex(s)
        \/ cs_cmd_clear_quiets(s) \/ \E ts \in SUBSET BanTypes : cs_cmd_clear_bans_any(s, ts)
        \/ cs_cmd_clear_users(s) \/ cs_cmd_recover(s)
        \/ Parts(s) \/ \E st \in {{}, {"o"}} : Joins(s, st)
        \/ \E x \in OpChanges : Sets(s, x)

Spec == Init /\ [][Next]_vars

-----------------------------------------------------------------------------
(* Properties *)

\* Whoever KICKBAN has thrown out does not come back, however the messages cross:
\* the ban is with the server before the kick, and no exception outlives it, unless
\* the ban was known and still on the stack (kick.c:163-168, services.c:42-97).
KickbannedStayOut == \A u \in banned : u \notin DOMAIN Arrived.mem /\ Barred(Arrived, u)

\* Whoever QUIET has silenced has no status and no exception left that would let it
\* speak, once what services have changed has arrived (quiet.c:303-315).
QuietedAreSilent == \A u \in muted : u \in DOMAIN Settled.mem => Silent(Settled, u)

\* Users whom CLEAR USERS has kicked cannot come back while others are still being
\* kicked (clear_users.c:84-88, "stop a race condition where users can rejoin").
ClearedAtOnce ==
    \A u \in cleared : u \in DOMAIN sv.mem => \E i \in 1 .. Len(out) : out[i].t = "KICK" /\ out[i].u = u

\* RECOVER from outside lets the requester in: the invitation comes after +i, which
\* the comment at recover.c:197 asks for, and no ban, key or limit is left.
RecovererEnters ==
    recoverer # None => Open(Arrived, recoverer) /\ "k" \notin Arrived.modes

\* When all messages have arrived, only those whose access allows it are operators or
\* halfops of a SECURE channel, and those whose join services missed because their
\* kick had crossed an earlier one (channels.c:385).
OnlyEntitled ==
    secure /\ stack = <<>> /\ out = <<>> /\ in = <<>> =>
        \A u \in DOMAIN sv.mem \ mistaken :
            /\ "o" \in sv.mem[u] => Has(u, {"op", "autoop", "founder", "recover"})
            /\ "h" \in sv.mem[u] => Has(u, {"halfop", "autohalfop", "founder"})

\* What the commands of ChanServ are for holds on the server, however they cross what
\* its users do.
CommandsHold == KickbannedStayOut /\ QuietedAreSilent /\ ClearedAtOnce /\ RecovererEnters /\ OnlyEntitled
=============================================================================
