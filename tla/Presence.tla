------------------------------ MODULE Presence ------------------------------
(***************************************************************************)
(* Where ChanServ and the bots sit: the services in one channel, whose     *)
(* registration comes and goes, as users, commands and the timer of        *)
(* ChanServ bring them in and take them out (modules/chanserv and          *)
(* modules/botserv).                                                       *)
(*                                                                         *)
(* The hooks run inside one another: a user's join makes the channel, for  *)
(* which a service may join; the join is told to BotServ, to CLOSE and to  *)
(* ChanServ in this order (the two that add themselves first are told in   *)
(* the reverse of the order services.conf loads them); one of these may    *)
(* remove the user, of which the part hooks are told before the user is    *)
(* gone.  They are operators on the channel here, put together in the      *)
(* order of the calls.                                                     *)
(*                                                                         *)
(* Left out: channels with a permanent mode or a log, services that are    *)
(* killed or kicked (they come back at once), the loss of the uplink.      *)
(***************************************************************************)
EXTENDS Integers, FiniteSets, Sequences, SequencesExt

CONSTANTS
    Users,    \* clients that are no services
    Immune,   \* those of them with immune_level, which try_kick() spares
    Bots,     \* nicknames of bots
    CS,       \* ChanServ
    None

\* What the constants are.
PresenceAssumption ==
    /\ Immune \subseteq Users
    /\ CS \notin Bots \union Users /\ Users \intersect Bots = {}
    /\ None \notin Bots \union Users \union {CS}
    /\ IsFiniteSet(Users) /\ IsFiniteSet(Bots)

VARIABLES
    chan,        \* the channel: its users and services, and MC_INHABIT
    registered,  \* there is a mychan_t
    guard,       \* MC_GUARD
    closed,      \* private:close:closer
    assigned,    \* private:botserv:bot-assigned, or None
    bots,        \* bs_bots
    unwanted,    \* the users with CA_AKICK, or none of what RESTRICTED asks for
    conf,        \* leave_chans, changets, and GUARD in default_cflags
    called       \* history: a command left ChanServ where no hook looks for it

vars == <<chan, registered, guard, closed, assigned, bots, unwanted, conf, called>>

\* A channel exists while it has a member.
Members(s) == s.users \union s.svc
Exists(s) == Members(s) # {}

-----------------------------------------------------------------------------
(* What happens to the channel s *)

join(s, n) == [s EXCEPT !.svc = @ \union {n}]
part(s, n) == [s EXCEPT !.svc = @ \ {n}]

\* get_changets_user(): who is in the channel for services.
Guardian == IF assigned # None THEN assigned ELSE CS

\* The part hooks, before the last user u is taken out; of the two only the one
\* whose service is in charge acts.
LastLeaves(s, u) == conf.leave /\ registered /\ s.users = {u} /\ ~s.inhabit
cs_part(s, u) == IF LastLeaves(s, u) /\ assigned = None THEN part(s, CS) ELSE s
bs_part(s, u) == IF LastLeaves(s, u) /\ assigned # None THEN part(s, assigned) ELSE s

\* chanuser_delete() of a user.
chanuser_delete(s, u) == [bs_part(cs_part(s, u), u) EXCEPT !.users = @ \ {u}]

\* try_kick().
try_kick(s, u) == IF u \in Immune THEN s ELSE chanuser_delete(s, u)

\* "Stay on channel if this would empty it".
Stay(s) ==
    IF Cardinality(s.users) # 1 THEN s
    ELSE [s EXCEPT !.inhabit = TRUE, !.svc = IF @ = {} THEN {CS} ELSE @]

\* A user that is not wanted is banned and removed.
Removed(s, u) == try_kick(Stay(s), u)

\* do_chanuser_sync() of a user.
do_chanuser_sync(s, u) == IF u \in unwanted' THEN Removed(s, u) ELSE s

\* do_channel_sync(), of those of the members it is about, in the order of the
\* list.
do_channel_sync(s, about) ==
    {FoldLeft(do_chanuser_sync, s, order) : order \in SetToSeqs(s.users \intersect about)}

\* cs_newchan(): a channel that is newer than the registration says is given
\* the old timestamp back, by a service that joins it.
cs_newchan(s, newer) ==
    IF ~Exists(s) /\ registered /\ conf.changets /\ newer
    THEN [join(s, Guardian) EXCEPT !.inhabit = TRUE] ELSE s

\* bs_join(): the bot comes with the first member.
bs_join(s) ==
    IF registered /\ assigned # None /\ Cardinality(Members(s)) = 1 THEN join(s, assigned) ELSE s

\* close_check_join(): nobody may stay in a closed channel.
close_check_join(s, u) == chanuser_delete([join(s, CS) EXCEPT !.inhabit = TRUE], u)

\* Mutant of NotNeeded: ChanServ goes although it guards the channel.
NotNeededThere(s) ==
    IF s.inhabit /\ Cardinality(s.users) >= 2
    THEN part([s EXCEPT !.inhabit = FALSE], CS) ELSE s

\* "A second user joined and was not kicked".
NotNeeded(s) ==
    IF s.inhabit /\ Cardinality(s.users) >= 2
    THEN LET t == [s EXCEPT !.inhabit = FALSE] IN IF guard THEN t ELSE part(t, CS)
    ELSE s

\* cs_join(), of a user in a channel that is not closed.
cs_join(s, u) ==
    LET t == IF guard /\ assigned = None /\ Cardinality(Members(s)) = 1 THEN join(s, CS) ELSE s
    IN  IF u \in unwanted THEN Removed(t, u) ELSE NotNeeded(t)

\* What the join hooks make of the channel that u has joined.
JoinHooks(s, u) ==
    IF ~registered THEN s
    ELSE IF closed THEN close_check_join(bs_join(s), u)
    ELSE cs_join(bs_join(s), u)

-----------------------------------------------------------------------------
(* Users *)

regVars == <<registered, guard, closed, assigned, bots, conf>>

\* A step that leaves the channel as s; ChanServ may have been called there.
Now(s, calling) ==
    /\ chan' = s
    /\ called' = (CS \in s.svc /\ (called \/ calling))

chanuser_add(u, newer) ==
    LET s == cs_newchan(chan, newer) IN
    /\ u \notin chan.users
    /\ Now(JoinHooks([s EXCEPT !.users = @ \union {u}], u), FALSE)
    /\ UNCHANGED <<regVars, unwanted>>

\* A user parts, quits or is kicked by another one.
UserParts(u) ==
    /\ u \in chan.users
    /\ Now(chanuser_delete(chan, u), FALSE)
    /\ UNCHANGED <<regVars, unwanted>>

\* A change of the access list at u, followed by a sync: of everyone, or of u and
\* those that are not logged in; with NOSYNC, and when it comes from a login
\* instead, of nobody.
sync_channel_acl_change(u, about) ==
    /\ registered
    /\ about = {} \/ u \in about
    /\ unwanted' = IF u \in unwanted THEN unwanted \ {u} ELSE unwanted \union {u}
    /\ \E s \in do_channel_sync(chan, about) : Now(s, FALSE)
    /\ UNCHANGED regVars

\* SYNC.
cs_cmd_sync ==
    /\ registered /\ ~closed /\ Exists(chan)
    /\ unwanted' = unwanted
    /\ \E s \in do_channel_sync(chan, Users) : Now(s, FALSE)
    /\ UNCHANGED regVars

\* A member of a group that is not wanted is kicked, immune or not.
grant_channel_access_hook(s, u) ==
    IF u \in s.users \intersect unwanted THEN chanuser_delete(Stay(s), u) ELSE s

\* A login, or a change of the host or of oper status, alone or in a group.
sync_user(u) ==
    /\ registered /\ u \in chan.users
    /\ unwanted' = unwanted
    /\ LET s == do_chanuser_sync(chan, u)
       IN  \E t \in {s, grant_channel_access_hook(s, u)} : Now(t, FALSE)
    /\ UNCHANGED regVars

-----------------------------------------------------------------------------
(* ChanServ *)

\* Mutant of Leaves: a guarded channel is not left when it is empty.
LeavesUnguarded == ~guard \/ closed

\* Whether ChanServ, which has stayed, leaves now.
Leaves == ~guard \/ closed \/ (conf.leave /\ chan.users = {})

\* The timer.
cs_leave_empty ==
    LET s == [chan EXCEPT !.inhabit = FALSE] IN
    /\ registered /\ chan.inhabit /\ Cardinality(chan.users) # 1
    /\ Now(IF Leaves THEN part(s, CS) ELSE s, FALSE)
    /\ UNCHANGED <<regVars, unwanted>>

\* REGISTER, with the channel_register hook.
cs_register ==
    /\ ~registered /\ chan.users # {}
    /\ registered' = TRUE /\ guard' = conf.guard
    /\ Now(IF conf.guard THEN join(chan, CS) ELSE chan, FALSE)
    /\ UNCHANGED <<closed, assigned, bots, unwanted, conf>>

\* ACTIVATE of a request made earlier: ChanServ joins also when nobody is there.
cs_cmd_activate ==
    /\ ~registered
    /\ registered' = TRUE /\ guard' = conf.guard
    /\ Now(IF conf.guard THEN join(chan, CS) ELSE chan, chan.users = {})
    /\ UNCHANGED <<closed, assigned, bots, unwanted, conf>>

\* The channel_drop hook, by which the bot leaves.
bs_channel_drop(s) == part(s, assigned)

\* The registration ends and ChanServ leaves.
Dropped ==
    /\ registered
    /\ registered' = FALSE /\ guard' = FALSE /\ closed' = FALSE /\ assigned' = None
    /\ unwanted' = {}
    /\ Now([part(bs_channel_drop(chan), CS) EXCEPT !.inhabit = FALSE], FALSE)
    /\ UNCHANGED <<bots, conf>>

\* DROP, FDROP and expiry; the founder may not drop a closed channel.
cs_cmd_drop == ~closed /\ Dropped
cs_cmd_fdrop == Dropped
expire_check == Dropped

\* SET GUARD.
cs_cmd_set_guard(on) ==
    /\ registered /\ guard # on
    /\ on => assigned = None
    /\ guard' = on
    /\ Now(IF chan.inhabit THEN chan ELSE IF on THEN join(chan, CS) ELSE part(chan, CS),
           on /\ chan.users = {})
    /\ UNCHANGED <<registered, closed, assigned, bots, unwanted, conf>>

\* CLOSE.
cs_cmd_close(on) ==
    /\ registered /\ closed # on
    /\ closed' = on
    /\ Now(IF on
           THEN IF Exists(chan)
                THEN FoldLeft(chanuser_delete, [join(chan, CS) EXCEPT !.inhabit = TRUE],
                              SetToSeq(chan.users))
                ELSE chan
           ELSE part([chan EXCEPT !.inhabit = FALSE], CS), FALSE)
    /\ UNCHANGED <<registered, guard, assigned, bots, unwanted, conf>>

\* RECOVER; of a channel that exists it only changes modes.
cs_cmd_recover ==
    /\ registered /\ ~closed /\ ~Exists(chan) /\ conf.changets
    /\ Now([join(chan, CS) EXCEPT !.inhabit = TRUE], assigned # None)
    /\ UNCHANGED <<regVars, unwanted>>

\* CLEAR USERS, by r.
cs_cmd_clear_users(r) ==
    LET s == FoldLeft(try_kick, chan, SetToSeq(chan.users \ {r})) IN
    /\ registered /\ ~closed /\ Exists(chan)
    /\ Now(IF guard /\ ~conf.leave /\ r \notin s.users THEN part(s, CS) ELSE s, FALSE)
    /\ UNCHANGED <<regVars, unwanted>>

\* ChanServ looks after the channels it guards.
join_registered(s) == IF guard /\ assigned = None /\ Exists(s) THEN join(s, CS) ELSE s

\* A rehash.
chanserv_config_ready ==
    /\ registered
    /\ Now(join_registered(chan), FALSE)
    /\ UNCHANGED <<regVars, unwanted>>

-----------------------------------------------------------------------------
(* BotServ *)

\* ASSIGN.
bs_cmd_assign(b) ==
    /\ registered /\ Exists(chan) /\ b \in bots /\ b # assigned
    /\ assigned' = b
    /\ Now(part(part(join(chan, b), assigned), CS), FALSE)
    /\ UNCHANGED <<registered, guard, closed, bots, unwanted, conf>>

\* Mutant of Relieved: ChanServ does not take over from the bot.
RelievedNot(s, b) == part(s, b)

\* The bot b goes, and ChanServ comes for it where it guards.
Relieved(s, b) ==
    part(IF guard /\ (~conf.leave \/ Cardinality(Members(s)) > 1) THEN join(s, CS) ELSE s, b)

Unassigned ==
    /\ registered /\ assigned # None
    /\ assigned' = None
    /\ Now(Relieved(chan, assigned), FALSE)
    /\ UNCHANGED <<registered, guard, closed, bots, unwanted, conf>>

\* UNASSIGN, and SET NOBOT of a channel with a bot.
bs_cmd_unassign == Unassigned
bs_cmd_set_nobot == Unassigned

\* BOT ADD.
bs_cmd_add(b) ==
    /\ b \notin bots
    /\ bots' = bots \union {b}
    /\ UNCHANGED <<chan, registered, guard, closed, assigned, unwanted, conf, called>>

\* BOT DEL.
bs_cmd_delete(b) ==
    /\ b \in bots
    /\ bots' = bots \ {b}
    /\ IF assigned = b THEN Now(Relieved(chan, b), FALSE) /\ assigned' = None
       ELSE UNCHANGED <<chan, assigned, called>>
    /\ UNCHANGED <<registered, guard, closed, unwanted, conf>>

\* BOT CHANGE: the bot quits and comes back with the name n.
bs_cmd_change(b, n) ==
    LET s == part(chan, b) IN
    /\ b \in bots /\ n \notin bots \ {b}
    /\ bots' = (bots \ {b}) \union {n}
    /\ IF assigned = b
       THEN /\ assigned' = n
            /\ Now(IF ~conf.leave \/ Exists(s) THEN join(s, n) ELSE s, FALSE)
       ELSE UNCHANGED <<chan, assigned, called>>
    /\ UNCHANGED <<registered, guard, closed, unwanted, conf>>

-----------------------------------------------------------------------------
Init ==
    /\ chan = [users |-> {}, svc |-> {}, inhabit |-> FALSE]
    /\ registered = FALSE /\ guard = FALSE /\ closed = FALSE
    /\ assigned = None /\ bots = {} /\ unwanted = {}
    /\ conf \in [leave : BOOLEAN, changets : BOOLEAN, guard : BOOLEAN]
    /\ called = FALSE

Next ==
    \/ \E u \in Users :
          \/ \E newer \in BOOLEAN : chanuser_add(u, newer)
          \/ UserParts(u)
          \/ \E about \in SUBSET Users : sync_channel_acl_change(u, about)
          \/ sync_user(u)
    \/ cs_cmd_sync \/ cs_leave_empty
    \/ cs_register \/ cs_cmd_activate
    \/ cs_cmd_drop \/ cs_cmd_fdrop \/ expire_check
    \/ \E on \in BOOLEAN : cs_cmd_set_guard(on) \/ cs_cmd_close(on)
    \/ cs_cmd_recover \/ chanserv_config_ready
    \/ \E r \in Users \union {None} : cs_cmd_clear_users(r)
    \/ \E b \in Bots : bs_cmd_assign(b) \/ bs_cmd_add(b) \/ bs_cmd_delete(b)
    \/ bs_cmd_unassign \/ bs_cmd_set_nobot
    \/ \E b, n \in Bots : bs_cmd_change(b, n)

Spec == Init /\ [][Next]_vars

\* The timer of cs_leave_empty() runs every five minutes.
FairSpec == Spec /\ WF_vars(cs_leave_empty)

-----------------------------------------------------------------------------
(* Properties *)

\* Types.
TypeOK ==
    /\ chan \in [users : SUBSET Users, svc : SUBSET (Bots \union {CS}), inhabit : BOOLEAN]
    /\ registered \in BOOLEAN /\ guard \in BOOLEAN /\ closed \in BOOLEAN
    /\ assigned \in bots \union {None} /\ bots \subseteq Bots
    /\ unwanted \subseteq Users /\ called \in BOOLEAN
    /\ conf \in [leave : BOOLEAN, changets : BOOLEAN, guard : BOOLEAN]

\* ChanServ or the assigned bot is with the users.
Guarded == guard /\ chan.users # {} /\ chan.svc \intersect {CS, assigned} # {}

\* A channel with GUARD that has its service does not lose it while users stay,
\* whoever comes, goes or is removed, whatever becomes of its bots, and when a
\* reason to stay is over (main.c:541, 941; botserv/main.c:789, 966).  CLEAR
\* USERS is exempt: it takes ChanServ out on purpose (clear_users.c:123).
GuardKept ==
    [][ \/ Guarded /\ guard' /\ chan'.users # {} => Guarded'
        \/ \E r \in Users \union {None} : cs_cmd_clear_users(r) ]_vars

\* With leave_chans, ChanServ does not stay where no user is: whatever it was
\* kept in the channel for, and whichever hook ought to have let it go, in the
\* end it leaves (main.c:672, 941), unless a command called it there.
EmptyLeft ==
    []<>~(conf.leave /\ CS \in chan.svc /\ chan.users = {} /\ ~called)

\* No service is in a channel that has no use for it: only the bot assigned to
\* it, and none once it is dropped.
NoStrayService ==
    /\ chan.svc \subseteq {CS, assigned}
    /\ ~registered => chan.svc = {}
=============================================================================
