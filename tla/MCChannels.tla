----------------------------- MODULE MCChannels -----------------------------
(***************************************************************************)
(* What services do of themselves in channels: ChanFix gives ops back in   *)
(* channels that are not registered, ChanServ and the bots sit in those    *)
(* that are.  They share no state, so interleaving them would add no       *)
(* behaviour of either: which of them moves is chosen once.                *)
(*                                                                         *)
(* ChanFix: two users at addresses of their own, and, in a part of its     *)
(* own because it takes many states, one user with an account.  Presence:  *)
(* three users, one of them immune, and two nicknames for bots.            *)
(***************************************************************************)
EXTENDS ChanFix

CONSTANTS u1, u2, u3, h1, h2, a1, b1, b2, CS, None

MCHostOf == [u \in Users |-> IF u = u1 THEN h1 ELSE h2]

VARIABLES
    part,
    aexists, ats, amembers, aops, abarred, aregistered, alogin, aaccounts, arec, aautofix,
    chan, pregistered, guard, closed, assigned, bots, unwanted, conf, called

aVars == <<aexists, ats, amembers, aops, abarred, aregistered, alogin, aaccounts, arec, aautofix>>
pVars == <<chan, pregistered, guard, closed, assigned, bots, unwanted, conf, called>>

A == INSTANCE ChanFix WITH
         Users <- {u1}, HostOf <- [u \in {u1} |-> h1], Accounts <- {a1}, TSs <- {1, 2}, MaxAge <- 3,
         exists <- aexists, ts <- ats, members <- amembers, ops <- aops, barred <- abarred,
         registered <- aregistered, login <- alogin, accounts <- aaccounts, rec <- arec,
         autofix <- aautofix

P == INSTANCE Presence WITH
         Users <- {u1, u2, u3}, Immune <- {u3}, Bots <- {b1, b2}, registered <- pregistered

ASSUME ChanFixAssumption /\ A!ChanFixAssumption /\ P!PresenceAssumption

MCInit ==
    /\ part \in {"chanfix", "accounts", "presence"}
    /\ ChanFixInit /\ (part # "chanfix" => autofix = TRUE)
    /\ A!ChanFixInit /\ (part # "accounts" => aautofix = TRUE)
    /\ P!Init /\ (part # "presence" => conf = [leave |-> TRUE, changets |-> TRUE, guard |-> TRUE])

MCNext ==
    \/ part = "chanfix" /\ ChanFixNext /\ UNCHANGED <<part, aVars, pVars>>
    \/ part = "accounts" /\ A!ChanFixNext /\ UNCHANGED <<part, chanfixVars, pVars>>
    \/ part = "presence" /\ P!Next /\ UNCHANGED <<part, chanfixVars, aVars>>

\* The fairness of each part, for the part that moves.
MCFairness ==
    /\ WF_chanfixVars(part = "chanfix" /\ chanfix_autofix_ev)
    /\ WF_chanfixVars(part = "chanfix" /\ Minute)
    /\ WF_aVars(part = "accounts" /\ A!chanfix_autofix_ev)
    /\ WF_aVars(part = "accounts" /\ A!Minute)
    /\ WF_pVars(part = "presence" /\ P!cs_leave_empty)

MCSpec == MCInit /\ [][MCNext]_<<part, chanfixVars, aVars, pVars>> /\ MCFairness

\* A fix gives ops to no one with less of a score than a member it leaves without,
\* gives them back as soon as a member has a score that is enough in the
\* end, and ends when that is done (fix.c:117-345); and the scores are of records
\* that are sound, also with accounts that are dropped and made again.
FixesEnd ==
    /\ HighestFirst /\ OpsReturn /\ FixEnds
    /\ []A!RecordsSound /\ A!HighestFirst /\ A!OpsReturn /\ A!FixEnds

\* A guarded channel does not lose its service while users stay, with
\* leave_chans ChanServ in the end leaves a channel without users, and no service
\* is where it has no use (chanserv/main.c:541, 672, 941; botserv/main.c:789, 966).
ServicesStay == P!GuardKept /\ P!EmptyLeft /\ []P!NoStrayService
=============================================================================
