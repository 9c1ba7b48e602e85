---------------------------- MODULE MCDatastream ----------------------------
(***************************************************************************)
(* What crosses the connection to the network: the bytes of the queues;    *)
(* the versions of one channel that meet in a burst; and ChanServ's        *)
(* commands, which cross what users do.  The parts share no state, so      *)
(* interleaving them would add no behaviour of any: which of them moves is *)
(* chosen once.                                                            *)
(*                                                                         *)
(* Datastream: chunks of three bytes and lines of at most two; a peer that *)
(* sends nothing is written to beyond the limit; one that sends any stream *)
(* of six newlines and other bytes, over two chunks, is answered once.     *)
(* Bursts: every protocol, two users, two timestamps; one protocol and two *)
(* statuses.  ChanStatus: two users of one host, with the access and the   *)
(* servers of S1 to S3; one user with more messages under way (S4).        *)
(***************************************************************************)
EXTENDS Datastream, TLC

CONSTANTS CS, x1, x2, h1, None

MCStreams == {<<>>} \union [1..6 -> {"x", "nl"}]
MCMaxAsked == [s \in MCStreams |-> IF s = <<>> THEN 10 ELSE 1]

VARIABLES
    part,
    proto, regts, svc, net, toSvc, toNet, newer, died, bevents,
    secure, chan, sv, stack, out, in, banned, muted, recoverer, cleared, mistaken, events

bVars == <<proto, regts, svc, net, toSvc, toNet, newer, died, bevents>>
sVars == <<secure, chan, sv, stack, out, in, banned, muted, recoverer, cleared, mistaken, events>>

B == INSTANCE Bursts WITH
         Protos <- {"ts6", "insp", "p10", "nefarious", "unreal", "unreal40", "bahamut", "ngircd", "ircnet"},
         Users <- {x1, x2}, Statuses <- {"o"}, TSs <- {1, 2}, RegTSs <- {None, 1}, MaxEvents <- 4,
         MaxSent <- 3, events <- bevents

\* The same with a status that SJOIN takes from a newer version too.
B2 == INSTANCE Bursts WITH
         Protos <- {"ts6"}, Users <- {x1, x2}, Statuses <- {"o", "q"}, TSs <- {1, 2}, RegTSs <- {None},
         MaxEvents <- 4, MaxSent <- 3, events <- bevents

MCHostOf == [u \in {x1, x2} |-> h1]

\* A founder and a user who may RECOVER.
S1 == INSTANCE ChanStatus WITH
          Users <- {x1, x2}, HostOf <- MCHostOf, Immune <- {}, NoOp <- {}, Limits <- {0}, MaxUnder <- 1,
          FlagsOf <- x1 :> {"op", "remove", "founder"} @@ x2 :> {"recover"}, Statuses <- {"o", "v"},
          BanTypes <- {"b", "e"}, MaxEvents <- 3, c <- chan

\* Every status and every list.
S2 == INSTANCE ChanStatus WITH
          Users <- {x1, x2}, HostOf <- MCHostOf, Immune <- {}, NoOp <- {}, Limits <- {0}, MaxUnder <- 1,
          FlagsOf <- x1 :> {"remove", "halfop", "voice", "owner", "protect", "recover", "autovoice"}
                     @@ x2 :> {"autoop", "owner", "protect", "exempt", "autohalfop"},
          Statuses <- {"q", "a", "o", "h", "v"}, BanTypes <- {"b", "e", "I", "mute"}, MaxEvents <- 2, c <- chan

\* A user who may lift what concerns itself, and a server with mutes.
S3 == INSTANCE ChanStatus WITH
          Users <- {x1, x2}, HostOf <- MCHostOf, Immune <- {}, NoOp <- {}, Limits <- {0}, MaxUnder <- 1,
          FlagsOf <- x1 :> {"op", "remove", "founder"} @@ x2 :> {"exempt"}, Statuses <- {"o", "v"},
          BanTypes <- {"b", "mute"}, MaxEvents <- 3, c <- chan

\* One user, and messages that cross others more than once.
S4 == INSTANCE ChanStatus WITH
          Users <- {x1}, HostOf <- [u \in {x1} |-> h1], Immune <- {}, NoOp <- {}, Limits <- {0}, MaxUnder <- 2,
          FlagsOf <- [u \in {x1} |-> {"remove", "exempt"}], Statuses <- {"o", "v"},
          BanTypes <- {"b"}, MaxEvents <- 5, c <- chan

ASSUME B!BurstsAssumption /\ B2!BurstsAssumption
ASSUME S1!ChanStatusAssumption /\ S2!ChanStatusAssumption /\ S3!ChanStatusAssumption /\ S4!ChanStatusAssumption

\* A part that does not move stays in one initial state.
MCInit ==
    /\ part \in {"queues", "bursts", "bursts2", "status1", "status2", "status3", "status4"}
    /\ Init /\ (part # "queues" => stream = <<>>)
    /\ B!Init /\ (part # "bursts" => proto = "ts6" /\ regts = None)
    /\ CASE part = "status1" -> S1!Init
         [] part = "status2" -> S2!Init
         [] part = "status4" -> S4!Init
         [] OTHER -> S3!Init
    /\ part \notin {"status1", "status2", "status3", "status4"} => ~secure /\ DOMAIN chan.mem = {} /\ chan.bans = {} /\ chan.modes = {}

MCNext ==
    \/ part = "queues" /\ Next /\ UNCHANGED <<part, bVars, sVars>>
    \/ part = "bursts" /\ B!Next /\ UNCHANGED <<part, vars, sVars>>
    \/ part = "bursts2" /\ B2!Next /\ UNCHANGED <<part, vars, sVars>>
    \/ part = "status1" /\ S1!Next /\ UNCHANGED <<part, vars, bVars>>
    \/ part = "status2" /\ S2!Next /\ UNCHANGED <<part, vars, bVars>>
    \/ part = "status3" /\ S3!Next /\ UNCHANGED <<part, vars, bVars>>
    \/ part = "status4" /\ S4!Next /\ UNCHANGED <<part, vars, bVars>>

\* The fairness of the queues, when they move.
MCFairness == SF_vars(part = "queues" /\ FlushReady) /\ WF_vars(part = "queues" /\ GetLine)

MCSpec == MCInit /\ [][MCNext]_<<part, vars, bVars, sVars>> /\ MCFairness

\* When nothing is under way, services and the network have the same version of
\* a channel, with every protocol, unless services took something of the newer
\* version (ts6-generic.c:717, unreal.c:915, nefarious.c:253).
VersionsAgree == B!VersionsAgree

\* KICKBAN, QUIET, CLEAR USERS and RECOVER have done what they say when the server
\* has their changes, however they cross with joins and changes of users
\* (kick.c:163, quiet.c:303, clear_users.c:84, recover.c:197).
CommandsHold ==
    CASE part = "status1" -> S1!CommandsHold
      [] part = "status2" -> S2!CommandsHold
      [] part = "status3" -> S3!CommandsHold
      [] part = "status4" -> S4!CommandsHold
      [] OTHER -> TRUE
=============================================================================
