------------------------------ MODULE MCTimers ------------------------------
(***************************************************************************)
(* Users of the event loop's timers: the connection to the network, with   *)
(* its reconnect and ping timers; the one timer that serves every timed    *)
(* AKICK; and the timer that removes groups without a founder.  They share *)
(* no state, so interleaving them would add no behaviour of any: which of  *)
(* them moves is chosen once.                                              *)
(*                                                                         *)
(* Uplink: three uplinks; the ping period is two units, the silence that   *)
(* ends a connection four (300 and 600 seconds).  Akick: one channel, an   *)
(* account, a hostmask and a wider one that matches it.  Groups: two       *)
(* accounts and a group with its templates; an account and two groups; two *)
(* accounts and a group with flags for joining, inviting and banning.      *)
(***************************************************************************)
EXTENDS Uplink

CONSTANTS c1, a1, wide, narrow, a2, g1, g2, t1

VARIABLES
    part,
    chanacs, akickdel_list, akickdel_next,
    exist, name, acs, set, tmpl, invite, freed

kVars == <<chanacs, akickdel_list, akickdel_next>>
gVars == <<exist, name, acs, set, tmpl, invite, freed>>

K == INSTANCE Akick WITH
         Channels <- {c1}, Entities <- {a1}, Masks <- {wide, narrow}, Mixed <- {a1},
         Matches <- {<<wide, wide>>, <<narrow, narrow>>, <<wide, narrow>>},
         Durations <- {1, 2}, MaxTimeouts <- 2

G1 == INSTANCE Groups WITH
          Accts <- {a1, a2}, Groups <- {g1}, GNames <- {1}, Flags <- {"F", "f", "s"}, Settings <- {},
          TNames <- {t1}, MaxGroups <- 1, MaxAcs <- 1

G2 == INSTANCE Groups WITH
          Accts <- {a1}, Groups <- {g1, g2}, GNames <- {1, 2}, Flags <- {"F", "f"}, Settings <- {},
          TNames <- {}, MaxGroups <- 1, MaxAcs <- 1

G3 == INSTANCE Groups WITH
          Accts <- {a1, a2}, Groups <- {g1}, GNames <- {1}, Flags <- {"F", "i", "b"},
          Settings <- {"pubacl"}, TNames <- {}, MaxGroups <- 1, MaxAcs <- 0

G4 == INSTANCE Groups WITH
          Accts <- {a1, a2}, Groups <- {g1}, GNames <- {1}, Flags <- {"F", "s"},
          Settings <- {"open", "acsnolimit"}, TNames <- {}, MaxGroups <- 1, MaxAcs <- 0

ASSUME K!AkickAssumption /\ G1!GroupsAssumption /\ G2!GroupsAssumption /\ G3!GroupsAssumption
ASSUME G4!GroupsAssumption

\* What moves; the other parts stay as they began.
MCInit ==
    /\ part \in {"uplink", "akick", "groups1", "groups2", "groups3", "groups4"}
    /\ Init /\ (part # "uplink" => uplinks = <<>>)
    /\ K!Init
    /\ IF part = "groups2" THEN G2!Init ELSE IF part = "groups3" THEN G3!Init
       ELSE IF part = "groups4" THEN G4!Init ELSE G1!Init

MCNext ==
    \/ part = "uplink" /\ Next /\ UNCHANGED <<part, kVars, gVars>>
    \/ part = "akick" /\ K!Next /\ UNCHANGED <<part, vars, gVars>>
    \/ part = "groups1" /\ G1!Next /\ UNCHANGED <<part, vars, kVars>>
    \/ part = "groups2" /\ G2!Next /\ UNCHANGED <<part, vars, kVars>>
    \/ part = "groups3" /\ G3!Next /\ UNCHANGED <<part, vars, kVars>>
    \/ part = "groups4" /\ G4!Next /\ UNCHANGED <<part, vars, kVars>>

\* The fairness of each part, for the part that moves.
MCFairness ==
    /\ WF_vars(part = "uplink" /\ Boot)
    /\ WF_vars(part = "uplink" /\ Reconn)
    /\ WF_vars(part = "uplink" /\ HandleConnect)
    /\ WF_kVars(part = "akick" /\ K!Tick)
    /\ WF_kVars(part = "akick" /\ K!akick_timeout_check)
    /\ WF_gVars(part = "groups1" /\ ~freed /\ G1!mygroup_expire)
    /\ WF_gVars(part = "groups2" /\ ~freed /\ G2!mygroup_expire)
    /\ WF_gVars(part = "groups3" /\ ~freed /\ G3!mygroup_expire)
    /\ WF_gVars(part = "groups4" /\ ~freed /\ G4!mygroup_expire)

MCSpec == MCInit /\ [][MCNext]_<<part, vars, kVars, gVars>> /\ MCFairness

\* The AKICK timer is never later than a timeout that AKICK ADD put on the
\* sorted list (akick.c:335, 401, 675), and an AKICK whose timeout waits for the
\* timer is lifted in the end, or its timeout is (akick.c:660).
AkicksEnd == [](part = "akick" => K!TimerCoversAkicks) /\ K!TimedAkicksEnd

\* Lists of groups hold existing accounts, the last founder goes by no command, and
\* a group without one is removed in the end (groupserv/flags.c:230,
\* main/hooks.c:8, 168).
GroupsKept ==
    /\ [](part = "groups1" => G1!MembersExist)
    /\ [](part = "groups2" => G2!MembersExist)
    /\ [](part = "groups3" => G3!MembersExist)
    /\ [](part = "groups4" => G4!MembersExist)
    /\ [][part = "groups1" => G1!LastFounderStays]_gVars
    /\ [][part = "groups2" => G2!LastFounderStays]_gVars
    /\ [][part = "groups3" => G3!LastFounderStays]_gVars
    /\ [][part = "groups4" => G4!LastFounderStays]_gVars
    /\ name[g1] # None /\ G2!Founders(g1) = {} ~> name[g1] = None \/ G2!Founders(g1) # {} \/ freed
=============================================================================
