----------------------------- MODULE MCDatabase -----------------------------
(***************************************************************************)
(* The database, and what it is written from: the nicknames and vhosts,    *)
(* and the settings of accounts and channels.  The parts share no state,   *)
(* so interleaving them would add no behaviour of any: which of them moves *)
(* is chosen once.                                                         *)
(*                                                                         *)
(* Database: two children are enough for one that is being replaced and    *)
(* its successor, or for an orphan and a child of the services after it.   *)
(* Nicks: three accounts for three names, two of them to an account.       *)
(* Hosts: two accounts and names, with a host that can be requested or     *)
(* with offers to a group.  Settings: two commands between saves and       *)
(* restarts.                                                               *)
(***************************************************************************)
EXTENDS Database

CONSTANTS a1, a2, a3, n1, n2, n3, u1, h1, g1, Template, v1, p3, p4, l1

VARIABLES
    part,
    exist, unused, main, owner, held, mark, old, host, login, nick, req, offers,
    cf, cmd, locked, uf, umd, lang, online, disk, ssaved, ncmd

nVars == <<exist, unused, main, owner, held, mark, old>>
hVars == <<host, login, nick, req, offers>>
sVars == <<cf, cmd, locked, uf, umd, lang, online, disk, ssaved, ncmd>>

N == INSTANCE Nicks WITH Accts <- {a1, a2, a3}, Names <- {n1, n2, n3}, MaxNicks <- 2

H1 == INSTANCE Hosts WITH
          Accts <- {a1, a2}, Names <- {n1, n2}, MaxNicks <- 2, Users <- {u1}, VHosts <- {h1},
          Groups <- {}, GroupTemplates <- {}, PerNick <- FALSE, MaxOffers <- 0

H2 == INSTANCE Hosts WITH
          Accts <- {a1, a2}, Names <- {n1, n2}, MaxNicks <- 2, Users <- {u1}, VHosts <- {},
          Groups <- {g1}, GroupTemplates <- {Template}, PerNick <- FALSE, MaxOffers <- 1

S == INSTANCE Settings WITH
         Values <- {v1}, Props <- {p3, p4}, Languages <- {l1}, MTA <- TRUE, MdLimit <- 1, MaxCommands <- 2,
         Defaults <- {[u |-> {}, c |-> {}], [u |-> {"ENFORCE", "NOPASSWORD"}, c |-> {"TOPICLOCK"}]},
         saved <- ssaved, n <- ncmd

ASSUME N!NicksAssumption /\ H1!NicksAssumption /\ H2!NicksAssumption /\ S!SettingsAssumption

\* A part that does not move stays in one initial state.
MCInit ==
    /\ part \in {"database", "nicks", "hosts", "offers", "settings"}
    /\ Init
    /\ CASE part = "nicks" -> N!NickInit /\ host = None /\ login = None /\ nick = None /\ req = None /\ offers = None
         [] part = "hosts" -> H1!Init
         [] OTHER -> H2!Init /\ (part # "offers" => nick[u1] = n1)
    /\ S!Init /\ (part # "settings" => "TOPICLOCK" \notin cf)

MCNext ==
    \/ part = "database" /\ Next /\ UNCHANGED <<part, nVars, hVars, sVars>>
    \/ part = "nicks" /\ N!NickNext /\ UNCHANGED <<part, vars, hVars, sVars>>
    \/ part = "hosts" /\ H1!Next /\ UNCHANGED <<part, vars, sVars>>
    \/ part = "offers" /\ H2!Next /\ UNCHANGED <<part, vars, sVars>>
    \/ part = "settings" /\ S!Next /\ UNCHANGED <<part, vars, nVars, hVars>>

\* The fairness of the database's processes, when they move.
MCFairness ==
    /\ \A w \in Writers : WF_vars(part = "database" /\ Write(w))
    /\ WF_vars(part = "database" /\ ChildprocCheck)

MCSpec == MCInit /\ [][MCNext]_<<part, vars, nVars, hVars, sVars>> /\ MCFairness

\* A name belongs to the account it was registered or grouped for, a mark sticks to
\* it when it is registered again (account.c:727-755, 853, 894),
\* and a request for a host goes to the account that made it (hostserv/request.c:140, 188).
AccountsKept ==
    /\ [](part = "nicks" => N!NamesOwned)
    /\ [][part = "nicks" => N!MarksStick]_nVars
    /\ [](part = "hosts" => H1!RequestsOwned)
    /\ [](part = "offers" => H2!RequestsOwned)

\* The settings of accounts and channels stay consistent and survive a restart
\* (flags.c:57, set_keeptopic.c:97, set_topiclock.c:78).
SettingsHold == S!SettingsHold
=============================================================================
