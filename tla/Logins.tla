------------------------------- MODULE Logins -------------------------------
(***************************************************************************)
(* Who is logged in to which account: u->myuser, mu->logins and what the   *)
(* ircd believes (libathemecore/services.c, account.c, users.c, servers.c  *)
(* and nickserv's identify, logout, register, cert, freeze, return, drop), *)
(* with the SASL sessions of modules/saslserv/main.c.                      *)
(*                                                                         *)
(* A SASL client is checked before it is on the network and logged in when *)
(* it is introduced; a client that comes back from a split is logged in by *)
(* the name its server remembers.  In between, the account can be dropped, *)
(* registered again, frozen or filled.                                     *)
(*                                                                         *)
(* An authentication service is loaded (authservice_loaded), registrations *)
(* are not verified by e-mail, and the ircd does not tell when an account  *)
(* was registered (ts = 0, as ts6-generic.c).                              *)
(***************************************************************************)
EXTENDS Integers, FiniteSets

CONSTANTS
    Clients,      \* uids
    Accounts,     \* account names
    Challenged,   \* the clients with a key for ecdsa-nist256p-challenge
    maxlogins,    \* me.maxlogins
    LogoutKills,  \* ircd_on_logout() kills the client (p10) or logs it out
    MaxGen,       \* bound, by name: how often it is registered
    None

ASSUME LoginsAssumption ==
    /\ None \notin Clients \union Accounts /\ Challenged \subseteq Clients
    /\ maxlogins \in Nat /\ MaxGen \in [Accounts -> Nat]
    /\ LogoutKills \in BOOLEAN

VARIABLES
    where,       \* of each client: away, connecting, online or split
    myuser,      \* u->myuser
    logins,      \* mu->logins
    registered,  \* the names that are accounts
    generation,  \* how often a name was registered: tells its accounts apart
    frozen,      \* the accounts with private:freeze:freezer
    noburst,     \* the accounts with MU_NOBURSTLOGIN
    sessions,    \* the uids with a SASL session
    authzid,     \* p->authzid, None until the mechanism knows it
    needlog,     \* the sessions with ASASL_NEED_LOG: login_user() has accepted
    marked,      \* the sessions with ASASL_MARKED_FOR_DELETION
    ircdlogin,   \* the account name the ircd has for a client
    granted,     \* history: the generation services granted that login for, or 0
    early,       \* history: who was introduced in the middle of its SASL exchange
                 \* and has the login that sasl_newuser() gave it
    splitgen     \* history: the generation whose sessions split last

userVars == <<where, myuser, logins>>
accountVars == <<registered, generation, frozen, noburst>>
saslVars == <<sessions, authzid, needlog, marked>>
ircdVars == <<ircdlogin, granted, early>>
vars == <<userVars, accountVars, saslVars, ircdVars, splitgen>>

Online == {c \in Clients : where[c] = "online"}

-----------------------------------------------------------------------------
(* Logging in and out *)

\* The logins of mu without the clients of S: mowgli_node_delete().
Without(S) == [a \in Accounts |-> logins[a] \ S]

\* myuser_login() of c, which is not logged in, with ircd_on_login().
Login(c, a, ls) ==
    /\ myuser' = [myuser EXCEPT ![c] = a]
    /\ logins' = [ls EXCEPT ![a] = @ \union {c}]
    /\ ircdlogin' = [ircdlogin EXCEPT ![c] = a]
    /\ granted' = [granted EXCEPT ![c] = generation[a]]
    /\ early' = early \ {c}

\* The clients S are deleted or logged out: ircd_on_logout(), then the node and
\* u->myuser are cleared; an ircd that kills leaves that to user_delete().
LogOut(S) ==
    /\ myuser' = [c \in Clients |-> IF c \in S THEN None ELSE myuser[c]]
    /\ logins' = Without(S)
    /\ ircdlogin' = [c \in Clients |-> IF c \in S THEN None ELSE ircdlogin[c]]
    /\ where' = [c \in Clients |->
          IF c \in S /\ LogoutKills THEN "away" ELSE where[c]]
    /\ granted' = [c \in Clients |-> IF c \in S THEN 0 ELSE granted[c]]
    /\ early' = early \ S

\* There is room for one more session of a.
Room(a) == Cardinality(logins[a]) < maxlogins

-----------------------------------------------------------------------------
(* NickServ *)

\* IDENTIFY or LOGIN with the right password.  A session of another account is
\* ended first, which may kill the client.
Identify(c, a) ==
    /\ c \in Online
    /\ a \in registered \ frozen
    /\ myuser[c] # a
    /\ Room(a)
    /\ IF myuser[c] # None /\ LogoutKills
       THEN LogOut({c})
       ELSE Login(c, a, Without({c})) /\ UNCHANGED where
    /\ UNCHANGED <<accountVars, saslVars, splitgen>>

\* handle_certfp() and CERT IDENTIFY: only who is not logged in.
Certfp(c, a) ==
    /\ c \in Online
    /\ myuser[c] = None
    /\ a \in registered \ frozen
    /\ Room(a)
    /\ Login(c, a, logins)
    /\ UNCHANGED <<where, accountVars, saslVars, splitgen>>

\* LOGOUT, also of another client by its account's owner.
Logout(c) ==
    /\ c \in Online
    /\ myuser[c] # None
    /\ LogOut({c})
    /\ UNCHANGED <<accountVars, saslVars, splitgen>>

\* REGISTER: the client is logged in to the new account, whose bursted logins
\* cannot be genuine.
Register(c, a) ==
    /\ c \in Online
    /\ myuser[c] = None
    /\ a \notin registered
    /\ generation[a] < MaxGen[a]
    /\ registered' = registered \union {a}
    /\ generation' = [generation EXCEPT ![a] = @ + 1]
    /\ noburst' = noburst \union {a}
    /\ myuser' = [myuser EXCEPT ![c] = a]
    /\ logins' = [logins EXCEPT ![a] = @ \union {c}]
    /\ ircdlogin' = [ircdlogin EXCEPT ![c] = a]
    /\ granted' = [granted EXCEPT ![c] = generation'[a]]
    /\ early' = early \ {c}
    /\ UNCHANGED <<where, frozen, saslVars, splitgen>>

\* myuser_delete(): DROP, FDROP or expiry.
Drop(a) ==
    /\ a \in registered
    /\ LogOut(logins[a])
    /\ registered' = registered \ {a}
    /\ frozen' = frozen \ {a}
    /\ noburst' = noburst \ {a}
    /\ UNCHANGED <<generation, saslVars, splitgen>>

\* FREEZE ON.
Freeze(a) ==
    /\ a \in registered \ frozen
    /\ frozen' = frozen \union {a}
    /\ LogOut(logins[a])
    /\ noburst' = noburst \union {a}
    /\ UNCHANGED <<registered, generation, saslVars, splitgen>>

\* FREEZE OFF.
Thaw(a) ==
    /\ a \in frozen
    /\ frozen' = frozen \ {a}
    /\ UNCHANGED <<userVars, registered, generation, noburst, saslVars,
                   ircdVars, splitgen>>

\* RETURN: a new password and e-mail address, and everybody is logged out.
Return(a) ==
    /\ a \in registered
    /\ LogOut(logins[a])
    /\ noburst' = noburst \union {a}
    /\ UNCHANGED <<registered, generation, frozen, saslVars, splitgen>>

-----------------------------------------------------------------------------
(* SASL sessions *)

\* Mutant of DestroySessions: the session is not taken off the list.
DestroySessionsNot(S) == UNCHANGED saslVars

\* destroy_session() of the sessions S.
DestroySessions(S) ==
    /\ sessions' = sessions \ S
    /\ authzid' = [c \in Clients |-> IF c \in S THEN None ELSE authzid[c]]
    /\ needlog' = needlog \ S
    /\ marked' = marked \ S

\* sasl_input() of host information or of part of a packet: make_session().
SaslInput(c) ==
    /\ where[c] = "connecting"
    /\ sessions' = sessions \union {c}
    /\ UNCHANGED <<userVars, accountVars, authzid, needlog, marked, ircdVars, splitgen>>

\* sasl_packet() with ASASL_MORE: the session makes progress.  The first message
\* names the mechanism; ecdsa-nist256p-challenge's second one may name the account
\* a (any name) and is answered with a challenge.  No mechanism asks for more
\* after that.
SaslMore(c, a) ==
    /\ where[c] = "connecting"
    /\ authzid[c] = None
    /\ a # None => c \in sessions \intersect Challenged
    /\ sessions' = sessions \union {c}
    /\ authzid' = [authzid EXCEPT ![c] = a]
    /\ marked' = marked \ {c}
    /\ UNCHANGED <<userVars, accountVars, needlog, ircdVars, splitgen>>

\* sasl_packet() with ASASL_DONE for the account a, when login_user() accepts:
\* the ircd is told, the session waits for the client's introduction.  A client
\* may send its credentials again; an exchange that has named an account is for it.
SaslDone(c, a) ==
    /\ where[c] = "connecting"
    /\ c \in sessions
    /\ authzid[c] \in {None, a} \/ c \in needlog
    /\ a \in registered \ frozen
    /\ Room(a)
    /\ authzid' = [authzid EXCEPT ![c] = a]
    /\ needlog' = needlog \union {c}
    /\ marked' = marked \ {c}
    /\ ircdlogin' = [ircdlogin EXCEPT ![c] = a]
    /\ granted' = [granted EXCEPT ![c] = generation[a]]
    /\ UNCHANGED <<userVars, accountVars, sessions, early, splitgen>>

\* The client aborts, login_user() refuses, the mechanism fails or its module
\* is unloaded.
SaslEnd(S) ==
    /\ DestroySessions(S)
    /\ UNCHANGED <<userVars, accountVars, ircdVars, splitgen>>

\* Mutant of DeleteStale: sessions are not marked for the next time.
DeleteStaleNoMark ==
    /\ sessions # {}
    /\ sessions' = sessions \ marked
    /\ authzid' = [c \in Clients |-> IF c \in marked THEN None ELSE authzid[c]]
    /\ needlog' = needlog \ marked
    /\ marked' = {}
    /\ UNCHANGED <<userVars, accountVars, ircdVars, splitgen>>

\* delete_stale(), every 30 seconds.
DeleteStale ==
    /\ sessions # {}
    /\ sessions' = sessions \ marked
    /\ authzid' = [c \in Clients |-> IF c \in marked THEN None ELSE authzid[c]]
    /\ needlog' = needlog \ marked
    /\ marked' = sessions \ marked
    /\ UNCHANGED <<userVars, accountVars, ircdVars, splitgen>>

-----------------------------------------------------------------------------
(* Clients come and go *)

\* external: a client connects to some ircd, with a uid that is not in use.
Connect(c) ==
    /\ where[c] = "away" /\ c \notin sessions
    /\ where' = [where EXCEPT ![c] = "connecting"]
    /\ UNCHANGED <<myuser, logins, accountVars, saslVars, ircdVars, splitgen>>

\* The account sasl_newuser() logs c in to: the session need not be done.
SaslLogin(c) ==
    IF c \in sessions /\ authzid[c] \in registered THEN authzid[c] ELSE None

\* Mutant of BurstLogin: MU_NOBURSTLOGIN is not looked at.
BurstLoginAlways(c) ==
    IF ircdlogin[c] \in registered THEN ircdlogin[c] ELSE None

\* The account handle_burstlogin() logs c in to.
BurstLogin(c) ==
    IF ircdlogin[c] \in registered \ noburst THEN ircdlogin[c] ELSE None

\* Mutant of Refused: the ircd is not told of a login that is not legit.
RefusedUnknownOnly(c) ==
    ircdlogin[c] # None /\ ircdlogin[c] \notin registered

\* handle_burstlogin() makes the ircd log c out: there is no such account, or
\* nobody of it can have split.
Refused(c) ==
    /\ ircdlogin[c] # None
    /\ \/ ircdlogin[c] \notin registered
       \/ SaslLogin(c) = None /\ ircdlogin[c] \in noburst

\* The login that results.
Result(c) == IF SaslLogin(c) # None THEN SaslLogin(c) ELSE BurstLogin(c)

\* A client is introduced, new or after a split (m_euid): user_add() runs
\* sasl_newuser(), then comes handle_burstlogin() with the ircd's login.
Introduce(c) ==
    LET a == Result(c)
        killed == Refused(c) /\ LogoutKills
    IN  /\ where[c] \in {"connecting", "split"}
        /\ DestroySessions({c})
        /\ where' = [where EXCEPT ![c] = IF killed THEN "away" ELSE "online"]
        /\ myuser' = [myuser EXCEPT ![c] = IF killed THEN None ELSE a]
        /\ logins' = [b \in Accounts |->
              IF b = a /\ ~killed THEN logins[b] \union {c} ELSE logins[b]]
        /\ ircdlogin' = [ircdlogin EXCEPT ![c] = IF Refused(c) THEN None ELSE @]
        /\ early' = IF c \in sessions \ needlog /\ SaslLogin(c) # None /\ ~killed
                    THEN early \union {c} ELSE early \ {c}
        /\ granted' = [granted EXCEPT ![c] = IF Refused(c) THEN 0 ELSE @]
        /\ UNCHANGED <<accountVars, splitgen>>

\* Mutant of Quit: the account keeps the client in its list of logins.
QuitKeepsLogin(c) ==
    /\ where[c] # "away"
    /\ where' = [where EXCEPT ![c] = "away"]
    /\ myuser' = [myuser EXCEPT ![c] = None]
    /\ ircdlogin' = [ircdlogin EXCEPT ![c] = None]
    /\ granted' = [granted EXCEPT ![c] = 0]
    /\ early' = early \ {c}
    /\ UNCHANGED <<logins, accountVars, saslVars, splitgen>>

\* A client quits or is killed (user_delete), before it is introduced, or while
\* its server is split off.  A session is left to delete_stale().
Quit(c) ==
    /\ where[c] # "away"
    /\ where' = [where EXCEPT ![c] = "away"]
    /\ myuser' = [myuser EXCEPT ![c] = None]
    /\ logins' = Without({c})
    /\ ircdlogin' = [ircdlogin EXCEPT ![c] = None]
    /\ granted' = [granted EXCEPT ![c] = 0]
    /\ early' = early \ {c}
    /\ UNCHANGED <<accountVars, saslVars, splitgen>>

\* server_delete() of the server of the clients S: logins of their accounts may
\* be bursted from now on.  The other side keeps the clients and their logins.
Split(S) ==
    LET left == {a \in Accounts : S \intersect logins[a] # {}}
    IN  /\ S \subseteq Online /\ S # {}
        /\ where' = [c \in Clients |-> IF c \in S THEN "split" ELSE where[c]]
        /\ myuser' = [c \in Clients |-> IF c \in S THEN None ELSE myuser[c]]
        /\ logins' = Without(S)
        /\ noburst' = noburst \ left
        /\ splitgen' = [a \in Accounts |->
              IF a \in left THEN generation[a] ELSE splitgen[a]]
        /\ early' = early \ S
        /\ UNCHANGED <<registered, generation, frozen, saslVars, ircdlogin, granted>>

-----------------------------------------------------------------------------
Init ==
    /\ where = [c \in Clients |-> "away"]
    /\ myuser = [c \in Clients |-> None]
    /\ logins = [a \in Accounts |-> {}]
    /\ registered = {}
    /\ generation = [a \in Accounts |-> 0]
    /\ frozen = {}
    /\ noburst = {}
    /\ sessions = {}
    /\ authzid = [c \in Clients |-> None]
    /\ needlog = {}
    /\ marked = {}
    /\ ircdlogin = [c \in Clients |-> None]
    /\ granted = [c \in Clients |-> 0]
    /\ early = {}
    /\ splitgen = [a \in Accounts |-> 0]

Next ==
    \/ \E c \in Clients :
          \/ Connect(c) \/ Introduce(c) \/ Quit(c) \/ Logout(c)
          \/ SaslInput(c) \/ \E a \in Accounts \union {None} : SaslMore(c, a)
          \/ \E a \in Accounts :
                Identify(c, a) \/ Certfp(c, a) \/ Register(c, a) \/ SaslDone(c, a)
    \/ \E a \in Accounts : Drop(a) \/ Freeze(a) \/ Thaw(a) \/ Return(a)
    \/ \E S \in SUBSET sessions \ {{}} : SaslEnd(S)
    \/ \E S \in SUBSET Clients : Split(S)
    \/ DeleteStale

Spec == Init /\ [][Next]_vars

\* The event loop runs delete_stale() every 30 seconds.
FairSpec == Spec /\ WF_vars(DeleteStale)

-----------------------------------------------------------------------------
(* Properties *)

\* Every variable keeps its type (u->myuser, mu->logins, the SASL sessions).
TypeOK ==
    /\ where \in [Clients -> {"away", "connecting", "online", "split"}]
    /\ myuser \in [Clients -> Accounts \union {None}]
    /\ logins \in [Accounts -> SUBSET Clients]
    /\ registered \subseteq Accounts
    /\ generation \in [Accounts -> Nat]
    /\ frozen \subseteq registered
    /\ noburst \subseteq registered
    /\ sessions \subseteq Clients
    /\ authzid \in [Clients -> Accounts \union {None}]
    /\ needlog \subseteq sessions
    /\ marked \subseteq sessions
    /\ early \subseteq Online
    /\ ircdlogin \in [Clients -> Accounts \union {None}]
    /\ granted \in [Clients -> Nat]
    /\ splitgen \in [Accounts -> Nat]

\* u->myuser and mu->logins are the same relation, between clients on the
\* network and accounts that exist: nothing points to a dropped account.
LoginsAgree ==
    /\ \A c \in Clients, a \in Accounts : c \in logins[a] <=> myuser[c] = a
    /\ \A c \in Clients : myuser[c] # None =>
          c \in Online /\ myuser[c] \in registered

\* Services and the ircd have the same login for every client on the network,
\* whichever of sasl_newuser() and handle_burstlogin() decided it; but not for one
\* that its ircd introduced in the middle of its SASL exchange: sasl_newuser() takes
\* the account that the session has by then, of which the ircd was not told.
IrcdAgrees == \A c \in Online \ early : ircdlogin[c] = myuser[c]

\* A SASL session ends when its client is introduced; once login_user() has accepted
\* it, the ircd has the login that the session will give.
SessionsWait ==
    \A c \in sessions :
        /\ where[c] \in {"connecting", "away"}
        /\ c \in needlog =>
              authzid[c] # None /\ (where[c] = "connecting" => ircdlogin[c] = authzid[c])

\* Whoever asks who is logged in gets one answer: the client, the account, the
\* ircd and the SASL session that is about to give the login agree, through
\* drops, freezes, splits and returns.
LoginStateAgrees == LoginsAgree /\ IrcdAgrees /\ SessionsWait

\* A login remembered across a split is restored only if it was given for the
\* account that has the name now, or if sessions of that account have split too
\* (services.c: "no splits for this account, this bursted login cannot be
\* legit").
BurstLoginLegit ==
    [][\A c \in Clients :
          where[c] = "split" /\ where'[c] = "online" /\ myuser'[c] # None
            => LET a == myuser'[c]
               IN  granted[c] = generation[a] \/ splitgen[a] = generation[a]]_vars

\* delete_stale(): a session that makes no progress is marked, and a marked one
\* is deleted.
StaleSessionsEnd ==
    \A c \in Clients :
        /\ c \in sessions \ marked ~> (c \in marked \/ c \notin sessions)
        /\ c \in marked ~> c \notin marked

\* help/default/nickserv/freeze: FREEZE "logs out all sessions logged in to the
\* account and prevents further logins".
FrozenStaysOut == \A a \in frozen : logins[a] = {}
=============================================================================
