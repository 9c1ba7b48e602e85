------------------------------ MODULE Network ------------------------------
(***************************************************************************)
(* The network state that services keep: clients, servers, channels and    *)
(* the uplink (libathemecore/users.c, servers.c, channels.c, uplink.c and  *)
(* the handlers of ptasks.c and services.c that call them).                *)
(*                                                                         *)
(* The code stores every relation twice: a client is in the nick index,    *)
(* in its server's list and in every channel's member list, and the        *)
(* counters next to the lists decide what happens (an empty channel dies   *)
(* when nummembers reaches 0, the uplink is recognised by cnt.server = 1). *)
(* Each copy is a variable here, updated exactly where the code updates    *)
(* it, so that the invariants are about the copies staying in step.        *)
(*                                                                         *)
(* An element of Users is a slot of user_heap.  user_delete frees the slot *)
(* before it calls introduce_enforcer, whose client takes the same slot.   *)
(***************************************************************************)
EXTENDS Integers, FiniteSets

CONSTANTS
    Users,        \* slots of the client heap
    Nicks,        \* nicknames
    Servers,      \* servers other than ours
    Me,           \* me.me, our own server
    Channels,     \* channel names
    Services,     \* the slots of the pseudo-clients started from the config
    ServiceNick,  \* their nicknames
    None          \* NULL

AllServers == Servers \union {Me}

ASSUME ConstantsDiffer ==
    /\ None \notin Users \union Nicks \union AllServers \union Channels
    /\ Me \notin Servers

ASSUME ServicesAssumption ==
    /\ Services \subseteq Users
    /\ ServiceNick \in [Services -> Nicks]
    /\ \A u, v \in Services : ServiceNick[u] = ServiceNick[v] => u = v

ASSUME FiniteAssumption ==
    IsFiniteSet(Users) /\ IsFiniteSet(Servers) /\ IsFiniteSet(Channels)

VARIABLES
    \* user_t
    nick,          \* u->nick, None for a free slot
    home,          \* u->server
    channels,      \* u->channels
    doenforce,     \* the clients with UF_DOENFORCE
    enforcers,     \* the clients with UF_ENFORCER
    userlist,      \* the nick index
    \* server_t
    uplink,        \* s->uplink, None for a server that is not linked
    children,      \* s->children
    svusers,       \* s->userlist
    users,         \* s->users
    \* channel_t
    chanlist,      \* the channels that exist
    perm,          \* the channels with ircd->perm_mode
    members,       \* c->members
    nummembers,    \* c->nummembers
    numsvcmembers, \* c->numsvcmembers
    \* me and cnt
    connected,     \* me.connected
    actual,        \* me.actual
    introduced,    \* our clients that the uplink has been told about
    cnt            \* cnt.user, cnt.server, cnt.chan, cnt.chanuser

userVars == <<nick, home, channels, doenforce, enforcers, userlist>>
serverVars == <<uplink, children, svusers, users>>
chanVars == <<chanlist, perm, members, nummembers, numsvcmembers>>
meVars == <<connected, actual, introduced, cnt>>
vars == <<userVars, serverVars, chanVars, meVars>>

-----------------------------------------------------------------------------
(* Helpers *)

Live == {u \in Users : nick[u] # None}
Free == Users \ Live

\* is_internal_client(): the client is on our own server.
Internal(u) == home[u] = Me

Linked == {s \in Servers : uplink[s] # None}

\* The sets of servers that contain every child of their members.
Closed(S) == \A s \in S : children[s] \subseteq S

\* The server s with everything linked behind it: what the recursion of
\* server_delete_serv() visits.
Subtree(s) ==
    {t \in Servers : \A S \in SUBSET Servers : s \in S /\ Closed(S) => t \in S}

-----------------------------------------------------------------------------
(* Leaving channels *)

\* The clients of D that chanuser_delete() takes out of c.
LeftBy(D, c) == {u \in D : c \in channels[u]}

\* Mutant of Emptied: nummembers is tested before it is counted down.
EmptiedTestsFirst(D) ==
    {c \in chanlist :
        LeftBy(D, c) # {} /\ nummembers[c] = 0 /\ c \notin perm}

\* The channels that die because chanuser_delete() counts them down to zero.
Emptied(D) ==
    {c \in chanlist :
        /\ LeftBy(D, c) # {}
        /\ nummembers[c] - Cardinality(LeftBy(D, c)) = 0
        /\ c \notin perm}

\* The same when only the channels of X are left.
Gone(D, X, c) == IF c \in X THEN LeftBy(D, c) ELSE {}

\* Our own clients among them.
GoneSvc(D, X, c) == {u \in Gone(D, X, c) : Internal(u)}

\* chanuser_delete() of every client of D from every channel of X, then
\* channel_delete() of the channels in Dead: their other members are dropped
\* by channel_delete() itself.
LeaveChannels(D, X, Dead) ==
    /\ members' = [c \in Channels |->
          IF c \in Dead THEN {} ELSE members[c] \ Gone(D, X, c)]
    /\ nummembers' = [c \in Channels |->
          IF c \in Dead THEN 0
          ELSE nummembers[c] - Cardinality(Gone(D, X, c))]
    /\ numsvcmembers' = [c \in Channels |->
          IF c \in Dead THEN 0
          ELSE numsvcmembers[c] - Cardinality(GoneSvc(D, X, c))]
    /\ channels' = [u \in Users |->
          (channels[u] \ Dead) \ (IF u \in D THEN X ELSE {})]
    /\ chanlist' = chanlist \ Dead
    /\ perm' = perm \ Dead

\* The chanuser_t objects that LeaveChannels(D, X, Dead) frees.
Dropped(D, X, Dead) ==
    {m \in Channels \X Users :
        \/ m[1] \in X /\ m[2] \in D /\ m[1] \in channels[m[2]]
        \/ m[1] \in Dead /\ m[2] \in members[m[1]]}

-----------------------------------------------------------------------------
(* Deleting clients *)

\* The clients of D on server s.
OnServer(D, s) == {u \in D : home[u] = s}

\* user_delete() of every client of D.  The nicknames of the clients of E are
\* given to enforcers: introduce_enforcer() adds a client on our server under
\* the old nickname, which reaches the uplink only while we are connected.
DeleteUsers(D, E) ==
    /\ nick' = [u \in Users |-> IF u \in D \ E THEN None ELSE nick[u]]
    /\ home' = [u \in Users |->
          IF u \in E THEN Me ELSE IF u \in D THEN None ELSE home[u]]
    /\ doenforce' = doenforce \ D
    /\ enforcers' = (enforcers \ D) \union E
    /\ userlist' = [n \in Nicks |->
          IF \E u \in D : nick[u] = n
          THEN IF \E u \in E : nick[u] = n
               THEN CHOOSE u \in E : nick[u] = n
               ELSE None
          ELSE userlist[n]]
    /\ svusers' = [s \in AllServers |->
          (svusers[s] \ OnServer(D, s))
             \union (IF s = Me THEN E ELSE {})]
    /\ users' = [s \in AllServers |->
          users[s] - Cardinality(OnServer(D, s))
             + (IF s = Me THEN Cardinality(E) ELSE 0)]

\* Mutant of ForgetServers: the uplink keeps the deleted child in its list.
ForgetServersKeepsChild(T) ==
    /\ uplink' = [s \in Servers |-> IF s \in T THEN None ELSE uplink[s]]
    /\ children' = [s \in AllServers |-> IF s \in T THEN {} ELSE children[s]]

\* The servers of T are taken out of the tree, user by user, child by child.
ForgetServers(T) ==
    /\ uplink' = [s \in Servers |-> IF s \in T THEN None ELSE uplink[s]]
    /\ children' = [s \in AllServers |->
          IF s \in T THEN {} ELSE children[s] \ T]

\* The counters after clients D, enforcers E, channels C, memberships M and
\* servers T came or went.
Count(D, E, C, M, T) ==
    cnt' = [user |-> cnt.user - Cardinality(D) + Cardinality(E),
            server |-> cnt.server - Cardinality(T),
            chan |-> cnt.chan - Cardinality(C),
            chanuser |-> cnt.chanuser - Cardinality(M)]

\* The clients of D that must leave an enforcer behind.
Enforced(D) == D \intersect doenforce

\* Mutant of UserDelete: the client stays in its channels.
UserDeleteKeepsChannels(D, E) ==
    /\ DeleteUsers(D, E)
    /\ Count(D, E, {}, {}, {})
    /\ introduced' = (introduced \ D) \union E
    /\ UNCHANGED <<channels, chanVars, uplink, children, connected, actual>>

\* user_delete() of the clients D with everything it calls; E are those that
\* still have UF_DOENFORCE when it is called.
UserDelete(D, E) ==
    /\ DeleteUsers(D, E)
    /\ LeaveChannels(D, Channels, Emptied(D))
    /\ Count(D, E, Emptied(D), Dropped(D, Channels, Emptied(D)), {})
    /\ introduced' = (introduced \ D) \union E
    /\ UNCHANGED <<uplink, children, connected, actual>>

\* The clients whose user_delete() the deletion of the servers T calls.
UsersOf(T) == UNION {svusers[s] : s \in T}

-----------------------------------------------------------------------------
(* Clients *)

\* The record user_add() fills in for a new client in the free slot u.
NewUser(u, n, s) ==
    /\ nick' = [nick EXCEPT ![u] = n]
    /\ home' = [home EXCEPT ![u] = s]
    /\ userlist' = [userlist EXCEPT ![n] = u]
    /\ svusers' = [svusers EXCEPT ![s] = @ \union {u}]
    /\ users' = [users EXCEPT ![s] = @ + 1]
    /\ cnt' = [cnt EXCEPT !.user = @ + 1]

\* A server introduces a client (m_nick, m_uid, m_euid -> user_add).  A nick
\* held by one of our clients wins: only a KILL is sent.  A nick held by
\* another remote client kills both.
UserAdd(n, s) ==
    LET u2 == userlist[n]
    IN  /\ connected
        /\ s \in Linked
        /\ \/ /\ u2 = None
              /\ \E u \in Free : NewUser(u, n, s)
              /\ UNCHANGED <<channels, doenforce, enforcers, uplink, children,
                             chanVars, connected, actual, introduced>>
           \/ /\ u2 # None /\ ~Internal(u2)
              /\ UserDelete({u2}, Enforced({u2}))

\* A remote client quits or is killed (m_quit, handle_kill, kill_user).
UserQuit(u) ==
    /\ u \in Live /\ ~Internal(u)
    /\ UserDelete({u}, Enforced({u}))

\* An enforcer is killed, or its nick is released or regained.
EnforcerQuit(u) ==
    /\ u \in enforcers
    /\ UserDelete({u}, Enforced({u}))

\* enforce_remove_enforcers(), every 300 seconds.
RemoveEnforcers ==
    /\ enforcers # {}
    /\ UserDelete(enforcers, Enforced(enforcers))

\* enforce.c asks the ircd to rename the client and remembers to hold the
\* nickname when that happens (ircds without holdnick_sts).
SetDoEnforce(u) ==
    /\ u \in Live /\ ~Internal(u)
    /\ u \notin doenforce
    /\ doenforce' = doenforce \union {u}
    /\ UNCHANGED <<nick, home, channels, enforcers, userlist, serverVars,
                   chanVars, meVars>>

\* Mutant of NickCollision: the holder of the nick is killed even when it is
\* one of our own clients.
NickCollisionKillsHolder(u, n) ==
    LET u2 == userlist[n]
    IN  u2 \notin {None, u} /\ UserDelete({u, u2}, Enforced({u2}))

\* user_changenick() into a nick that another client has.  UF_DOENFORCE of the
\* changing client was cleared before the collision is noticed.
NickCollision(u, n) ==
    LET u2 == userlist[n]
    IN  /\ u2 \notin {None, u}
        /\ \/ Internal(u2) /\ UserDelete({u}, {})
           \/ ~Internal(u2) /\ UserDelete({u, u2}, Enforced({u2}))

\* Mutants of NickChanged: the old nick stays in the index; the enforcer is
\* forgotten.
NickChangedKeepsOld(u, n) ==
    /\ userlist[n] \in {None, u}
    /\ nick' = [nick EXCEPT ![u] = n]
    /\ userlist' = [userlist EXCEPT ![n] = u]
    /\ UNCHANGED <<home, doenforce, enforcers, svusers, users, introduced, cnt>>
    /\ UNCHANGED <<channels, uplink, children, chanVars, connected, actual>>

NickChangedNoEnforcer(u, n) ==
    /\ userlist[n] \in {None, u}
    /\ nick' = [nick EXCEPT ![u] = n]
    /\ userlist' = [userlist EXCEPT ![nick[u]] = None, ![n] = u]
    /\ doenforce' = IF n = nick[u] THEN doenforce ELSE doenforce \ {u}
    /\ UNCHANGED <<home, enforcers, svusers, users, introduced, cnt>>
    /\ UNCHANGED <<channels, uplink, children, chanVars, connected, actual>>

\* user_changenick() without collision; an enforcer takes the old nick.
NickChanged(u, n) ==
    /\ userlist[n] \in {None, u}
    /\ \/ /\ u \notin doenforce \/ n = nick[u]
          /\ nick' = [nick EXCEPT ![u] = n]
          /\ userlist' = [userlist EXCEPT ![nick[u]] = None, ![n] = u]
          /\ UNCHANGED <<home, doenforce, enforcers, svusers, users, introduced,
                         cnt>>
       \/ /\ u \in doenforce /\ n # nick[u]
          /\ doenforce' = doenforce \ {u}
          /\ \E e \in Free :
                /\ nick' = [nick EXCEPT ![u] = n, ![e] = nick[u]]
                /\ home' = [home EXCEPT ![e] = Me]
                /\ userlist' = [userlist EXCEPT ![nick[u]] = e, ![n] = u]
                /\ svusers' = [svusers EXCEPT ![Me] = @ \union {e}]
                /\ users' = [users EXCEPT ![Me] = @ + 1]
                /\ cnt' = [cnt EXCEPT !.user = @ + 1]
                /\ enforcers' = enforcers \union {e}
                /\ introduced' = introduced \union {e}
    /\ UNCHANGED <<channels, uplink, children, chanVars, connected, actual>>

\* A remote client changes its nickname (m_nick).
NickChange(u, n) ==
    /\ u \in Live /\ ~Internal(u)
    /\ NickCollision(u, n) \/ NickChanged(u, n)

-----------------------------------------------------------------------------
(* Channels *)

\* chanuser_add() of u to c, in the chanlist, perm of the caller.
ChanuserAdd(c, u) ==
    /\ members' = [members EXCEPT ![c] = @ \union {u}]
    /\ channels' = [channels EXCEPT ![u] = @ \union {c}]
    /\ nummembers' = [nummembers EXCEPT ![c] = @ + 1]
    /\ numsvcmembers' = [numsvcmembers EXCEPT
          ![c] = IF Internal(u) THEN @ + 1 ELSE @]
    /\ cnt' = [user |-> cnt.user,
               server |-> cnt.server,
               chan |-> IF c \in chanlist THEN cnt.chan ELSE cnt.chan + 1,
               chanuser |-> cnt.chanuser + 1]

\* Mutant of Join: a client that is in the channel is added again.
JoinTwice(u, c) ==
    /\ connected
    /\ u \in Live \ enforcers
    /\ nummembers[c] <= Cardinality(Users)
    /\ ChanuserAdd(c, u)
    /\ chanlist' = chanlist \union {c}
    /\ UNCHANGED <<nick, home, doenforce, enforcers, userlist, serverVars,
                   perm, connected, actual, introduced>>

\* A client enters a channel: channel_add() if it does not exist, then
\* chanuser_add() (m_join, m_sjoin, and join() for our own clients).
Join(u, c) ==
    /\ connected
    /\ u \in Live \ enforcers
    /\ u \notin members[c]
    /\ ChanuserAdd(c, u)
    /\ chanlist' = chanlist \union {c}
    /\ UNCHANGED <<nick, home, doenforce, enforcers, userlist, serverVars,
                   perm, connected, actual, introduced>>

\* A client leaves a channel (m_part, m_kick of a remote client, part()).
Part(u, c) ==
    LET dead == IF c \in Emptied({u}) THEN {c} ELSE {}
    IN  /\ connected
        /\ u \in members[c]
        /\ LeaveChannels({u}, {c}, dead)
        /\ Count({}, {}, dead, Dropped({u}, {c}, dead), {})
        /\ UNCHANGED <<nick, home, doenforce, enforcers, userlist, serverVars,
                       connected, actual, introduced>>

\* m_kick of one of our clients: it leaves and join() puts it back, into a new
\* channel if the old one died with it.
KickService(u, c) ==
    /\ connected
    /\ u \in members[c] /\ Internal(u)
    /\ c \in Emptied({u})
    /\ members' = [members EXCEPT ![c] = {u}]
    /\ nummembers' = [nummembers EXCEPT ![c] = 1]
    /\ numsvcmembers' = [numsvcmembers EXCEPT ![c] = 1]
    /\ channels' = [v \in Users |->
          IF v = u THEN channels[u] ELSE channels[v] \ {c}]
    /\ perm' = perm \ {c}
    /\ UNCHANGED <<nick, home, doenforce, enforcers, userlist, serverVars,
                   chanlist, meVars>>

\* channel_mode() sets or clears the permanent mode, also of a channel that is
\* empty (OperServ MODE): nothing destroys that one.
ModePerm(c) ==
    /\ connected
    /\ c \in chanlist
    /\ perm' = IF c \in perm THEN perm \ {c} ELSE perm \union {c}
    /\ UNCHANGED <<userVars, serverVars, chanlist, members, nummembers,
                   numsvcmembers, meVars>>

-----------------------------------------------------------------------------
(* Servers and the uplink *)

\* irc_handle_connect(): server_login() bursts the services (services_init).
UplinkConnect ==
    /\ ~connected
    /\ connected' = TRUE
    /\ introduced' = Services
    /\ UNCHANGED <<userVars, serverVars, chanVars, actual, cnt>>

\* Mutant of ServerAdd: me.actual is not set for the uplink.
ServerAddForgetsActual(p, s) ==
    /\ connected
    /\ s \in Servers \ Linked
    /\ (p = Me /\ cnt.server = 1) \/ p \in Linked
    /\ uplink' = [uplink EXCEPT ![s] = p]
    /\ children' = [children EXCEPT ![p] = @ \union {s}]
    /\ cnt' = [cnt EXCEPT !.server = @ + 1]
    /\ UNCHANGED <<userVars, svusers, users, chanVars, connected, introduced,
                   actual>>

\* handle_server(): the uplink names itself (it is the only server we know
\* beside our own), or a known server introduces another one.
ServerAdd(p, s) ==
    /\ connected
    /\ s \in Servers \ Linked
    /\ \/ p = Me /\ cnt.server = 1 /\ actual' = s
       \/ p \in Linked /\ UNCHANGED actual
    /\ uplink' = [uplink EXCEPT ![s] = p]
    /\ children' = [children EXCEPT ![p] = @ \union {s}]
    /\ cnt' = [cnt EXCEPT !.server = @ + 1]
    /\ UNCHANGED <<userVars, svusers, users, chanVars, connected, introduced>>

\* server_delete() of a server behind the uplink (m_squit, jupe()): its
\* clients and everything behind it go, the clients' channels with them.
ServerDelete(s) ==
    LET T == Subtree(s)
        D == UsersOf(T)
        E == Enforced(D)
    IN  /\ connected
        /\ s \in Linked \ {actual}
        /\ DeleteUsers(D, E)
        /\ LeaveChannels(D, Channels, Emptied(D))
        /\ ForgetServers(T)
        /\ Count(D, E, Emptied(D), Dropped(D, Channels, Emptied(D)), T)
        /\ introduced' = (introduced \ D) \union E
        /\ UNCHANGED <<connected, actual>>

\* uplink_close(): the uplink's subtree is deleted, then every channel left.
UplinkClose ==
    LET T == IF actual = None THEN {} ELSE Subtree(actual)
        D == UsersOf(T)
        E == Enforced(D)
    IN  /\ connected
        /\ connected' = FALSE
        /\ actual' = None
        /\ introduced' = {}
        /\ DeleteUsers(D, E)
        /\ LeaveChannels(D, Channels, chanlist)
        /\ ForgetServers(T)
        /\ Count(D, E, chanlist, Dropped(D, Channels, chanlist), T)

-----------------------------------------------------------------------------
Init ==
    /\ nick = [u \in Users |-> IF u \in Services THEN ServiceNick[u] ELSE None]
    /\ home = [u \in Users |-> IF u \in Services THEN Me ELSE None]
    /\ channels = [u \in Users |-> {}]
    /\ doenforce = {}
    /\ enforcers = {}
    /\ userlist = [n \in Nicks |->
          IF \E u \in Services : ServiceNick[u] = n
          THEN CHOOSE u \in Services : ServiceNick[u] = n
          ELSE None]
    /\ uplink = [s \in Servers |-> None]
    /\ children = [s \in AllServers |-> {}]
    /\ svusers = [s \in AllServers |-> IF s = Me THEN Services ELSE {}]
    /\ users = [s \in AllServers |-> IF s = Me THEN Cardinality(Services) ELSE 0]
    /\ chanlist = {}
    /\ perm = {}
    /\ members = [c \in Channels |-> {}]
    /\ nummembers = [c \in Channels |-> 0]
    /\ numsvcmembers = [c \in Channels |-> 0]
    /\ connected = FALSE
    /\ actual = None
    /\ introduced = {}
    /\ cnt = [user |-> Cardinality(Services), server |-> 1, chan |-> 0,
              chanuser |-> 0]

Next ==
    \/ UplinkConnect
    \/ UplinkClose
    \/ RemoveEnforcers
    \/ \E p \in AllServers, s \in Servers : ServerAdd(p, s)
    \/ \E s \in Servers : ServerDelete(s)
    \/ \E n \in Nicks, s \in Servers : UserAdd(n, s)
    \/ \E u \in Users :
          \/ UserQuit(u)
          \/ EnforcerQuit(u)
          \/ SetDoEnforce(u)
          \/ \E n \in Nicks : NickChange(u, n)
          \/ \E c \in Channels : Join(u, c) \/ Part(u, c) \/ KickService(u, c)
    \/ \E c \in Channels : ModePerm(c)

Spec == Init /\ [][Next]_vars

-----------------------------------------------------------------------------
(* Properties *)

\* Every variable keeps its type (the user, server and channel tables).
TypeOK ==
    /\ nick \in [Users -> Nicks \union {None}]
    /\ home \in [Users -> AllServers \union {None}]
    /\ channels \in [Users -> SUBSET Channels]
    /\ doenforce \subseteq Users
    /\ enforcers \subseteq Users
    /\ userlist \in [Nicks -> Users \union {None}]
    /\ uplink \in [Servers -> AllServers \union {None}]
    /\ children \in [AllServers -> SUBSET Servers]
    /\ svusers \in [AllServers -> SUBSET Users]
    /\ users \in [AllServers -> Int]
    /\ chanlist \subseteq Channels
    /\ perm \subseteq chanlist
    /\ members \in [Channels -> SUBSET Users]
    /\ nummembers \in [Channels -> Int]
    /\ numsvcmembers \in [Channels -> Int]
    /\ connected \in BOOLEAN
    /\ actual \in Servers \union {None}
    /\ introduced \subseteq Users
    /\ cnt \in [user : Int, server : Int, chan : Int, chanuser : Int]

\* The nick index finds every client by its nickname and nothing else.
NickIndexOK ==
    /\ \A u \in Live : userlist[nick[u]] = u
    /\ \A n \in Nicks : userlist[n] # None => nick[userlist[n]] = n

\* A client's server lists it, and a server's list names only its clients; a
\* server that split has none.
ServerListOK ==
    /\ \A u \in Users : home[u] = None <=> u \notin Live
    /\ \A u \in Users, s \in AllServers : u \in svusers[s] <=> home[u] = s
    /\ \A u \in Live : Internal(u) \/ home[u] \in Linked

\* Both ends of a membership agree, and only existing channels have members.
MembershipOK ==
    /\ \A u \in Users, c \in Channels : u \in members[c] <=> c \in channels[u]
    /\ \A c \in Channels : members[c] # {} => c \in chanlist
    /\ \A u \in Free : channels[u] = {}

\* "empty channels die" (channels.c:471): whatever takes the last member out of
\* a channel that is not permanent destroys it, by whichever counter it goes.
EmptyChannelsDie ==
    [][\A c \in chanlist \ perm :
          members[c] # {} /\ members'[c] = {} => c \notin chanlist']_vars

\* The counters equal the lengths of the lists they stand for.
CountersOK ==
    /\ \A s \in AllServers : users[s] = Cardinality(svusers[s])
    /\ \A c \in Channels :
          /\ nummembers[c] = Cardinality(members[c])
          /\ numsvcmembers[c] = Cardinality({u \in members[c] : Internal(u)})
    /\ cnt.user = Cardinality(Live)
    /\ cnt.server = 1 + Cardinality(Linked)
    /\ cnt.chan = Cardinality(chanlist)
    /\ cnt.chanuser =
          Cardinality({m \in Channels \X Users : m[2] \in members[m[1]]})

\* The tree's two directions agree and every linked server hangs behind the
\* uplink, so that deleting the uplink's subtree forgets the whole network.
TreeOK ==
    /\ \A s \in Servers, p \in AllServers : s \in children[p] <=> uplink[s] = p
    /\ \A s \in Linked : uplink[s] # Me => uplink[s] \in Linked
    /\ actual # None => actual \in Linked /\ uplink[actual] = Me
    /\ Linked # {} => actual # None
    /\ \A s \in Linked : s \in Subtree(actual)

\* channels.c:171 asserts that the members channel_delete() still finds are our
\* own clients: whoever uplink_close() has not deleted with the uplink's
\* subtree is internal.
UplinkCloseLeavesOurs ==
    \A c \in chanlist : \A u \in members[c] :
        Internal(u) \/ (actual # None /\ u \in UsersOf(Subtree(actual)))

\* Every table that says who is where agrees with the others: the nick index
\* with the clients, both ends of the memberships, both directions of the tree;
\* and all that is not ours hangs behind the uplink (users.c, channels.c and
\* servers.c keep each of them by hand, and channels.c:171 relies on all).
TablesAgree == NickIndexOK /\ MembershipOK /\ TreeOK /\ UplinkCloseLeavesOurs

\* While we are not connected only our own server, clients and no channels are
\* left.
NothingWhenDisconnected ==
    ~connected => /\ Linked = {} /\ actual = None
                  /\ chanlist = {}
                  /\ \A u \in Live : Internal(u)

\* Enforcers are clients of ours and not services; only remote clients wait for
\* their nick to be taken over.
FlagsOK ==
    /\ \A u \in enforcers : u \in Live /\ Internal(u) /\ u \notin Services
    /\ \A u \in doenforce : u \in Live /\ ~Internal(u)

\* Neither a colliding introduction nor a colliding nick change takes a
\* service's client away from it.
ServicesKeepNicks ==
    \A u \in Services : nick[u] = ServiceNick[u] /\ Internal(u)

\* The enforcer that UF_DOENFORCE promises: when the client leaves the
\* nickname, an enforcer has it in the same step.
HandsOver(u) ==
    \/ nick'[u] = nick[u] /\ home'[u] = home[u]
    \/ userlist'[nick[u]] \in enforcers'

\* Whatever takes a client with UF_DOENFORCE off its nick (quit, kill, split,
\* loss of the uplink, a collision caused by another client) leaves an enforcer,
\* except the client's own change into a nick in use.
HeldNickGoesToEnforcer ==
    [][\A u \in doenforce :
          HandsOver(u) \/ \E n \in Nicks : NickCollision(u, n)]_vars

\* uplink_close() says that the clients it leaves on our server are services
\* (uplink.c:217), the ones services_init() introduces to the next uplink:
\* while we are connected the uplink knows every client of ours.
OurClientsIntroduced ==
    connected => \A u \in Live : Internal(u) => u \in introduced

=============================================================================
