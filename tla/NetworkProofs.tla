--------------------------- MODULE NetworkProofs ---------------------------
(***************************************************************************)
(* Theorems about Network, for every finite set of clients, nicknames,     *)
(* servers and channels.                                                   *)
(***************************************************************************)
EXTENDS Network, FiniteSetTheorems, TLAPS

-----------------------------------------------------------------------------
(* Finite sets *)

\* Every cardinality the counters of users.c, servers.c and channels.c change
\* by is a natural number.
LEMMA SubsetCard ==
    ASSUME NEW S, IsFiniteSet(S), NEW T, T \subseteq S
    PROVE  IsFiniteSet(T) /\ Cardinality(T) \in Nat
  BY FS_Subset, FS_CardinalityType

\* The same for the objects of the network.
LEMMA NetworkCard ==
    /\ \A T \in SUBSET Users : Cardinality(T) \in Nat
    /\ \A T \in SUBSET Servers : Cardinality(T) \in Nat
    /\ \A T \in SUBSET Channels : Cardinality(T) \in Nat
    /\ \A T \in SUBSET (Channels \X Users) : Cardinality(T) \in Nat
  <1>1. IsFiniteSet(Channels \X Users)
    BY FiniteAssumption, FS_Product
  <1> QED
    BY <1>1, FiniteAssumption, SubsetCard

-----------------------------------------------------------------------------
(* Type correctness *)

\* user_delete() keeps the client and server tables well typed.
LEMMA DeleteUsersType ==
    ASSUME TypeOK, NEW D \in SUBSET Users, NEW E \in SUBSET D,
           DeleteUsers(D, E)
    PROVE  /\ nick' \in [Users -> Nicks \union {None}]
           /\ home' \in [Users -> AllServers \union {None}]
           /\ doenforce' \subseteq Users
           /\ enforcers' \subseteq Users
           /\ userlist' \in [Nicks -> Users \union {None}]
           /\ svusers' \in [AllServers -> SUBSET Users]
           /\ users' \in [AllServers -> Int]
  <1>1. nick' \in [Users -> Nicks \union {None}]
    BY DEF TypeOK, DeleteUsers
  <1>2. home' \in [Users -> AllServers \union {None}]
    BY DEF TypeOK, DeleteUsers, AllServers
  <1>3. doenforce' \subseteq Users /\ enforcers' \subseteq Users
    BY DEF TypeOK, DeleteUsers
  <1>4. userlist' \in [Nicks -> Users \union {None}]
    <2>1. \A n \in Nicks : (\E u \in E : nick[u] = n) =>
              (CHOOSE u \in E : nick[u] = n) \in Users
      OBVIOUS
    <2> QED BY <2>1 DEF TypeOK, DeleteUsers
  <1>5. svusers' \in [AllServers -> SUBSET Users]
    BY DEF TypeOK, DeleteUsers
  <1>6. users' \in [AllServers -> Int]
    <2>1. \A s \in AllServers : Cardinality(OnServer(D, s)) \in Int
      BY NetworkCard DEF OnServer
    <2>2. Cardinality(E) \in Int
      BY NetworkCard
    <2> QED BY <2>1, <2>2 DEF TypeOK, DeleteUsers
  <1> QED BY <1>1, <1>2, <1>3, <1>4, <1>5, <1>6

\* chanuser_delete() and channel_delete() keep the channel tables well typed.
LEMMA LeaveChannelsType ==
    ASSUME TypeOK, NEW D \in SUBSET Users, NEW X \in SUBSET Channels,
           NEW Dead \in SUBSET Channels, LeaveChannels(D, X, Dead)
    PROVE  /\ channels' \in [Users -> SUBSET Channels]
           /\ chanlist' \subseteq Channels
           /\ perm' \subseteq chanlist'
           /\ members' \in [Channels -> SUBSET Users]
           /\ nummembers' \in [Channels -> Int]
           /\ numsvcmembers' \in [Channels -> Int]
  <1>1. \A c \in Channels :
          /\ Cardinality(Gone(D, X, c)) \in Int
          /\ Cardinality(GoneSvc(D, X, c)) \in Int
    BY NetworkCard DEF LeftBy, Gone, GoneSvc
  <1>2. /\ channels' \in [Users -> SUBSET Channels]
        /\ chanlist' \subseteq Channels
        /\ perm' \subseteq chanlist'
        /\ members' \in [Channels -> SUBSET Users]
    BY DEF TypeOK, LeaveChannels
  <1>3. nummembers' \in [Channels -> Int]
    BY <1>1 DEF TypeOK, LeaveChannels
  <1>4. numsvcmembers' \in [Channels -> Int]
    BY <1>1 DEF TypeOK, LeaveChannels
  <1> QED BY <1>2, <1>3, <1>4

\* The global counters stay integers.
LEMMA CountType ==
    ASSUME TypeOK, NEW D \in SUBSET Users, NEW E \in SUBSET Users,
           NEW C \in SUBSET Channels, NEW M \in SUBSET (Channels \X Users),
           NEW T \in SUBSET Servers, Count(D, E, C, M, T)
    PROVE  cnt' \in [user : Int, server : Int, chan : Int, chanuser : Int]
  BY NetworkCard DEF TypeOK, Count

\* user_delete() of any set of clients keeps every variable well typed.
LEMMA UserDeleteType ==
    ASSUME TypeOK, NEW D \in SUBSET Users, NEW E \in SUBSET D,
           UserDelete(D, E)
    PROVE  TypeOK'
  <1>1. Emptied(D) \in SUBSET Channels
    BY DEF Emptied, TypeOK
  <1>2. Dropped(D, Channels, Emptied(D)) \in SUBSET (Channels \X Users)
    BY DEF Dropped
  <1>3. cnt' \in [user : Int, server : Int, chan : Int, chanuser : Int]
    BY <1>1, <1>2, CountType DEF UserDelete
  <1>4. introduced' \subseteq Users
    BY DEF UserDelete, TypeOK
  <1> QED
    BY <1>1, <1>3, <1>4, DeleteUsersType, LeaveChannelsType
    DEF UserDelete, TypeOK

\* The clients of a set of servers are clients.
LEMMA UsersOfType ==
    ASSUME TypeOK, NEW T \in SUBSET Servers
    PROVE  UsersOf(T) \in SUBSET Users
  BY DEF UsersOf, TypeOK, AllServers

\* A subtree is a set of servers.
LEMMA SubtreeType == \A s : Subtree(s) \in SUBSET Servers
  BY DEF Subtree

\* Init is well typed.
LEMMA InitType == Init => TypeOK
  <1> SUFFICES ASSUME Init PROVE TypeOK
    OBVIOUS
  <1>1. Cardinality(Services) \in Int
    BY NetworkCard, ServicesAssumption
  <1>2. userlist \in [Nicks -> Users \union {None}]
    <2>1. \A n \in Nicks : (\E u \in Services : ServiceNick[u] = n) =>
              (CHOOSE u \in Services : ServiceNick[u] = n) \in Users
      BY ServicesAssumption
    <2> QED BY <2>1 DEF Init
  <1>3. nick \in [Users -> Nicks \union {None}]
    BY ServicesAssumption DEF Init
  <1>4. users \in [AllServers -> Int]
    BY <1>1 DEF Init
  <1>5. cnt \in [user : Int, server : Int, chan : Int, chanuser : Int]
    BY <1>1 DEF Init
  <1> QED
    BY <1>2, <1>3, <1>4, <1>5, ServicesAssumption DEF Init, TypeOK, AllServers

\* Every step keeps the state well typed.
LEMMA NextType == TypeOK /\ [Next]_vars => TypeOK'
  <1> SUFFICES ASSUME TypeOK, [Next]_vars PROVE TypeOK'
    OBVIOUS
  <1>1. ASSUME UplinkConnect PROVE TypeOK'
    BY <1>1, ServicesAssumption
    DEF UplinkConnect, TypeOK, userVars, serverVars, chanVars
  <1>2. ASSUME UplinkClose PROVE TypeOK'
    <2> DEFINE T == IF actual = None THEN {} ELSE Subtree(actual)
               D == UsersOf(T)
               E == Enforced(D)
    <2>1. T \in SUBSET Servers
      BY SubtreeType
    <2>2. D \in SUBSET Users /\ E \in SUBSET D
      BY <2>1, UsersOfType DEF Enforced
    <2>3. Dropped(D, Channels, chanlist) \in SUBSET (Channels \X Users)
      BY DEF Dropped
    <2>4. /\ DeleteUsers(D, E) /\ LeaveChannels(D, Channels, chanlist)
          /\ ForgetServers(T)
          /\ Count(D, E, chanlist, Dropped(D, Channels, chanlist), T)
          /\ connected' = FALSE /\ actual' = None /\ introduced' = {}
      BY <1>2 DEF UplinkClose
    <2> HIDE DEF T, D, E
    <2>5. chanlist \in SUBSET Channels
      BY DEF TypeOK
    <2>6. cnt' \in [user : Int, server : Int, chan : Int, chanuser : Int]
      BY <2>1, <2>2, <2>3, <2>4, <2>5, CountType
    <2>7. /\ uplink' \in [Servers -> AllServers \union {None}]
          /\ children' \in [AllServers -> SUBSET Servers]
      BY <2>4 DEF ForgetServers, TypeOK
    <2> QED
      BY <2>2, <2>4, <2>5, <2>6, <2>7, DeleteUsersType, LeaveChannelsType
      DEF TypeOK
  <1>3. ASSUME RemoveEnforcers PROVE TypeOK'
    BY <1>3, UserDeleteType DEF RemoveEnforcers, TypeOK, Enforced
  <1>4. ASSUME NEW p \in AllServers, NEW s \in Servers, ServerAdd(p, s)
        PROVE TypeOK'
    BY <1>4 DEF ServerAdd, TypeOK, userVars, chanVars
  <1>5. ASSUME NEW s \in Servers, ServerDelete(s) PROVE TypeOK'
    <2> DEFINE T == Subtree(s)
               D == UsersOf(T)
               E == Enforced(D)
    <2>1. T \in SUBSET Servers
      BY SubtreeType
    <2>2. D \in SUBSET Users /\ E \in SUBSET D
      BY <2>1, UsersOfType DEF Enforced
    <2>3. /\ Dropped(D, Channels, Emptied(D)) \in SUBSET (Channels \X Users)
          /\ Emptied(D) \in SUBSET Channels
      BY DEF Dropped, Emptied, TypeOK
    <2>4. /\ DeleteUsers(D, E) /\ LeaveChannels(D, Channels, Emptied(D))
          /\ ForgetServers(T)
          /\ Count(D, E, Emptied(D), Dropped(D, Channels, Emptied(D)), T)
          /\ introduced' = (introduced \ D) \union E
          /\ UNCHANGED <<connected, actual>>
      BY <1>5 DEF ServerDelete
    <2> HIDE DEF T, D, E
    <2>6. cnt' \in [user : Int, server : Int, chan : Int, chanuser : Int]
      BY <2>1, <2>2, <2>3, <2>4, CountType
    <2>7. /\ uplink' \in [Servers -> AllServers \union {None}]
          /\ children' \in [AllServers -> SUBSET Servers]
          /\ introduced' \subseteq Users
      BY <2>2, <2>4 DEF ForgetServers, TypeOK
    <2> QED
      BY <2>2, <2>3, <2>4, <2>6, <2>7, DeleteUsersType, LeaveChannelsType
      DEF TypeOK
  <1>6. ASSUME NEW n \in Nicks, NEW s \in Servers, UserAdd(n, s) PROVE TypeOK'
    <2>1. ASSUME NEW u \in Free, NewUser(u, n, s),
                 UNCHANGED <<channels, doenforce, enforcers, uplink, children,
                             chanVars, connected, actual, introduced>>
          PROVE TypeOK'
      BY <2>1 DEF NewUser, TypeOK, chanVars, Free, AllServers
    <2>2. ASSUME userlist[n] # None,
                 UserDelete({userlist[n]}, Enforced({userlist[n]}))
          PROVE TypeOK'
      <3>1. userlist[n] \in Users
        BY <2>2 DEF TypeOK
      <3> QED BY <2>2, <3>1, UserDeleteType DEF Enforced
    <2> QED BY <1>6, <2>1, <2>2 DEF UserAdd
  <1>7. ASSUME NEW u \in Users, UserQuit(u) \/ EnforcerQuit(u) PROVE TypeOK'
    BY <1>7, UserDeleteType DEF UserQuit, EnforcerQuit, Enforced
  <1>8. ASSUME NEW u \in Users, SetDoEnforce(u) PROVE TypeOK'
    BY <1>8 DEF SetDoEnforce, TypeOK, serverVars, chanVars, meVars
  <1>9. ASSUME NEW u \in Users, NEW n \in Nicks, NickChange(u, n) PROVE TypeOK'
    <2>1. CASE NickCollision(u, n)
      <3>1. userlist[n] \in Users
        BY <2>1 DEF NickCollision, TypeOK
      <3> QED BY <2>1, <3>1, UserDeleteType DEF NickCollision, Enforced
    <2>2. CASE NickChanged(u, n)
      BY <2>2, <1>9
      DEF NickChanged, NickChange, TypeOK, chanVars, Free, Live, AllServers
    <2> QED BY <1>9, <2>1, <2>2 DEF NickChange
  <1>10. ASSUME NEW u \in Users, NEW c \in Channels, Join(u, c) PROVE TypeOK'
    <2>1. /\ members' \in [Channels -> SUBSET Users]
          /\ channels' \in [Users -> SUBSET Channels]
          /\ nummembers' \in [Channels -> Int]
      BY <1>10 DEF Join, ChanuserAdd, TypeOK
    <2>2. numsvcmembers' \in [Channels -> Int]
      BY <1>10 DEF Join, ChanuserAdd, TypeOK
    <2>3. cnt' \in [user : Int, server : Int, chan : Int, chanuser : Int]
      BY <1>10 DEF Join, ChanuserAdd, TypeOK
    <2> QED BY <1>10, <2>1, <2>2, <2>3 DEF Join, TypeOK, serverVars
  <1>11. ASSUME NEW u \in Users, NEW c \in Channels, Part(u, c) PROVE TypeOK'
    <2> DEFINE dead == IF c \in Emptied({u}) THEN {c} ELSE {}
    <2>1. /\ dead \in SUBSET Channels
          /\ Dropped({u}, {c}, dead) \in SUBSET (Channels \X Users)
      BY DEF Dropped
    <2>2. /\ LeaveChannels({u}, {c}, dead)
          /\ Count({}, {}, dead, Dropped({u}, {c}, dead), {})
          /\ UNCHANGED <<nick, home, doenforce, enforcers, userlist,
                         serverVars, connected, actual, introduced>>
      BY <1>11 DEF Part
    <2> HIDE DEF dead
    <2>3. cnt' \in [user : Int, server : Int, chan : Int, chanuser : Int]
      BY <2>1, <2>2, CountType
    <2> QED BY <2>1, <2>2, <2>3, LeaveChannelsType DEF TypeOK, serverVars
  <1>12. ASSUME NEW u \in Users, NEW c \in Channels, KickService(u, c)
         PROVE TypeOK'
    BY <1>12 DEF KickService, TypeOK, serverVars, meVars, Emptied
  <1>13. ASSUME NEW c \in Channels, ModePerm(c) PROVE TypeOK'
    BY <1>13 DEF ModePerm, TypeOK, userVars, serverVars, meVars
  <1>14. CASE UNCHANGED vars
    BY <1>14 DEF vars, userVars, serverVars, chanVars, meVars, TypeOK
  <1> QED
    BY <1>1, <1>2, <1>3, <1>4, <1>5, <1>6, <1>7, <1>8, <1>9, <1>10, <1>11,
       <1>12, <1>13, <1>14
    DEF Next

\* The tables of users.c, servers.c and channels.c are well typed in every
\* reachable state.
THEOREM TypeCorrect == Spec => []TypeOK
  BY InitType, NextType, PTL DEF Spec

-----------------------------------------------------------------------------
(* The client tables *)

\* What the client tables have to satisfy together for one user_delete() to
\* leave them in step: the two indexes, the flags and the services' nicks.
ClientInv ==
    /\ NickIndexOK
    /\ ServerListOK
    /\ FlagsOK
    /\ ServicesKeepNicks

\* user_delete() of clients, some of which leave an enforcer behind.
LEMMA DeleteUsersIndex ==
    ASSUME TypeOK, NickIndexOK, ServerListOK, NEW D \in SUBSET Live,
           NEW E \in SUBSET D, DeleteUsers(D, E)
    PROVE  /\ NickIndexOK'
           /\ \A u \in Users : home'[u] = None <=> u \notin Live'
           /\ \A u \in Users, s \in AllServers :
                 u \in svusers'[s] <=> home'[u] = s
           /\ Live' = (Live \ D) \union E
           /\ \A u \in Live \ D : home'[u] = home[u] /\ nick'[u] = nick[u]
           /\ \A u \in E : home'[u] = Me
           /\ \A u \in Users : home'[u] = Me => home[u] = Me \/ u \in E
  <1>1. Live \subseteq Users /\ None \notin AllServers /\ Me \in AllServers
    BY ConstantsDiffer DEF Live, AllServers
  <1>2. \A u \in Users :
          /\ nick'[u] = IF u \in D \ E THEN None ELSE nick[u]
          /\ home'[u] = IF u \in E THEN Me ELSE IF u \in D THEN None ELSE home[u]
    BY DEF DeleteUsers
  <1>3. Live' = (Live \ D) \union E
    BY <1>1, <1>2 DEF Live
  <1>4. \A u \in Users : home'[u] = None <=> u \notin Live'
    BY <1>1, <1>2, <1>3 DEF ServerListOK
  <1>5. \A u \in Users, s \in AllServers : u \in svusers'[s] <=> home'[u] = s
    BY <1>1, <1>2 DEF ServerListOK, DeleteUsers, OnServer
  <1>6. NickIndexOK'
    <2>1. \A u, v \in Live : nick[u] = nick[v] => u = v
      BY DEF NickIndexOK
    <2>2. ASSUME NEW u \in E
          PROVE  userlist'[nick[u]] = u
      <3>1. nick[u] \in Nicks
        BY <1>1 DEF TypeOK, Live
      <3>2. (CHOOSE v \in E : nick[v] = nick[u]) = u
        <4>1. \A v \in E : nick[v] = nick[u] => v = u
          BY <2>1
        <4> QED BY <4>1
      <3> QED BY <3>1, <3>2 DEF DeleteUsers
    <2>3. ASSUME NEW u \in Live \ D
          PROVE  userlist'[nick[u]] = u
      <3>1. nick[u] \in Nicks /\ ~(\E v \in D : nick[v] = nick[u])
        BY <1>1, <2>1 DEF TypeOK, Live
      <3> QED BY <3>1 DEF DeleteUsers, NickIndexOK
    <2>4. \A u \in Live' : userlist'[nick'[u]] = u
      BY <1>1, <1>2, <1>3, <2>2, <2>3
    <2>5. ASSUME NEW n \in Nicks, userlist'[n] # None
          PROVE  nick'[userlist'[n]] = n
      <3>1. CASE \E u \in E : nick[u] = n
        <4>1. PICK u \in E : nick[u] = n
          BY <3>1
        <4> QED BY <4>1, <2>2, <1>1, <1>2
      <3>2. CASE ~(\E u \in D : nick[u] = n)
        <4>1. userlist'[n] = userlist[n]
          BY <3>2 DEF DeleteUsers
        <4>2. userlist[n] \in Users /\ nick[userlist[n]] = n
          BY <4>1, <2>5 DEF TypeOK, NickIndexOK
        <4> QED BY <4>1, <4>2, <3>2, <1>2
      <3>3. CASE (\E u \in D : nick[u] = n) /\ ~(\E u \in E : nick[u] = n)
        BY <3>3, <2>5 DEF DeleteUsers
      <3> QED BY <3>1, <3>2, <3>3
    <2> QED BY <2>4, <2>5 DEF NickIndexOK
  <1> QED BY <1>1, <1>2, <1>3, <1>4, <1>5, <1>6, ConstantsDiffer DEF TypeOK

\* The same for all of ClientInv: no service is deleted, and the clients that
\* stay are on servers that stay.
LEMMA DeleteUsersClients ==
    ASSUME TypeOK, ClientInv, NEW D \in SUBSET Live, NEW E \in SUBSET D,
           D \intersect Services = {}, DeleteUsers(D, E),
           \A u \in Live \ D : Internal(u) \/ home[u] \in Linked'
    PROVE  ClientInv'
  <1>1. /\ NickIndexOK'
        /\ \A u \in Users : home'[u] = None <=> u \notin Live'
        /\ \A u \in Users, s \in AllServers : u \in svusers'[s] <=> home'[u] = s
        /\ Live' = (Live \ D) \union E
        /\ \A u \in Live \ D : home'[u] = home[u] /\ nick'[u] = nick[u]
        /\ \A u \in E : home'[u] = Me
    BY DeleteUsersIndex DEF ClientInv
  <1>2. ServerListOK'
    BY <1>1 DEF ServerListOK, Internal
  <1>3. FlagsOK'
    BY <1>1, ZenonT(60) DEF FlagsOK, ClientInv, DeleteUsers, Internal
  <1>4. ServicesKeepNicks'
    <2>1. Services \subseteq Live \ D
      BY ServicesAssumption, ConstantsDiffer
      DEF ClientInv, ServicesKeepNicks, Live
    <2> QED BY <1>1, <2>1 DEF ServicesKeepNicks, ClientInv, Internal
  <1> QED BY <1>1, <1>2, <1>3, <1>4 DEF ClientInv

\* user_delete() with the server tree left alone.
LEMMA UserDeleteClients ==
    ASSUME TypeOK, ClientInv, NEW D \in SUBSET Live, NEW E \in SUBSET D,
           D \intersect Services = {}, UserDelete(D, E)
    PROVE  ClientInv'
  <1>1. Linked' = Linked
    BY DEF UserDelete, Linked
  <1>2. \A u \in Live \ D : Internal(u) \/ home[u] \in Linked'
    BY <1>1 DEF ClientInv, ServerListOK
  <1> QED BY <1>2, DeleteUsersClients DEF UserDelete

\* server_delete() of a set of servers with all their clients.
LEMMA ForgetServersClients ==
    ASSUME TypeOK, ClientInv, NEW T \in SUBSET Servers,
           DeleteUsers(UsersOf(T), Enforced(UsersOf(T))), ForgetServers(T)
    PROVE  ClientInv'
  <1> DEFINE D == UsersOf(T)
  <1>1. \A u \in D : u \in Users /\ home[u] \in T
    BY DEF UsersOf, ClientInv, ServerListOK, TypeOK, AllServers
  <1>2. \A u \in Users : home[u] \in T => u \in D
    BY DEF UsersOf, ClientInv, ServerListOK, AllServers
  <1>3. D \in SUBSET Live
    BY <1>1, ConstantsDiffer DEF ClientInv, ServerListOK, AllServers
  <1>4. D \intersect Services = {}
    BY <1>1, ConstantsDiffer DEF ClientInv, ServicesKeepNicks, Internal
  <1>5. Linked' = Linked \ T
    BY DEF ForgetServers, Linked
  <1>6. \A u \in Live \ D : Internal(u) \/ home[u] \in Linked'
    BY <1>2, <1>5 DEF ClientInv, ServerListOK, Live
  <1>7. Enforced(D) \in SUBSET D
    BY DEF Enforced
  <1> HIDE DEF D
  <1> QED BY <1>3, <1>4, <1>6, <1>7, DeleteUsersClients DEF D

\* A step that leaves the client tables and the tree alone.
LEMMA ClientsUnchanged ==
    ASSUME ClientInv,
           UNCHANGED <<nick, home, doenforce, enforcers, userlist, uplink,
                       svusers>>
    PROVE  ClientInv'
  BY DEF ClientInv, NickIndexOK, ServerListOK, FlagsOK, ServicesKeepNicks,
         Live, Internal, Linked

\* The start of the program.
LEMMA InitClients == Init => ClientInv
  <1> SUFFICES ASSUME Init PROVE ClientInv
    OBVIOUS
  <1>1. Live = Services /\ Services \subseteq Users
    BY ServicesAssumption, ConstantsDiffer DEF Init, Live
  <1>2. \A u \in Users : nick[u] = IF u \in Services THEN ServiceNick[u] ELSE None
    BY DEF Init
  <1>3. \A u \in Services :
           (CHOOSE v \in Services : ServiceNick[v] = ServiceNick[u]) = u
    <2> TAKE u \in Services
    <2>1. \A v \in Services : ServiceNick[v] = ServiceNick[u] => v = u
      BY ServicesAssumption
    <2> QED BY <2>1
  <1>4. ASSUME NEW u \in Services PROVE userlist[nick[u]] = u
    <2>1. nick[u] = ServiceNick[u] /\ ServiceNick[u] \in Nicks
      BY <1>1, <1>2, ServicesAssumption
    <2>2. userlist[ServiceNick[u]] =
             CHOOSE v \in Services : ServiceNick[v] = ServiceNick[u]
      BY <2>1, Zenon DEF Init
    <2> QED BY <2>1, <2>2, <1>3
  <1>5. ASSUME NEW n \in Nicks, userlist[n] # None PROVE nick[userlist[n]] = n
    <2>1. \E u \in Services : ServiceNick[u] = n
      BY <1>5 DEF Init
    <2>2. PICK u \in Services : ServiceNick[u] = n
      BY <2>1
    <2> QED BY <2>2, <1>1, <1>2, <1>4
  <1>6. NickIndexOK
    BY <1>1, <1>4, <1>5 DEF NickIndexOK
  <1>7. \A u \in Users : home[u] = IF u \in Services THEN Me ELSE None
    BY DEF Init
  <1>8. ServerListOK
    <2>1. \A u \in Users, s \in AllServers : u \in svusers[s] <=> home[u] = s
      BY <1>1, <1>7, ConstantsDiffer DEF Init, AllServers
    <2> QED
      BY <1>1, <1>7, <2>1, ConstantsDiffer DEF ServerListOK, Internal, AllServers
  <1>9. FlagsOK
    BY DEF Init, FlagsOK
  <1>10. ServicesKeepNicks
    BY <1>1, <1>2, <1>7 DEF ServicesKeepNicks, Internal
  <1> QED BY <1>6, <1>8, <1>9, <1>10 DEF ClientInv

\* Every step keeps the client tables in step.
LEMMA NextClients == TypeOK /\ ClientInv /\ [Next]_vars => ClientInv'
  <1> SUFFICES ASSUME TypeOK, ClientInv, [Next]_vars PROVE ClientInv'
    OBVIOUS
  <1>a. \A u \in Live : ~Internal(u) => u \notin Services
    BY DEF ClientInv, ServicesKeepNicks
  <1>b. \A u \in Users : u \in Live <=> nick[u] \in Nicks
    BY ConstantsDiffer DEF Live, TypeOK
  <1>c. \A n \in Nicks : userlist[n] # None => userlist[n] \in Live
    BY ConstantsDiffer DEF Live, TypeOK, ClientInv, NickIndexOK
  <1>d. Live \subseteq Users
    BY DEF Live
  <1>e. /\ \A v \in Live : userlist[nick[v]] = v
        /\ \A m \in Nicks : userlist[m] # None => nick[userlist[m]] = m
    BY DEF ClientInv, NickIndexOK
  <1>f. /\ \A v \in Users : home[v] = None <=> v \notin Live
        /\ \A v \in Users, t \in AllServers : v \in svusers[t] <=> home[v] = t
        /\ \A v \in Live : home[v] = Me \/ home[v] \in Linked
    BY DEF ClientInv, ServerListOK, Internal
  <1>g. None \notin Users /\ None \notin Nicks /\ None \notin AllServers
    BY ConstantsDiffer
  <1>1. ASSUME UplinkConnect PROVE ClientInv'
    BY <1>1, ClientsUnchanged DEF UplinkConnect, userVars, serverVars
  <1>2. ASSUME UplinkClose PROVE ClientInv'
    <2> DEFINE T == IF actual = None THEN {} ELSE Subtree(actual)
    <2>1. T \in SUBSET Servers
      BY SubtreeType
    <2>2. DeleteUsers(UsersOf(T), Enforced(UsersOf(T))) /\ ForgetServers(T)
      BY <1>2 DEF UplinkClose
    <2> HIDE DEF T
    <2> QED BY <2>1, <2>2, ForgetServersClients
  <1>3. ASSUME RemoveEnforcers PROVE ClientInv'
    <2>1. enforcers \in SUBSET Live /\ enforcers \intersect Services = {}
      BY DEF ClientInv, FlagsOK
    <2> QED BY <1>3, <2>1, UserDeleteClients DEF RemoveEnforcers, Enforced
  <1>4. ASSUME NEW p \in AllServers, NEW s \in Servers, ServerAdd(p, s)
        PROVE ClientInv'
    <2>1. Linked \subseteq Linked'
      BY <1>4, ConstantsDiffer DEF ServerAdd, Linked, TypeOK, AllServers
    <2>2. UNCHANGED <<nick, home, doenforce, enforcers, userlist, svusers>>
      BY <1>4 DEF ServerAdd, userVars
    <2> QED
      BY <2>1, <2>2
      DEF ClientInv, NickIndexOK, ServerListOK, FlagsOK, ServicesKeepNicks,
          Live, Internal
  <1>5. ASSUME NEW s \in Servers, ServerDelete(s) PROVE ClientInv'
    BY <1>5, SubtreeType, ForgetServersClients DEF ServerDelete
  <1>6. ASSUME NEW n \in Nicks, NEW s \in Servers, UserAdd(n, s)
        PROVE ClientInv'
    <2>1. ASSUME NEW u \in Free, userlist[n] = None, NewUser(u, n, s),
                 s \in Linked, UNCHANGED <<doenforce, enforcers, uplink>>
          PROVE ClientInv'
      <3>1. /\ u \in Users /\ u \notin Live /\ n # None /\ s \in AllServers
            /\ s # None /\ s # Me /\ Linked' = Linked
        BY <2>1, ConstantsDiffer DEF Free, AllServers, Linked
      <3>2. /\ \A v \in Users : nick'[v] = IF v = u THEN n ELSE nick[v]
            /\ \A v \in Users : home'[v] = IF v = u THEN s ELSE home[v]
            /\ \A m \in Nicks : userlist'[m] = IF m = n THEN u ELSE userlist[m]
            /\ \A t \in AllServers : svusers'[t] =
                  IF t = s THEN svusers[t] \union {u} ELSE svusers[t]
        BY <2>1, <3>1 DEF NewUser, TypeOK
      <3>3. Live' = Live \union {u}
        BY <3>1, <3>2 DEF Live
      <3>4. NickIndexOK'
        <4>1. \A v \in Live' : userlist'[nick'[v]] = v
          BY <2>1, <3>1, <3>2, <3>3, <1>b, <1>d, <1>e, <1>g
        <4>2. \A m \in Nicks : userlist'[m] # None => nick'[userlist'[m]] = m
          BY <3>1, <3>2, <1>c, <1>d, <1>e
        <4> QED BY <4>1, <4>2 DEF NickIndexOK
      <3>5. ServerListOK'
        <4>1. \A v \in Users : home'[v] = None <=> v \notin Live'
          BY <3>1, <3>2, <3>3, <1>f
        <4>2. ASSUME NEW v \in Users, NEW t \in AllServers
              PROVE  v \in svusers'[t] <=> home'[v] = t
          <5>1. CASE v = u
            <6>1. home[u] = None /\ u \notin svusers[t]
              BY <3>1, <1>f, <1>g
            <6> QED BY <5>1, <6>1, <3>1, <3>2
          <5>2. CASE v # u
            <6>1. svusers'[t] = svusers[t] \/ svusers'[t] = svusers[t] \union {u}
              BY <3>2
            <6>2. v \in svusers'[t] <=> v \in svusers[t]
              BY <5>2, <6>1
            <6>3. home'[v] = home[v]
              BY <5>2, <3>2
            <6> QED BY <6>2, <6>3, <1>f
          <5> QED BY <5>1, <5>2
        <4>3. \A v \in Live' : home'[v] = Me \/ home'[v] \in Linked'
          BY <2>1, <3>1, <3>2, <3>3, <1>d, <1>f
        <4> QED BY <4>1, <4>2, <4>3 DEF ServerListOK, Internal
      <3>6. FlagsOK' /\ ServicesKeepNicks'
        BY <2>1, <3>1, <3>2, <3>3, ServicesAssumption, ConstantsDiffer
        DEF FlagsOK, ServicesKeepNicks, ClientInv, Live, Internal
      <3> QED BY <3>4, <3>5, <3>6 DEF ClientInv
    <2>2. ASSUME userlist[n] # None, ~Internal(userlist[n]),
                 UserDelete({userlist[n]}, Enforced({userlist[n]}))
          PROVE ClientInv'
      <3>1. userlist[n] \in Live /\ userlist[n] \notin Services
        BY <2>2, <1>a, <1>c
      <3> QED BY <2>2, <3>1, UserDeleteClients DEF Enforced
    <2> QED BY <1>6, <2>1, <2>2 DEF UserAdd
  <1>7. ASSUME NEW u \in Users, UserQuit(u) \/ EnforcerQuit(u)
        PROVE ClientInv'
    <2>1. u \in Live /\ u \notin Services /\ UserDelete({u}, Enforced({u}))
      BY <1>7, <1>a DEF UserQuit, EnforcerQuit, ClientInv, FlagsOK
    <2> QED BY <2>1, UserDeleteClients DEF Enforced
  <1>8. ASSUME NEW u \in Users, SetDoEnforce(u) PROVE ClientInv'
    BY <1>8
    DEF SetDoEnforce, serverVars, ClientInv, NickIndexOK, ServerListOK,
        FlagsOK, ServicesKeepNicks, Live, Internal, Linked
  <1>9. ASSUME NEW u \in Users, NEW n \in Nicks, NickChange(u, n)
        PROVE ClientInv'
    <2>a. u \in Live /\ ~Internal(u) /\ u \notin Services /\ nick[u] \in Nicks
      BY <1>9, <1>a, <1>b DEF NickChange
    <2>1. CASE NickCollision(u, n)
      <3>1. userlist[n] \in Live
        BY <2>1, <1>c DEF NickCollision
      <3>2. CASE UserDelete({u}, {})
        BY <2>a, <3>2, UserDeleteClients
      <3>3. CASE /\ ~Internal(userlist[n])
                 /\ UserDelete({u, userlist[n]}, Enforced({userlist[n]}))
        BY <2>a, <3>1, <3>3, <1>a, UserDeleteClients DEF Enforced
      <3> QED BY <2>1, <3>2, <3>3 DEF NickCollision
    <2>2. CASE NickChanged(u, n)
      <3>a. userlist[n] \in {None, u} /\ UNCHANGED uplink /\ Linked' = Linked
        BY <2>2 DEF NickChanged, Linked
      <3>b. n # None
        BY ConstantsDiffer
      <3>1. CASE /\ nick' = [nick EXCEPT ![u] = n]
                 /\ userlist' = [userlist EXCEPT ![nick[u]] = None, ![n] = u]
                 /\ UNCHANGED <<home, doenforce, enforcers, svusers>>
        <4>1. /\ \A v \in Users : nick'[v] = IF v = u THEN n ELSE nick[v]
              /\ \A m \in Nicks : userlist'[m] =
                    IF m = n THEN u ELSE
                    IF m = nick[u] THEN None ELSE userlist[m]
          BY <3>1, <2>a DEF TypeOK
        <4>2. Live' = Live
          BY <4>1, <2>a, <3>b DEF Live
        <4>3. NickIndexOK'
          <5>1. \A v \in Live' : userlist'[nick'[v]] = v
            BY <4>1, <4>2, <2>a, <3>a, <1>b, <1>d, <1>e, <1>g
          <5>2. \A m \in Nicks : userlist'[m] # None => nick'[userlist'[m]] = m
            BY <4>1, <2>a, <3>a, <1>c, <1>d, <1>e
          <5> QED BY <5>1, <5>2 DEF NickIndexOK
        <4> QED
          BY <4>1, <4>2, <4>3, <3>1, <3>a, <2>a, ServicesAssumption
          DEF ClientInv, ServerListOK, FlagsOK, ServicesKeepNicks, Internal
      <3>2. CASE /\ n # nick[u]
                 /\ doenforce' = doenforce \ {u}
                 /\ \E e \in Free :
                      /\ nick' = [nick EXCEPT ![u] = n, ![e] = nick[u]]
                      /\ home' = [home EXCEPT ![e] = Me]
                      /\ userlist' = [userlist EXCEPT ![nick[u]] = e, ![n] = u]
                      /\ svusers' = [svusers EXCEPT ![Me] = @ \union {e}]
                      /\ enforcers' = enforcers \union {e}
        <4>1. PICK e \in Free :
                      /\ nick' = [nick EXCEPT ![u] = n, ![e] = nick[u]]
                      /\ home' = [home EXCEPT ![e] = Me]
                      /\ userlist' = [userlist EXCEPT ![nick[u]] = e, ![n] = u]
                      /\ svusers' = [svusers EXCEPT ![Me] = @ \union {e}]
                      /\ enforcers' = enforcers \union {e}
          BY <3>2
        <4>2. e \in Users /\ e \notin Live /\ e # u /\ e \notin Services
          BY <2>a, ServicesAssumption, ConstantsDiffer
          DEF Free, ClientInv, ServicesKeepNicks, Live
        <4>3. /\ \A v \in Users : nick'[v] =
                    IF v = e THEN nick[u] ELSE IF v = u THEN n ELSE nick[v]
              /\ \A v \in Users : home'[v] = IF v = e THEN Me ELSE home[v]
              /\ \A m \in Nicks : userlist'[m] =
                    IF m = n THEN u ELSE
                    IF m = nick[u] THEN e ELSE userlist[m]
              /\ \A t \in AllServers : svusers'[t] =
                    IF t = Me THEN svusers[t] \union {e} ELSE svusers[t]
          BY <4>1, <4>2, <2>a DEF TypeOK, AllServers
        <4>4. Live' = Live \union {e}
          BY <4>2, <4>3, <2>a, <3>b, ConstantsDiffer DEF Live
        <4>5. NickIndexOK'
          <5>1. ASSUME NEW v \in Live' PROVE userlist'[nick'[v]] = v
            <6>1. CASE v = e
              BY <6>1, <4>2, <4>3, <3>2, <2>a
            <6>2. CASE v = u
              BY <6>2, <4>2, <4>3
            <6>3. CASE v \in Live \ {u}
              <7>1. /\ v \in Users /\ v # e /\ nick[v] \in Nicks
                    /\ userlist[nick[v]] = v /\ userlist[nick[u]] = u
                BY <6>3, <4>2, <2>a, <1>b, <1>d, <1>e
              <7>2. nick[v] # n /\ nick[v] # nick[u]
                BY <6>3, <7>1, <3>a, <1>g
              <7> QED BY <6>3, <7>1, <7>2, <4>3
            <6> QED BY <4>4, <6>1, <6>2, <6>3
          <5>2. ASSUME NEW m \in Nicks, userlist'[m] # None
                PROVE  nick'[userlist'[m]] = m
            <6>1. CASE m = n
              BY <6>1, <4>2, <4>3
            <6>2. CASE m = nick[u] /\ m # n
              BY <6>2, <4>2, <4>3
            <6>3. CASE m # n /\ m # nick[u]
              <7>1. userlist'[m] = userlist[m] /\ userlist[m] \in Live
                BY <6>3, <5>2, <4>3, <1>c
              <7>2. nick[userlist[m]] = m /\ userlist[m] \notin {e, u}
                BY <6>3, <7>1, <5>2, <4>2, <1>e
              <7> QED BY <7>1, <7>2, <4>3, <1>d
            <6> QED BY <6>1, <6>2, <6>3
          <5> QED BY <5>1, <5>2 DEF NickIndexOK
        <4>6. ServerListOK'
          <5>1. None # Me /\ Me \in AllServers
            BY ConstantsDiffer DEF AllServers
          <5>2. \A v \in Users : home'[v] = None <=> v \notin Live'
            BY <4>2, <4>3, <4>4, <5>1, <1>f
          <5>3. ASSUME NEW v \in Users, NEW t \in AllServers
                PROVE  v \in svusers'[t] <=> home'[v] = t
            <6>1. CASE v = e
              <7>1. home[e] = None /\ e \notin svusers[t]
                BY <4>2, <1>f, <1>g
              <7> QED BY <6>1, <7>1, <4>2, <4>3
            <6>2. CASE v # e
              <7>1. \/ svusers'[t] = svusers[t]
                    \/ svusers'[t] = svusers[t] \union {e}
                BY <4>3
              <7>2. v \in svusers'[t] <=> v \in svusers[t]
                BY <6>2, <7>1
              <7>3. home'[v] = home[v]
                BY <6>2, <4>3
              <7> QED BY <7>2, <7>3, <1>f
            <6> QED BY <6>1, <6>2
          <5>4. \A v \in Live' : home'[v] = Me \/ home'[v] \in Linked'
            BY <4>2, <4>3, <4>4, <3>a, <1>d, <1>f
          <5> QED BY <5>2, <5>3, <5>4 DEF ServerListOK, Internal
        <4>7. FlagsOK' /\ ServicesKeepNicks'
          BY <4>1, <4>2, <4>3, <4>4, <3>2, <2>a, ServicesAssumption
          DEF FlagsOK, ServicesKeepNicks, ClientInv, Internal, TypeOK
        <4> QED BY <4>5, <4>6, <4>7 DEF ClientInv
      <3> QED BY <2>2, <3>1, <3>2 DEF NickChanged
    <2> QED BY <1>9, <2>1, <2>2 DEF NickChange
  <1>10. ASSUME NEW u \in Users, NEW c \in Channels,
                Join(u, c) \/ Part(u, c) \/ KickService(u, c)
         PROVE ClientInv'
    BY <1>10, ClientsUnchanged
    DEF Join, Part, KickService, serverVars
  <1>11. ASSUME NEW c \in Channels, ModePerm(c) PROVE ClientInv'
    BY <1>11, ClientsUnchanged DEF ModePerm, userVars, serverVars
  <1>12. CASE UNCHANGED vars
    BY <1>12, ClientsUnchanged DEF vars, userVars, serverVars
  <1> QED
    BY <1>1, <1>2, <1>3, <1>4, <1>5, <1>6, <1>7, <1>8, <1>9, <1>10, <1>11,
       <1>12
    DEF Next

\* In every reachable state the nick index and the servers' user lists agree
\* with the clients, through collisions, splits, enforcers and reconnects.
THEOREM ClientTablesAgree ==
    Spec => [](NickIndexOK /\ ServerListOK /\ FlagsOK)
  <1>1. Spec => [](TypeOK /\ ClientInv)
    BY InitType, NextType, InitClients, NextClients, PTL DEF Spec
  <1>2. ClientInv => NickIndexOK /\ ServerListOK /\ FlagsOK
    BY DEF ClientInv
  <1> QED BY <1>1, <1>2, PTL

\* No collision, split or lost uplink takes a service's client or nickname.
THEOREM ServicesSurvive == Spec => []ServicesKeepNicks
  <1>1. Spec => [](TypeOK /\ ClientInv)
    BY InitType, NextType, InitClients, NextClients, PTL DEF Spec
  <1>2. ClientInv => ServicesKeepNicks
    BY DEF ClientInv
  <1> QED BY <1>1, <1>2, PTL

-----------------------------------------------------------------------------
(* Channel membership *)

\* chanuser_delete() and channel_delete() keep both ends of every membership in
\* step, whichever channels die.
LEMMA LeaveChannelsMembership ==
    ASSUME TypeOK, MembershipOK, NEW D \in SUBSET Users,
           NEW X \in SUBSET Channels, NEW Dead \in SUBSET Channels,
           LeaveChannels(D, X, Dead)
    PROVE  /\ \A u \in Users, c \in Channels : u \in members'[c] <=> c \in channels'[u]
           /\ \A c \in Channels : members'[c] # {} => c \in chanlist'
           /\ \A u \in Users : channels[u] = {} => channels'[u] = {}
           /\ X = Channels => \A u \in D : channels'[u] = {}
  <1>1. \A u \in Users : channels'[u] =
           (channels[u] \ Dead) \ (IF u \in D THEN X ELSE {})
    BY DEF LeaveChannels
  <1>2. \A c \in Channels : members'[c] =
           IF c \in Dead THEN {} ELSE members[c] \ Gone(D, X, c)
    BY DEF LeaveChannels
  <1>3. ASSUME NEW u \in Users, NEW c \in Channels
        PROVE  u \in members'[c] <=> c \in channels'[u]
    <2>1. u \in members[c] <=> c \in channels[u]
      BY DEF MembershipOK
    <2>2. u \in Gone(D, X, c) <=> c \in X /\ u \in D /\ c \in channels[u]
      BY DEF Gone, LeftBy
    <2>3. u \in members'[c] <=> c \notin Dead /\ u \in members[c]
                                  /\ u \notin Gone(D, X, c)
      BY <1>2
    <2>4. c \in channels'[u] <=> c \in channels[u] /\ c \notin Dead
                                   /\ ~(u \in D /\ c \in X)
      BY <1>1
    <2> QED BY <2>1, <2>2, <2>3, <2>4
  <1>4. ASSUME NEW c \in Channels, members'[c] # {}
        PROVE  c \in chanlist'
    <2>1. c \notin Dead /\ members[c] # {}
      BY <1>2, <1>4
    <2> QED BY <2>1 DEF LeaveChannels, MembershipOK
  <1>5. \A u \in Users : channels[u] = {} => channels'[u] = {}
    BY <1>1
  <1>6. X = Channels => \A u \in D : channels'[u] = {}
    BY <1>1 DEF TypeOK
  <1> QED BY <1>3, <1>4, <1>5, <1>6

\* Deleting clients with their memberships.
LEMMA DeleteUsersMembership ==
    ASSUME TypeOK, MembershipOK, NEW D \in SUBSET Users, NEW E \in SUBSET D,
           NEW Dead \in SUBSET Channels, DeleteUsers(D, E),
           LeaveChannels(D, Channels, Dead)
    PROVE  MembershipOK'
  <1>1. \A u \in Free' : u \in Users /\ (u \in D \/ u \in Free)
    BY DEF Free, Live, DeleteUsers
  <1>2. \A u \in Free' : channels'[u] = {}
    BY <1>1, LeaveChannelsMembership DEF MembershipOK
  <1> QED BY <1>2, LeaveChannelsMembership DEF MembershipOK

\* user_delete().
LEMMA UserDeleteMembership ==
    ASSUME TypeOK, MembershipOK, NEW D \in SUBSET Users, NEW E \in SUBSET D,
           UserDelete(D, E)
    PROVE  MembershipOK'
  <1>1. Emptied(D) \in SUBSET Channels
    BY DEF Emptied, TypeOK
  <1> QED BY <1>1, DeleteUsersMembership DEF UserDelete

\* Every step keeps the two ends of every membership in step.
LEMMA NextMembership == TypeOK /\ MembershipOK /\ [Next]_vars => MembershipOK'
  <1> SUFFICES ASSUME TypeOK, MembershipOK, [Next]_vars PROVE MembershipOK'
    OBVIOUS
  <1>a. ASSUME UNCHANGED <<nick, channels, chanlist, members>>
        PROVE  MembershipOK'
    BY <1>a DEF MembershipOK, Free, Live
  <1>1. CASE UplinkConnect \/ (\E c \in Channels : ModePerm(c))
          \/ UNCHANGED vars
    BY <1>1, <1>a DEF UplinkConnect, ModePerm, vars, userVars, chanVars
  <1>2. ASSUME UplinkClose PROVE MembershipOK'
    <2> DEFINE T == IF actual = None THEN {} ELSE Subtree(actual)
               D == UsersOf(T)
    <2>1. D \in SUBSET Users /\ Enforced(D) \in SUBSET D
      BY SubtreeType, UsersOfType DEF Enforced
    <2>2. DeleteUsers(D, Enforced(D)) /\ LeaveChannels(D, Channels, chanlist)
      BY <1>2 DEF UplinkClose
    <2> HIDE DEF D
    <2>3. chanlist \in SUBSET Channels
      BY DEF TypeOK
    <2> QED BY <2>1, <2>2, <2>3, DeleteUsersMembership
  <1>3. ASSUME RemoveEnforcers PROVE MembershipOK'
    BY <1>3, UserDeleteMembership DEF RemoveEnforcers, TypeOK, Enforced
  <1>4. ASSUME NEW p \in AllServers, NEW s \in Servers, ServerAdd(p, s)
        PROVE MembershipOK'
    BY <1>4, <1>a DEF ServerAdd, userVars, chanVars
  <1>5. ASSUME NEW s \in Servers, ServerDelete(s) PROVE MembershipOK'
    <2> DEFINE D == UsersOf(Subtree(s))
    <2>1. D \in SUBSET Users /\ Enforced(D) \in SUBSET D
      BY SubtreeType, UsersOfType DEF Enforced
    <2>2. DeleteUsers(D, Enforced(D)) /\ LeaveChannels(D, Channels, Emptied(D))
      BY <1>5 DEF ServerDelete
    <2> HIDE DEF D
    <2>3. Emptied(D) \in SUBSET Channels
      BY DEF TypeOK, Emptied
    <2> QED BY <2>1, <2>2, <2>3, DeleteUsersMembership
  <1>6. ASSUME NEW n \in Nicks, NEW s \in Servers, UserAdd(n, s)
        PROVE MembershipOK'
    <2>1. ASSUME NEW u \in Free, nick' = [nick EXCEPT ![u] = n],
                 UNCHANGED <<channels, chanlist, members>>
          PROVE MembershipOK'
      <3>1. Free' \subseteq Free
        BY <2>1, ConstantsDiffer DEF Free, Live, TypeOK
      <3> QED BY <2>1, <3>1 DEF MembershipOK
    <2>2. ASSUME userlist[n] # None,
                 UserDelete({userlist[n]}, Enforced({userlist[n]}))
          PROVE MembershipOK'
      <3>1. userlist[n] \in Users
        BY <2>2 DEF TypeOK
      <3> QED BY <2>2, <3>1, UserDeleteMembership DEF Enforced
    <2> QED BY <1>6, <2>1, <2>2 DEF UserAdd, NewUser, chanVars
  <1>7. ASSUME NEW u \in Users, UserQuit(u) \/ EnforcerQuit(u)
        PROVE MembershipOK'
    BY <1>7, UserDeleteMembership DEF UserQuit, EnforcerQuit, Enforced
  <1>8. ASSUME NEW u \in Users, SetDoEnforce(u) PROVE MembershipOK'
    BY <1>8, <1>a DEF SetDoEnforce, chanVars
  <1>9. ASSUME NEW u \in Users, NEW n \in Nicks, NickChange(u, n)
        PROVE MembershipOK'
    <2>1. CASE NickCollision(u, n)
      <3>1. userlist[n] \in Users
        BY <2>1 DEF NickCollision, TypeOK
      <3> QED BY <2>1, <3>1, UserDeleteMembership DEF NickCollision, Enforced
    <2>2. CASE NickChanged(u, n)
      <3>1. nick[u] \in Nicks /\ n # None
        BY <1>9, ConstantsDiffer DEF NickChange, Live, TypeOK
      <3>2. Free' \subseteq Free
        BY <2>2, <3>1, ConstantsDiffer DEF NickChanged, Free, Live, TypeOK
      <3>3. UNCHANGED <<channels, chanlist, members>>
        BY <2>2 DEF NickChanged, chanVars
      <3> QED BY <3>2, <3>3 DEF MembershipOK
    <2> QED BY <1>9, <2>1, <2>2 DEF NickChange
  <1>10. ASSUME NEW u \in Users, NEW c \in Channels, Join(u, c)
         PROVE MembershipOK'
    <2>1. /\ \A d \in Channels : members'[d] =
                IF d = c THEN members[c] \union {u} ELSE members[d]
          /\ \A v \in Users : channels'[v] =
                IF v = u THEN channels[u] \union {c} ELSE channels[v]
      BY <1>10 DEF Join, ChanuserAdd, TypeOK
    <2>2. Free' = Free /\ u \notin Free /\ chanlist' = chanlist \union {c}
      BY <1>10 DEF Join, Free, Live
    <2>3. \A v \in Users, d \in Channels : v \in members'[d] <=> d \in channels'[v]
      <3> TAKE v \in Users, d \in Channels
      <3>1. v \in members'[d] <=> v \in members[d] \/ (v = u /\ d = c)
        BY <2>1
      <3>2. d \in channels'[v] <=> d \in channels[v] \/ (v = u /\ d = c)
        BY <2>1
      <3> QED BY <3>1, <3>2 DEF MembershipOK
    <2>4. \A v \in Free' : channels'[v] = {}
      BY <2>1, <2>2 DEF MembershipOK, Free
    <2>5. \A d \in Channels : members'[d] # {} => d \in chanlist'
      BY <2>1, <2>2 DEF MembershipOK
    <2> QED BY <2>3, <2>4, <2>5 DEF MembershipOK
  <1>11. ASSUME NEW u \in Users, NEW c \in Channels, Part(u, c)
         PROVE MembershipOK'
    <2> DEFINE dead == IF c \in Emptied({u}) THEN {c} ELSE {}
    <2>1. dead \in SUBSET Channels /\ LeaveChannels({u}, {c}, dead) /\ nick' = nick
      BY <1>11 DEF Part
    <2> HIDE DEF dead
    <2>2. Free' = Free /\ Free \subseteq Users
      BY <2>1 DEF Free, Live
    <2> QED BY <2>1, <2>2, LeaveChannelsMembership DEF MembershipOK
  <1>12. ASSUME NEW u \in Users, NEW c \in Channels, KickService(u, c)
         PROVE MembershipOK'
    <2>1. /\ \A d \in Channels : members'[d] = IF d = c THEN {u} ELSE members[d]
          /\ \A v \in Users : channels'[v] =
                IF v = u THEN channels[u] ELSE channels[v] \ {c}
          /\ UNCHANGED <<nick, chanlist>>
          /\ u \in members[c]
      BY <1>12 DEF KickService, TypeOK
    <2>2. Free' = Free /\ Free \subseteq Users
      BY <2>1 DEF Free, Live
    <2>3. \A v \in Users, d \in Channels : v \in members'[d] <=> d \in channels'[v]
      <3> TAKE v \in Users, d \in Channels
      <3>1. v \in members[d] <=> d \in channels[v]
        BY DEF MembershipOK
      <3>2. c \in channels[u]
        BY <2>1 DEF MembershipOK
      <3>3. CASE d = c
        BY <3>2, <3>3, <2>1
      <3>4. CASE d # c
        BY <3>1, <3>4, <2>1
      <3> QED BY <3>3, <3>4
    <2>4. \A d \in Channels : members'[d] # {} => d \in chanlist'
      BY <2>1 DEF MembershipOK
    <2> QED BY <2>1, <2>2, <2>3, <2>4 DEF MembershipOK
  <1> QED
    BY <1>1, <1>2, <1>3, <1>4, <1>5, <1>6, <1>7, <1>8, <1>9, <1>10, <1>11,
       <1>12
    DEF Next

\* In every reachable state a client is in a channel's member list exactly when
\* the channel is in the client's list, and only existing channels have members.
THEOREM MembershipsAgree == Spec => []MembershipOK
  <1>1. Init => MembershipOK
    BY DEF Init, MembershipOK, Free, Live
  <1> QED BY <1>1, InitType, NextType, NextMembership, PTL DEF Spec

-----------------------------------------------------------------------------
(* The server tree *)

\* The tree and the counter by which handle_server() recognises the uplink.
TreeInv == TreeOK /\ cnt.server = 1 + Cardinality(Linked)

\* A subtree contains its root, every child of its members, and nothing more
\* than any other set that does.
LEMMA SubtreeIsLeast ==
    ASSUME NEW s \in Servers
    PROVE  /\ s \in Subtree(s)
           /\ children \in [AllServers -> SUBSET Servers] => Closed(Subtree(s))
           /\ \A S \in SUBSET Servers : s \in S /\ Closed(S) => Subtree(s) \subseteq S
  <1>1. s \in Subtree(s)
    BY DEF Subtree
  <1>2. ASSUME children \in [AllServers -> SUBSET Servers],
               NEW t \in Subtree(s), NEW x \in children[t]
        PROVE  x \in Subtree(s)
    <2>1. t \in Servers /\ x \in Servers
      BY <1>2 DEF Subtree, AllServers
    <2>2. ASSUME NEW S \in SUBSET Servers, s \in S, Closed(S)
          PROVE  x \in S
      <3>1. t \in S
        BY <2>2 DEF Subtree
      <3> QED BY <3>1, <2>2, <1>2 DEF Closed
    <2> QED BY <2>1, <2>2 DEF Subtree
  <1>3. \A S \in SUBSET Servers : s \in S /\ Closed(S) => Subtree(s) \subseteq S
    BY DEF Subtree
  <1> QED BY <1>1, <1>2, <1>3 DEF Closed

\* What hangs behind a linked server is linked, and the uplink does not hang
\* behind any other server.
LEMMA SubtreeLinked ==
    ASSUME TypeOK, TreeOK, NEW s \in Linked
    PROVE  Subtree(s) \subseteq Linked /\ (s # actual => actual \notin Subtree(s))
  <1>1. s \in Servers /\ Linked \subseteq Servers
    BY DEF Linked
  <1>2. Closed(Linked)
    <2>1. ASSUME NEW t \in Linked, NEW x \in children[t] PROVE x \in Linked
      <3>1. t \in AllServers /\ x \in Servers
        BY <1>1, <2>1 DEF TypeOK, AllServers
      <3>2. uplink[x] = t
        BY <3>1, <2>1 DEF TreeOK
      <3> QED BY <3>1, <3>2, ConstantsDiffer DEF Linked
    <2> QED BY <2>1 DEF Closed
  <1>3. Subtree(s) \subseteq Linked
    BY <1>1, <1>2, SubtreeIsLeast
  <1>4. ASSUME s # actual, actual \in Subtree(s) PROVE FALSE
    <2> DEFINE S == Subtree(s) \ {actual}
    <2>1. S \in SUBSET Servers /\ s \in S
      BY <1>1, <1>4, SubtreeIsLeast DEF Subtree
    <2>2. Closed(S)
      <3>1. ASSUME NEW t \in S, NEW x \in children[t] PROVE x \in S
        <4>1. x \in Subtree(s) /\ x \in Servers /\ t \in Servers
          BY <1>1, <2>1, SubtreeIsLeast DEF Closed, TypeOK, AllServers
        <4>2. uplink[x] = t /\ t # Me
          BY <4>1, ConstantsDiffer DEF TreeOK, AllServers
        <4>3. actual # None
          BY <1>1, <1>3, <1>4, ConstantsDiffer DEF AllServers
        <4> QED BY <4>1, <4>2, <4>3 DEF TreeOK
      <3> QED BY <3>1 DEF Closed
    <2>3. Subtree(s) \subseteq S
      BY <1>1, <2>1, <2>2, SubtreeIsLeast
    <2> QED BY <1>4, <2>3
  <1> QED BY <1>3, <1>4

\* server_delete() forgets exactly the servers of the subtree.
LEMMA ForgetLinked ==
    ASSUME TypeOK, TreeInv, NEW T \in SUBSET Linked, ForgetServers(T)
    PROVE  /\ Linked' = Linked \ T
           /\ Cardinality(Linked') = Cardinality(Linked) - Cardinality(T)
  <1>1. Linked' = Linked \ T
    BY DEF ForgetServers, Linked
  <1>2. IsFiniteSet(Linked) /\ Linked \intersect T = T
    BY FiniteAssumption, FS_Subset DEF Linked
  <1> QED BY <1>1, <1>2, FS_Difference

\* A step that leaves the tree alone.
LEMMA TreeUnchanged ==
    ASSUME TreeInv, UNCHANGED <<uplink, children, actual>>, cnt'.server = cnt.server
    PROVE  TreeInv'
  BY DEF TreeInv, TreeOK, Linked, Subtree, Closed

\* user_delete() leaves the tree alone.
LEMMA UserDeleteTree ==
    ASSUME TypeOK, TreeInv, NEW D, NEW E, UserDelete(D, E)
    PROVE  TreeInv'
  <1>1. Cardinality({}) = 0
    BY FS_EmptySet
  <1>2. cnt'.server = cnt.server
    BY <1>1 DEF UserDelete, Count, TypeOK
  <1> QED BY <1>2, TreeUnchanged DEF UserDelete

\* A split below the uplink.
LEMMA ServerDeleteTree ==
    ASSUME TypeOK, TreeInv, NEW x \in Servers, ServerDelete(x)
    PROVE  TreeInv'
  <1> DEFINE T == Subtree(x)
  <1>1. /\ x \in Linked /\ x # actual /\ ForgetServers(T) /\ actual' = actual
        /\ cnt'.server = cnt.server - Cardinality(T)
    BY DEF ServerDelete, Count, TypeOK
  <1>2. T \subseteq Linked /\ actual \notin T /\ T \subseteq Servers
    BY <1>1, SubtreeLinked, SubtreeType DEF TreeInv
  <1>3. Linked' = Linked \ T
        /\ Cardinality(Linked') = Cardinality(Linked) - Cardinality(T)
    BY <1>1, <1>2, ForgetLinked
  <1>4. cnt'.server = 1 + Cardinality(Linked')
    <2>1. Cardinality(Linked) \in Int /\ Cardinality(T) \in Int
      BY <1>2, NetworkCard DEF Linked
    <2> QED BY <1>1, <1>3, <2>1 DEF TreeInv
  <1>5. Closed(T)
    BY SubtreeIsLeast DEF TypeOK
  <1>6. /\ \A s \in Servers : uplink'[s] = IF s \in T THEN None ELSE uplink[s]
        /\ \A s \in AllServers : children'[s] = IF s \in T THEN {} ELSE children[s] \ T
    BY <1>1 DEF ForgetServers
  <1> HIDE DEF T
  <1>7. ASSUME NEW s \in Servers, NEW p \in AllServers
        PROVE  s \in children'[p] <=> uplink'[s] = p
    <2>1. s \in children[p] <=> uplink[s] = p
      BY DEF TreeInv, TreeOK
    <2>2. p \in T /\ s \in children[p] => s \in T
      BY <1>5 DEF Closed
    <2>3. p # None
      BY ConstantsDiffer
    <2> QED BY <1>6, <2>1, <2>2, <2>3
  <1>8. ASSUME NEW s \in Linked', uplink'[s] # Me PROVE uplink'[s] \in Linked'
    <2>1. s \in Servers /\ s \in Linked /\ s \notin T /\ uplink'[s] = uplink[s]
      BY <1>3, <1>6, <1>8 DEF Linked
    <2>2. uplink[s] \in Linked /\ uplink[s] \in AllServers
      BY <1>8, <2>1 DEF TreeInv, TreeOK, Linked, AllServers
    <2>3. s \in children[uplink[s]]
      BY <2>1, <2>2 DEF TreeInv, TreeOK
    <2>4. uplink[s] \notin T
      BY <2>1, <2>3, <1>5 DEF Closed
    <2> QED BY <2>1, <2>2, <2>4, <1>3
  <1>9. actual # None => actual \in Linked' /\ uplink'[actual] = Me
    BY <1>2, <1>3, <1>6 DEF TreeInv, TreeOK, Linked
  <1>10. Linked' # {} => actual # None
    BY <1>3 DEF TreeInv, TreeOK
  <1>11. ASSUME NEW s \in Linked' PROVE s \in Subtree(actual)'
    <2>1. s \in Servers /\ s \notin T /\ s \in Subtree(actual)
      BY <1>3 DEF Linked, TreeInv, TreeOK
    <2>2. ASSUME NEW S \in SUBSET Servers, actual \in S, Closed(S)'
          PROVE  s \in S
      <3>1. Closed(S \union T)
        <4>1. ASSUME NEW t \in S \union T, NEW y \in children[t]
              PROVE  y \in S \union T
          <5>1. CASE t \in T
            BY <4>1, <5>1, <1>5 DEF Closed
          <5>2. CASE t \in S /\ t \notin T
            <6>1. children'[t] = children[t] \ T
              BY <5>2, <1>6 DEF AllServers
            <6> QED BY <4>1, <5>2, <6>1, <2>2 DEF Closed
          <5> QED BY <4>1, <5>1, <5>2
        <4> QED BY <4>1 DEF Closed
      <3>2. s \in S \union T
        BY <2>1, <2>2, <3>1, <1>2 DEF Subtree
      <3> QED BY <3>2, <2>1
    <2> QED BY <2>1, <2>2, <1>1 DEF Subtree
  <1> QED
    BY <1>1, <1>4, <1>7, <1>8, <1>9, <1>10, <1>11 DEF TreeInv, TreeOK

\* The loss of the uplink forgets every server.
LEMMA UplinkCloseTree ==
    ASSUME TypeOK, TreeInv, UplinkClose
    PROVE  TreeInv' /\ Linked' = {} /\ actual' = None
  <1> DEFINE T == IF actual = None THEN {} ELSE Subtree(actual)
  <1>1. /\ ForgetServers(T) /\ actual' = None
        /\ cnt'.server = cnt.server - Cardinality(T)
    BY DEF UplinkClose, Count, TypeOK
  <1>2. T = Linked
    <2>1. CASE actual = None
      BY <2>1 DEF TreeInv, TreeOK
    <2>2. CASE actual # None
      <3>1. actual \in Linked
        BY <2>2 DEF TreeInv, TreeOK
      <3> QED BY <2>2, <3>1, SubtreeLinked DEF TreeInv, TreeOK
    <2> QED BY <2>1, <2>2
  <1> HIDE DEF T
  <1>3. /\ Linked' = {}
        /\ Cardinality(Linked') = Cardinality(Linked) - Cardinality(T)
    BY <1>1, <1>2, ForgetLinked
  <1>4. cnt'.server = 1 + Cardinality(Linked')
    <2>1. Cardinality(Linked) \in Int /\ Cardinality(T) \in Int
      BY <1>2, NetworkCard DEF Linked
    <2> QED BY <1>1, <1>3, <2>1 DEF TreeInv
  <1>5. \A s \in Servers : uplink'[s] = None
    BY <1>3 DEF Linked
  <1>6. \A p \in AllServers : children'[p] = {}
    <2> TAKE p \in AllServers
    <2>1. children'[p] = IF p \in T THEN {} ELSE children[p] \ T
      BY <1>1 DEF ForgetServers
    <2>2. \A s \in children[p] : s \in Servers /\ uplink[s] = p
      BY DEF TypeOK, TreeInv, TreeOK
    <2>3. children[p] \subseteq T
      BY <2>2, <1>2, ConstantsDiffer DEF Linked
    <2> QED BY <2>1, <2>3
  <1>7. TreeOK'
    BY <1>1, <1>3, <1>5, <1>6, ConstantsDiffer DEF TreeOK
  <1> QED BY <1>1, <1>3, <1>4, <1>7 DEF TreeInv

\* handle_server(): a new leaf, or the uplink naming itself.
LEMMA ServerAddTree ==
    ASSUME TypeOK, TreeInv, NEW p \in AllServers, NEW x \in Servers,
           ServerAdd(p, x)
    PROVE  TreeInv'
  <1>a. x \notin Linked /\ uplink[x] = None
    BY DEF ServerAdd, Linked
  <1>b. p # None /\ x # Me /\ None \notin Servers
    BY ConstantsDiffer DEF AllServers
  <1>1. /\ \A s \in Servers : uplink'[s] = IF s = x THEN p ELSE uplink[s]
        /\ \A s \in AllServers : children'[s] =
              IF s = p THEN children[s] \union {x} ELSE children[s]
    BY DEF ServerAdd, TypeOK
  <1>2. Linked' = Linked \union {x}
    BY <1>1, <1>b DEF Linked
  <1>3. IsFiniteSet(Linked) /\ Cardinality(Linked) \in Nat
    BY FiniteAssumption, FS_Subset, FS_CardinalityType DEF Linked
  <1>4. cnt'.server = 1 + Cardinality(Linked')
    <2>1. Cardinality(Linked') = Cardinality(Linked) + 1
      BY <1>a, <1>2, <1>3, FS_AddElement
    <2>2. cnt'.server = cnt.server + 1
      BY DEF ServerAdd, TypeOK
    <2> QED BY <1>3, <2>1, <2>2 DEF TreeInv
  <1>5. ASSUME NEW s \in Servers, NEW q \in AllServers
        PROVE  s \in children'[q] <=> uplink'[s] = q
    <2>1. s \in children[q] <=> uplink[s] = q
      BY DEF TreeInv, TreeOK
    <2>2. CASE s = x
      <3>1. x \notin children[q]
        BY <2>1, <2>2, <1>a, ConstantsDiffer
      <3> QED BY <2>2, <3>1, <1>1
    <2>3. CASE s # x
      <3>1. s \in children'[q] <=> s \in children[q]
        <4>1. children'[q] = children[q] \/ children'[q] = children[q] \union {x}
          BY <1>1
        <4> QED BY <2>3, <4>1
      <3> QED BY <2>1, <2>3, <3>1, <1>1
    <2> QED BY <2>2, <2>3
  <1>6. CASE p = Me /\ cnt.server = 1 /\ actual' = x
    <2>1. Linked = {}
      <3>1. Cardinality(Linked) = 0
        BY <1>3, <1>6 DEF TreeInv
      <3> QED BY <1>3, <3>1, FS_EmptySet
    <2>2. Linked' = {x} /\ uplink'[x] = Me
      BY <1>1, <1>2, <1>6, <2>1
    <2>3. x \in Subtree(x)'
      BY DEF Subtree
    <2> QED
      BY <1>4, <1>5, <1>6, <1>b, <2>2, <2>3 DEF TreeInv, TreeOK
  <1>7. CASE p \in Linked /\ actual' = actual
    <2>1. actual # None /\ actual \in Linked /\ uplink[actual] = Me /\ actual # x
      BY <1>7, <1>a DEF TreeInv, TreeOK
    <2>2. actual \in Linked' /\ uplink'[actual] = Me
      BY <2>1, <1>1, <1>2 DEF Linked
    <2>3. ASSUME NEW s \in Linked', uplink'[s] # Me PROVE uplink'[s] \in Linked'
      <3>1. CASE s = x
        BY <3>1, <1>1, <1>2, <1>7
      <3>2. CASE s # x
        <4>1. s \in Linked /\ s \in Servers
          BY <3>2, <1>2 DEF Linked
        <4> QED BY <3>2, <4>1, <1>1, <1>2, <2>3 DEF TreeInv, TreeOK
      <3> QED BY <3>1, <3>2
    <2>4. ASSUME NEW S \in SUBSET Servers, actual \in S, Closed(S)'
          PROVE  Linked' \subseteq S
      <3>1. \A s \in S : children[s] \subseteq children'[s]
        BY <1>1 DEF AllServers
      <3>2. Closed(S)
        BY <2>4, <3>1 DEF Closed
      <3>3. \A s \in Linked : s \in S
        BY <2>4, <3>2 DEF TreeInv, TreeOK, Subtree
      <3>4. x \in children'[p]
        BY <1>1
      <3>5. x \in S
        BY <1>7, <2>4, <3>3, <3>4 DEF Closed
      <3> QED BY <1>2, <3>3, <3>5
    <2>5. \A s \in Linked' : s \in Subtree(actual)'
      BY <2>4, <1>7 DEF Subtree, Linked
    <2> QED
      BY <1>4, <1>5, <1>7, <2>1, <2>2, <2>3, <2>5 DEF TreeInv, TreeOK
  <1> QED BY <1>6, <1>7 DEF ServerAdd

\* Every step keeps the tree in order.
LEMMA NextTree == TypeOK /\ TreeInv /\ [Next]_vars => TreeInv'
  <1> SUFFICES ASSUME TypeOK, TreeInv, [Next]_vars PROVE TreeInv'
    OBVIOUS
  <1>1. CASE UplinkConnect \/ (\E c \in Channels : ModePerm(c))
          \/ UNCHANGED vars
    BY <1>1, TreeUnchanged
    DEF UplinkConnect, ModePerm, vars, serverVars, meVars
  <1>2. CASE UplinkClose
    BY <1>2, UplinkCloseTree
  <1>3. CASE RemoveEnforcers
    BY <1>3, UserDeleteTree DEF RemoveEnforcers
  <1>4. ASSUME NEW p \in AllServers, NEW s \in Servers, ServerAdd(p, s)
        PROVE TreeInv'
    BY <1>4, ServerAddTree
  <1>5. ASSUME NEW s \in Servers, ServerDelete(s) PROVE TreeInv'
    BY <1>5, ServerDeleteTree
  <1>6. ASSUME NEW n \in Nicks, NEW s \in Servers, UserAdd(n, s)
        PROVE TreeInv'
    <2>1. CASE UserDelete({userlist[n]}, Enforced({userlist[n]}))
      BY <2>1, UserDeleteTree
    <2>2. ASSUME NEW u \in Free, NewUser(u, n, s),
                 UNCHANGED <<uplink, children, actual>>
          PROVE TreeInv'
      BY <2>2, TreeUnchanged DEF NewUser, TypeOK
    <2> QED BY <1>6, <2>1, <2>2 DEF UserAdd
  <1>7. ASSUME NEW u \in Users, UserQuit(u) \/ EnforcerQuit(u) PROVE TreeInv'
    BY <1>7, UserDeleteTree DEF UserQuit, EnforcerQuit
  <1>8. ASSUME NEW u \in Users, SetDoEnforce(u) PROVE TreeInv'
    BY <1>8, TreeUnchanged DEF SetDoEnforce, serverVars, meVars
  <1>9. ASSUME NEW u \in Users, NEW n \in Nicks, NickChange(u, n) PROVE TreeInv'
    <2>1. CASE NickCollision(u, n)
      BY <2>1, UserDeleteTree DEF NickCollision
    <2>2. CASE NickChanged(u, n)
      BY <2>2, TreeUnchanged DEF NickChanged, TypeOK
    <2> QED BY <1>9, <2>1, <2>2 DEF NickChange
  <1>10. ASSUME NEW u \in Users, NEW c \in Channels, Join(u, c) PROVE TreeInv'
    BY <1>10, TreeUnchanged DEF Join, ChanuserAdd, serverVars, TypeOK
  <1>11. ASSUME NEW u \in Users, NEW c \in Channels, Part(u, c) PROVE TreeInv'
    <2>1. Cardinality({}) = 0
      BY FS_EmptySet
    <2>2. cnt'.server = cnt.server
      BY <1>11, <2>1 DEF Part, Count, TypeOK
    <2> QED BY <1>11, <2>2, TreeUnchanged DEF Part, serverVars
  <1>12. ASSUME NEW u \in Users, NEW c \in Channels, KickService(u, c)
         PROVE TreeInv'
    BY <1>12, TreeUnchanged DEF KickService, serverVars, meVars
  <1> QED
    BY <1>1, <1>2, <1>3, <1>4, <1>5, <1>6, <1>7, <1>8, <1>9, <1>10, <1>11,
       <1>12
    DEF Next

\* The tree at the start.
LEMMA InitTree == Init => TreeInv
  <1> SUFFICES ASSUME Init PROVE TreeInv
    OBVIOUS
  <1>1. Linked = {}
    BY DEF Init, Linked
  <1>2. TreeOK
    BY <1>1, ConstantsDiffer DEF Init, TreeOK
  <1> QED BY <1>1, <1>2, FS_EmptySet DEF Init, TreeInv

\* In every reachable state both directions of the server tree agree and every
\* linked server is behind the uplink, so the loss of the uplink forgets all.
THEOREM TreeCorrect == Spec => []TreeOK
  <1>1. Spec => [](TypeOK /\ TreeInv)
    BY InitType, NextType, InitTree, NextTree, PTL DEF Spec
  <1>2. TreeInv => TreeOK
    BY DEF TreeInv
  <1> QED BY <1>1, <1>2, PTL

-----------------------------------------------------------------------------
(* The loss of the uplink *)

\* The assertion of channel_delete() (channels.c:171) never fires in
\* uplink_close(): every member that is left then is one of ours.
THEOREM ChannelDeleteAssertion == Spec => []UplinkCloseLeavesOurs
  <1>1. Spec => [](TypeOK /\ ClientInv /\ MembershipOK /\ TreeInv)
    BY InitType, NextType, InitClients, NextClients, MembershipsAgree,
       InitTree, NextTree, PTL
    DEF Spec
  <1>2. TypeOK /\ ClientInv /\ MembershipOK /\ TreeInv => UplinkCloseLeavesOurs
    <2> SUFFICES ASSUME TypeOK, ClientInv, MembershipOK, TreeInv,
                        NEW c \in chanlist, NEW u \in members[c], ~Internal(u)
                 PROVE  actual # None /\ u \in UsersOf(Subtree(actual))
      BY DEF UplinkCloseLeavesOurs
    <2>1. c \in Channels /\ u \in Users
      BY DEF TypeOK
    <2>2. u \in Live
      BY <2>1 DEF MembershipOK, Free
    <2>3. home[u] \in Linked /\ home[u] \in AllServers /\ u \in svusers[home[u]]
      BY <2>1, <2>2 DEF ClientInv, ServerListOK, Linked, AllServers
    <2>4. actual # None /\ home[u] \in Subtree(actual)
      BY <2>3 DEF TreeInv, TreeOK
    <2> QED BY <2>3, <2>4 DEF UsersOf
  <1> QED BY <1>1, <1>2, PTL

\* Deleting clients of ours while no remote client is left.
LEMMA DisconnectedStep ==
    ASSUME TypeOK, ClientInv, TreeInv, NothingWhenDisconnected, [Next]_vars,
           ~connected'
    PROVE  Linked' = {} /\ actual' = None /\ chanlist' = {}
  <1>1. CASE connected
    <2>1. UplinkClose
      BY <1>1, ZenonT(60)
      DEF Next, UplinkConnect, RemoveEnforcers, ServerAdd, ServerDelete,
          UserAdd, UserQuit, EnforcerQuit, SetDoEnforce, NickChange,
          NickCollision, NickChanged, Join, Part, KickService, ModePerm,
          UserDelete, vars, meVars
    <2> QED BY <2>1, UplinkCloseTree DEF UplinkClose, LeaveChannels
  <1>2. CASE ~connected
    <2>1. Linked = {} /\ actual = None /\ chanlist = {}
          /\ \A u \in Live : Internal(u)
      BY <1>2 DEF NothingWhenDisconnected
    <2>2. ASSUME NEW D, NEW E, UserDelete(D, E)
          PROVE  UNCHANGED <<uplink, actual>> /\ chanlist' \subseteq chanlist
      BY <2>2 DEF UserDelete, LeaveChannels
    <2>3. \/ UplinkConnect \/ RemoveEnforcers \/ UNCHANGED vars
          \/ \E u \in Users : UserQuit(u) \/ EnforcerQuit(u) \/ SetDoEnforce(u)
          \/ \E u \in Users, n \in Nicks : NickChange(u, n)
      BY <1>2
      DEF Next, UplinkClose, ServerAdd, ServerDelete, UserAdd, Join, Part,
          KickService, ModePerm
    <2>4. UNCHANGED <<uplink, actual>> /\ chanlist' \subseteq chanlist
      BY <2>1, <2>2, <2>3
      DEF UplinkConnect, RemoveEnforcers, UserQuit, EnforcerQuit, SetDoEnforce,
          NickChange, vars, chanVars, serverVars, meVars
    <2> QED BY <2>1, <2>4 DEF Linked
  <1> QED BY <1>1, <1>2

\* The tables of clients, channels and servers agree, whatever joins, collides,
\* splits or is lost.
THEOREM AllTablesAgree == Spec => []TablesAgree
  <1> QED BY ClientTablesAgree, MembershipsAgree, TreeCorrect, ChannelDeleteAssertion, PTL
          DEF TablesAgree

\* While there is no uplink no remote server, remote client or channel is
\* remembered from the last one.
THEOREM DisconnectedIsEmpty == Spec => []NothingWhenDisconnected
  <1>1. Spec => [](TypeOK /\ ClientInv /\ TreeInv)
    BY InitType, NextType, InitClients, NextClients, InitTree, NextTree, PTL
    DEF Spec
  <1>2. Init => NothingWhenDisconnected
    <2> SUFFICES ASSUME Init PROVE NothingWhenDisconnected
      OBVIOUS
    <2>1. ClientInv /\ Linked = {}
      BY InitClients DEF Init, Linked
    <2> QED BY <2>1 DEF Init, NothingWhenDisconnected, ClientInv, ServerListOK
  <1>3. /\ TypeOK /\ ClientInv /\ TreeInv /\ NothingWhenDisconnected
        /\ [Next]_vars /\ ClientInv'
        => NothingWhenDisconnected'
    <2> SUFFICES ASSUME TypeOK, ClientInv, TreeInv, NothingWhenDisconnected,
                        [Next]_vars, ClientInv', ~connected'
                 PROVE  /\ Linked' = {} /\ actual' = None /\ chanlist' = {}
                        /\ \A u \in Live' : Internal(u)'
      BY DEF NothingWhenDisconnected
    <2>1. Linked' = {} /\ actual' = None /\ chanlist' = {}
      BY DisconnectedStep
    <2> QED BY <2>1 DEF ClientInv, ServerListOK
  <1> QED BY <1>1, <1>2, <1>3, PTL DEF Spec

\* The clients of linked servers are live.
LEMMA UsersOfLive ==
    ASSUME TypeOK, ClientInv, NEW T \in SUBSET Servers
    PROVE  UsersOf(T) \in SUBSET Live
  <1>1. \A u \in UsersOf(T) : u \in Users /\ home[u] \in T
    BY DEF UsersOf, ClientInv, ServerListOK, TypeOK, AllServers
  <1> QED BY <1>1, ConstantsDiffer DEF ClientInv, ServerListOK, AllServers

\* Nobody is in a channel at the start.
LEMMA InitMembership == Init => MembershipOK
  BY DEF Init, MembershipOK, Free, Live
-----------------------------------------------------------------------------
(* The counters *)

\* The counters of the client tables: s->users and cnt.user.
ClientCounters ==
    /\ \A s \in AllServers : users[s] = Cardinality(svusers[s])
    /\ cnt.user = Cardinality(Live)

\* The chanuser_t objects.
Memberships == {m \in Channels \X Users : m[2] \in members[m[1]]}

\* Our own clients in a channel.
ServiceMembers(c) == {u \in members[c] : Internal(u)}

\* The counters of the channel tables.
ChannelCounters ==
    /\ \A c \in Channels :
          /\ nummembers[c] = Cardinality(members[c])
          /\ numsvcmembers[c] = Cardinality(ServiceMembers(c))
    /\ cnt.chan = Cardinality(chanlist)
    /\ cnt.chanuser = Cardinality(Memberships)

\* Taking a part away from a finite set takes its number away.
LEMMA CardMinus ==
    ASSUME NEW S, IsFiniteSet(S), NEW T \in SUBSET S
    PROVE  /\ Cardinality(S \ T) = Cardinality(S) - Cardinality(T)
           /\ Cardinality(S) \in Nat /\ Cardinality(T) \in Nat
           /\ IsFiniteSet(S \ T) /\ IsFiniteSet(T)
  <1>1. S \intersect T = T
    OBVIOUS
  <1> QED BY <1>1, FS_Difference, FS_Subset, FS_CardinalityType, ZenonT(60)

\* Adding what a finite set does not have adds its number.
LEMMA CardPlus ==
    ASSUME NEW S, IsFiniteSet(S), NEW T, IsFiniteSet(T), S \intersect T = {}
    PROVE  /\ Cardinality(S \union T) = Cardinality(S) + Cardinality(T)
           /\ Cardinality(S) \in Nat /\ Cardinality(T) \in Nat
  <1>1. Cardinality(S) \in Nat /\ Cardinality(T) \in Nat
    BY FS_CardinalityType
  <1>2. Cardinality(S \union T) = Cardinality(S) + Cardinality(T) - Cardinality(S \intersect T)
    BY FS_Union
  <1>3. Cardinality(S \intersect T) = 0
    BY FS_EmptySet
  <1> QED BY <1>1, <1>2, <1>3

\* One more.
LEMMA CardAdd ==
    ASSUME NEW S, IsFiniteSet(S), NEW x, x \notin S
    PROVE  /\ Cardinality(S \union {x}) = Cardinality(S) + 1
           /\ Cardinality(S) \in Nat
  BY FS_AddElement, FS_CardinalityType

\* Every list that is counted is finite.
LEMMA ListsFinite ==
    ASSUME TypeOK
    PROVE  /\ \A T \in SUBSET Users : IsFiniteSet(T)
           /\ \A s \in AllServers : IsFiniteSet(svusers[s])
           /\ IsFiniteSet(Live)
           /\ \A c \in Channels : IsFiniteSet(members[c]) /\ IsFiniteSet(ServiceMembers(c))
           /\ IsFiniteSet(chanlist)
           /\ IsFiniteSet(Memberships)
  <1>1. \A T \in SUBSET Users : IsFiniteSet(T)
    BY FiniteAssumption, FS_Subset
  <1>2. IsFiniteSet(chanlist)
    BY FiniteAssumption, FS_Subset DEF TypeOK
  <1>3. IsFiniteSet(Memberships)
    <2>1. IsFiniteSet(Channels \X Users)
      BY FiniteAssumption, FS_Product
    <2> QED BY <2>1, FS_Subset DEF Memberships
  <1>4. \A s \in AllServers : svusers[s] \in SUBSET Users
    BY DEF TypeOK
  <1>5. \A c \in Channels : members[c] \in SUBSET Users /\ ServiceMembers(c) \in SUBSET Users
    BY DEF TypeOK, ServiceMembers
  <1>6. Live \in SUBSET Users
    BY DEF Live
  <1> QED BY <1>1, <1>2, <1>3, <1>4, <1>5, <1>6

\* user_delete() counts down what it takes off the lists, and up for enforcers.
LEMMA DeleteUsersCounters ==
    ASSUME TypeOK, ClientInv, ClientCounters, NEW D \in SUBSET Live,
           NEW E \in SUBSET D, DeleteUsers(D, E),
           cnt'.user = cnt.user - Cardinality(D) + Cardinality(E)
    PROVE  ClientCounters'
  <1>1. Live' = (Live \ D) \union E
    BY DeleteUsersIndex DEF ClientInv
  <1>2. E \in SUBSET Live /\ Live \in SUBSET Users
    BY DEF Live
  <1>3. cnt'.user = Cardinality(Live')
    <2>1. IsFiniteSet(Live) /\ IsFiniteSet(E) /\ (Live \ D) \intersect E = {}
      BY <1>2, ListsFinite
    <2>2. /\ Cardinality(Live \ D) = Cardinality(Live) - Cardinality(D)
          /\ Cardinality(Live) \in Nat /\ Cardinality(D) \in Nat
          /\ IsFiniteSet(Live \ D)
      BY <2>1, CardMinus
    <2>3. /\ Cardinality((Live \ D) \union E) = Cardinality(Live \ D) + Cardinality(E)
          /\ Cardinality(E) \in Nat
      BY <2>1, <2>2, CardPlus
    <2> QED BY <1>1, <2>2, <2>3 DEF ClientCounters
  <1>4. ASSUME NEW s \in AllServers
        PROVE  users'[s] = Cardinality(svusers'[s])
    <2> DEFINE O == OnServer(D, s)
               N == IF s = Me THEN E ELSE {}
    <2>1. \A u \in Users : u \in svusers[s] <=> home[u] = s
      BY DEF ClientInv, ServerListOK
    <2>2. O \in SUBSET svusers[s]
      BY <1>2, <2>1 DEF OnServer
    <2>3. (svusers[s] \ O) \intersect N = {}
      BY <1>2, <2>1 DEF OnServer, TypeOK
    <2>4. svusers'[s] = (svusers[s] \ O) \union N
      BY DEF DeleteUsers
    <2>5. users'[s] = users[s] - Cardinality(O) + Cardinality(N)
      <3>1. Cardinality({}) = 0
        BY FS_EmptySet
      <3> QED BY <3>1 DEF DeleteUsers
    <2>6. IsFiniteSet(svusers[s]) /\ IsFiniteSet(N)
      BY <1>2, ListsFinite, FS_EmptySet
    <2> HIDE DEF O, N
    <2>7. /\ Cardinality(svusers[s] \ O) = Cardinality(svusers[s]) - Cardinality(O)
          /\ Cardinality(svusers[s]) \in Nat /\ Cardinality(O) \in Nat
          /\ IsFiniteSet(svusers[s] \ O)
      BY <2>2, <2>6, CardMinus
    <2>8. /\ Cardinality((svusers[s] \ O) \union N) = Cardinality(svusers[s] \ O) + Cardinality(N)
          /\ Cardinality(N) \in Nat
      BY <2>3, <2>6, <2>7, CardPlus
    <2> QED BY <2>4, <2>5, <2>7, <2>8 DEF ClientCounters
  <1> QED BY <1>3, <1>4 DEF ClientCounters

\* chanuser_delete() and channel_delete() count down what they free, if the
\* clients that stay in channels stay on their servers.
LEMMA LeaveChannelsCounters ==
    ASSUME TypeOK, MembershipOK, ChannelCounters, NEW D \in SUBSET Users,
           NEW X \in SUBSET Channels, NEW Dead \in SUBSET chanlist,
           LeaveChannels(D, X, Dead),
           \A c \in Channels : \A u \in members'[c] : home'[u] = home[u],
           cnt'.chan = cnt.chan - Cardinality(Dead),
           cnt'.chanuser = cnt.chanuser - Cardinality(Dropped(D, X, Dead))
    PROVE  ChannelCounters'
  <1>1. \A u \in Users, c \in Channels : u \in members[c] <=> c \in channels[u]
    BY DEF MembershipOK
  <1>2. ASSUME NEW c \in Channels
        PROVE  /\ nummembers'[c] = Cardinality(members'[c])
               /\ numsvcmembers'[c] = Cardinality(ServiceMembers(c)')
    <2>1. CASE c \in Dead
      <3>1. members'[c] = {} /\ nummembers'[c] = 0 /\ numsvcmembers'[c] = 0
        BY <2>1 DEF LeaveChannels
      <3>2. ServiceMembers(c)' = {}
        BY <3>1 DEF ServiceMembers
      <3> QED BY <3>1, <3>2, FS_EmptySet
    <2>2. CASE c \notin Dead
      <3> DEFINE G == Gone(D, X, c)
                 S == GoneSvc(D, X, c)
      <3>1. /\ members'[c] = members[c] \ G
            /\ nummembers'[c] = nummembers[c] - Cardinality(G)
            /\ numsvcmembers'[c] = numsvcmembers[c] - Cardinality(S)
        BY <2>2 DEF LeaveChannels
      <3>2. G \in SUBSET members[c]
        BY <1>1 DEF Gone, LeftBy
      <3>3. S \in SUBSET ServiceMembers(c)
        BY <3>2 DEF GoneSvc, ServiceMembers
      <3>4. ServiceMembers(c)' = ServiceMembers(c) \ S
        BY <3>1 DEF GoneSvc, ServiceMembers, Internal
      <3> HIDE DEF G, S
      <3>5. Cardinality(members[c] \ G) = Cardinality(members[c]) - Cardinality(G)
        BY <3>2, ListsFinite, CardMinus
      <3>6. Cardinality(ServiceMembers(c) \ S) = Cardinality(ServiceMembers(c)) - Cardinality(S)
        BY <3>3, ListsFinite, CardMinus
      <3> QED BY <3>1, <3>4, <3>5, <3>6 DEF ChannelCounters
    <2> QED BY <2>1, <2>2
  <1>3. cnt'.chan = Cardinality(chanlist')
    <2>1. Cardinality(chanlist \ Dead) = Cardinality(chanlist) - Cardinality(Dead)
      BY ListsFinite, CardMinus
    <2> QED BY <2>1 DEF ChannelCounters, LeaveChannels
  <1>4. cnt'.chanuser = Cardinality(Memberships')
    <2> DEFINE R == Dropped(D, X, Dead)
    <2>1. R \in SUBSET Memberships
      BY <1>1 DEF Dropped, Memberships
    <2>2. Memberships' = Memberships \ R
      <3>1. ASSUME NEW m \in Channels \X Users
            PROVE  m \in Memberships' <=> m \in Memberships /\ m \notin R
        <4>1. m[1] \in Channels /\ m[2] \in Users
          BY <3>1
        <4>2. members'[m[1]] = IF m[1] \in Dead THEN {} ELSE members[m[1]] \ Gone(D, X, m[1])
          BY <4>1 DEF LeaveChannels
        <4>3. m[2] \in members[m[1]] <=> m[1] \in channels[m[2]]
          BY <4>1, <1>1
        <4>4. m[2] \in Gone(D, X, m[1]) <=> m[1] \in X /\ m[2] \in D /\ m[1] \in channels[m[2]]
          BY DEF Gone, LeftBy
        <4>5. m \in R <=> \/ m[1] \in X /\ m[2] \in D /\ m[1] \in channels[m[2]]
                          \/ m[1] \in Dead /\ m[2] \in members[m[1]]
          BY <3>1 DEF Dropped
        <4>6. m \in Memberships' <=> m[2] \in members'[m[1]]
          BY <3>1 DEF Memberships
        <4>7. m \in Memberships <=> m[2] \in members[m[1]]
          BY <3>1 DEF Memberships
        <4> HIDE DEF R
        <4> QED BY <4>2, <4>3, <4>4, <4>5, <4>6, <4>7
      <3>2. Memberships' \subseteq Channels \X Users /\ Memberships \subseteq Channels \X Users
        BY DEF Memberships
      <3> HIDE DEF R
      <3> QED BY <3>1, <3>2
    <2> HIDE DEF R
    <2>3. Cardinality(Memberships \ R) = Cardinality(Memberships) - Cardinality(R)
      BY <2>1, ListsFinite, CardMinus
    <2> QED BY <2>2, <2>3 DEF ChannelCounters, R
  <1> QED BY <1>2, <1>3, <1>4 DEF ChannelCounters

\* Deleting clients with everything they are in: both counters together.
LEMMA DeleteCounters ==
    ASSUME TypeOK, ClientInv, MembershipOK, ClientCounters, ChannelCounters,
           NEW D \in SUBSET Live, NEW E \in SUBSET D, NEW Dead \in SUBSET chanlist,
           NEW T, DeleteUsers(D, E), LeaveChannels(D, Channels, Dead),
           Count(D, E, Dead, Dropped(D, Channels, Dead), T)
    PROVE  ClientCounters' /\ ChannelCounters'
  <1>1. /\ cnt'.user = cnt.user - Cardinality(D) + Cardinality(E)
        /\ cnt'.chan = cnt.chan - Cardinality(Dead)
        /\ cnt'.chanuser = cnt.chanuser - Cardinality(Dropped(D, Channels, Dead))
    BY DEF Count
  <1>2. D \in SUBSET Users
    BY DEF Live
  <1>3. ASSUME NEW c \in Channels, NEW u \in members'[c]
        PROVE  home'[u] = home[u]
    <2>1. u \in members[c] /\ u \notin Gone(D, Channels, c)
      BY <1>3 DEF LeaveChannels
    <2>2. u \in Users /\ u \notin D
      BY <2>1 DEF TypeOK, MembershipOK, Gone, LeftBy
    <2> QED BY <2>2 DEF DeleteUsers
  <1>4. ClientCounters'
    BY <1>1, DeleteUsersCounters
  <1>5. ChannelCounters'
    BY <1>1, <1>2, <1>3, LeaveChannelsCounters
  <1> QED BY <1>4, <1>5

\* user_delete().
LEMMA UserDeleteCounters ==
    ASSUME TypeOK, ClientInv, MembershipOK, ClientCounters, ChannelCounters,
           NEW D \in SUBSET Live, NEW E \in SUBSET D, UserDelete(D, E)
    PROVE  ClientCounters' /\ ChannelCounters'
  <1>1. Emptied(D) \in SUBSET chanlist
    BY DEF Emptied
  <1> QED BY <1>1, DeleteCounters DEF UserDelete

\* A new client, in a slot that is in no list, of our server or another.
LEMMA NewClientCounters ==
    ASSUME TypeOK, ClientInv, ClientCounters, NEW u \in Free, NEW s \in AllServers,
           Live' = Live \union {u},
           svusers' = [svusers EXCEPT ![s] = @ \union {u}],
           users' = [users EXCEPT ![s] = @ + 1],
           cnt' = [cnt EXCEPT !.user = @ + 1]
    PROVE  ClientCounters'
  <1>1. u \in Users /\ u \notin Live
    BY DEF Free
  <1>2. u \notin svusers[s]
    BY <1>1, ConstantsDiffer DEF ClientInv, ServerListOK, AllServers
  <1>3. Cardinality(Live \union {u}) = Cardinality(Live) + 1
    BY <1>1, ListsFinite, CardAdd
  <1>4. Cardinality(svusers[s] \union {u}) = Cardinality(svusers[s]) + 1
    BY <1>2, ListsFinite, CardAdd
  <1>5. cnt'.user = cnt.user + 1
    BY DEF TypeOK
  <1>6. \A t \in AllServers : users'[t] = Cardinality(svusers'[t])
    BY <1>4 DEF ClientCounters, TypeOK
  <1> QED BY <1>3, <1>5, <1>6 DEF ClientCounters

\* A step that leaves the channel tables and the homes of their members alone.
LEMMA ChannelCountersKept ==
    ASSUME TypeOK, ChannelCounters, UNCHANGED <<chanlist, members, nummembers, numsvcmembers>>,
           \A c \in Channels : \A u \in members[c] : home'[u] = home[u],
           cnt'.chan = cnt.chan, cnt'.chanuser = cnt.chanuser
    PROVE  ChannelCounters'
  <1>1. \A c \in Channels : ServiceMembers(c)' = ServiceMembers(c)
    BY DEF ServiceMembers, Internal
  <1>2. Memberships' = Memberships
    BY DEF Memberships
  <1> QED BY <1>1, <1>2 DEF ChannelCounters

\* chanuser_add(), after channel_add() if the channel is new.
LEMMA JoinCounters ==
    ASSUME TypeOK, ChannelCounters, NEW u \in Users, NEW c \in Channels, Join(u, c)
    PROVE  ChannelCounters'
  <1>1. /\ u \notin members[c] /\ chanlist' = chanlist \union {c} /\ home' = home
        /\ members' = [members EXCEPT ![c] = @ \union {u}]
        /\ nummembers' = [nummembers EXCEPT ![c] = @ + 1]
        /\ numsvcmembers' = [numsvcmembers EXCEPT ![c] = IF Internal(u) THEN @ + 1 ELSE @]
        /\ cnt'.chan = IF c \in chanlist THEN cnt.chan ELSE cnt.chan + 1
        /\ cnt'.chanuser = cnt.chanuser + 1
    BY DEF Join, ChanuserAdd
  <1>2. \A d \in Channels : members'[d] = IF d = c THEN members[c] \union {u} ELSE members[d]
    BY <1>1 DEF TypeOK
  <1>3. Cardinality(members[c] \union {u}) = Cardinality(members[c]) + 1
    BY <1>1, ListsFinite, CardAdd
  <1>4. ASSUME NEW d \in Channels
        PROVE  /\ nummembers'[d] = Cardinality(members'[d])
               /\ numsvcmembers'[d] = Cardinality(ServiceMembers(d)')
    <2>1. CASE d # c
      <3>1. ServiceMembers(d)' = ServiceMembers(d)
        BY <2>1, <1>1, <1>2 DEF ServiceMembers, Internal
      <3>2. nummembers'[d] = nummembers[d] /\ numsvcmembers'[d] = numsvcmembers[d]
        BY <2>1, <1>1 DEF TypeOK
      <3> QED BY <2>1, <3>1, <3>2, <1>2 DEF ChannelCounters
    <2>2. CASE d = c
      <3>1. nummembers'[c] = nummembers[c] + 1
        BY <1>1 DEF TypeOK
      <3>2. CASE Internal(u)
        <4>1. ServiceMembers(c)' = ServiceMembers(c) \union {u} /\ u \notin ServiceMembers(c)
          BY <3>2, <1>1, <1>2 DEF ServiceMembers, Internal
        <4>2. Cardinality(ServiceMembers(c) \union {u}) = Cardinality(ServiceMembers(c)) + 1
          BY <4>1, ListsFinite, CardAdd
        <4>3. numsvcmembers'[c] = numsvcmembers[c] + 1
          BY <3>2, <1>1 DEF TypeOK
        <4> QED BY <2>2, <3>1, <4>1, <4>2, <4>3, <1>2, <1>3 DEF ChannelCounters
      <3>3. CASE ~Internal(u)
        <4>1. ServiceMembers(c)' = ServiceMembers(c)
          BY <3>3, <1>1, <1>2 DEF ServiceMembers, Internal
        <4>2. numsvcmembers'[c] = numsvcmembers[c]
          BY <3>3, <1>1 DEF TypeOK
        <4> QED BY <2>2, <3>1, <4>1, <4>2, <1>2, <1>3 DEF ChannelCounters
      <3> QED BY <3>2, <3>3
    <2> QED BY <2>1, <2>2
  <1>5. cnt'.chan = Cardinality(chanlist')
    <2>1. CASE c \in chanlist
      <3>1. chanlist' = chanlist
        BY <2>1, <1>1
      <3> QED BY <2>1, <3>1, <1>1 DEF ChannelCounters
    <2>2. CASE c \notin chanlist
      <3>1. Cardinality(chanlist \union {c}) = Cardinality(chanlist) + 1
        BY <2>2, ListsFinite, CardAdd
      <3> QED BY <2>2, <3>1, <1>1 DEF ChannelCounters
    <2> QED BY <2>1, <2>2
  <1>6. cnt'.chanuser = Cardinality(Memberships')
    <2>1. <<c, u>> \notin Memberships
      BY <1>1 DEF Memberships
    <2>2. Memberships' = Memberships \union {<<c, u>>}
      <3>1. ASSUME NEW m \in Channels \X Users
            PROVE  m \in Memberships' <=> m \in Memberships \/ m = <<c, u>>
        <4>1. m[1] \in Channels /\ m[2] \in Users /\ m = <<m[1], m[2]>>
          BY <3>1
        <4>2. m[2] \in members'[m[1]] <=> m[2] \in members[m[1]] \/ (m[1] = c /\ m[2] = u)
          BY <4>1, <1>2
        <4>3. m = <<c, u>> <=> m[1] = c /\ m[2] = u
          BY <4>1
        <4>4. m \in Memberships' <=> m[2] \in members'[m[1]]
          BY <3>1 DEF Memberships
        <4>5. m \in Memberships <=> m[2] \in members[m[1]]
          BY <3>1 DEF Memberships
        <4> QED BY <4>2, <4>3, <4>4, <4>5
      <3>2. Memberships' \subseteq Channels \X Users /\ Memberships \subseteq Channels \X Users
        BY DEF Memberships
      <3>3. <<c, u>> \in Channels \X Users
        OBVIOUS
      <3> QED BY <3>1, <3>2, <3>3
    <2>3. Cardinality(Memberships \union {<<c, u>>}) = Cardinality(Memberships) + 1
      BY <2>1, ListsFinite, CardAdd
    <2> QED BY <2>2, <2>3, <1>1 DEF ChannelCounters
  <1> QED BY <1>4, <1>5, <1>6 DEF ChannelCounters

\* A kick of the last member, one of ours: what join() builds is what there was.
LEMMA KickServiceSame ==
    ASSUME TypeOK, MembershipOK, ChannelCounters, NEW u \in Users, NEW c \in Channels,
           KickService(u, c)
    PROVE  UNCHANGED <<members, nummembers, numsvcmembers>>
  <1>1. /\ u \in members[c] /\ Internal(u) /\ c \in Emptied({u})
        /\ members' = [members EXCEPT ![c] = {u}]
        /\ nummembers' = [nummembers EXCEPT ![c] = 1]
        /\ numsvcmembers' = [numsvcmembers EXCEPT ![c] = 1]
    BY DEF KickService
  <1>2. LeftBy({u}, c) = {u}
    BY <1>1 DEF LeftBy, MembershipOK
  <1>3. Cardinality({u}) = 1 /\ IsFiniteSet({u})
    BY FS_Singleton
  <1>4. nummembers[c] - 1 = 0 /\ nummembers[c] \in Int
    BY <1>1, <1>2, <1>3 DEF Emptied, TypeOK
  <1>5. Cardinality(members[c]) = 1 /\ IsFiniteSet(members[c])
    BY <1>4, ListsFinite DEF ChannelCounters
  <1>6. members[c] = {u}
    <2>1. \E x : members[c] = {x}
      BY <1>5, FS_Singleton
    <2> QED BY <2>1, <1>1
  <1>7. ServiceMembers(c) = {u}
    BY <1>1, <1>6 DEF ServiceMembers
  <1>8. nummembers[c] = 1 /\ numsvcmembers[c] = 1
    BY <1>3, <1>4, <1>7 DEF ChannelCounters
  <1> QED BY <1>1, <1>6, <1>8 DEF TypeOK

\* Every step keeps the counters equal to the lists.
LEMMA NextCounters ==
    /\ TypeOK /\ ClientInv /\ MembershipOK /\ ClientCounters /\ ChannelCounters
    /\ [Next]_vars
    => ClientCounters' /\ ChannelCounters'
  <1> SUFFICES ASSUME TypeOK, ClientInv, MembershipOK, ClientCounters, ChannelCounters,
                      [Next]_vars
               PROVE  ClientCounters' /\ ChannelCounters'
    OBVIOUS
  <1>a. ASSUME UNCHANGED <<nick, svusers, users>>, cnt'.user = cnt.user
        PROVE  ClientCounters'
    BY <1>a DEF ClientCounters, Live
  <1>b. \A c \in Channels : \A u \in members[c] : u \in Live
    BY DEF MembershipOK, Free, TypeOK
  <1>1. CASE UplinkConnect \/ (\E c \in Channels : ModePerm(c)) \/ UNCHANGED vars
    BY <1>1, <1>a, ChannelCountersKept
    DEF UplinkConnect, ModePerm, vars, userVars, serverVars, chanVars, meVars
  <1>2. ASSUME UplinkClose PROVE ClientCounters' /\ ChannelCounters'
    <2> DEFINE T == IF actual = None THEN {} ELSE Subtree(actual)
               D == UsersOf(T)
               E == Enforced(D)
    <2>1. /\ DeleteUsers(D, E) /\ LeaveChannels(D, Channels, chanlist)
          /\ Count(D, E, chanlist, Dropped(D, Channels, chanlist), T)
      BY <1>2 DEF UplinkClose
    <2>2. D \in SUBSET Live /\ E \in SUBSET D
      <3>1. T \in SUBSET Servers
        BY SubtreeType
      <3> QED BY <3>1, UsersOfLive DEF Enforced
    <2> HIDE DEF T, D, E
    <2> QED BY <2>1, <2>2, DeleteCounters
  <1>3. ASSUME RemoveEnforcers PROVE ClientCounters' /\ ChannelCounters'
    <2>1. enforcers \in SUBSET Live
      BY DEF ClientInv, FlagsOK
    <2> QED BY <1>3, <2>1, UserDeleteCounters DEF RemoveEnforcers, Enforced
  <1>4. ASSUME NEW p \in AllServers, NEW s \in Servers, ServerAdd(p, s)
        PROVE ClientCounters' /\ ChannelCounters'
    <2>1. cnt'.user = cnt.user /\ cnt'.chan = cnt.chan /\ cnt'.chanuser = cnt.chanuser
      BY <1>4 DEF ServerAdd, TypeOK
    <2> QED BY <1>4, <2>1, <1>a, ChannelCountersKept DEF ServerAdd, userVars, chanVars
  <1>5. ASSUME NEW s \in Servers, ServerDelete(s) PROVE ClientCounters' /\ ChannelCounters'
    <2> DEFINE T == Subtree(s)
               D == UsersOf(T)
               E == Enforced(D)
    <2>1. /\ DeleteUsers(D, E) /\ LeaveChannels(D, Channels, Emptied(D))
          /\ Count(D, E, Emptied(D), Dropped(D, Channels, Emptied(D)), T)
      BY <1>5 DEF ServerDelete
    <2>2. D \in SUBSET Live /\ E \in SUBSET D
      <3>1. T \in SUBSET Servers
        BY SubtreeType
      <3> QED BY <3>1, UsersOfLive DEF Enforced
    <2>3. Emptied(D) \in SUBSET chanlist
      BY DEF Emptied
    <2> HIDE DEF T, D, E
    <2> QED BY <2>1, <2>2, <2>3, DeleteCounters
  <1>6. ASSUME NEW n \in Nicks, NEW s \in Servers, UserAdd(n, s)
        PROVE ClientCounters' /\ ChannelCounters'
    <2>1. ASSUME NEW u \in Free, NewUser(u, n, s), UNCHANGED chanVars
          PROVE ClientCounters' /\ ChannelCounters'
      <3>1. u \in Users /\ u \notin Live /\ s \in AllServers /\ n # None
        BY ConstantsDiffer DEF Free, AllServers
      <3>2. Live' = Live \union {u}
        BY <2>1, <3>1 DEF NewUser, Live, TypeOK
      <3>3. ClientCounters'
        BY <2>1, <3>1, <3>2, NewClientCounters DEF NewUser
      <3>4. \A c \in Channels : \A v \in members[c] : home'[v] = home[v]
        BY <2>1, <3>1, <1>b DEF NewUser, TypeOK, Live
      <3>5. cnt'.chan = cnt.chan /\ cnt'.chanuser = cnt.chanuser
        BY <2>1 DEF NewUser, TypeOK
      <3> QED BY <2>1, <3>3, <3>4, <3>5, ChannelCountersKept DEF chanVars
    <2>2. ASSUME userlist[n] # None,
                 UserDelete({userlist[n]}, Enforced({userlist[n]}))
          PROVE ClientCounters' /\ ChannelCounters'
      <3>1. userlist[n] \in Live
        BY <2>2, ConstantsDiffer DEF TypeOK, ClientInv, NickIndexOK, Live
      <3> QED BY <2>2, <3>1, UserDeleteCounters DEF Enforced
    <2> QED BY <1>6, <2>1, <2>2 DEF UserAdd
  <1>7. ASSUME NEW u \in Users, UserQuit(u) \/ EnforcerQuit(u)
        PROVE ClientCounters' /\ ChannelCounters'
    <2>1. u \in Live /\ UserDelete({u}, Enforced({u}))
      BY <1>7 DEF UserQuit, EnforcerQuit, ClientInv, FlagsOK
    <2> QED BY <2>1, UserDeleteCounters DEF Enforced
  <1>8. ASSUME NEW u \in Users, SetDoEnforce(u) PROVE ClientCounters' /\ ChannelCounters'
    BY <1>8, <1>a, ChannelCountersKept DEF SetDoEnforce, serverVars, chanVars, meVars
  <1>9. ASSUME NEW u \in Users, NEW n \in Nicks, NickChange(u, n)
        PROVE ClientCounters' /\ ChannelCounters'
    <2>a. u \in Live /\ ~Internal(u) /\ nick[u] \in Nicks /\ n # None
      BY <1>9, ConstantsDiffer DEF NickChange, Live, TypeOK
    <2>1. CASE NickCollision(u, n)
      <3>1. userlist[n] \in Live
        BY <2>1, ConstantsDiffer DEF NickCollision, TypeOK, ClientInv, NickIndexOK, Live
      <3>2. CASE UserDelete({u}, {})
        BY <2>a, <3>2, UserDeleteCounters
      <3>3. CASE UserDelete({u, userlist[n]}, Enforced({userlist[n]}))
        BY <2>a, <3>1, <3>3, UserDeleteCounters DEF Enforced
      <3> QED BY <2>1, <3>2, <3>3 DEF NickCollision
    <2>2. CASE NickChanged(u, n)
      <3>1. CASE /\ nick' = [nick EXCEPT ![u] = n]
                 /\ UNCHANGED <<home, svusers, users, cnt>>
        <4>1. Live' = Live
          BY <2>a, <3>1 DEF Live, TypeOK
        <4>2. ClientCounters'
          BY <4>1, <3>1 DEF ClientCounters
        <4> QED BY <2>2, <3>1, <4>2, ChannelCountersKept DEF NickChanged, chanVars
      <3>2. ASSUME NEW e \in Free,
                   nick' = [nick EXCEPT ![u] = n, ![e] = nick[u]],
                   home' = [home EXCEPT ![e] = Me],
                   svusers' = [svusers EXCEPT ![Me] = @ \union {e}],
                   users' = [users EXCEPT ![Me] = @ + 1],
                   cnt' = [cnt EXCEPT !.user = @ + 1]
            PROVE  ClientCounters' /\ ChannelCounters'
        <4>1. e \in Users /\ e \notin Live /\ Me \in AllServers /\ e # u
          BY <2>a DEF Free, AllServers
        <4>2. Live' = Live \union {e}
          BY <2>a, <3>2, <4>1, ConstantsDiffer DEF Live, TypeOK
        <4>3. ClientCounters'
          BY <3>2, <4>1, <4>2, NewClientCounters
        <4>4. \A c \in Channels : \A v \in members[c] : home'[v] = home[v]
          BY <3>2, <4>1, <1>b DEF TypeOK, Live
        <4>5. cnt'.chan = cnt.chan /\ cnt'.chanuser = cnt.chanuser
          BY <3>2 DEF TypeOK
        <4>6. UNCHANGED chanVars
          BY <2>2 DEF NickChanged
        <4> QED BY <4>3, <4>4, <4>5, <4>6, ChannelCountersKept DEF chanVars
      <3> QED BY <2>2, <3>1, <3>2 DEF NickChanged
    <2> QED BY <1>9, <2>1, <2>2 DEF NickChange
  <1>10. ASSUME NEW u \in Users, NEW c \in Channels, Join(u, c)
         PROVE ClientCounters' /\ ChannelCounters'
    <2>1. UNCHANGED <<nick, svusers, users>> /\ cnt'.user = cnt.user
      BY <1>10 DEF Join, ChanuserAdd, serverVars
    <2> QED BY <1>10, <2>1, <1>a, JoinCounters
  <1>11. ASSUME NEW u \in Users, NEW c \in Channels, Part(u, c)
         PROVE ClientCounters' /\ ChannelCounters'
    <2> DEFINE dead == IF c \in Emptied({u}) THEN {c} ELSE {}
    <2>1. /\ LeaveChannels({u}, {c}, dead)
          /\ Count({}, {}, dead, Dropped({u}, {c}, dead), {})
          /\ UNCHANGED <<nick, home, svusers, users>>
      BY <1>11 DEF Part, serverVars
    <2>2. dead \in SUBSET chanlist
      BY DEF Emptied
    <2> HIDE DEF dead
    <2>3. /\ cnt'.user = cnt.user
          /\ cnt'.chan = cnt.chan - Cardinality(dead)
          /\ cnt'.chanuser = cnt.chanuser - Cardinality(Dropped({u}, {c}, dead))
      <3>1. Cardinality({}) = 0
        BY FS_EmptySet
      <3> QED BY <2>1, <3>1 DEF Count, TypeOK
    <2>4. ChannelCounters'
      BY <2>1, <2>2, <2>3, LeaveChannelsCounters
    <2> QED BY <2>1, <2>3, <2>4, <1>a
  <1>12. ASSUME NEW u \in Users, NEW c \in Channels, KickService(u, c)
         PROVE ClientCounters' /\ ChannelCounters'
    <2>1. UNCHANGED <<members, nummembers, numsvcmembers>>
      BY <1>12, KickServiceSame
    <2> QED BY <1>12, <2>1, <1>a, ChannelCountersKept DEF KickService, serverVars, meVars
  <1> QED
    BY <1>1, <1>2, <1>3, <1>4, <1>5, <1>6, <1>7, <1>8, <1>9, <1>10, <1>11,
       <1>12
    DEF Next

\* The counters at the start.
LEMMA InitCounters == Init => ClientCounters /\ ChannelCounters
  <1> SUFFICES ASSUME Init PROVE ClientCounters /\ ChannelCounters
    OBVIOUS
  <1>1. Live = Services
    BY ServicesAssumption, ConstantsDiffer DEF Init, Live
  <1>2. \A c \in Channels : ServiceMembers(c) = {}
    BY DEF Init, ServiceMembers
  <1>3. Memberships = {}
    BY DEF Init, Memberships
  <1>4. Cardinality({}) = 0
    BY FS_EmptySet
  <1> QED
    BY <1>1, <1>2, <1>3, <1>4 DEF Init, ClientCounters, ChannelCounters

\* In every reachable state the counters that decide when a channel dies and
\* which server is the uplink equal the lengths of the lists beside them.
THEOREM CountersCorrect == Spec => []CountersOK
  <1>1. Spec => [](TypeOK /\ ClientInv /\ MembershipOK /\ TreeInv /\ ClientCounters /\ ChannelCounters)
    BY InitType, NextType, InitClients, NextClients, InitMembership, NextMembership,
       InitTree, NextTree, InitCounters, NextCounters, PTL
    DEF Spec
  <1>2. TreeInv /\ ClientCounters /\ ChannelCounters => CountersOK
    BY DEF TreeInv, ClientCounters, ChannelCounters, CountersOK, ServiceMembers, Memberships
  <1> QED BY <1>1, <1>2, PTL

-----------------------------------------------------------------------------
(* What a step never does *)

\* A channel that is left by all its members is among the emptied ones.
LEMMA AllLeftEmptied ==
    ASSUME TypeOK, MembershipOK, ChannelCounters, NEW D \in SUBSET Users,
           NEW c \in chanlist \ perm, members[c] # {}, members[c] \subseteq LeftBy(D, c)
    PROVE  c \in Emptied(D)
  <1>1. c \in Channels
    BY DEF TypeOK
  <1>2. LeftBy(D, c) = members[c]
    BY <1>1 DEF LeftBy, MembershipOK
  <1>3. nummembers[c] = Cardinality(members[c]) /\ nummembers[c] \in Int
    BY <1>1 DEF ChannelCounters, TypeOK
  <1> QED BY <1>2, <1>3 DEF Emptied

\* Whatever step takes the last member out of a channel that is not permanent,
\* the channel is gone after it (channels.c:471).
LEMMA LastMemberStep ==
    ASSUME TypeOK, MembershipOK, ChannelCounters, [Next]_vars,
           NEW c \in chanlist \ perm, members[c] # {}, members'[c] = {}
    PROVE  c \notin chanlist'
  <1>1. c \in Channels
    BY DEF TypeOK
  <1>2. ASSUME NEW D \in SUBSET Users, LeaveChannels(D, Channels, Emptied(D))
        PROVE  c \notin chanlist'
    <2>1. CASE c \in Emptied(D)
      BY <1>2, <2>1 DEF LeaveChannels
    <2>2. CASE c \notin Emptied(D)
      <3>1. members'[c] = members[c] \ LeftBy(D, c)
        BY <1>1, <1>2, <2>2 DEF LeaveChannels, Gone
      <3> QED BY <2>2, <3>1, AllLeftEmptied
    <2> QED BY <2>1, <2>2
  <1>3. ASSUME NEW D \in SUBSET Users, NEW E, UserDelete(D, E) PROVE c \notin chanlist'
    BY <1>2, <1>3 DEF UserDelete
  <1>4. CASE \/ UplinkConnect \/ \E p \in AllServers, s \in Servers : ServerAdd(p, s)
             \/ (\E u \in Users : SetDoEnforce(u)) \/ (\E d \in Channels : ModePerm(d))
             \/ UNCHANGED vars
    BY <1>4 DEF UplinkConnect, ServerAdd, SetDoEnforce, ModePerm, chanVars, vars
  <1>5. CASE UplinkClose
    BY <1>5 DEF UplinkClose, LeaveChannels
  <1>6. CASE RemoveEnforcers
    BY <1>6, <1>3 DEF RemoveEnforcers, TypeOK
  <1>7. ASSUME NEW s \in Servers, ServerDelete(s) PROVE c \notin chanlist'
    <2>1. UsersOf(Subtree(s)) \in SUBSET Users
      BY SubtreeType, UsersOfType
    <2> QED BY <1>7, <2>1, <1>2 DEF ServerDelete
  <1>8. ASSUME NEW n \in Nicks, NEW s \in Servers, UserAdd(n, s) PROVE c \notin chanlist'
    <2>1. userlist[n] # None => {userlist[n]} \in SUBSET Users
      BY DEF TypeOK
    <2> QED BY <1>8, <2>1, <1>3 DEF UserAdd, chanVars
  <1>9. ASSUME NEW u \in Users, UserQuit(u) \/ EnforcerQuit(u) PROVE c \notin chanlist'
    BY <1>9, <1>3 DEF UserQuit, EnforcerQuit
  <1>10. ASSUME NEW u \in Users, NEW n \in Nicks, NickChange(u, n) PROVE c \notin chanlist'
    <2>1. CASE NickCollision(u, n)
      <3>1. {u, userlist[n]} \in SUBSET Users
        BY <2>1 DEF NickCollision, TypeOK
      <3> QED BY <2>1, <3>1, <1>3 DEF NickCollision
    <2>2. CASE NickChanged(u, n)
      BY <2>2 DEF NickChanged, chanVars
    <2> QED BY <1>10, <2>1, <2>2 DEF NickChange
  <1>11. ASSUME NEW u \in Users, NEW d \in Channels, Join(u, d) \/ KickService(u, d)
         PROVE c \notin chanlist'
    <2>1. members'[c] # {}
      BY <1>1, <1>11 DEF Join, ChanuserAdd, KickService, TypeOK
    <2> QED BY <2>1
  <1>12. ASSUME NEW u \in Users, NEW d \in Channels, Part(u, d) PROVE c \notin chanlist'
    <2> DEFINE dead == IF d \in Emptied({u}) THEN {d} ELSE {}
    <2>1. LeaveChannels({u}, {d}, dead)
      BY <1>12 DEF Part
    <2>2. CASE c \in dead
      BY <2>1, <2>2 DEF LeaveChannels
    <2>3. CASE c \notin dead
      <3>1. members'[c] = members[c] \ Gone({u}, {d}, c)
        BY <1>1, <2>1, <2>3 DEF LeaveChannels
      <3>2. c = d /\ members[c] \subseteq LeftBy({u}, c)
        BY <3>1 DEF Gone
      <3> QED BY <2>3, <3>2, AllLeftEmptied
    <2> QED BY <2>2, <2>3
  <1> QED
    BY <1>4, <1>5, <1>6, <1>7, <1>8, <1>9, <1>10, <1>11, <1>12 DEF Next

\* Empty channels die: the counter that decides it is right whenever it is read.
THEOREM EmptiedChannelsDie == Spec => EmptyChannelsDie
  <1>1. Spec => [](TypeOK /\ ClientInv /\ MembershipOK /\ ClientCounters /\ ChannelCounters)
    BY InitType, NextType, InitClients, NextClients, InitMembership, NextMembership,
       InitCounters, NextCounters, PTL
    DEF Spec
  <1>2. TypeOK /\ MembershipOK /\ ChannelCounters /\ [Next]_vars =>
          [\A c \in chanlist \ perm :
              members[c] # {} /\ members'[c] = {} => c \notin chanlist']_vars
    BY LastMemberStep
  <1> QED BY <1>1, <1>2, PTL DEF Spec, EmptyChannelsDie

\* user_delete() hands the nickname of a client with UF_DOENFORCE to an enforcer,
\* and leaves the others' nicknames alone.
LEMMA DeleteHandsOver ==
    ASSUME TypeOK, ClientInv, NEW D \in SUBSET Users, NEW u \in doenforce,
           DeleteUsers(D, Enforced(D))
    PROVE  HandsOver(u)
  <1>1. u \in Live /\ u \in Users /\ nick[u] \in Nicks
    BY DEF ClientInv, FlagsOK, Live, TypeOK
  <1>2. CASE u \notin D
    BY <1>1, <1>2 DEF DeleteUsers, HandsOver, Enforced
  <1>3. CASE u \in D
    <2>1. u \in Enforced(D)
      BY <1>3 DEF Enforced
    <2>2. (CHOOSE v \in Enforced(D) : nick[v] = nick[u]) \in Enforced(D)
      BY <2>1
    <2>3. userlist'[nick[u]] = CHOOSE v \in Enforced(D) : nick[v] = nick[u]
      BY <1>1, <1>3, <2>1 DEF DeleteUsers
    <2>4. Enforced(D) \subseteq enforcers'
      BY DEF DeleteUsers
    <2> QED BY <2>2, <2>3, <2>4 DEF HandsOver
  <1> QED BY <1>2, <1>3

\* Every step hands over what UF_DOENFORCE holds, except the holder's own change
\* into a nickname in use.
LEMMA HeldNickStep ==
    ASSUME TypeOK, ClientInv, [Next]_vars, NEW u \in doenforce
    PROVE  HandsOver(u) \/ \E n \in Nicks : NickCollision(u, n)
  <1>1. u \in Live /\ u \in Users /\ nick[u] \in Nicks
    BY DEF ClientInv, FlagsOK, Live, TypeOK
  <1>a. ASSUME UNCHANGED <<nick, home>> PROVE HandsOver(u)
    BY <1>a DEF HandsOver
  <1>2. CASE \/ UplinkConnect \/ \E p \in AllServers, s \in Servers : ServerAdd(p, s)
             \/ \E v \in Users : \/ SetDoEnforce(v)
                                 \/ \E d \in Channels : Join(v, d) \/ Part(v, d) \/ KickService(v, d)
             \/ \E d \in Channels : ModePerm(d)
             \/ UNCHANGED vars
    BY <1>2, <1>a
    DEF UplinkConnect, ServerAdd, SetDoEnforce, ModePerm, Join, Part, KickService, userVars, vars
  <1>3. CASE UplinkClose \/ \E s \in Servers : ServerDelete(s)
    <2>1. \A T \in SUBSET Servers : UsersOf(T) \in SUBSET Users
      BY UsersOfType
    <2>2. PICK T \in SUBSET Servers : DeleteUsers(UsersOf(T), Enforced(UsersOf(T)))
      <3>1. CASE UplinkClose
        <4> DEFINE T == IF actual = None THEN {} ELSE Subtree(actual)
        <4>1. DeleteUsers(UsersOf(T), Enforced(UsersOf(T)))
          BY <3>1 DEF UplinkClose
        <4>2. T \in SUBSET Servers
          BY SubtreeType
        <4> HIDE DEF T
        <4> QED BY <4>1, <4>2
      <3>2. ASSUME NEW s \in Servers, ServerDelete(s)
            PROVE  \E T \in SUBSET Servers : DeleteUsers(UsersOf(T), Enforced(UsersOf(T)))
        BY <3>2, SubtreeType DEF ServerDelete
      <3> QED BY <1>3, <3>1, <3>2
    <2> QED BY <2>1, <2>2, DeleteHandsOver
  <1>4. CASE RemoveEnforcers
    BY <1>4, DeleteHandsOver DEF RemoveEnforcers, UserDelete, TypeOK
  <1>5. ASSUME NEW v \in Users, UserQuit(v) \/ EnforcerQuit(v) PROVE HandsOver(u)
    BY <1>5, DeleteHandsOver DEF UserQuit, EnforcerQuit, UserDelete
  <1>6. ASSUME NEW n \in Nicks, NEW s \in Servers, UserAdd(n, s) PROVE HandsOver(u)
    <2>1. CASE userlist[n] # None /\ UserDelete({userlist[n]}, Enforced({userlist[n]}))
      <3>1. {userlist[n]} \in SUBSET Users
        BY <2>1 DEF TypeOK
      <3> QED BY <2>1, <3>1, DeleteHandsOver DEF UserDelete
    <2>2. ASSUME NEW v \in Free, NewUser(v, n, s) PROVE HandsOver(u)
      <3>1. v # u
        BY <1>1 DEF Free
      <3> QED BY <1>1, <2>2, <3>1 DEF NewUser, HandsOver, TypeOK
    <2> QED BY <1>6, <2>1, <2>2 DEF UserAdd
  <1>7. ASSUME NEW w \in Users, NEW n \in Nicks, NickChange(w, n), ~NickCollision(u, n)
        PROVE  HandsOver(u)
    <2>1. CASE NickCollision(w, n)
      <3>1. w # u /\ userlist[n] \in Users
        BY <2>1, <1>7 DEF NickCollision, TypeOK
      <3>2. CASE UserDelete({w}, {})
        BY <1>1, <3>1, <3>2 DEF UserDelete, DeleteUsers, HandsOver
      <3>3. CASE UserDelete({w, userlist[n]}, Enforced({userlist[n]}))
        <4>1. CASE u = userlist[n]
          <5>1. Enforced({userlist[n]}) = {u}
            BY <4>1 DEF Enforced
          <5>2. (CHOOSE v \in {u} : nick[v] = nick[u]) = u
            OBVIOUS
          <5>3. userlist'[nick[u]] = u /\ u \in enforcers'
            BY <1>1, <3>3, <4>1, <5>1, <5>2 DEF UserDelete, DeleteUsers
          <5> QED BY <5>3 DEF HandsOver
        <4>2. CASE u # userlist[n]
          <5>1. u \notin {w, userlist[n]} /\ u \notin Enforced({userlist[n]})
            BY <3>1, <4>2 DEF Enforced
          <5> QED BY <1>1, <3>3, <5>1 DEF UserDelete, DeleteUsers, HandsOver
        <4> QED BY <4>1, <4>2
      <3> QED BY <2>1, <3>2, <3>3 DEF NickCollision
    <2>2. CASE NickChanged(w, n) /\ w # u
      <3>1. \A e \in Free : e # u
        BY <1>1 DEF Free
      <3> QED BY <1>1, <2>2, <3>1 DEF NickChanged, HandsOver, TypeOK
    <2>3. CASE NickChanged(w, n) /\ w = u
      BY <1>1, <2>3 DEF NickChanged, HandsOver, TypeOK
    <2> QED BY <1>7, <2>1, <2>2, <2>3 DEF NickChange
  <1> QED
    BY <1>2, <1>3, <1>4, <1>5, <1>6, <1>7 DEF Next

\* Whatever takes a client with UF_DOENFORCE off its nickname leaves an enforcer
\* on it in the same step.
THEOREM HeldNicksHandedOver == Spec => HeldNickGoesToEnforcer
  <1>1. Spec => [](TypeOK /\ ClientInv)
    BY InitType, NextType, InitClients, NextClients, PTL DEF Spec
  <1>2. TypeOK /\ ClientInv /\ [Next]_vars =>
          [\A u \in doenforce :
              HandsOver(u) \/ \E n \in Nicks : NickCollision(u, n)]_vars
    BY HeldNickStep
  <1> QED BY <1>1, <1>2, PTL DEF Spec, HeldNickGoesToEnforcer
=============================================================================
