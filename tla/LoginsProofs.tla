---------------------------- MODULE LoginsProofs ----------------------------
(***************************************************************************)
(* Theorems about Logins: the three records of who is logged in stay the   *)
(* same, for any number of clients, accounts and registrations.            *)
(*                                                                         *)
(* And about Credentials, which says how an account is entered (Cr below), *)
(* for any accounts, addresses, users and certificates, finitely many or   *)
(* not: only what exists is ever counted.  OwnersKeep is not inductive.    *)
(* That a mailed key stays good only for the account's address rests on    *)
(* nobody being logged in while a key is out (KeyInv), that a fingerprint  *)
(* leads to one account on no two accounts having one in common (CertInv), *)
(* and the counting on the accounts and their certificates being finitely  *)
(* many.                                                                   *)
(***************************************************************************)
EXTENDS Logins, FiniteSetTheorems, TLAPS

\* What Credentials has and Logins has not.
CONSTANTS Accts, Emails, Users, CertOf, HostOf, Certs, AuthEmail, SetPass, MaxUsers, MdLimit, MaxBad
VARIABLES mu, login, usedcert, bad, byOper

Cr == INSTANCE Credentials

\* Credentials counts as FiniteSetTheorems does.
LEMMA SameCardinality == \A S : Cr!Cardinality(S) = Cardinality(S)
  BY DEF Cr!Cardinality, Cardinality

\* Only sessions have an account.
SessionsOwn == \A c \in Clients : c \notin sessions => authzid[c] = None

\* MU_NOBURSTLOGIN is clear only on accounts whose sessions have split.
BurstNeedsSplit == \A a \in registered \ noburst : splitgen[a] = generation[a]

Inv == TypeOK /\ LoginsAgree /\ IrcdAgrees /\ SessionsWait /\ SessionsOwn
         /\ BurstNeedsSplit

-----------------------------------------------------------------------------
\* Nobody is known when services start.
LEMMA InvInit == Init => Inv
  BY LoginsAssumption DEF Init, Inv, TypeOK, LoginsAgree, Online, IrcdAgrees,
        SessionsWait, SessionsOwn, BurstNeedsSplit

\* What LogOut(S) of clients on the network leaves of the invariant.
LEMMA LogOutInv ==
    ASSUME Inv, NEW S \in SUBSET Online, LogOut(S),
           registered' \subseteq registered,
           \A c \in Clients \ S : myuser[c] # None => myuser[c] \in registered',
           UNCHANGED saslVars
    PROVE  /\ where' \in [Clients -> {"away", "connecting", "online", "split"}]
           /\ myuser' \in [Clients -> Accounts \union {None}]
           /\ logins' \in [Accounts -> SUBSET Clients]
           /\ ircdlogin' \in [Clients -> Accounts \union {None}]
           /\ granted' \in [Clients -> Nat]
           /\ needlog' \subseteq sessions' /\ early' \subseteq Online'
           /\ LoginsAgree' /\ IrcdAgrees' /\ SessionsWait' /\ SessionsOwn'
  <1>1. /\ where' \in [Clients -> {"away", "connecting", "online", "split"}]
        /\ myuser' \in [Clients -> Accounts \union {None}]
        /\ logins' \in [Accounts -> SUBSET Clients]
        /\ ircdlogin' \in [Clients -> Accounts \union {None}]
        /\ granted' \in [Clients -> Nat]
        /\ needlog' \subseteq sessions' /\ early' = early \ S
    BY DEF Inv, TypeOK, LogOut, Without, saslVars
  <1>2. ASSUME NEW c \in S
        PROVE  /\ myuser'[c] = None /\ ircdlogin'[c] = None
               /\ where'[c] \in {"away", "online"} /\ c \notin sessions
               /\ \A a \in Accounts : c \notin logins'[a]
    BY <1>2 DEF Inv, TypeOK, LogOut, Without, Online, SessionsWait
  <1>3. ASSUME NEW c \in Clients \ S
        PROVE  /\ myuser'[c] = myuser[c] /\ ircdlogin'[c] = ircdlogin[c]
               /\ where'[c] = where[c]
               /\ \A a \in Accounts : c \in logins'[a] <=> c \in logins[a]
    BY <1>3 DEF LogOut, Without
  <1>4. LoginsAgree'
    <2>1. ASSUME NEW c \in Clients, NEW a \in Accounts
          PROVE  c \in logins'[a] <=> myuser'[c] = a
      <3>1. CASE c \in S
        BY <3>1, <1>2, LoginsAssumption
      <3>2. CASE c \notin S
        BY <3>2, <1>3 DEF Inv, LoginsAgree
      <3> QED BY <3>1, <3>2
    <2>2. ASSUME NEW c \in Clients, myuser'[c] # None
          PROVE  where'[c] = "online" /\ myuser'[c] \in registered'
      <3>1. c \notin S
        BY <2>2, <1>2
      <3> QED BY <2>2, <3>1, <1>3 DEF Inv, LoginsAgree, Online
    <2> QED BY <2>1, <2>2 DEF LoginsAgree, Online
  <1>5. IrcdAgrees'
    <2>1. ASSUME NEW c \in Clients, where'[c] = "online", c \notin early'
          PROVE  ircdlogin'[c] = myuser'[c]
      <3>1. CASE c \in S
        BY <3>1, <1>2
      <3>2. CASE c \notin S
        <4>1. where[c] = "online" /\ c \notin early
          BY <2>1, <3>2, <1>1, <1>3
        <4> QED BY <4>1, <3>2, <1>3 DEF Inv, IrcdAgrees, Online
      <3> QED BY <3>1, <3>2
    <2> QED BY <2>1 DEF IrcdAgrees, Online
  <1>6. SessionsWait' /\ SessionsOwn'
    <2>1. ASSUME NEW c \in sessions
          PROVE  c \in Clients \ S
      BY <2>1, <1>2 DEF Inv, TypeOK
    <2>2. UNCHANGED <<sessions, authzid, needlog>>
      BY DEF saslVars
    <2>3. SessionsWait'
      BY <2>1, <2>2, <1>3 DEF Inv, SessionsWait
    <2> QED BY <2>2, <2>3 DEF Inv, SessionsOwn
  <1>7. early' \subseteq Online'
    BY <1>1, <1>3 DEF Inv, TypeOK, Online
  <1> QED BY <1>1, <1>4, <1>5, <1>6, <1>7

\* Every action keeps the records together.
LEMMA InvNext == Inv /\ [Next]_vars => Inv'
  <1> SUFFICES ASSUME Inv, [Next]_vars PROVE Inv'
    OBVIOUS
  <1>l. ASSUME NEW a \in Accounts
        PROVE  /\ logins[a] \in SUBSET Online
               /\ \A c \in Clients \ logins[a] : myuser[c] # a
    <2>1. \A c \in logins[a] : c \in Clients /\ myuser[c] = a /\ a # None
      BY LoginsAssumption DEF Inv, TypeOK, LoginsAgree
    <2> QED BY <2>1 DEF Inv, LoginsAgree
  <1>1. ASSUME NEW c \in Clients, NEW a \in Accounts, Identify(c, a) PROVE Inv'
    <2>1. CASE myuser[c] # None /\ LogoutKills
      <3>1. LogOut({c}) /\ UNCHANGED <<accountVars, saslVars, splitgen>>
        BY <1>1, <2>1 DEF Identify
      <3>2. {c} \in SUBSET Online
        BY <1>1 DEF Identify
      <3>3. registered' = registered
        BY <3>1 DEF accountVars
      <3>4. \A d \in Clients : myuser[d] # None => myuser[d] \in registered'
        BY <3>3 DEF Inv, LoginsAgree
      <3> QED BY <3>1, <3>2, <3>3, <3>4, LogOutInv
              DEF Inv, TypeOK, BurstNeedsSplit, accountVars, saslVars
    <2>2. CASE ~(myuser[c] # None /\ LogoutKills)
      <3>1. Login(c, a, Without({c})) /\ UNCHANGED where
        BY <1>1, <2>2 DEF Identify
      <3> QED BY <1>1, <3>1, LoginsAssumption
              DEF Identify, Login, Without, Inv, TypeOK, LoginsAgree, IrcdAgrees,
                  SessionsWait, SessionsOwn, BurstNeedsSplit, Online,
                  accountVars, saslVars
    <2> QED BY <2>1, <2>2
  <1>2. ASSUME NEW c \in Clients, NEW a \in Accounts, Certfp(c, a) PROVE Inv'
    BY <1>2, LoginsAssumption
       DEF Certfp, Login, Inv, TypeOK, LoginsAgree, IrcdAgrees, SessionsWait,
           SessionsOwn, BurstNeedsSplit, Online, accountVars, saslVars
  <1>3. ASSUME NEW c \in Clients, Logout(c) PROVE Inv'
    <2>1. LogOut({c}) /\ {c} \in SUBSET Online
          /\ UNCHANGED <<accountVars, saslVars, splitgen>>
      BY <1>3 DEF Logout
    <2>2. registered' = registered
      BY <2>1 DEF accountVars
    <2>3. \A d \in Clients : myuser[d] # None => myuser[d] \in registered'
      BY <2>2 DEF Inv, LoginsAgree
    <2> QED BY <2>1, <2>2, <2>3, LogOutInv
            DEF Inv, TypeOK, BurstNeedsSplit, accountVars, saslVars
  <1>4. ASSUME NEW c \in Clients, NEW a \in Accounts, Register(c, a) PROVE Inv'
    <2>1. logins[a] = {}
      <3>1. ASSUME NEW d \in logins[a] PROVE FALSE
        <4>1. d \in Clients /\ myuser[d] = a /\ a # None
          BY <3>1, LoginsAssumption DEF Inv, TypeOK, LoginsAgree
        <4>2. a \in registered
          BY <4>1 DEF Inv, LoginsAgree
        <4> QED BY <1>4, <4>2 DEF Register
      <3> QED BY <3>1
    <2> QED BY <1>4, <2>1, LoginsAssumption
       DEF Register, Inv, TypeOK, LoginsAgree, IrcdAgrees, SessionsWait,
           SessionsOwn, BurstNeedsSplit, Online, saslVars
  <1>5. ASSUME NEW a \in Accounts, Drop(a) PROVE Inv'
    <2>1. LogOut(logins[a]) /\ registered' = registered \ {a} /\ UNCHANGED saslVars
      BY <1>5 DEF Drop
    <2>2. \A c \in Clients \ logins[a] :
             myuser[c] # None => myuser[c] \in registered'
      BY <2>1, <1>l DEF Inv, LoginsAgree
    <2>3. logins[a] \in SUBSET Online
      BY <1>l
    <2>4. registered' \subseteq registered
      BY <2>1
    <2> QED BY <1>5, <2>1, <2>2, <2>3, <2>4, LogOutInv
            DEF Drop, Inv, TypeOK, BurstNeedsSplit, saslVars
  <1>6. ASSUME NEW a \in Accounts, Freeze(a) \/ Return(a) PROVE Inv'
    <2>1. /\ LogOut(logins[a]) /\ UNCHANGED <<registered, saslVars>>
          /\ UNCHANGED <<generation, splitgen>>
          /\ noburst' = noburst \union {a} /\ a \in registered
          /\ frozen' \subseteq registered
      BY <1>6 DEF Freeze, Return, Inv, TypeOK
    <2>2. \A c \in Clients : myuser[c] # None => myuser[c] \in registered'
      BY <2>1 DEF Inv, LoginsAgree
    <2>3. logins[a] \in SUBSET Online
      BY <1>l
    <2> QED BY <2>1, <2>2, <2>3, LogOutInv
            DEF Inv, TypeOK, BurstNeedsSplit, saslVars
  <1>7. ASSUME NEW a \in Accounts, Thaw(a) PROVE Inv'
    BY <1>7 DEF Thaw, Inv, TypeOK, LoginsAgree, IrcdAgrees, SessionsWait,
                SessionsOwn, BurstNeedsSplit, Online, userVars, saslVars, ircdVars
  <1>8. ASSUME NEW c \in Clients, NEW a \in Accounts \union {None},
               SaslInput(c) \/ SaslMore(c, a)
        PROVE  Inv'
    BY <1>8 DEF SaslInput, SaslMore, Inv, TypeOK, LoginsAgree, IrcdAgrees,
                SessionsWait, SessionsOwn, BurstNeedsSplit, Online, userVars,
                accountVars, ircdVars
  <1>9. ASSUME NEW c \in Clients, NEW a \in Accounts, SaslDone(c, a) PROVE Inv'
    BY <1>9, LoginsAssumption DEF SaslDone, Inv, TypeOK, LoginsAgree, IrcdAgrees, SessionsWait,
                SessionsOwn, BurstNeedsSplit, Online, userVars, accountVars
  <1>10. ASSUME NEW S \in SUBSET sessions, SaslEnd(S) PROVE Inv'
    BY <1>10 DEF SaslEnd, DestroySessions, Inv, TypeOK, LoginsAgree, IrcdAgrees,
                 SessionsWait, SessionsOwn, BurstNeedsSplit, Online, userVars,
                 accountVars, ircdVars
  <1>11. CASE DeleteStale
    BY <1>11 DEF DeleteStale, Inv, TypeOK, LoginsAgree, IrcdAgrees,
                 SessionsWait, SessionsOwn, BurstNeedsSplit, Online, userVars,
                 accountVars, ircdVars
  <1>12. ASSUME NEW c \in Clients, Connect(c) PROVE Inv'
    BY <1>12 DEF Connect, Inv, TypeOK, LoginsAgree, IrcdAgrees,
                 SessionsWait, SessionsOwn, BurstNeedsSplit, Online,
                 accountVars, saslVars, ircdVars
  <1>13. ASSUME NEW c \in Clients, Introduce(c) PROVE Inv'
    <2>1. Result(c) \in registered \union {None}
      BY DEF Result, SaslLogin, BurstLogin
    <2>2. myuser[c] = None /\ where[c] # "online"
          /\ \A a \in Accounts : c \notin logins[a]
      BY <1>13, LoginsAssumption DEF Introduce, Inv, TypeOK, LoginsAgree, Online
    <2> DEFINE killed == Refused(c) /\ LogoutKills
               mid == c \in sessions \ needlog /\ SaslLogin(c) # None
               b == IF killed THEN None ELSE Result(c)
               l == IF Refused(c) THEN None ELSE ircdlogin[c]
    <2>3. ~mid /\ ~Refused(c) => Result(c) = ircdlogin[c]
      <3>1. ASSUME SaslLogin(c) # None, ~mid PROVE SaslLogin(c) = ircdlogin[c]
        BY <3>1, <1>13 DEF SaslLogin, Introduce, Inv, SessionsWait
      <3>2. ASSUME SaslLogin(c) = None, ~Refused(c)
            PROVE  BurstLogin(c) = ircdlogin[c]
        BY <3>2, LoginsAssumption DEF BurstLogin, Refused, Inv, TypeOK
      <3> QED BY <3>1, <3>2 DEF Result
    <2>4. ~mid /\ Refused(c) => Result(c) = None
      <3>1. ASSUME Refused(c), ~mid PROVE SaslLogin(c) = None
        BY <3>1, <1>13, LoginsAssumption
           DEF Refused, SaslLogin, Introduce, Inv, SessionsWait, TypeOK
      <3> QED BY <3>1 DEF Refused, Result, BurstLogin
    <2>5. /\ where' = [where EXCEPT ![c] = IF killed THEN "away" ELSE "online"]
          /\ myuser' = [myuser EXCEPT ![c] = b]
          /\ logins' = [x \in Accounts |->
                IF x = b THEN logins[x] \union {c} ELSE logins[x]]
          /\ ircdlogin' = [ircdlogin EXCEPT ![c] = l]
          /\ sessions' = sessions \ {c}
          /\ authzid' = [d \in Clients |-> IF d = c THEN None ELSE authzid[d]]
          /\ needlog' = needlog \ {c}
          /\ marked' = marked \ {c}
          /\ granted' = [granted EXCEPT ![c] = IF Refused(c) THEN 0 ELSE granted[c]]
          /\ early' = IF mid /\ ~killed THEN early \union {c} ELSE early \ {c}
          /\ UNCHANGED <<accountVars, splitgen>>
      <3>1. \A x \in Accounts : (x = Result(c) /\ ~killed) <=> x = b
        BY LoginsAssumption
      <3>2. \A x \in Accounts :
               (IF x = Result(c) /\ ~killed THEN logins[x] \union {c} ELSE logins[x])
                 = (IF x = b THEN logins[x] \union {c} ELSE logins[x])
        BY <3>1
      <3>3. /\ logins' = [x \in Accounts |->
                  IF x = Result(c) /\ ~killed THEN logins[x] \union {c} ELSE logins[x]]
            /\ early' = IF mid /\ ~killed THEN early \union {c} ELSE early \ {c}
        BY <1>13, Zenon DEF Introduce
      <3> QED BY <1>13, <3>2, <3>3 DEF Introduce, DestroySessions
    <2>6. /\ b \in registered \union {None}
          /\ killed => b = None
          /\ l \in Accounts \union {None}
          /\ ~mid => l = b
      BY <2>1, <2>3, <2>4 DEF Inv, TypeOK
    <2> HIDE DEF killed, mid, b, l
    <2>7. TypeOK'
      <3>1. early' \subseteq Online'
        BY <1>13, <2>2, <2>5 DEF Inv, TypeOK, Online, Introduce
      <3> QED BY <2>5, <2>6, <3>1 DEF Inv, TypeOK, accountVars
    <2>8. LoginsAgree'
      <3>1. ASSUME NEW d \in Clients, NEW x \in Accounts
            PROVE  d \in logins'[x] <=> myuser'[d] = x
        BY <2>2, <2>5, LoginsAssumption DEF Inv, TypeOK, LoginsAgree
      <3>2. ASSUME NEW d \in Clients, myuser'[d] # None
            PROVE  where'[d] = "online" /\ myuser'[d] \in registered'
        BY <3>2, <2>5, <2>6 DEF Inv, TypeOK, LoginsAgree, Online, accountVars
      <3> QED BY <3>1, <3>2 DEF LoginsAgree, Online
    <2>9. IrcdAgrees'
      BY <2>5, <2>6 DEF Inv, TypeOK, IrcdAgrees, Online
    <2>10. SessionsWait' /\ SessionsOwn' /\ BurstNeedsSplit'
      BY <2>5 DEF Inv, TypeOK, SessionsWait, SessionsOwn, BurstNeedsSplit,
                  accountVars
    <2> QED BY <2>7, <2>8, <2>9, <2>10 DEF Inv
  <1>14. ASSUME NEW c \in Clients, Quit(c) PROVE Inv'
    BY <1>14, LoginsAssumption
       DEF Quit, Without, Inv, TypeOK, LoginsAgree, IrcdAgrees, SessionsWait,
           SessionsOwn, BurstNeedsSplit, Online, accountVars, saslVars
  <1>15. ASSUME NEW S \in SUBSET Clients, Split(S) PROVE Inv'
    <2>1. TypeOK'
      <3>1. early' \subseteq Online'
        BY <1>15 DEF Split, Inv, TypeOK, Online
      <3> QED BY <1>15, <3>1 DEF Split, Without, Inv, TypeOK, saslVars
    <2>2. LoginsAgree' /\ IrcdAgrees'
      BY <1>15, LoginsAssumption
         DEF Split, Without, Inv, TypeOK, LoginsAgree, IrcdAgrees, Online, ircdVars
    <2>3. SessionsWait' /\ SessionsOwn'
      BY <1>15 DEF Split, Inv, TypeOK, SessionsWait, SessionsOwn, Online,
                   saslVars, ircdVars
    <2>4. BurstNeedsSplit'
      BY <1>15 DEF Split, Inv, TypeOK, BurstNeedsSplit
    <2> QED BY <2>1, <2>2, <2>3, <2>4 DEF Inv
  <1>16. CASE UNCHANGED vars
    BY <1>16 DEF vars, userVars, accountVars, saslVars, ircdVars, Inv, TypeOK,
                 LoginsAgree, IrcdAgrees, SessionsWait, SessionsOwn,
                 BurstNeedsSplit, Online
  <1> QED BY <1>1, <1>2, <1>3, <1>4, <1>5, <1>6, <1>7, <1>8, <1>9, <1>10, <1>11,
             <1>12, <1>13, <1>14, <1>15, <1>16 DEF Next

-----------------------------------------------------------------------------
\* u->myuser and mu->logins agree in every behaviour, and no client is left
\* logged in to an account that myuser_delete() has freed.
THEOREM LoginRecordsAgree == Spec => []LoginsAgree
  <1>1. Inv => LoginsAgree
    BY DEF Inv
  <1> QED BY InvInit, InvNext, <1>1, PTL DEF Spec

\* The ircd and services agree about every client on the network.
THEOREM IrcdViewAgrees == Spec => []IrcdAgrees
  <1>1. Inv => IrcdAgrees
    BY DEF Inv
  <1> QED BY InvInit, InvNext, <1>1, PTL DEF Spec

\* Sessions wait for an introduction and end with it, and the variables keep
\* their types.
THEOREM SessionsCorrect == Spec => [](TypeOK /\ SessionsWait)
  <1>1. Inv => TypeOK /\ SessionsWait
    BY DEF Inv
  <1> QED BY InvInit, InvNext, <1>1, PTL DEF Spec

\* Clients, accounts, the ircd and the SASL sessions agree about logins.
THEOREM LoginStatesAgree == Spec => []LoginStateAgrees
  <1>1. Inv => LoginStateAgrees
    BY DEF Inv, LoginStateAgrees
  <1> QED BY InvInit, InvNext, <1>1, PTL DEF Spec

\* handle_burstlogin() restores only logins that may be genuine.
THEOREM BurstsAreLegit == Spec => BurstLoginLegit
  <1> DEFINE Legit ==
        \A c \in Clients :
          where[c] = "split" /\ where'[c] = "online" /\ myuser'[c] # None
            => LET a == myuser'[c]
               IN  granted[c] = generation[a] \/ splitgen[a] = generation[a]
  <1>1. Inv /\ [Next]_vars => [Legit]_vars
    <2> SUFFICES ASSUME Inv, Next, NEW c \in Clients, where[c] = "split",
                        where'[c] = "online", myuser'[c] # None
                 PROVE  LET a == myuser'[c]
                        IN  granted[c] = generation[a]
                              \/ splitgen[a] = generation[a]
      BY DEF vars
    <2>1. c \notin sessions
      BY DEF Inv, SessionsWait
    <2>2. Introduce(c)
      <3>1. ASSUME where'[c] = where[c] PROVE FALSE
        BY <3>1
      <3>2. ASSUME NEW S, LogOut(S) PROVE FALSE
        BY <3>2 DEF LogOut
      <3>3. ASSUME NEW d \in Clients, Connect(d) \/ Quit(d) PROVE FALSE
        BY <3>3 DEF Connect, Quit, Inv, TypeOK
      <3>4. ASSUME NEW d \in Clients, d # c, Introduce(d) PROVE FALSE
        BY <3>4 DEF Introduce, Inv, TypeOK
      <3>5. ASSUME NEW S \in SUBSET Clients, Split(S) PROVE FALSE
        BY <3>5 DEF Split, Inv, TypeOK
      <3>6. ASSUME NEW d \in Clients, NEW a \in Accounts,
                   Identify(d, a) \/ Certfp(d, a) \/ Register(d, a) \/ SaslDone(d, a)
            PROVE  FALSE
        BY <3>6, <3>1, <3>2 DEF Identify, Certfp, Register, SaslDone, userVars
      <3>7. ASSUME NEW d \in Clients, Logout(d) \/ SaslInput(d)
                     \/ (\E a \in Accounts \union {None} : SaslMore(d, a))
            PROVE  FALSE
        BY <3>7, <3>1, <3>2 DEF Logout, SaslInput, SaslMore, userVars
      <3>8. ASSUME NEW a \in Accounts, Drop(a) \/ Freeze(a) \/ Thaw(a) \/ Return(a)
            PROVE  FALSE
        BY <3>8, <3>1, <3>2 DEF Drop, Freeze, Thaw, Return, userVars
      <3>9. ASSUME DeleteStale \/ (\E S \in SUBSET sessions \ {{}} : SaslEnd(S))
            PROVE  FALSE
        BY <3>9, <3>1 DEF DeleteStale, SaslEnd, userVars
      <3> QED BY <3>3, <3>4, <3>5, <3>6, <3>7, <3>8, <3>9 DEF Next
    <2>3. SaslLogin(c) = None
      BY <2>1 DEF SaslLogin
    <2>4. myuser'[c] \in {None, BurstLogin(c)}
      BY <2>2, <2>3 DEF Introduce, Result, Inv, TypeOK
    <2>5. myuser'[c] \in registered \ noburst
      BY <2>4 DEF BurstLogin
    <2> QED BY <2>5 DEF Inv, BurstNeedsSplit
  <1> QED BY InvInit, InvNext, <1>1, PTL DEF Spec, BurstLoginLegit

-----------------------------------------------------------------------------
(* Credentials *)

\* Certificates: those of an account are finitely many, are there when they are the
\* only way in, and belong to no other account.
CertInv ==
    /\ \A a \in DOMAIN mu : IsFiniteSet(mu[a].certs)
    /\ Cr!CertificateLeft
    /\ \A a, b \in DOMAIN mu : \A c \in mu[a].certs \intersect mu[b].certs : a = b

\* Keys: a key that is out is good for the address it went to, and nobody is logged
\* in to its account, who could change the address.
KeyInv ==
    /\ Cr!KeysCurrent
    /\ \A u \in Users : login[u] # None => mu[login[u]].setpass = None

\* Addresses: there are finitely many accounts, and no address has too many.
AddressInv == IsFiniteSet(DOMAIN mu) /\ Cr!AddressesLimited

CredentialsInv == Cr!TypeOK /\ CertInv /\ KeyInv /\ AddressInv

-----------------------------------------------------------------------------
(* Steps *)

\* A command that stores one account again: the certificates it keeps or adds, the
\* key it leaves, what becomes of the address, and who is logged in.
Changed(a, m) ==
    /\ a \in DOMAIN mu /\ m \in Cr!Account /\ Cr!Changes(a, m)
    /\ IsFiniteSet(m.certs) /\ (m.nopass => m.certs # {})
    /\ \A c \in m.certs : c \in mu[a].certs \/ Cr!mycertfp_find(c) = {}
    /\ m.setpass \in {None, mu[a].setpass, mu[a].email}
    /\ \/ m.email = mu[a].email /\ byOper' = byOper
       \/ byOper' = byOper \union {a}
       \/ m.setpass = None /\ Cr!email_within_limits(m.email) /\ byOper' = byOper \ {a}
    /\ login' \in [Users -> DOMAIN mu \union {None}]
    /\ \A u \in Users : login'[u] \in {login[u], None, a} /\ (login'[u] = a => m.setpass = None)
    /\ usedcert' \subseteq Users /\ bad' \subseteq Emails

\* A step that touches no account; users may leave theirs.
Untouched ==
    /\ UNCHANGED <<mu, byOper>>
    /\ login' \in [Users -> DOMAIN mu \union {None}]
    /\ \A u \in Users : login'[u] \in {login[u], None}
    /\ usedcert' \subseteq Users /\ bad' \subseteq Emails

\* The kinds of steps there are.
SomeKind ==
    \/ \E u \in Users, a \in Accts, e \in Emails : Cr!ns_cmd_register(u, a, e)
    \/ \E a \in Accts : Cr!Expire(a)
    \/ \E a \in DOMAIN mu, m \in Cr!Account : Changed(a, m)
    \/ Untouched

\* What a command that stores an account again leaves as it was.
LEMMA ChangesAt ==
    ASSUME NEW a \in DOMAIN mu, NEW m, Cr!Changes(a, m)
    PROVE  /\ DOMAIN mu' = DOMAIN mu
           /\ mu'[a] = m
           /\ \A x \in DOMAIN mu : x # a => mu'[x] = mu[x]
  BY DEF Cr!Changes

\* Every step is a registration, an expiry, a change of one account, or touches none.
LEMMA StepKinds ==
    ASSUME Cr!CredentialsAssumption, CredentialsInv, [Cr!Next]_(Cr!vars)
    PROVE  SomeKind
  <1>a. /\ \A a \in DOMAIN mu : a \in Accts /\ a # None /\ mu[a] \in Cr!Account
        /\ \A u \in Users : login[u] # None => login[u] \in DOMAIN mu
        /\ login \in [Users -> DOMAIN mu \union {None}]
        /\ usedcert \subseteq Users /\ bad \subseteq Emails
    BY DEF Cr!CredentialsAssumption, CredentialsInv, Cr!TypeOK
  <1>b. \A a \in DOMAIN mu :
          /\ IsFiniteSet(mu[a].certs) /\ (mu[a].nopass => mu[a].certs # {})
          /\ \A u \in Users : login[u] = a => mu[a].setpass = None
    BY <1>a DEF CredentialsInv, CertInv, KeyInv, Cr!CertificateLeft
  \* A command that changes neither the address, nor the certificates, nor who is
  \* logged in, and leaves a key only where it was.
  <1>c. ASSUME NEW a \in DOMAIN mu, NEW m \in Cr!Account, Cr!Changes(a, m),
               m.email = mu[a].email, m.certs = mu[a].certs,
               m.nopass => mu[a].certs # {},
               \/ m.setpass \in {None, mu[a].setpass}
               \/ m.setpass = mu[a].email /\ Cr!LoginsOf(a) = {},
               UNCHANGED <<login, usedcert, bad, byOper>>
        PROVE  SomeKind
    <2>1. \A u \in Users : login[u] = a => m.setpass = None
      BY <1>c, <1>b DEF Cr!LoginsOf
    <2>2. Changed(a, m)
      BY <1>c, <1>a, <1>b, <2>1 DEF Changed
    <2> QED BY <2>2 DEF SomeKind
  <1>1. ASSUME NEW u \in Users, NEW a \in Accts, NEW e \in Emails, Cr!ns_cmd_register(u, a, e)
        PROVE  SomeKind
    BY <1>1 DEF SomeKind
  <1>2. ASSUME NEW a \in Accts, Cr!Expire(a) PROVE SomeKind
    BY <1>2 DEF SomeKind
  <1>3. ASSUME NEW a \in Accts,
               (\E u \in Users : Cr!ns_cmd_verify_register(u, a)) \/ Cr!ns_cmd_fverify_register(a)
        PROVE  SomeKind
    <2> DEFINE m == [mu[a] EXCEPT !.wait = FALSE]
    <2>1. a \in DOMAIN mu /\ Cr!Changes(a, m) /\ UNCHANGED <<login, usedcert, bad, byOper>>
      BY <1>3, <1>a DEF Cr!ns_cmd_verify_register, Cr!ns_cmd_fverify_register, Cr!VerifyRegister
    <2>2. /\ m \in Cr!Account /\ m.email = mu[a].email /\ m.certs = mu[a].certs
          /\ m.setpass = mu[a].setpass /\ m.nopass = mu[a].nopass
      BY <2>1, <1>a DEF Cr!Account
    <2> HIDE DEF m
    <2> QED BY <2>1, <2>2, <1>b, <1>c
  <1>4. ASSUME NEW u \in Users, NEW e \in Emails, Cr!ns_cmd_set_email(u, e) PROVE SomeKind
    <2> DEFINE a == login[u]
    <2>1. a \in DOMAIN mu /\ mu[a] \in Cr!Account /\ mu[a].setpass = None /\ mu'[a].email \in Emails
      <3>1. a \in DOMAIN mu /\ mu[a] \in Cr!Account /\ mu[a].setpass = None
        BY <1>4, <1>a, <1>b DEF Cr!ns_cmd_set_email
      <3>2. mu'[a].email \in {mu[a].email, e}
        BY <1>4, <3>1 DEF Cr!ns_cmd_set_email, Cr!Changes, Cr!Account, Cr!myuser_set_email
      <3> QED BY <3>1, <3>2 DEF Cr!Account
    <2>2. ASSUME NEW x \in Cr!Address, Cr!Changes(a, [mu[a] EXCEPT !.newemail = x]) PROVE SomeKind
      <3> DEFINE m == [mu[a] EXCEPT !.newemail = x]
      <3>1. /\ m \in Cr!Account /\ m.email = mu[a].email /\ m.certs = mu[a].certs
            /\ m.setpass = mu[a].setpass /\ m.nopass = mu[a].nopass
        BY <2>1, <2>2 DEF Cr!Account
      <3>2. mu'[a] = m
        BY <2>1, <2>2, ChangesAt
      <3>3. UNCHANGED <<login, usedcert, bad, byOper>>
        BY <1>4, <3>1, <3>2 DEF Cr!ns_cmd_set_email
      <3>4. Cr!Changes(a, m)
        BY <2>2
      <3> HIDE DEF m, a
      <3> QED BY <2>1, <3>1, <3>3, <3>4, <1>b, <1>c
    <2>3. ASSUME mu[a].email # e, Cr!email_within_limits(e), Cr!Changes(a, Cr!myuser_set_email(mu[a], e))
          PROVE  SomeKind
      <3> DEFINE m == Cr!myuser_set_email(mu[a], e)
      <3>1. /\ m \in Cr!Account /\ m.email = e /\ m.certs = mu[a].certs
            /\ m.setpass = None /\ m.nopass = mu[a].nopass
        BY <2>1 DEF Cr!Account, Cr!myuser_set_email
      <3>2. mu'[a] = m
        BY <2>1, <2>3, ChangesAt
      <3>3. UNCHANGED <<login, usedcert, bad>> /\ byOper' = byOper \ {a}
        BY <1>4, <2>3, <3>1, <3>2 DEF Cr!ns_cmd_set_email
      <3>4. Cr!Changes(a, m)
        BY <2>3
      <3> HIDE DEF m, a
      <3>5. Changed(a, m)
        BY <2>1, <2>3, <3>1, <3>3, <3>4, <1>a, <1>b DEF Changed
      <3> QED BY <2>1, <3>1, <3>5 DEF SomeKind
    <2>4. None \in Cr!Address /\ e \in Cr!Address
      BY DEF Cr!Address
    <2> QED BY <1>4, <2>2, <2>3, <2>4 DEF Cr!ns_cmd_set_email
  <1>5. ASSUME NEW u \in Users, NEW a \in Accts, Cr!ns_cmd_verify_emailchg(u, a) PROVE SomeKind
    <2> DEFINE m == [Cr!myuser_set_email(mu[a], mu[a].newemail) EXCEPT !.newemail = None]
    <2>1. /\ a \in DOMAIN mu /\ login[u] = a /\ mu[a].newemail # None
          /\ Cr!email_within_limits(mu[a].newemail) /\ Cr!Changes(a, m)
          /\ byOper' = byOper \ {a} /\ UNCHANGED <<login, usedcert, bad>>
      BY <1>5, <1>a DEF Cr!ns_cmd_verify_emailchg, Cr!VerifyEmailchg
    <2>2. /\ m \in Cr!Account /\ m.email = mu[a].newemail /\ m.certs = mu[a].certs
          /\ m.setpass = mu[a].setpass /\ m.nopass = mu[a].nopass
      <3>1. mu[a] \in Cr!Account /\ mu[a].newemail \in Emails
        BY <2>1, <1>a DEF Cr!Account, Cr!Address
      <3>2. Cr!myuser_set_email(mu[a], mu[a].newemail) \in Cr!Account
        BY <3>1 DEF Cr!Account, Cr!myuser_set_email
      <3> QED BY <3>1, <3>2 DEF Cr!Account, Cr!Address, Cr!myuser_set_email
    <2>3. m.setpass = None
      BY <2>1, <2>2, <1>b
    <2> HIDE DEF m
    <2>4. Changed(a, m)
      BY <2>1, <2>2, <2>3, <1>a, <1>b DEF Changed
    <2> QED BY <2>1, <2>2, <2>4 DEF SomeKind
  <1>6. ASSUME NEW a \in Accts, Cr!ns_cmd_fverify_emailchg(a) PROVE SomeKind
    <2> DEFINE m == [Cr!myuser_set_email(mu[a], mu[a].newemail) EXCEPT !.newemail = None]
    <2>1. /\ a \in DOMAIN mu /\ mu[a].newemail # None /\ Cr!Changes(a, m)
          /\ byOper' = byOper \union {a} /\ UNCHANGED <<login, usedcert, bad>>
      BY <1>6, <1>a DEF Cr!ns_cmd_fverify_emailchg
    <2>2. /\ m \in Cr!Account /\ m.certs = mu[a].certs
          /\ m.setpass = mu[a].setpass /\ m.nopass = mu[a].nopass
      BY <2>1, <1>a, ZenonT(60) DEF Cr!Account, Cr!Address, Cr!myuser_set_email
    <2> HIDE DEF m
    <2>3. Changed(a, m)
      BY <2>1, <2>2, <1>a, <1>b DEF Changed
    <2> QED BY <2>1, <2>2, <2>3 DEF SomeKind
  <1>7. ASSUME NEW a \in Accts, NEW e \in Emails, Cr!ns_cmd_return(a, e) PROVE SomeKind
    <2> DEFINE m == [Cr!myuser_set_email(mu[a], e) EXCEPT !.newemail = None, !.setpass = None]
    <2>1. /\ a \in DOMAIN mu /\ Cr!Changes(a, m)
          /\ login' = [u \in Users |-> IF login[u] = a THEN None ELSE login[u]]
          /\ byOper' = byOper \union {a} /\ UNCHANGED <<usedcert, bad>>
      BY <1>7 DEF Cr!ns_cmd_return
    <2>2. /\ m \in Cr!Account /\ m.certs = mu[a].certs
          /\ m.setpass = None /\ m.nopass = mu[a].nopass
      BY <2>1, <1>a, ZenonT(60) DEF Cr!Account, Cr!Address, Cr!myuser_set_email
    <2> HIDE DEF m
    <2>3. Changed(a, m)
      BY <2>1, <2>2, <1>a, <1>b DEF Changed
    <2> QED BY <2>1, <2>2, <2>3 DEF SomeKind
  <1>8. ASSUME NEW u \in Users, Cr!ns_cmd_set_password(u) PROVE SomeKind
    <2> DEFINE a == login[u]
               m == Cr!Repassword(mu[a])
    <2>1. a \in DOMAIN mu /\ Cr!Changes(a, m) /\ UNCHANGED <<login, usedcert, bad, byOper>>
      BY <1>8, <1>a DEF Cr!ns_cmd_set_password
    <2>2. /\ m \in Cr!Account /\ m.email = mu[a].email /\ m.certs = mu[a].certs
          /\ m.setpass = mu[a].setpass /\ m.nopass = FALSE
      BY <2>1, <1>a DEF Cr!Account, Cr!Repassword
    <2> HIDE DEF a, m
    <2> QED BY <2>1, <2>2, <1>c
  <1>9. ASSUME NEW a \in Accts, Cr!ns_cmd_resetpass(a) \/ (\E u \in Users : Cr!ns_cmd_setpass(u, a))
        PROVE  SomeKind
    <2> DEFINE m == [Cr!Repassword(mu[a]) EXCEPT !.setpass = None]
    <2>1. a \in DOMAIN mu /\ Cr!Changes(a, m) /\ UNCHANGED <<login, usedcert, bad, byOper>>
      BY <1>9 DEF Cr!ns_cmd_resetpass, Cr!ns_cmd_setpass
    <2>2. /\ m \in Cr!Account /\ m.email = mu[a].email /\ m.certs = mu[a].certs
          /\ m.setpass = None /\ m.nopass = FALSE
      BY <2>1, <1>a, ZenonT(60) DEF Cr!Account, Cr!Address, Cr!Repassword
    <2> HIDE DEF m
    <2> QED BY <2>1, <2>2, <1>c
  <1>10. ASSUME NEW a \in Accts, Cr!ns_cmd_sendpass(a) PROVE SomeKind
    <2> DEFINE m == [mu[a] EXCEPT !.setpass = mu[a].email]
    <2>1. /\ a \in DOMAIN mu /\ Cr!LoginsOf(a) = {} /\ Cr!Changes(a, m)
          /\ UNCHANGED <<login, usedcert, bad, byOper>>
      BY <1>10 DEF Cr!ns_cmd_sendpass, Cr!MaySend
    <2>2. /\ m \in Cr!Account /\ m.email = mu[a].email /\ m.certs = mu[a].certs
          /\ m.setpass = mu[a].email /\ m.nopass = mu[a].nopass
      BY <2>1, <1>a DEF Cr!Account, Cr!Address
    <2> HIDE DEF m
    <2> QED BY <2>1, <2>2, <1>b, <1>c
  <1>11. ASSUME NEW a \in Accts, Cr!ns_cmd_sendpass_clear(a) PROVE SomeKind
    <2> DEFINE m == [mu[a] EXCEPT !.setpass = None]
    <2>1. a \in DOMAIN mu /\ Cr!Changes(a, m) /\ UNCHANGED <<login, usedcert, bad, byOper>>
      BY <1>11 DEF Cr!ns_cmd_sendpass_clear
    <2>2. /\ m \in Cr!Account /\ m.email = mu[a].email /\ m.certs = mu[a].certs
          /\ m.setpass = None /\ m.nopass = mu[a].nopass
      BY <2>1, <1>a DEF Cr!Account, Cr!Address
    <2> HIDE DEF m
    <2> QED BY <2>1, <2>2, <1>b, <1>c
  <1>12. ASSUME NEW u \in Users, NEW on \in BOOLEAN, Cr!ns_cmd_set_nopassword(u, on) PROVE SomeKind
    <2> DEFINE a == login[u]
               m == [mu[a] EXCEPT !.nopass = on]
    <2>1. /\ a \in DOMAIN mu /\ CertOf[u] \in mu[a].certs /\ Cr!Changes(a, m)
          /\ UNCHANGED <<login, usedcert, bad, byOper>>
      BY <1>12, <1>a DEF Cr!ns_cmd_set_nopassword
    <2>2. /\ m \in Cr!Account /\ m.email = mu[a].email /\ m.certs = mu[a].certs
          /\ m.setpass = mu[a].setpass
      BY <2>1, <1>a DEF Cr!Account
    <2> HIDE DEF a, m
    <2> QED BY <2>1, <2>2, <1>c
  <1>13. ASSUME NEW u \in Users, NEW c \in Certs, Cr!CertAdd(u, c) PROVE SomeKind
    <2> DEFINE a == login[u]
               m == Cr!mycertfp_add(mu[a], c)
    <2>1. /\ a \in DOMAIN mu /\ Cr!mycertfp_find(c) = {} /\ Cr!Changes(a, m)
          /\ UNCHANGED <<login, usedcert, bad, byOper>>
      BY <1>13, <1>a DEF Cr!CertAdd
    <2>2. /\ m \in Cr!Account /\ m.email = mu[a].email /\ m.certs = mu[a].certs \union {c}
          /\ m.setpass = mu[a].setpass
      BY <2>1, <1>a DEF Cr!Account, Cr!mycertfp_add
    <2>3. IsFiniteSet(mu[a].certs \union {c})
      BY <2>1, <1>b, FS_AddElement
    <2>4. \A v \in Users : login[v] = a => m.setpass = None
      BY <2>1, <2>2, <1>b
    <2> HIDE DEF a, m
    <2>5. Changed(a, m)
      BY <2>1, <2>2, <2>3, <2>4, <1>a DEF Changed
    <2> QED BY <2>1, <2>2, <2>5 DEF SomeKind
  <1>14. ASSUME NEW u \in Users, NEW c \in Certs, Cr!CertDel(u, c) PROVE SomeKind
    <2> DEFINE a == login[u]
               m == Cr!mycertfp_delete(mu[a], c)
    <2>1. /\ a \in DOMAIN mu /\ c \in mu[a].certs /\ Cr!Changes(a, m)
          /\ ~(mu[a].nopass /\ Cardinality(mu[a].certs) < 2)
          /\ UNCHANGED <<login, usedcert, bad, byOper>>
      BY <1>14, <1>a, SameCardinality DEF Cr!CertDel
    <2>2. /\ m \in Cr!Account /\ m.email = mu[a].email /\ m.certs = mu[a].certs \ {c}
          /\ m.setpass = mu[a].setpass /\ m.nopass = mu[a].nopass
      BY <2>1, <1>a DEF Cr!Account, Cr!mycertfp_delete
    <2>3. IsFiniteSet(mu[a].certs \ {c})
      BY <2>1, <1>b, FS_RemoveElement
    <2>4. mu[a].nopass => mu[a].certs \ {c} # {}
      <3>1. mu[a].certs \ {c} = {} => mu[a].certs = {c}
        BY <2>1
      <3>2. Cardinality({c}) = 1
        BY FS_Singleton
      <3> QED BY <2>1, <3>1, <3>2
    <2>5. \A v \in Users : login[v] = a => m.setpass = None
      BY <2>1, <2>2, <1>b
    <2> HIDE DEF a, m
    <2>6. Changed(a, m)
      BY <2>1, <2>2, <2>3, <2>4, <2>5, <1>a DEF Changed
    <2> QED BY <2>1, <2>2, <2>6 DEF SomeKind
  <1>15. ASSUME NEW u \in Users, NEW a \in DOMAIN mu, Cr!Enters(u, a), usedcert' \subseteq Users
         PROVE  SomeKind
    <2> DEFINE m == Cr!clear_setpass_key(mu[a])
    <2>1. Cr!Changes(a, m) /\ login' = [login EXCEPT ![u] = a] /\ UNCHANGED <<bad, byOper>>
      BY <1>15 DEF Cr!Enters
    <2>2. /\ m \in Cr!Account /\ m.email = mu[a].email /\ m.certs = mu[a].certs
          /\ m.setpass = None /\ m.nopass = mu[a].nopass
      BY <1>a DEF Cr!Account, Cr!Address, Cr!clear_setpass_key
    <2> HIDE DEF m
    <2>3. Changed(a, m)
      BY <2>1, <2>2, <1>15, <1>a, <1>b DEF Changed
    <2> QED BY <2>2, <2>3 DEF SomeKind
  <1>16. ASSUME NEW u \in Users, NEW a \in Accts,
                Cr!ns_cmd_identify(u, a) \/ Cr!ns_cmd_cert_identify(u, a) \/ Cr!SaslPlain(u, a)
         PROVE  SomeKind
    <2>1. a \in DOMAIN mu /\ Cr!Enters(u, a) /\ usedcert' \subseteq Users
      BY <1>16, <1>a DEF Cr!ns_cmd_identify, Cr!ns_cmd_cert_identify, Cr!SaslPlain, Cr!mycertfp_find
    <2> QED BY <2>1, <1>15
  <1>17. ASSUME NEW a \in Accts, NEW on \in BOOLEAN, Cr!ns_cmd_freeze(a, on) PROVE SomeKind
    <2> DEFINE m == [mu[a] EXCEPT !.frozen = on]
    <2>1. /\ a \in DOMAIN mu /\ Cr!Changes(a, m)
          /\ login' = [u \in Users |-> IF on /\ login[u] = a THEN None ELSE login[u]]
          /\ UNCHANGED <<usedcert, bad, byOper>>
      BY <1>17 DEF Cr!ns_cmd_freeze
    <2>2. /\ m \in Cr!Account /\ m.email = mu[a].email /\ m.certs = mu[a].certs
          /\ m.setpass = mu[a].setpass /\ m.nopass = mu[a].nopass
      BY <2>1, <1>a DEF Cr!Account
    <2>3. login' \in [Users -> DOMAIN mu \union {None}] /\ \A u \in Users : login'[u] \in {login[u], None}
      BY <2>1, <1>a
    <2>4. \A u \in Users : login'[u] = a => m.setpass = None
      BY <2>1, <2>2, <2>3, <1>a, <1>b
    <2> HIDE DEF m
    <2>5. Changed(a, m)
      BY <2>1, <2>2, <2>3, <2>4, <1>a, <1>b DEF Changed
    <2> QED BY <2>1, <2>2, <2>5 DEF SomeKind
  <1>18. ASSUME NEW u \in Users, NEW h \in Cr!UserHosts, Cr!ns_cmd_access_add(u, h) \/ Cr!ns_cmd_access_del(u, h)
         PROVE  SomeKind
    <2> DEFINE a == login[u]
    <2>1. PICK H \in SUBSET Cr!UserHosts :
            /\ a \in DOMAIN mu /\ Cr!Changes(a, [mu[a] EXCEPT !.access = H])
            /\ UNCHANGED <<login, usedcert, bad, byOper>>
      <3>1. a \in DOMAIN mu /\ mu[a].access \in SUBSET Cr!UserHosts
        BY <1>18, <1>a DEF Cr!ns_cmd_access_add, Cr!ns_cmd_access_del, Cr!Account
      <3>2. CASE Cr!ns_cmd_access_add(u, h)
        BY <3>1, <3>2 DEF Cr!ns_cmd_access_add, Cr!myuser_access_add
      <3>3. CASE Cr!ns_cmd_access_del(u, h)
        BY <3>1, <3>3 DEF Cr!ns_cmd_access_del
      <3> QED BY <1>18, <3>2, <3>3
    <2> DEFINE m == [mu[a] EXCEPT !.access = H]
    <2>2. /\ m \in Cr!Account /\ m.email = mu[a].email /\ m.certs = mu[a].certs
          /\ m.setpass = mu[a].setpass /\ m.nopass = mu[a].nopass
      BY <2>1, <1>a DEF Cr!Account
    <2>3. Cr!Changes(a, m)
      BY <2>1
    <2> HIDE DEF a, m
    <2> QED BY <2>1, <2>2, <2>3, <1>b, <1>c
  <1>19. ASSUME NEW u \in Users, NEW on \in BOOLEAN, Cr!ns_cmd_set_strictaccess(u, on) PROVE SomeKind
    <2> DEFINE a == login[u]
               m == [mu[a] EXCEPT !.strict = on]
    <2>1. a \in DOMAIN mu /\ Cr!Changes(a, m) /\ UNCHANGED <<login, usedcert, bad, byOper>>
      BY <1>19, <1>a DEF Cr!ns_cmd_set_strictaccess
    <2>2. /\ m \in Cr!Account /\ m.email = mu[a].email /\ m.certs = mu[a].certs
          /\ m.setpass = mu[a].setpass /\ m.nopass = mu[a].nopass
      BY <2>1, <1>a DEF Cr!Account
    <2> HIDE DEF a, m
    <2> QED BY <2>1, <2>2, <1>b, <1>c
  <1>20. ASSUME NEW a \in Accts, Cr!ns_cmd_resetstrictaccess(a) \/ Cr!ResetStrictUse(a) \/ Cr!ResetStrictClear(a)
         PROVE  SomeKind
    <2>1. PICK m : /\ m \in {[mu[a] EXCEPT !.strictkey = mu[a].email],
                             [mu[a] EXCEPT !.strict = FALSE, !.strictkey = None],
                             [mu[a] EXCEPT !.strictkey = None]}
                   /\ a \in DOMAIN mu /\ Cr!Changes(a, m) /\ UNCHANGED <<login, usedcert, bad, byOper>>
      BY <1>20 DEF Cr!ns_cmd_resetstrictaccess, Cr!MaySend, Cr!ResetStrictUse, Cr!ResetStrictClear
    <2>2. /\ m \in Cr!Account /\ m.email = mu[a].email /\ m.certs = mu[a].certs
          /\ m.setpass = mu[a].setpass /\ m.nopass = mu[a].nopass
      BY <2>1, <1>a DEF Cr!Account, Cr!Address
    <2> QED BY <2>1, <2>2, <1>b, <1>c
  <1>21. ASSUME NEW u \in Users, Cr!ns_cmd_logout(u) \/ Cr!Reconnect(u) PROVE SomeKind
    <2>1. Untouched
      BY <1>21, <1>a DEF Cr!ns_cmd_logout, Cr!Reconnect, Untouched
    <2> QED BY <2>1 DEF SomeKind
  <1>22. ASSUME NEW e \in Emails, Cr!ns_cmd_badmail_add(e) \/ Cr!ns_cmd_badmail_del(e) PROVE SomeKind
    <2>1. Untouched
      BY <1>22, <1>a DEF Cr!ns_cmd_badmail_add, Cr!ns_cmd_badmail_del, Untouched
    <2> QED BY <2>1 DEF SomeKind
  <1>23. ASSUME UNCHANGED Cr!vars PROVE SomeKind
    <2>1. Untouched
      BY <1>23, <1>a DEF Cr!vars, Untouched
    <2> QED BY <2>1 DEF SomeKind
  <1>24. CASE \E a \in Accts :
               \/ Cr!Expire(a) \/ Cr!ns_cmd_fverify_register(a) \/ Cr!ns_cmd_fverify_emailchg(a)
               \/ Cr!ns_cmd_resetpass(a) \/ Cr!ns_cmd_sendpass(a) \/ Cr!ns_cmd_sendpass_user(a)
               \/ Cr!ns_cmd_sendpass_clear(a) \/ Cr!ns_cmd_resetstrictaccess(a)
               \/ Cr!ResetStrictUse(a) \/ Cr!ResetStrictClear(a)
               \/ \E e \in Emails : Cr!ns_cmd_return(a, e)
               \/ \E on \in BOOLEAN : Cr!ns_cmd_freeze(a, on)
    BY <1>24, <1>2, <1>3, <1>6, <1>7, <1>9, <1>10, <1>11, <1>17, <1>20 DEF Cr!ns_cmd_sendpass_user
  <1>25. CASE \E u \in Users, a \in Accts :
               \/ \E e \in Emails : Cr!ns_cmd_register(u, a, e)
               \/ Cr!ns_cmd_verify_register(u, a) \/ Cr!ns_cmd_verify_emailchg(u, a)
               \/ Cr!ns_cmd_setpass(u, a) \/ Cr!ns_cmd_identify(u, a) \/ Cr!ns_cmd_cert_identify(u, a)
               \/ Cr!SaslPlain(u, a)
    BY <1>25, <1>1, <1>3, <1>5, <1>9, <1>16
  <1>26. CASE \E u \in Users :
               \/ \E e \in Emails : Cr!ns_cmd_set_email(u, e)
               \/ \E c \in Certs : Cr!CertAdd(u, c) \/ Cr!CertDel(u, c)
               \/ \E h \in Cr!UserHosts : Cr!ns_cmd_access_add(u, h) \/ Cr!ns_cmd_access_del(u, h)
               \/ \E on \in BOOLEAN : Cr!ns_cmd_set_nopassword(u, on) \/ Cr!ns_cmd_set_strictaccess(u, on)
               \/ Cr!ns_cmd_set_password(u) \/ Cr!ns_cmd_logout(u) \/ Cr!Reconnect(u)
    BY <1>26, <1>4, <1>8, <1>12, <1>13, <1>14, <1>18, <1>19, <1>21
  <1> QED
    BY <1>22, <1>23, <1>24, <1>25, <1>26 DEF Cr!Next

-----------------------------------------------------------------------------
(* What the kinds of steps keep *)

\* A command that changes one account keeps what the accounts are.
LEMMA ChangedKeeps ==
    ASSUME Cr!CredentialsAssumption, CredentialsInv, NEW a \in DOMAIN mu, NEW m \in Cr!Account, Changed(a, m)
    PROVE  CredentialsInv'
  <1>1. /\ DOMAIN mu' = DOMAIN mu
        /\ \A x \in DOMAIN mu : mu'[x] = IF x = a THEN m ELSE mu[x]
    BY ChangesAt DEF Changed
  <1>a. byOper \subseteq DOMAIN mu /\ byOper' \subseteq DOMAIN mu
    BY DEF Changed, CredentialsInv, Cr!TypeOK
  <1>2. Cr!TypeOK'
    BY <1>1, <1>a DEF Changed, CredentialsInv, Cr!TypeOK
  <1>3. CertInv'
    <2>1. \A x \in DOMAIN mu : IsFiniteSet(mu'[x].certs) /\ (mu'[x].nopass => mu'[x].certs # {})
      BY <1>1 DEF Changed, CredentialsInv, CertInv, Cr!CertificateLeft
    <2>2. \A x \in DOMAIN mu \ {a} : \A c \in m.certs \intersect mu[x].certs : FALSE
      BY DEF Changed, CredentialsInv, CertInv, Cr!mycertfp_find
    <2>3. \A x, y \in DOMAIN mu : \A c \in mu'[x].certs \intersect mu'[y].certs : x = y
      BY <1>1, <2>2 DEF CredentialsInv, CertInv
    <2> QED BY <1>1, <2>1, <2>3 DEF CertInv, Cr!CertificateLeft
  <1>4. KeyInv'
    <2>1. ASSUME NEW x \in DOMAIN mu \ byOper' PROVE mu'[x].setpass \in {None, mu'[x].email}
      <3>1. CASE x # a
        BY <1>1, <2>1, <3>1 DEF Changed, CredentialsInv, KeyInv, Cr!KeysCurrent
      <3>2. CASE x = a
        BY <1>1, <2>1, <3>2 DEF Changed, CredentialsInv, KeyInv, Cr!KeysCurrent
      <3> QED BY <3>1, <3>2
    <2>2. ASSUME NEW u \in Users, login'[u] # None PROVE mu'[login'[u]].setpass = None
      <3>1. login'[u] = a => m.setpass = None
        BY DEF Changed
      <3>2. login'[u] # a => login'[u] = login[u] /\ login[u] \in DOMAIN mu
        BY <2>2 DEF Changed, CredentialsInv, Cr!TypeOK
      <3> QED BY <1>1, <2>2, <3>1, <3>2 DEF CredentialsInv, KeyInv
    <2> QED BY <1>1, <2>1, <2>2 DEF KeyInv, Cr!KeysCurrent
  <1>5. AddressInv'
    <2> SUFFICES ASSUME NEW e \in Emails
                 PROVE  Cardinality({x \in DOMAIN mu \ byOper' : mu'[x].email = e}) <= MaxUsers
      BY <1>1, SameCardinality DEF CredentialsInv, AddressInv, Cr!AddressesLimited
    <2> DEFINE Old == {x \in DOMAIN mu \ byOper : mu[x].email = e}
               Same == {x \in DOMAIN mu : mu[x].email = e}
               New == {x \in DOMAIN mu \ byOper' : mu'[x].email = e}
    <2>1. /\ IsFiniteSet(Old) /\ IsFiniteSet(Same)
          /\ Cardinality(Old) \in Nat /\ Cardinality(Same) \in Nat /\ MaxUsers \in Nat
          /\ Cardinality(Old) <= MaxUsers
      <3>1. IsFiniteSet(DOMAIN mu) /\ Old \subseteq DOMAIN mu /\ Same \subseteq DOMAIN mu
        BY DEF CredentialsInv, AddressInv
      <3>2. Cardinality(Old) <= MaxUsers /\ MaxUsers \in Nat
        BY SameCardinality DEF CredentialsInv, AddressInv, Cr!AddressesLimited, Cr!CredentialsAssumption
      <3> QED BY <3>1, <3>2, FS_Subset, FS_CardinalityType
    <2>2. CASE New \subseteq Old
      BY <2>1, <2>2, FS_Subset, FS_CardinalityType
    <2>3. CASE ~(New \subseteq Old)
      <3>1. PICK x \in New : x \notin Old
        BY <2>3
      <3>a. x \in DOMAIN mu /\ x \notin byOper' /\ mu'[x].email = e
        BY <3>1
      <3>b. x \in byOper \/ mu[x].email # e
        BY <3>1, <3>a
      <3>c. x = a /\ m.email = e
        <4>1. x # a => x \notin byOper /\ mu[x].email = e
          BY <1>1, <3>a DEF Changed
        <4> QED BY <1>1, <3>a, <3>b, <4>1
      <3>2. Cr!email_within_limits(e)
        BY <3>a, <3>b, <3>c DEF Changed
      <3>3. Cardinality(Same) + 1 <= MaxUsers
        BY <2>1, <3>2, SameCardinality DEF Cr!email_within_limits
      <3>4. New \subseteq Same \union {a}
        BY <1>1
      <3>5. /\ IsFiniteSet(Same \union {a})
            /\ Cardinality(Same \union {a}) <= Cardinality(Same) + 1
            /\ Cardinality(Same \union {a}) \in Nat
        <4>1. CASE a \in Same
          <5>1. Same \union {a} = Same
            BY <4>1
          <5>2. /\ IsFiniteSet(Same \union {a})
                /\ Cardinality(Same \union {a}) = Cardinality(Same)
            BY <5>1, <2>1
          <5> HIDE DEF Same
          <5> QED BY <5>2, <2>1
        <4>2. CASE a \notin Same
          <5> HIDE DEF Same
          <5>1. /\ IsFiniteSet(Same \union {a})
                /\ Cardinality(Same \union {a}) = Cardinality(Same) + 1
            BY <2>1, <4>2, FS_AddElement
          <5> QED BY <5>1, <2>1
        <4> QED BY <4>1, <4>2
      <3>6. Cardinality(New) <= Cardinality(Same \union {a}) /\ Cardinality(New) \in Nat
        BY <3>4, <3>5, FS_Subset, FS_CardinalityType
      <3> HIDE DEF Same, New, Old
      <3>7. Cardinality(New) <= MaxUsers
        BY <2>1, <3>3, <3>5, <3>6 DEF Cr!CredentialsAssumption
      <3> QED BY <3>7 DEF New
    <2> QED BY <2>2, <2>3
  <1> QED BY <1>2, <1>3, <1>4, <1>5 DEF CredentialsInv

\* A registration.
LEMMA RegisterKeeps ==
    ASSUME Cr!CredentialsAssumption, CredentialsInv, NEW u \in Users, NEW a \in Accts, NEW e \in Emails,
           Cr!ns_cmd_register(u, a, e)
    PROVE  CredentialsInv'
  <1> DEFINE m == [email |-> e, wait |-> AuthEmail, frozen |-> FALSE, nopass |-> FALSE, strict |-> FALSE,
                   certs |-> {}, access |-> {}, setpass |-> None, strictkey |-> None, newemail |-> None]
  <1>1. /\ a \notin DOMAIN mu /\ Cr!email_within_limits(e) /\ login' = [login EXCEPT ![u] = a]
        /\ mu' = [x \in DOMAIN mu \union {a} |-> IF x # a THEN mu[x] ELSE m]
        /\ UNCHANGED <<usedcert, bad, byOper>>
    BY DEF Cr!ns_cmd_register
  <1>2. /\ m \in Cr!Account /\ m.email = e /\ m.certs = {} /\ m.setpass = None /\ m.nopass = FALSE
    BY DEF Cr!Account, Cr!Address, Cr!CredentialsAssumption
  <1> HIDE DEF m
  <1>3. /\ DOMAIN mu' = DOMAIN mu \union {a} /\ mu'[a] = m
        /\ \A x \in DOMAIN mu : mu'[x] = mu[x] /\ x # a
    BY <1>1
  <1>a. a # None /\ byOper \subseteq DOMAIN mu /\ login \in [Users -> DOMAIN mu \union {None}]
    BY DEF Cr!CredentialsAssumption, CredentialsInv, Cr!TypeOK
  <1>4. Cr!TypeOK'
    <2>1. login' \in [Users -> DOMAIN mu' \union {None}]
      BY <1>1, <1>3, <1>a
    <2> QED BY <1>1, <1>2, <1>3, <2>1 DEF CredentialsInv, Cr!TypeOK
  <1>5. CertInv'
    BY <1>2, <1>3, FS_EmptySet DEF CredentialsInv, CertInv, Cr!CertificateLeft
  <1>6. KeyInv'
    <2>1. \A x \in DOMAIN mu' \ byOper' : mu'[x].setpass \in {None, mu'[x].email}
      BY <1>1, <1>2, <1>3 DEF CredentialsInv, KeyInv, Cr!KeysCurrent
    <2>2. ASSUME NEW v \in Users, login'[v] # None PROVE mu'[login'[v]].setpass = None
      <3>1. login'[v] = IF v = u THEN a ELSE login[v]
        BY <1>1, <1>a
      <3> QED BY <3>1, <2>2, <1>2, <1>3, <1>a DEF CredentialsInv, KeyInv
    <2> QED BY <2>1, <2>2 DEF KeyInv, Cr!KeysCurrent
  <1>7. IsFiniteSet(DOMAIN mu')
    BY <1>3, FS_AddElement DEF CredentialsInv, AddressInv
  <1>8. ASSUME NEW f \in Emails
        PROVE  Cardinality({x \in DOMAIN mu' \ byOper' : mu'[x].email = f}) <= MaxUsers
    <2> DEFINE Old == {x \in DOMAIN mu \ byOper : mu[x].email = f}
               Same == {x \in DOMAIN mu : mu[x].email = f}
               New == {x \in DOMAIN mu' \ byOper' : mu'[x].email = f}
    <2>1. /\ IsFiniteSet(Same) /\ Cardinality(Old) <= MaxUsers /\ Old \subseteq Same
          /\ Cardinality(Same) \in Nat /\ MaxUsers \in Nat
      <3>1. IsFiniteSet(DOMAIN mu) /\ Same \subseteq DOMAIN mu
        BY DEF CredentialsInv, AddressInv
      <3>2. Cardinality(Old) <= MaxUsers /\ MaxUsers \in Nat
        BY SameCardinality DEF CredentialsInv, AddressInv, Cr!AddressesLimited, Cr!CredentialsAssumption
      <3> QED BY <3>1, <3>2, FS_Subset, FS_CardinalityType
    <2>2. CASE f # e
      <3>1. New = Old
        BY <1>1, <1>2, <1>3, <2>2
      <3> QED BY <2>1, <3>1
    <2>3. CASE f = e
      <3>1. Cardinality(Same) + 1 <= MaxUsers
        BY <1>1, <2>1, <2>3, SameCardinality DEF Cr!email_within_limits
      <3>2. New \subseteq Same \union {a} /\ a \notin Same
        BY <1>1, <1>3
      <3>3. IsFiniteSet(Same \union {a}) /\ Cardinality(Same \union {a}) = Cardinality(Same) + 1
        BY <2>1, <3>2, FS_AddElement
      <3>4. Cardinality(New) <= Cardinality(Same \union {a}) /\ Cardinality(New) \in Nat
        BY <3>2, <3>3, FS_Subset, FS_CardinalityType
      <3> HIDE DEF Same, New, Old
      <3>5. Cardinality(New) <= MaxUsers
        BY <2>1, <3>1, <3>3, <3>4
      <3> QED BY <3>5 DEF New
    <2> QED BY <2>2, <2>3
  <1> QED BY <1>4, <1>5, <1>6, <1>7, <1>8, SameCardinality DEF CredentialsInv, AddressInv, Cr!AddressesLimited

\* An account that goes.
LEMMA ExpireKeeps ==
    ASSUME Cr!CredentialsAssumption, CredentialsInv, NEW a \in Accts, Cr!Expire(a)
    PROVE  CredentialsInv'
  <1>1. /\ DOMAIN mu' = DOMAIN mu \ {a} /\ \A x \in DOMAIN mu' : mu'[x] = mu[x]
        /\ login' = [u \in Users |-> IF login[u] = a THEN None ELSE login[u]]
        /\ byOper' = byOper \ {a} /\ UNCHANGED <<usedcert, bad>>
    BY DEF Cr!Expire, Cr!myuser_delete, Cr!Without
  <1>2. Cr!TypeOK'
    <2>1. login' \in [Users -> DOMAIN mu' \union {None}]
      BY <1>1 DEF CredentialsInv, Cr!TypeOK
    <2> QED BY <1>1, <2>1 DEF CredentialsInv, Cr!TypeOK
  <1>3. CertInv'
    BY <1>1 DEF CredentialsInv, CertInv, Cr!CertificateLeft
  <1>4. KeyInv'
    <2>1. \A x \in DOMAIN mu' \ byOper' : mu'[x].setpass \in {None, mu'[x].email}
      BY <1>1 DEF CredentialsInv, KeyInv, Cr!KeysCurrent
    <2>2. \A u \in Users : login'[u] # None => mu'[login'[u]].setpass = None
      BY <1>1, <1>2 DEF CredentialsInv, KeyInv, Cr!TypeOK
    <2> QED BY <2>1, <2>2 DEF KeyInv, Cr!KeysCurrent
  <1>5. AddressInv'
    <2>1. IsFiniteSet(DOMAIN mu')
      BY <1>1, FS_Subset DEF CredentialsInv, AddressInv
    <2>2. ASSUME NEW e \in Emails
          PROVE  Cardinality({x \in DOMAIN mu' \ byOper' : mu'[x].email = e}) <= MaxUsers
      <3> DEFINE Old == {x \in DOMAIN mu \ byOper : mu[x].email = e}
                 New == {x \in DOMAIN mu' \ byOper' : mu'[x].email = e}
      <3>1. IsFiniteSet(Old) /\ Cardinality(Old) <= MaxUsers /\ MaxUsers \in Nat
        <4>1. IsFiniteSet(DOMAIN mu) /\ Old \subseteq DOMAIN mu
          BY DEF CredentialsInv, AddressInv
        <4>2. Cardinality(Old) <= MaxUsers /\ MaxUsers \in Nat
          BY SameCardinality DEF CredentialsInv, AddressInv, Cr!AddressesLimited, Cr!CredentialsAssumption
        <4> QED BY <4>1, <4>2, FS_Subset
      <3>2. New \subseteq Old
        BY <1>1
      <3> QED BY <3>1, <3>2, FS_Subset, FS_CardinalityType
    <2> QED BY <2>1, <2>2, SameCardinality DEF AddressInv, Cr!AddressesLimited
  <1> QED BY <1>2, <1>3, <1>4, <1>5 DEF CredentialsInv

\* Users come and go.
LEMMA UntouchedKeeps ==
    ASSUME CredentialsInv, Untouched
    PROVE  CredentialsInv'
  <1>1. Cr!TypeOK'
    BY DEF CredentialsInv, Cr!TypeOK, Untouched
  <1>2. CertInv' /\ AddressInv'
    BY DEF CredentialsInv, CertInv, Cr!CertificateLeft, AddressInv, Cr!AddressesLimited, Untouched
  <1>3. KeyInv'
    BY DEF CredentialsInv, KeyInv, Cr!KeysCurrent, Untouched
  <1> QED BY <1>1, <1>2, <1>3 DEF CredentialsInv

-----------------------------------------------------------------------------
(* Theorems *)

\* No account is there at the start.
LEMMA CredentialsInit == Cr!CredentialsAssumption /\ Cr!Init => CredentialsInv
  <1> SUFFICES ASSUME Cr!CredentialsAssumption, Cr!Init PROVE CredentialsInv
    OBVIOUS
  <1>1. DOMAIN mu = {} /\ IsFiniteSet({}) /\ Cardinality({}) = 0
    BY FS_EmptySet DEF Cr!Init
  <1>2. Cr!TypeOK
    BY <1>1 DEF Cr!Init, Cr!TypeOK
  <1>3. CertInv
    BY <1>1 DEF CertInv, Cr!CertificateLeft
  <1>4. KeyInv
    BY <1>1 DEF Cr!Init, KeyInv, Cr!KeysCurrent
  <1>5. AddressInv
    <2>1. \A e \in Emails : {a \in DOMAIN mu \ byOper : mu[a].email = e} = {}
      BY <1>1
    <2>2. 0 <= MaxUsers
      BY DEF Cr!CredentialsAssumption
    <2> QED BY <1>1, <2>1, <2>2, SameCardinality DEF AddressInv, Cr!AddressesLimited
  <1> QED BY <1>2, <1>3, <1>4, <1>5 DEF CredentialsInv

\* The invariant is inductive.
LEMMA CredentialsNext == Cr!CredentialsAssumption /\ CredentialsInv /\ [Cr!Next]_(Cr!vars) => CredentialsInv'
  BY StepKinds, RegisterKeeps, ExpireKeeps, ChangedKeeps, UntouchedKeeps DEF SomeKind

\* Accounts, logins and keys are what they should be in every reachable state.
THEOREM CredentialsTyped ==
    ASSUME Cr!CredentialsAssumption
    PROVE  Cr!Spec => []Cr!TypeOK
  <1>1. Cr!Init => CredentialsInv
    BY CredentialsInit
  <1>2. CredentialsInv /\ [Cr!Next]_(Cr!vars) => CredentialsInv'
    BY CredentialsNext
  <1>3. CredentialsInv => Cr!TypeOK
    BY DEF CredentialsInv
  <1> QED BY <1>1, <1>2, <1>3, PTL DEF Cr!Spec

\* The ways into an account stay with its owner: a certificate is left when there is
\* no password (cert.c:179), a mailed key is good only for the account's address
\* (setpass.c:122), no address gets more accounts than allowed (verify.c:133), and a
\* fingerprint leads to one account (cert.c:127).
THEOREM OwnersAlwaysKeep ==
    ASSUME Cr!CredentialsAssumption
    PROVE  Cr!Spec => []Cr!OwnersKeep
  <1>1. Cr!Init => CredentialsInv
    BY CredentialsInit
  <1>2. CredentialsInv /\ [Cr!Next]_(Cr!vars) => CredentialsInv'
    BY CredentialsNext
  <1>3. CredentialsInv => Cr!OwnersKeep
    <2> SUFFICES ASSUME CredentialsInv PROVE Cr!OwnersKeep
      OBVIOUS
    <2>1. Cr!OneAccountEach
      <3> SUFFICES ASSUME NEW c \in Certs PROVE Cardinality(Cr!mycertfp_find(c)) <= 1
        BY SameCardinality DEF Cr!OneAccountEach
      <3>1. \A a, b \in Cr!mycertfp_find(c) : a = b
        BY DEF CredentialsInv, CertInv, Cr!mycertfp_find
      <3>2. CASE Cr!mycertfp_find(c) = {}
        BY <3>2, FS_EmptySet
      <3>3. CASE Cr!mycertfp_find(c) # {}
        <4>1. PICK a : Cr!mycertfp_find(c) = {a}
          BY <3>1, <3>3
        <4>2. Cardinality({a}) = 1
          BY FS_Singleton
        <4>3. Cardinality(Cr!mycertfp_find(c)) = 1
          BY <4>1, <4>2, Zenon
        <4> QED BY <4>3
      <3> QED BY <3>2, <3>3
    <2> QED BY <2>1 DEF CredentialsInv, CertInv, KeyInv, AddressInv, Cr!OwnersKeep
  <1> QED BY <1>1, <1>2, <1>3, PTL DEF Cr!Spec
=============================================================================
