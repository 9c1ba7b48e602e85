----------------------------- MODULE MCEnforce -----------------------------
(***************************************************************************)
(* Who may use a nickname, and who gets into its account: enforcement, and *)
(* the addresses, keys and certificates of accounts.  The parts share no   *)
(* state, so interleaving them would add no behaviour of either: which of  *)
(* them moves is chosen once.                                              *)
(*                                                                         *)
(* Enforce: two clients behind one host on two nicknames of one account,   *)
(* whose grace period changes between the entries.  Credentials: one       *)
(* account with two users, one of them with a certificate; two accounts    *)
(* that compete for an address; and two accounts without verified          *)
(* addresses for the user of one certificate.                              *)
(***************************************************************************)
EXTENDS Enforce, TLC

CONSTANTS c1, c2, h1, a1, n1, n2, a2, u1, u2, e1, e2, h2, k1, k2

MCHost == c1 :> h1 @@ c2 :> h1
MCOwner == n1 :> a1 @@ n2 :> a1

VARIABLES part, mu, login, usedcert, bad, byOper

cVars == <<mu, login, usedcert, bad, byOper>>

C1 == INSTANCE Credentials WITH
          Accts <- {a1}, Emails <- {e1, e2}, Users <- {u1, u2}, CertOf <- u1 :> k1 @@ u2 :> None,
          HostOf <- u1 :> h1 @@ u2 :> h2, Certs <- {k1, k2}, AuthEmail <- TRUE, SetPass <- TRUE,
          MaxUsers <- 1, MdLimit <- 0, MaxBad <- 2

C2 == INSTANCE Credentials WITH
          Accts <- {a1, a2}, Emails <- {e1, e2}, Users <- {u1}, CertOf <- u1 :> None, HostOf <- u1 :> h1,
          Certs <- {}, AuthEmail <- TRUE, SetPass <- FALSE, MaxUsers <- 1, MdLimit <- 0, MaxBad <- 0

C3 == INSTANCE Credentials WITH
          Accts <- {a1, a2}, Emails <- {e1}, Users <- {u1}, CertOf <- u1 :> k1, HostOf <- u1 :> h1,
          Certs <- {k1}, AuthEmail <- FALSE, SetPass <- FALSE, MaxUsers <- 2, MdLimit <- 1, MaxBad <- 1

ASSUME C1!CredentialsAssumption /\ C2!CredentialsAssumption /\ C3!CredentialsAssumption

MCInit ==
    /\ part \in {"enforce", "certs", "addresses", "unverified"}
    /\ EnforceInit
    /\ IF part = "addresses" THEN C2!Init ELSE IF part = "unverified" THEN C3!Init ELSE C1!Init

MCNext ==
    \/ part = "enforce" /\ EnforceNext /\ UNCHANGED <<part, cVars>>
    \/ part = "certs" /\ C1!Next /\ UNCHANGED <<part, enforceVars>>
    \/ part = "addresses" /\ C2!Next /\ UNCHANGED <<part, enforceVars>>
    \/ part = "unverified" /\ C3!Next /\ UNCHANGED <<part, enforceVars>>

\* The fairness of enforcement: the event loop runs a timer that is due; time passes.
MCFairness == WF_enforceVars(part = "enforce" /\ TimeoutCheck) /\ WF_enforceVars(part = "enforce" /\ Tick)

MCSpec == MCInit /\ [][MCNext]_<<part, enforceVars, cVars>> /\ MCFairness

\* An account without a password keeps a certificate, a mailed key is good only for
\* the address it went to, addresses stay within the limit, and a certificate leads
\* to one account (set_nopassword.c:99, verify.c:136, cert.c:127, 179).
OwnersKeep ==
    CASE part = "addresses" -> C2!OwnersKeep
      [] part = "unverified" -> C3!OwnersKeep
      [] OTHER -> C1!OwnersKeep
=============================================================================
