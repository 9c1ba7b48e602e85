------------------------------ MODULE MCLogins ------------------------------
(***************************************************************************)
(* Two clients are enough for a race for the last session, two             *)
(* registrations of a name for a login that outlives one, and a second     *)
(* account for a client that changes accounts.                             *)
(***************************************************************************)
EXTENDS Logins, TLC

CONSTANTS a1, a2

MCMaxGen == a1 :> 2 @@ a2 :> 1
=============================================================================
