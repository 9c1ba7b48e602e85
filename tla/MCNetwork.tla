----------------------------- MODULE MCNetwork -----------------------------
(***************************************************************************)
(* A small instance of Network: one service, two or three other clients,    *)
(* a nick more than clients, and a tree deep enough for a split below the   *)
(* uplink.                                                                   *)
(***************************************************************************)
EXTENDS Network, TLC

CONSTANTS svc, n0

MCServiceNick == svc :> n0

\* Remote clients, free nicks and servers are interchangeable.
Symmetry ==
    Permutations(Users \ {svc}) \union Permutations(Nicks \ {n0})
        \union Permutations(Servers)
=============================================================================
