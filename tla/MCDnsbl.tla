------------------------------ MODULE MCDnsbl ------------------------------
(***************************************************************************)
(* Two clients, a blacklist that lists one of their two addresses, and two *)
(* lookups at a time that share three ids.                                 *)
(***************************************************************************)
EXTENDS Dnsbl

CONSTANTS u1, u2, bad, good, z1

MCListed == {<<bad, z1>>}
=============================================================================
