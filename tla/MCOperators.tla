---------------------------- MODULE MCOperators ----------------------------
(***************************************************************************)
(* What operators set about clients: AKILLs, SGLINEs and SQLINEs, and the  *)
(* limits of CLONES.  The parts share no state, so interleaving them would *)
(* add no behaviour of any: which of them moves is chosen once.            *)
(*                                                                         *)
(* AKILLs: a mask, an address it matches, a range with that address and a  *)
(* client at the address.  SGLINEs and SQLINEs: the mask, the name it      *)
(* matches, and a mask with an escaped wildcard, which does not match its  *)
(* own text.  CLONES: three clients of one address, one of them immune,    *)
(* and a range that contains the address.                                  *)
(***************************************************************************)
EXTENDS Bans, TLC

CONSTANTS wide, narrow, escaped, range, u1, k1, k2, k3, Window, MaxExempts

MCMatches == {<<m, m>> : m \in Masks} \union {<<wide, narrow>>}
MCRanges == {<<range, narrow>>}
MCMaskOf == [u \in {u1} |-> narrow]

VARIABLES
    part,
    xlines, xlastid, xdisk, xconnected, xonline, xklinesent, xnet,
    hostlist, exempts, clones_allowed, kline, conline, loggedin, cklinesent, lastkill

xVars == <<xlines, xlastid, xdisk, xconnected, xonline, xklinesent, xnet>>
cVars == <<hostlist, exempts, clones_allowed, kline, conline, loggedin, cklinesent, lastkill>>

X == INSTANCE Bans WITH
         Kinds <- {"xline"}, Masks <- {wide, narrow, escaped}, Ranges <- {}, MaxId <- 3,
         Matches <- {<<wide, wide>>, <<narrow, narrow>>, <<wide, narrow>>, <<wide, escaped>>},
         lines <- xlines, lastid <- xlastid, disk <- xdisk, connected <- xconnected,
         online <- xonline, klinesent <- xklinesent, net <- xnet

Q == INSTANCE Bans WITH
         Kinds <- {"qline"}, Masks <- {wide, narrow}, Ranges <- {}, MaxId <- 3,
         Matches <- {<<wide, wide>>, <<narrow, narrow>>, <<wide, narrow>>},
         lines <- xlines, lastid <- xlastid, disk <- xdisk, connected <- xconnected,
         online <- xonline, klinesent <- xklinesent, net <- xnet

C == INSTANCE Clones WITH
         Clients <- {k1, k2, k3}, IPs <- {narrow}, IP <- [u \in {k1, k2, k3} |-> narrow],
         Masks <- {narrow, range}, Ranges <- {<<range, narrow>>, <<narrow, narrow>>},
         Immune <- {k3}, Limits <- {0, 1}, DefaultAllowed <- 1, Increase <- TRUE, Counts <- {0, 1},
         online <- conline, klinesent <- cklinesent

ASSUME BansAssumption /\ X!BansAssumption /\ Q!BansAssumption /\ C!ClonesAssumption

MCInit ==
    /\ part \in {"akills", "sglines", "sqlines", "clones"}
    /\ Init /\ C!Init /\ IF part = "sqlines" THEN Q!Init ELSE X!Init

MCNext ==
    \/ part = "akills" /\ Next /\ UNCHANGED <<part, xVars, cVars>>
    \/ part = "sglines" /\ X!Next /\ UNCHANGED <<part, vars, cVars>>
    \/ part = "sqlines" /\ Q!Next /\ UNCHANGED <<part, vars, cVars>>
    \/ part = "clones" /\ C!Next /\ UNCHANGED <<part, vars, xVars>>

Symmetry == Permutations({k1, k2})

MCSpec == MCInit /\ [][MCNext]_<<part, vars, xVars, cVars>>

\* The same of SGLINEs and SQLINEs.
LineStep ==
    /\ part = "sglines" => X!NothingStrays /\ (X!Findable => X!OnlyOverExpire)
    /\ part = "sqlines" => Q!NothingStrays /\ (Q!Findable => Q!OnlyOverExpire)

\* What was banned stays banned until its time, services lose track of no ban of
\* the servers, and the timers delete the bans that are over and no others, also
\* those of SGLINEs and SQLINEs, which delete by mask (akill.c:264, node.c:166-411).
BansExact == CoverageKept /\ NoStrayBans /\ ExpireExact /\ [][LineStep]_xVars

\* CLONES counts for each address the clients there are, whoever was killed while
\* being introduced, and with a count it sets a k-line only after a kill within the
\* period (clones.c:858-1000).
ClonesCounted == [](part = "clones" => C!HostsExact) /\ C!GraceGiven
=============================================================================
