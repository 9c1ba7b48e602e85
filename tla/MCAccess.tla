------------------------------ MODULE MCAccess ------------------------------
(***************************************************************************)
(* Accounts and what they may do and are sent: access to channels, and     *)
(* memos.  The parts share no state, so interleaving them would add no     *)
(* behaviour of either: which of them moves is chosen once.                *)
(*                                                                         *)
(* Access: two accounts, a group and two channels, with three entries in   *)
(* all lists.  Memos: two accounts, with both limits and the limit of      *)
(* ignores reached.                                                        *)
(***************************************************************************)
EXTENDS Access, TLC

CONSTANTS a1, a2, g1, c1, c2, MS

MCAccounts == {a1, a2}
MCGroups == {g1}
MCChannels == {c1, c2}
MCFlags == {"F", "f", "v"}
MCFounder == {"F", "f"}
\* +F, -F, +f, +v, -*
MCChanges == {<<{"F"}, {}>>, <<{}, {"F"}>>, <<{"f"}, {}>>, <<{"v"}, {}>>, <<{}, MCFlags>>}
MCRoles == {"AOP"}
MCDefaultRole == [r \in MCRoles |-> {"v"}]
MCRoleLevels == {{"f", "v"}, {"F"}}

\* Bounds: access entries in all channels, and requests, marks and roles beside them.
MaxEntries == 3
MaxExtras == 1
Small ==
    LET extras == {<<mc, m>> \in Channels \X {"held", "closed"} : m \in marks[mc]}
                  \union {<<mc, r>> \in Channels \X Roles : templates[mc][r] # None}
                  \union {<<mc, t>> \in Channels \X Accounts : transfer[mc] = t}
        entries == {<<mc, e>> \in Channels \X Entities : acl[mc][e] # None}
    IN  Cardinality(entries) <= MaxEntries /\ Cardinality(extras) <= MaxExtras

Symmetry == Permutations(MCAccounts) \union Permutations(MCChannels)

VARIABLES part, exist, memos, new, ignores, nomemo

mVars == <<exist, memos, new, ignores, nomemo>>

M == INSTANCE Memos WITH Users <- {a1, a2}, MaxMemos <- 2, MdLimit <- 2, MaxIgnores <- 1, ReadAtOnce <- 2

ASSUME M!MemosAssumption

MCInit == part \in {"access", "memos"} /\ Init /\ M!Init

MCNext ==
    \/ part = "access" /\ Next /\ UNCHANGED <<part, mVars>>
    \/ part = "memos" /\ M!Next /\ UNCHANGED <<part, vars>>

MCSpec == MCInit /\ [][MCNext]_<<part, vars, mVars>>

\* The count of unread memos is right, and no memo reaches an account that ignores
\* its sender or takes none (memoserv/forward.c:130, read.c:95, delete.c:108).
MemosKept ==
    /\ [](part = "memos" => M!UnreadCounted)
    /\ [][part = "memos" => ~M!Unwanted]_mVars
=============================================================================
