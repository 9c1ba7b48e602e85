------------------------------ MODULE MCModes ------------------------------
(***************************************************************************)
(* Two simple modes, one of them permanent, a limit, two keys and a ban,   *)
(* with locks on and off each of them.                                     *)
(***************************************************************************)
EXTENDS Modes

Lock(on, off, limit, key) == [on |-> on, off |-> off, slot |-> [x \in Slots |-> limit], key |-> key]

MCOurs == {Simple({}, {"i"}), Simple({"P"}, {}), Simple({}, {"P"}),
           Key("k1"), List(TRUE, "ban"), List(FALSE, "ban")}
MCTheirs == {Simple({"i"}, {}), Simple({}, {"i"}), Simple({"P"}, {}),
             Key("k2"), Key(None), Slot("l", 5)}

MCLocks == {Lock({"i"}, {}, None, "k1"), Lock({}, {"P"}, Off, None)}

=============================================================================
