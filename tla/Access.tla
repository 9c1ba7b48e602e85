------------------------------- MODULE Access -------------------------------
(***************************************************************************)
(* Who may do what on a registered channel: accounts and groups, the       *)
(* channels' access lists, and everything that changes them                *)
(* (libathemecore/account.c, flags.c, entity.c; modules/chanserv/flags.c,  *)
(* access.c, xop_manager.c, clone.c, set_founder.c and others;             *)
(* modules/groupserv).                                                     *)
(*                                                                         *)
(* An access entry links a channel and an entity by raw pointers and lives *)
(* on the lists of both, so deleting either has to take the entry along,   *)
(* and a channel whose last founder is deleted must go to a successor or   *)
(* be dropped.  Every command opens the entry it works on, creating it     *)
(* with no flags when there is none, and has to close it on every way out. *)
(*                                                                         *)
(* Deleting an entity is a loop over its entries.  It runs to its end      *)
(* before anything else happens; each turn of it is a step here.           *)
(***************************************************************************)
EXTENDS Integers, Sequences, FiniteSets

CONSTANTS
    Accounts,       \* myuser_t, by name
    Groups,         \* mygroup_t, by name
    Channels,       \* mychan_t, by name
    Flags,          \* ca_all, as the letters of the flags
    FounderFlags,   \* custom_founder_check(): what a new channel's founder gets
    Founder0,       \* CA_FOUNDER_0
    Changes,        \* bound: the flag changes asked for, <<added, removed>>
    Roles,          \* names of templates
    DefaultRole,    \* the global templates, {} if a role has none
    RoleLevels,     \* bound: the flags asked for in ROLE ADD and ROLE SET
    maxchans, maxfounders, maxchanacs,
    None

Entities == Accounts \union Groups
Levels == SUBSET Flags

ASSUME AccessAssumption ==
    /\ {"F", "f"} \subseteq FounderFlags /\ FounderFlags \subseteq Flags
    /\ {"F", "f"} \subseteq Founder0 /\ Founder0 \subseteq Flags
    /\ "b" \notin FounderFlags \union Founder0
    /\ Changes \subseteq Levels \X Levels
    /\ DefaultRole \in [Roles -> Levels] /\ RoleLevels \subseteq Levels
    /\ \A r \in Roles : "F" \in DefaultRole[r] => "f" \in DefaultRole[r]
    /\ IsFiniteSet(Entities) /\ Accounts \intersect Groups = {}
    /\ None \notin Entities /\ \A l \in Levels : l # None
    /\ maxchans \in Nat /\ maxfounders \in Nat /\ maxchanacs \in Nat

VARIABLES
    registered,   \* the accounts and groups that exist
    gfounders,    \* the members of each group, all with GA_FOUNDER and GA_CHANACS
    mychans,      \* the registered channels
    acl,          \* the access entry of each entity on each channel: its level, or None
    marks,        \* of each channel: MC_HOLD ("held") and private:close:closer ("closed")
    templates,    \* private:templates of each channel: the roles it defines itself
    transfer,     \* private:verify:founderchg:newfounder of each channel, or None
    gone          \* the entity whose entries are being deleted, or None

groupVars == <<registered, gfounders>>
chanVars == <<mychans, marks, templates, transfer>>
vars == <<groupVars, chanVars, acl, gone>>

-----------------------------------------------------------------------------
(* Flags and entries *)

\* The automatic form of a status flag.
AutoOf == [o |-> "O", h |-> "H", v |-> "V"]
AutoFlags(l) == {AutoOf[x] : x \in l \intersect DOMAIN AutoOf} \intersect Flags
add_auto_flags(l) == l \union AutoFlags(l)

\* What a holder of these flags may set on others, chansvs.no_leveled_flags being off.
allow_flags(theirs) ==
    LET base == (theirs \ {"b", "R", "s"}) \union AutoFlags(theirs)
                \union (IF "r" \in theirs THEN {"b"} \intersect Flags ELSE {})
    IN  IF "s" \in theirs THEN base ELSE base \ {"f"}

Level(mc, e) == IF acl[mc][e] = None THEN {} ELSE acl[mc][e]

\* Members of a group have what the group has.
chanacs_entity_flags(mc, e) ==
    UNION {Level(mc, x) : x \in {e} \union {g \in Groups : e \in gfounders[g]}}

is_founder(mc, e) == "F" \in chanacs_entity_flags(mc, e)

Founders(mc) == {e \in Entities : "F" \in Level(mc, e)}

myentity_can_register_channel(e) ==
    Cardinality({mc \in Channels : "F" \in Level(mc, e)}) < maxchans

\* Called with the entry already created.
chanacs_is_table_full(mc, e) ==
    Cardinality({x \in Entities : acl[mc][x] # None} \union {e}) > maxchanacs

\* What chanacs_modify() makes of a level, and whether it agrees to.
Added(l, add) == add \ l
Removed(l, add, remove) == (remove \intersect l) \ Added(l, add)
Modified(l, add, remove) == (l \union Added(l, add)) \ Removed(l, add, remove)

\* Mutant of chanacs_modify: the privileges of the entry that is changed are not looked at.
ModifyAnyone(l, add, remove, restrict) ==
    Added(l, add) \union Removed(l, add, remove) \subseteq restrict

chanacs_modify(l, add, remove, restrict) ==
    LET d == Added(l, add) \union Removed(l, add, remove)
    IN  d = {} \/ d \union l \subseteq restrict

\* An entry without flags is destroyed.
chanacs_close(l) == IF l = {} THEN None ELSE l

SetEntry(mc, e, entry) == acl' = [acl EXCEPT ![mc][e] = entry]

NoEntries == [e \in Entities |-> None]
NoTemplates == [r \in Roles |-> None]

get_template_flags(mc, r) ==
    IF templates[mc][r] = None THEN DefaultRole[r] ELSE templates[mc][r]

\* +F always comes with +f.
WithFlags(l) == IF "F" \in l THEN l \union {"f"} ELSE l

\* Source and target of a command, when no deletion is under way.
Source(a, mc) == gone = None /\ a \in registered /\ mc \in mychans
Target(mc, t) == gone = None /\ t \in registered /\ mc \in mychans
Open(mc) == "closed" \notin marks[mc]

\* The flags a command of a may touch in the entry of t.
MayTouch(mc, a, t) ==
    LET src == chanacs_entity_flags(mc, a)
    IN  IF "F" \in src THEN Flags
        ELSE allow_flags(src) \union (IF a = t THEN src ELSE {})

\* One more founder is refused.
NoMoreFounders(mc, t, l, add) ==
    /\ "F" \notin l /\ "F" \in add
    /\ Cardinality(Founders(mc)) >= maxfounders \/ ~myentity_can_register_channel(t)

-----------------------------------------------------------------------------
(* Commands on one entry.  A command that is refused still closes the entry *)
(* it opened, except where its code returns without doing so.               *)

\* Mutant of cs_cmd_flags: it does not ask whether this is the last founder.
FlagsAnyFounder(a, mc, t, add0, rem0) ==
    /\ Source(a, mc) /\ Target(mc, t) /\ Open(mc)
    /\ is_founder(mc, a)
    /\ SetEntry(mc, t, chanacs_close(Modified(Level(mc, t), WithFlags(add0), rem0)))
    /\ UNCHANGED <<groupVars, chanVars, gone>>

cs_cmd_flags(a, mc, t, add0, rem0) ==
    LET src == chanacs_entity_flags(mc, a)
        l == Level(mc, t)
        plain == src \intersect {"F", "f"} = {}
        \* permit_self_autoop: holders of a status may make it automatic for themselves
        auto == /\ plain /\ a = t /\ src \intersect DOMAIN AutoOf # {}
                /\ "b" \in src => src \intersect {"e", "r"} # {}
        restrict == IF auto THEN src \union (AutoFlags(l) \intersect (add0 \union rem0))
                    ELSE MayTouch(mc, a, t)
        add == WithFlags(add0)
        rem == IF "F" \in add0 THEN rem0 \ {"f"} ELSE rem0
        refused == \/ NoMoreFounders(mc, t, l, add0)
                   \/ l = {} /\ chanacs_is_table_full(mc, t)
                   \/ ~chanacs_modify(l, add, rem, restrict)
    IN  /\ Source(a, mc) /\ Target(mc, t) /\ Open(mc)
        /\ plain /\ ~auto => a = t /\ "b" \notin src /\ <<add0, rem0>> = <<{}, Flags>>
        /\ ~("F" \in l /\ "f" \in rem0 /\ "F" \notin rem0)
        /\ ~(Founders(mc) = {t} /\ "F" \in rem0)
        /\ SetEntry(mc, t, chanacs_close(IF refused THEN l ELSE Modified(l, add, rem)))
        /\ UNCHANGED <<groupVars, chanVars, gone>>

\* The operators' FLAGS: no limits, but the last founder stays.  Being in a founder
\* group counts as being the founder, and that refusal does not close the entry.
cs_cmd_fflags(mc, t, add0, rem0) ==
    LET l == Level(mc, t)
        add == IF "f" \in rem0 THEN add0 \ {"F"} ELSE WithFlags(add0)
        rem == IF "f" \in rem0 THEN (rem0 \union {"F"}) \intersect Flags ELSE rem0
    IN  /\ Target(mc, t)
        /\ SetEntry(mc, t,
               IF is_founder(mc, t) /\ "F" \in rem /\ Cardinality(Founders(mc)) = 1
               THEN l ELSE chanacs_close(Modified(l, add, rem)))
        /\ UNCHANGED <<groupVars, chanVars, gone>>

\* ADD and SET leave the entry open when the source is itself on the AKICK list, and
\* when the flags are more than it may give.
LeftOpen(mc, a, t, l, new) ==
    \/ a = t /\ "b" \in chanacs_entity_flags(mc, a) /\ ~is_founder(mc, a)
    \/ /\ ~NoMoreFounders(mc, t, l, new)
       /\ ~chanacs_modify(l, new, Flags \ new, MayTouch(mc, a, t))

cs_cmd_access_add(a, mc, t, role) ==
    LET new == get_template_flags(mc, role)
    IN  /\ Source(a, mc) /\ Target(mc, t) /\ Level(mc, t) = {}
        /\ chanacs_entity_flags(mc, a) \intersect {"f"} # {}
        /\ SetEntry(mc, t,
               IF chanacs_is_table_full(mc, t) \/ new = {} THEN None
               ELSE IF LeftOpen(mc, a, t, {}, new) THEN {}
               ELSE IF NoMoreFounders(mc, t, {}, new) THEN None ELSE new)
        /\ UNCHANGED <<groupVars, chanVars, gone>>

cs_cmd_access_set(a, mc, t, role) ==
    LET new == get_template_flags(mc, role)
        l == Level(mc, t)
    IN  /\ Source(a, mc) /\ Target(mc, t)
        /\ chanacs_entity_flags(mc, a) \intersect {"f"} # {}
        /\ SetEntry(mc, t,
               IF (l = {} /\ chanacs_is_table_full(mc, t)) \/ new = {} THEN chanacs_close(l)
               ELSE IF Founders(mc) = {t} /\ "F" \notin new THEN l
               ELSE IF LeftOpen(mc, a, t, l, new) THEN l
               ELSE IF NoMoreFounders(mc, t, l, new) THEN chanacs_close(l) ELSE new)
        /\ UNCHANGED <<groupVars, chanVars, gone>>

\* Everyone may resign, unless on the AKICK list.
cs_cmd_access_del(a, mc, t) ==
    LET src == chanacs_entity_flags(mc, a)
        l == Level(mc, t)
        restrict == IF "F" \in src THEN Flags ELSE IF a = t THEN src ELSE allow_flags(src)
    IN  /\ Source(a, mc) /\ Target(mc, t)
        /\ "f" \in src \/ a = t
        /\ Founders(mc) # {t}
        /\ l = {} \/ ~(a = t /\ "b" \in src /\ "F" \notin src)
        /\ chanacs_modify(l, {}, l, restrict)
        /\ SetEntry(mc, t, None)
        /\ UNCHANGED <<groupVars, chanVars, gone>>

\* SOP, AOP, HOP and VOP: the roles by their old names, never for founders.
cs_xop_add(a, mc, t, role) ==
    LET src == chanacs_entity_flags(mc, a)
        restrict == IF "F" \in src THEN Flags ELSE allow_flags(src)
        level == get_template_flags(mc, role)
        l == Level(mc, t)
    IN  /\ Source(a, mc) /\ Target(mc, t) /\ Open(mc)
        /\ "F" \notin level /\ src \intersect {"F", "f"} # {} /\ level \subseteq restrict
        /\ "F" \notin l
        /\ SetEntry(mc, t,
               IF l = level THEN l
               ELSE IF \/ l = {} /\ chanacs_is_table_full(mc, t)
                       \/ ~chanacs_modify(l, level, Flags \ level, restrict)
               THEN chanacs_close(l) ELSE chanacs_close(level))
        /\ UNCHANGED <<groupVars, chanVars, gone>>

cs_xop_del(a, mc, t, role) ==
    LET src == chanacs_entity_flags(mc, a)
        restrict == IF "F" \in src \/ a = t THEN Flags ELSE allow_flags(src)
        level == get_template_flags(mc, role)
    IN  /\ Source(a, mc) /\ Target(mc, t) /\ Open(mc)
        /\ a = t \/ src \intersect {"F", "f"} # {}
        /\ level \subseteq restrict
        /\ "F" \notin level /\ acl[mc][t] = level
        /\ SetEntry(mc, t, None)
        /\ UNCHANGED <<groupVars, chanVars, gone>>

-----------------------------------------------------------------------------
(* Commands on a whole channel *)

\* Every entry with exactly the old flags follows the role, foundership apart.
update_role_entry(mc, role, old, new) ==
    /\ templates' = [templates EXCEPT ![mc][role] =
                        IF new = {} /\ @ # None THEN None ELSE new]
    /\ acl' = [acl EXCEPT ![mc] = [e \in Entities |->
                  IF /\ new # {} /\ acl[mc][e] = old
                     /\ "F" \in old <=> "F" \in new
                  THEN new ELSE acl[mc][e]]]
    /\ UNCHANGED <<groupVars, mychans, marks, transfer, gone>>

\* What a command of a may put into a role.
RoleRestrict(mc, a) ==
    IF is_founder(mc, a) THEN Flags ELSE allow_flags(chanacs_entity_flags(mc, a))

NewLevel(mc, new) == new # {} /\ \A r \in Roles : get_template_flags(mc, r) # new

\* Mutant of cs_cmd_role_add: +F does not bring +f.
RoleAddBare(a, mc, role, asked) ==
    /\ Source(a, mc) /\ "f" \in chanacs_entity_flags(mc, a)
    /\ get_template_flags(mc, role) = {}
    /\ asked \subseteq RoleRestrict(mc, a)
    /\ NewLevel(mc, asked)
    /\ update_role_entry(mc, role, {}, asked)

cs_cmd_role_add(a, mc, role, asked) ==
    /\ Source(a, mc) /\ "f" \in chanacs_entity_flags(mc, a)
    /\ get_template_flags(mc, role) = {}
    /\ asked \subseteq RoleRestrict(mc, a)
    /\ NewLevel(mc, WithFlags(asked))
    /\ update_role_entry(mc, role, {}, WithFlags(asked))

cs_cmd_role_set(a, mc, role, asked) ==
    LET old == get_template_flags(mc, role)
    IN  /\ Source(a, mc) /\ "f" \in chanacs_entity_flags(mc, a)
        /\ old # {} /\ old \union asked \subseteq RoleRestrict(mc, a)
        /\ "F" \in old <=> "F" \in asked
        /\ NewLevel(mc, WithFlags(asked))
        /\ update_role_entry(mc, role, old, WithFlags(asked))

cs_cmd_role_del(a, mc, role) ==
    LET old == get_template_flags(mc, role)
    IN  /\ Source(a, mc) /\ "f" \in chanacs_entity_flags(mc, a)
        /\ old # {} /\ old \subseteq RoleRestrict(mc, a)
        /\ update_role_entry(mc, role, old, {})

\* Founders stay.
KeepFounders(entries) ==
    [e \in Entities |-> IF entries[e] # None /\ "F" \in entries[e] THEN entries[e] ELSE None]

cs_cmd_clear_flags(a, mc) ==
    /\ Source(a, mc) /\ Open(mc) /\ is_founder(mc, a)
    /\ acl' = [acl EXCEPT ![mc] = KeepFounders(@)]
    /\ UNCHANGED <<groupVars, chanVars, gone>>

\* The target gets the source's entries beside its own founders, and all the metadata
\* and settings except HOLD.  That the source may be looked at (MC_PUBACL or +A) is assumed.
cs_cmd_clone(a, from, to) ==
    /\ Source(a, from) /\ Source(a, to) /\ from # to /\ Open(from) /\ Open(to)
    /\ is_founder(to, a)
    /\ acl' = [acl EXCEPT ![to] = [e \in Entities |->
                  LET kept == IF "F" \in Level(to, e) THEN Level(to, e) ELSE {}
                  IN  chanacs_close(kept \union Level(from, e))]]
    /\ templates' = [templates EXCEPT ![to] =
                        IF templates[from] = NoTemplates THEN @ ELSE templates[from]]
    /\ transfer' = [transfer EXCEPT ![to] =
                        IF transfer[from] = None THEN @ ELSE transfer[from]]
    /\ marks' = [marks EXCEPT ![to] = {}]
    /\ UNCHANGED <<groupVars, mychans, gone>>

\* All founders become ordinary holders of +f, and t the founder.
Transferred(entries, t) ==
    [e \in Entities |->
        LET l == IF entries[e] = None THEN {} ELSE entries[e]
        IN  IF e = t THEN (l \ {"F"}) \union Founder0
            ELSE IF "F" \in l THEN (l \ {"F"}) \union {"f"} ELSE entries[e]]

\* The new founder's entry would not fit.
NoRoom(mc, t) == acl[mc][t] = None /\ chanacs_is_table_full(mc, t)

\* A founder names the new one; naming a founder takes the request back.
set_founder_request(a, mc, t) ==
    /\ Source(a, mc) /\ Target(mc, t) /\ t \in Accounts
    /\ is_founder(mc, a)
    /\ \/ is_founder(mc, t) /\ transfer' = [transfer EXCEPT ![mc] = None]
       \/ /\ ~is_founder(mc, t) /\ ~NoRoom(mc, t)
          /\ transfer' = [transfer EXCEPT ![mc] = t]
    /\ UNCHANGED <<groupVars, mychans, marks, templates, acl, gone>>

\* The one named confirms.
set_founder_complete(a, mc) ==
    /\ Source(a, mc) /\ ~is_founder(mc, a)
    /\ transfer[mc] = a
    /\ ~NoRoom(mc, a) /\ myentity_can_register_channel(a) /\ Open(mc)
    /\ acl' = [acl EXCEPT ![mc] = Transferred(@, a)]
    /\ transfer' = [transfer EXCEPT ![mc] = None]
    /\ UNCHANGED <<groupVars, mychans, marks, templates, gone>>

cs_cmd_ftransfer(mc, t) ==
    /\ Target(mc, t) /\ Founders(mc) # {t}
    /\ acl' = [acl EXCEPT ![mc] = Transferred(@, t)]
    /\ transfer' = [transfer EXCEPT ![mc] = None]
    /\ UNCHANGED <<groupVars, mychans, marks, templates, gone>>

-----------------------------------------------------------------------------
(* Registrations *)

\* Mutant of mychan_delete: the entries are left on the entities' lists.
ForgetChannel(mc) ==
    /\ mychans' = mychans \ {mc}
    /\ marks' = [marks EXCEPT ![mc] = {}]
    /\ templates' = [templates EXCEPT ![mc] = NoTemplates]
    /\ transfer' = [transfer EXCEPT ![mc] = None]
    /\ acl' = acl

mychan_delete(mc) ==
    /\ mychans' = mychans \ {mc}
    /\ marks' = [marks EXCEPT ![mc] = {}]
    /\ templates' = [templates EXCEPT ![mc] = NoTemplates]
    /\ transfer' = [transfer EXCEPT ![mc] = None]
    /\ acl' = [acl EXCEPT ![mc] = NoEntries]

cs_cmd_register(a, mc) ==
    /\ gone = None /\ a \in registered /\ mc \notin mychans
    /\ myentity_can_register_channel(a)
    /\ mychans' = mychans \union {mc}
    /\ SetEntry(mc, a, FounderFlags)
    /\ UNCHANGED <<groupVars, marks, templates, transfer, gone>>

cs_cmd_drop(a, mc) ==
    /\ Source(a, mc) /\ is_founder(mc, a) /\ marks[mc] = {}
    /\ mychan_delete(mc)
    /\ UNCHANGED <<groupVars, gone>>

\* The operators' DROP, and the expiry of an unused channel.
cs_cmd_fdrop(mc) ==
    /\ gone = None /\ mc \in mychans /\ "held" \notin marks[mc]
    /\ mychan_delete(mc)
    /\ UNCHANGED <<groupVars, gone>>

\* HOLD and CLOSE, ON and OFF.
Mark(mc, mark) ==
    /\ gone = None /\ mc \in mychans
    /\ marks' = [marks EXCEPT ![mc] = (@ \union {mark}) \ (@ \intersect {mark})]
    /\ UNCHANGED <<groupVars, mychans, templates, transfer, acl, gone>>

\* A request made before the account was registered is void; one made in the same
\* second (to an earlier account of that name) is not.
ns_cmd_register(a, samesecond) ==
    /\ gone = None /\ a \notin registered
    /\ registered' = registered \union {a}
    /\ transfer' = [mc \in Channels |->
                       IF transfer[mc] = a /\ ~samesecond THEN None ELSE transfer[mc]]
    /\ UNCHANGED <<gfounders, mychans, marks, templates, acl, gone>>

gs_cmd_register(a, g) ==
    /\ gone = None /\ a \in registered /\ g \notin registered
    /\ registered' = registered \union {g}
    /\ gfounders' = [gfounders EXCEPT ![g] = {a}]
    /\ UNCHANGED <<chanVars, acl, gone>>

\* Founders make and unmake founders; the last one stays.
gs_cmd_flags(a, g, t) ==
    /\ gone = None /\ g \in registered /\ a \in gfounders[g] /\ t \in Accounts \intersect registered
    /\ gfounders[g] # {t}
    /\ gfounders' = [gfounders EXCEPT ![g] = (@ \union {t}) \ (@ \intersect {t})]
    /\ UNCHANGED <<registered, chanVars, acl, gone>>

-----------------------------------------------------------------------------
(* Deleting an entity *)

\* What mychan_pick_candidate() may return.  Which of the best it is depends on the
\* order of the list and on who was seen lately; a group is no myuser_t.
mychan_pick_candidate(mc, minlevel) ==
    LET eligible == {e \in Entities : /\ acl[mc][e] # None
                                      /\ Level(mc, e) \intersect {"b", "F"} = {}
                                      /\ minlevel \subseteq Level(mc, e)
                                      /\ myentity_can_register_channel(e)}
        better(x, y) == /\ add_auto_flags(Level(mc, y)) \subseteq add_auto_flags(Level(mc, x))
                        /\ add_auto_flags(Level(mc, y)) # add_auto_flags(Level(mc, x))
        best == {e \in eligible : \A x \in eligible : ~better(x, e)}
    IN  (best \intersect Accounts)
        \union (IF best \subseteq Accounts /\ best # {} THEN {} ELSE {None})

\* +S (successor_acl), +R, +f, +q, +o, anyone.
Ladder == <<{"S"}, {"R"}, {"f"}, {"q", "O"}, {"o"}, {}>>

mychan_pick_successor(mc) ==
    UNION {mychan_pick_candidate(mc, Ladder[i]) \ (IF i < Len(Ladder) THEN {None} ELSE {}) :
              i \in {n \in 1 .. Len(Ladder) :
                        \A j \in 1 .. n - 1 : None \in mychan_pick_candidate(mc, Ladder[j])}}

\* What the successor gets, from an account and from a group.
SuccessorFlags(l) ==
    IF gone \in Accounts THEN (l \union {"F", "f"} \union FounderFlags) \ {"S"}
    ELSE l \union Founder0

\* The start of myuser_delete(): the account leaves its groups first.
myuser_delete(a) ==
    /\ gone = None /\ a \in registered \intersect Accounts
    /\ gfounders' = [g \in Groups |-> gfounders[g] \ {a}]
    /\ gone' = a
    /\ UNCHANGED <<registered, chanVars, acl>>

\* The start of remove_group_chanacs(): for DROP by a founder, FDROP, and the timer
\* that finds the group without founders.
remove_group(g) ==
    /\ gone = None /\ g \in registered \intersect Groups
    /\ gone' = g
    /\ UNCHANGED <<groupVars, chanVars, acl>>

\* One turn of the loop over the entity's entries.
remove_chanacs(mc) ==
    /\ gone # None /\ acl[mc][gone] # None
    /\ \/ /\ Founders(mc) # {gone}
          /\ SetEntry(mc, gone, None)
          /\ UNCHANGED chanVars
       \/ /\ Founders(mc) = {gone}
          /\ \E s \in mychan_pick_successor(mc) \ {None} :
                acl' = [acl EXCEPT ![mc][s] = SuccessorFlags(Level(mc, s)), ![mc][gone] = None]
          /\ UNCHANGED chanVars
       \/ /\ Founders(mc) = {gone} /\ None \in mychan_pick_successor(mc)
          /\ mychan_delete(mc)
    /\ UNCHANGED <<groupVars, gone>>

\* The end: the entity itself goes.
myentity_del ==
    /\ gone # None /\ \A mc \in Channels : acl[mc][gone] = None
    /\ registered' = registered \ {gone}
    /\ gfounders' = [g \in Groups |-> IF g = gone THEN {} ELSE gfounders[g]]
    /\ gone' = None
    /\ UNCHANGED <<chanVars, acl>>

-----------------------------------------------------------------------------
Init ==
    /\ registered = {} /\ gfounders = [g \in Groups |-> {}]
    /\ mychans = {} /\ acl = [mc \in Channels |-> NoEntries]
    /\ marks = [mc \in Channels |-> {}]
    /\ templates = [mc \in Channels |-> NoTemplates]
    /\ transfer = [mc \in Channels |-> None]
    /\ gone = None

\* The commands of account a that set flags in a channel.
AclCommand(a, mc) ==
    \/ \E t \in Entities :
          \/ \E c \in Changes : cs_cmd_flags(a, mc, t, c[1], c[2])
          \/ cs_cmd_access_del(a, mc, t)
          \/ \E role \in Roles : \/ cs_cmd_access_add(a, mc, t, role)
                                 \/ cs_cmd_access_set(a, mc, t, role)
                                 \/ cs_xop_add(a, mc, t, role)
                                 \/ cs_xop_del(a, mc, t, role)
    \/ \E role \in Roles : \/ \E l \in RoleLevels : \/ cs_cmd_role_add(a, mc, role, l)
                                                    \/ cs_cmd_role_set(a, mc, role, l)
                           \/ cs_cmd_role_del(a, mc, role)
    \/ cs_cmd_clear_flags(a, mc)

\* Everything else an account can ask for.
AccountCommand(a) ==
    \/ \E s \in BOOLEAN : ns_cmd_register(a, s)
    \/ \E g \in Groups : \/ gs_cmd_register(a, g)
                         \/ \E t \in Accounts : gs_cmd_flags(a, g, t)
    \/ \E mc \in Channels : \/ cs_cmd_register(a, mc)
                            \/ cs_cmd_drop(a, mc)
                            \/ \E to \in Channels : cs_cmd_clone(a, mc, to)
                            \/ \E t \in Accounts : set_founder_request(a, mc, t)
                            \/ set_founder_complete(a, mc)

\* Operators, DROP of an account or a group, and expiry.
OperCommand ==
    \/ \E mc \in Channels :
          \/ \E t \in Entities : \/ \E c \in Changes : cs_cmd_fflags(mc, t, c[1], c[2])
                                 \/ cs_cmd_ftransfer(mc, t)
          \/ cs_cmd_fdrop(mc)
          \/ \E mark \in {"held", "closed"} : Mark(mc, mark)
    \/ \E a \in Accounts : myuser_delete(a)
    \/ \E g \in Groups : remove_group(g)

Next ==
    \/ \E a \in Accounts : AccountCommand(a) \/ \E mc \in Channels : AclCommand(a, mc)
    \/ OperCommand
    \/ \E mc \in Channels : remove_chanacs(mc)
    \/ myentity_del

Spec == Init /\ [][Next]_vars

-----------------------------------------------------------------------------
(* Properties *)

\* Types.
TypeOK ==
    /\ registered \subseteq Entities /\ gfounders \in [Groups -> SUBSET Accounts]
    /\ mychans \subseteq Channels
    /\ acl \in [Channels -> [Entities -> {None} \union Levels]]
    /\ marks \in [Channels -> SUBSET {"held", "closed"}]
    /\ templates \in [Channels -> [Roles -> {None} \union Levels]]
    /\ transfer \in [Channels -> Accounts \union {None}]
    /\ gone \in Entities \union {None}

\* A registered channel always has a founder that exists: no sequence of commands,
\* deletions, successions, transfers and clonings leaves a channel nobody can manage
\* (the "last founder" guards, and the succession in myuser_delete() and
\* remove_group_chanacs()).
FounderKept == \A mc \in mychans : Founders(mc) # {}

\* Access entries and group memberships point at accounts, groups and channels that
\* exist (the raw pointers of chanacs_t and groupacs_t).
NoDangling ==
    /\ \A mc \in Channels, e \in Entities :
          acl[mc][e] # None => mc \in mychans /\ e \in registered
    /\ \A g \in Groups : gfounders[g] \subseteq registered
    /\ gone # None => gone \in registered

\* "CA_FLAGS is always on if CA_FOUNDER is on", as set_founder.c and ftransfer.c rely on.
FounderHasFlags ==
    \A mc \in Channels, e \in Entities : "F" \in Level(mc, e) => "f" \in Level(mc, e)

\* A registered channel always has a founder, and one who can change the access
\* list.
FoundersManage == FounderKept /\ FounderHasFlags

\* The step changes an entry that holds more than a may give.
Exceeds(a, mc, e) ==
    LET src == chanacs_entity_flags(mc, a)
    IN  /\ Level(mc, e)' # Level(mc, e) /\ "F" \notin src
        /\ ~(Level(mc, e) \union Level(mc, e)' \subseteq
                 allow_flags(src) \union (IF e = a THEN src ELSE {}))

\* A holder of +f who is not a founder never changes an entry that holds, or comes to
\* hold, more than it may give, in its own entry more than it has, by any of the
\* commands that set flags.
WithinOwnAccess ==
    [][\A a \in registered \intersect Accounts, mc \in mychans :
          (\E e \in Entities : Exceeds(a, mc, e)) => ~AclCommand(a, mc)]_vars

\* Foundership passes to somebody with access to the channel ("just a user with
\* access", mychan_pick_successor()).  The code violates it: ACCESS ADD leaves entries
\* without flags behind, and these may be picked.
SuccessorHadAccess ==
    [][\A mc \in Channels, e \in Entities :
          (gone # None /\ "F" \in Level(mc, e)' /\ "F" \notin Level(mc, e)) => Level(mc, e) # {}]_vars

\* A transfer is pending on a channel only because one of its founders asked for it
\* ("the original founder (OF) issues the command", cs_cmd_set_founder()).  The code
\* violates it: CLONE copies a pending transfer with the rest of the metadata.
TransferRequested ==
    [][\A mc \in Channels : (transfer'[mc] # transfer[mc] /\ transfer'[mc] # None) =>
          \E a \in Accounts : is_founder(mc, a) /\ set_founder_request(a, mc, transfer'[mc])]_vars
=============================================================================
