------------------------------- MODULE Groups -------------------------------
(***************************************************************************)
(* GroupServ: groups of accounts and of groups, their access lists, the    *)
(* invitations to them and their flag templates (modules/groupserv).       *)
(*                                                                         *)
(* A group is a block of mygroup_heap: mygroup_delete() clears the list of *)
(* the group and leaves the entries it has itself in other groups, which   *)
(* then mean whatever group is put into the block next.                    *)
(*                                                                         *)
(* Left out: what only refuses a command (NEVERGROUP, NEVEROP, closed      *)
(* groups, the length of the templates); the flags and settings that       *)
(* GroupServ only shows (m, v; SET PUBLIC, DESCRIPTION, URL, EMAIL and     *)
(* CHANNEL); the channels of a group that is dropped, and their successors *)
(* (module Access); the virtual hosts of templates (module Hosts).         *)
(***************************************************************************)
EXTENDS Integers, Sequences, FiniteSets, Lists

CONSTANTS
    Accts,      \* accounts
    Groups,     \* blocks of mygroup_heap
    GNames,     \* names of groups: numbers, in the order of the database
    Flags,      \* "F" (founder), "f", "s", "i", "b", "A": those that are told apart
    Settings,   \* which of "open", "pubacl" and "acsnolimit" are told apart
    TNames,     \* names of templates
    MaxGroups,  \* maxgroups
    MaxAcs,     \* maxgroupacs
    None

\* What the constants are.
GroupsAssumption ==
    /\ None \notin Accts \union Groups \union GNames /\ GNames \subseteq Nat
    /\ Accts \intersect Groups = {} /\ "F" \in Flags
    /\ MaxGroups \in Nat /\ MaxAcs \in Nat

VARIABLES
    exist,   \* the accounts there are
    name,    \* entity(mg)->name
    acs,     \* mg->acs
    set,     \* mg->flags, and the metadata joinflags
    tmpl,    \* private:templates; no flags, no template
    invite,  \* private:groupinvite of an account: the name of a group
    freed    \* an entry was freed that is still in the list of a group

vars == <<exist, name, acs, set, tmpl, invite, freed>>

Entry == [mt : Accts \union Groups, flags : SUBSET Flags]
NoSettings == [on |-> {}, join |-> {}]

TypeOK ==
    /\ exist \subseteq Accts /\ name \in [Groups -> GNames \union {None}]
    /\ acs \in [Groups -> Seq(Entry)] /\ freed \in BOOLEAN
    /\ set \in [Groups -> [on : SUBSET Settings, join : SUBSET Flags]]
    /\ tmpl \in [Groups -> [TNames -> SUBSET Flags]]
    /\ invite \in [Accts -> GNames \union {None}]

Init ==
    /\ exist = Accts /\ name = [g \in Groups |-> None] /\ acs = [g \in Groups |-> <<>>]
    /\ set = [g \in Groups |-> NoSettings] /\ tmpl = [g \in Groups |-> [t \in TNames |-> {}]]
    /\ invite = [a \in Accts |-> None] /\ freed = FALSE

Alive == {g \in Groups : name[g] # None}
All == Flags \ {"F", "b"}

-----------------------------------------------------------------------------
(* The access list (main/groupserv.c) *)

\* The positions of the entries that groupacs_find() may return, with recursion
\* into member groups that are not being searched: what counts in a member group
\* are the flags the account has there.
groupacs_find(g, a, fl) ==
    LET hits(e) == e.mt = a /\ (fl = {} \/ e.flags \intersect fl # {})
        found[p \in Groups \X SUBSET Groups] ==
            \E i \in DOMAIN acs[p[1]] :
                LET e == acs[p[1]][i]
                    seen == p[2] \union {p[1]}
                IN  IF e.mt \in Groups \ seen THEN found[<<e.mt, seen>>] ELSE hits(e)
    IN  {i \in DOMAIN acs[g] :
            IF acs[g][i].mt \in Groups \ {g} THEN found[<<acs[g][i].mt, {g}>>] ELSE hits(acs[g][i])}

groupacs_sourceinfo_has_flag(g, a, f) == groupacs_find(g, a, {f}) # {}

\* The flags of the first entry by which the account is in the group.
groupacs_sourceinfo_flags(g, a) ==
    LET is == groupacs_find(g, a, {}) IN
    IF is = {} THEN {} ELSE acs[g][CHOOSE i \in is : \A j \in is : i <= j].flags

\* The entry of m itself.
Own(g, m) == {i \in DOMAIN acs[g] : acs[g][i].mt = m}
Old(g, m) == UNION {acs[g][i].flags : i \in Own(g, m)}

Founders(g) == {acs[g][i].mt : i \in {j \in DOMAIN acs[g] : "F" \in acs[g][j].flags}}

\* groupacs_add(), groupacs_delete() and the assignment of FLAGS.
Changed(g, m, fl) ==
    IF Own(g, m) = {} THEN Append(acs[g], [mt |-> m, flags |-> fl])
    ELSE IF fl = {} THEN Selected(acs[g], DOMAIN acs[g] \ Own(g, m))
    ELSE [i \in DOMAIN acs[g] |-> IF i \in Own(g, m) THEN [acs[g][i] EXCEPT !.flags = fl] ELSE acs[g][i]]

Full(g) == Len(acs[g]) > MaxAcs /\ "acsnolimit" \notin set[g].on

\* How FLAGS and FFLAGS end: the entry is changed, removed or added.
SetFlags(g, m, fl) ==
    /\ fl # Old(g, m) \/ (fl = {} /\ Own(g, m) # {})
    /\ Own(g, m) = {} => ~Full(g)
    /\ acs' = [acs EXCEPT ![g] = Changed(g, m, fl)]
    /\ UNCHANGED <<exist, name, set, tmpl, invite, freed>>

-----------------------------------------------------------------------------
(* FLAGS and FFLAGS *)

\* Mutant of KeepsFounder: the number of founders is not looked at.
AnyFounder(g, a, m, fl) == "F" \in Old(g, m) \ fl => groupacs_sourceinfo_has_flag(g, a, "F")

\* The last founder stays, and only founders remove founders.
KeepsFounder(g, a, m, fl) ==
    "F" \in Old(g, m) \ fl =>
        /\ Cardinality(Founders(g)) # 1
        /\ groupacs_sourceinfo_has_flag(g, a, "F")

\* Changes of f and s need s and F (no_leveled_flags is not set).
Leveled(g, a, m, fl) ==
    LET mine == groupacs_sourceinfo_flags(g, a) IN
    /\ "f" \in Old(g, m) \union fl => mine \intersect {"s", "F"} # {}
    /\ "s" \in Old(g, m) \union fl => "F" \in mine

\* FLAGS by a of the entry of m; star is the change "-*".  A founder who is
\* added by someone else is not made founder, and nothing more is checked.
gs_cmd_flags(a, g, m, fl, star) ==
    LET old == Old(g, m)
        founder == "F" \in groupacs_sourceinfo_flags(g, a)
        manages == groupacs_sourceinfo_has_flag(g, a, "f")
        leaves == star /\ m = a
        full == IF "F" \in fl \ old THEN fl \union ({"f"} \intersect Flags) ELSE fl
    IN  /\ star => fl = {}
        /\ "pubacl" \in set[g].on => groupacs_sourceinfo_has_flag(g, a, "A")
        /\ manages \/ leaves
        /\ ~(leaves /\ ~manages /\ "b" \in old)
        /\ IF "F" \in fl \ old /\ ~founder THEN SetFlags(g, m, fl \ {"F"})
           ELSE /\ "F" \in old \ fl => founder
                /\ ~(leaves /\ Own(g, m) # {}) => Leveled(g, a, m, full)
                /\ KeepsFounder(g, a, m, full)
                /\ SetFlags(g, m, full)

\* FFLAGS by an operator.
gs_cmd_fflags(a, g, m, fl) == KeepsFounder(g, a, m, fl) /\ SetFlags(g, m, fl)

-----------------------------------------------------------------------------
(* Groups come and go *)

gs_cmd_register(a, g, n) ==
    /\ g \notin Alive /\ \A h \in Alive : name[h] # n
    /\ Cardinality({h \in Alive : a \in Founders(h)}) <= MaxGroups
    /\ name' = [name EXCEPT ![g] = n]
    /\ acs' = [acs EXCEPT ![g] = <<[mt |-> a, flags |-> All \union {"F"}]>>]
    /\ UNCHANGED <<exist, set, tmpl, invite, freed>>

\* mygroup_delete() of each of gs.
mygroup_delete(gs) ==
    /\ name' = [g \in Groups |-> IF g \in gs THEN None ELSE name[g]]
    /\ acs' = [g \in Groups |-> IF g \in gs THEN <<>> ELSE acs[g]]
    /\ set' = [g \in Groups |-> IF g \in gs THEN NoSettings ELSE set[g]]
    /\ tmpl' = [g \in Groups |-> IF g \in gs THEN [t \in TNames |-> {}] ELSE tmpl[g]]
    /\ UNCHANGED <<exist, invite, freed>>

gs_cmd_drop(a, g) == groupacs_sourceinfo_has_flag(g, a, "F") /\ mygroup_delete({g})
gs_cmd_fdrop(g) == mygroup_delete({g})

\* Mutant of mygroup_expire: groups without any entry are removed.
ExpireEmpty ==
    /\ \E g \in Alive : acs[g] = <<>>
    /\ mygroup_delete({g \in Alive : acs[g] = <<>>})

\* The hourly timer removes the groups without a founder.
mygroup_expire ==
    /\ \E g \in Alive : Founders(g) = {}
    /\ mygroup_delete({g \in Alive : Founders(g) = {}})

gs_cmd_set_groupname(a, g, n) ==
    /\ groupacs_sourceinfo_has_flag(g, a, "F") /\ \A h \in Alive : name[h] # n
    /\ name' = [name EXCEPT ![g] = n]
    /\ UNCHANGED <<exist, acs, set, tmpl, invite, freed>>

-----------------------------------------------------------------------------
(* Members come and go *)

gs_cmd_join(a, g) ==
    LET invited == invite[a] = name[g] IN
    /\ "open" \in set[g].on \/ invited
    /\ ~groupacs_sourceinfo_has_flag(g, a, "b") /\ groupacs_find(g, a, {}) = {}
    /\ Full(g) => invited
    /\ acs' = [acs EXCEPT ![g] = Append(@, [mt |-> a, flags |-> set[g].join])]
    /\ invite' = IF invited THEN [invite EXCEPT ![a] = None] ELSE invite
    /\ UNCHANGED <<exist, name, set, tmpl, freed>>

gs_cmd_invite(a, g, b) ==
    /\ groupacs_sourceinfo_has_flag(g, a, "i") /\ Own(g, b) = {} /\ invite[b] = None
    /\ invite' = [invite EXCEPT ![b] = name[g]]
    /\ UNCHANGED <<exist, name, acs, set, tmpl, freed>>

\* Mutant of myuser_delete_hook: the groups are not told.
KeepEntries(a) == UNCHANGED acs

\* The account leaves all its groups before it goes.
myuser_delete_hook(a) == acs' = [g \in Groups |-> Selected(acs[g], DOMAIN acs[g] \ Own(g, a))]
AccountDeleted(a) ==
    /\ exist' = exist \ {a} /\ invite' = [invite EXCEPT ![a] = None]
    /\ myuser_delete_hook(a)
    /\ UNCHANGED <<name, set, tmpl, freed>>
AccountRegistered(a) ==
    /\ a \notin exist /\ exist' = exist \union {a}
    /\ UNCHANGED <<name, acs, set, tmpl, invite, freed>>

-----------------------------------------------------------------------------
(* Settings and templates *)

Toggle(g, s) ==
    /\ s \in Settings
    /\ set' = [set EXCEPT ![g].on = IF s \in @ THEN @ \ {s} ELSE @ \union {s}]
    /\ UNCHANGED <<exist, name, acs, tmpl, invite, freed>>

gs_cmd_set_open(a, g) == groupacs_sourceinfo_has_flag(g, a, "F") /\ Toggle(g, "open")
gs_cmd_set_pubacl(a, g) ==
    (\E f \in {"F", "s"} : groupacs_sourceinfo_has_flag(g, a, f)) /\ Toggle(g, "pubacl")
gs_cmd_acsnolimit(g) == Toggle(g, "acsnolimit")

\* Any flags, also F.  OFF returns to the default, no flags.
gs_cmd_set_joinflags(a, g, fl) ==
    /\ groupacs_sourceinfo_has_flag(g, a, "s") /\ fl # set[g].join
    /\ set' = [set EXCEPT ![g].join = fl]
    /\ UNCHANGED <<exist, name, acs, tmpl, invite, freed>>

\* The flags of templates someone who is no founder may touch.
allow_gflags(fl) ==
    LET low == IF "s" \notin fl THEN fl \ {"b", "f"} ELSE fl \ {"b"} IN low \ {"s"}

\* Whether the template t may get the flags fl from a: no flag changes, or is
\* there, that a may not touch, and no other template has these flags.
TemplateAllowed(g, a, t, fl) ==
    LET mine == groupacs_sourceinfo_flags(g, a)
        may == IF "F" \in mine THEN Flags \ {"F"} ELSE allow_gflags(mine)
    IN  /\ fl \union tmpl[g][t] \subseteq may
        /\ fl # {} => \A s \in TNames : tmpl[g][s] # fl

\* The entries with the flags a template had: those without flags, if it is new.
Followers(g, old) == {i \in DOMAIN acs[g] : acs[g][i].flags = old}

\* TEMPLATE changes the flags of a template to fl; if all is set, the entries
\* that had them are changed too, and those that are left without flags are
\* freed and stay in the list.
gs_cmd_template(a, g, t, fl, all) ==
    LET old == tmpl[g][t]
        had == IF all THEN Followers(g, old) ELSE {}
    IN  /\ groupacs_sourceinfo_flags(g, a) \intersect {"F", "f"} # {}
        /\ fl # old /\ "F" \notin fl /\ "b" \notin fl \ old
        /\ TemplateAllowed(g, a, t, fl)
        /\ tmpl' = [tmpl EXCEPT ![g][t] = fl]
        /\ acs' = [acs EXCEPT ![g] =
               [i \in DOMAIN @ |-> IF i \in had THEN [@[i] EXCEPT !.flags = fl] ELSE @[i]]]
        /\ freed' = (fl = {} /\ had # {})
        /\ UNCHANGED <<exist, name, set, invite>>

\* Services start again.  The list of a group is read right after the group: an
\* entry of a group that comes later in the database is lost.
Restart ==
    /\ acs' = [g \in Groups |-> Selected(acs[g], {i \in DOMAIN acs[g] :
            LET m == acs[g][i].mt IN m \in Groups => name[m] # None /\ name[m] <= name[g]})]
    /\ UNCHANGED <<exist, name, set, tmpl, invite, freed>>

Next ==
    /\ ~freed
    /\ \/ \E a \in exist, g \in Alive :
            \/ \E m \in exist \union Alive, fl \in SUBSET Flags :
                 \/ \E star \in BOOLEAN : gs_cmd_flags(a, g, m, fl, star)
                 \/ gs_cmd_fflags(a, g, m, fl)
            \/ gs_cmd_drop(a, g) \/ gs_cmd_join(a, g)
            \/ gs_cmd_set_open(a, g) \/ gs_cmd_set_pubacl(a, g)
            \/ \E n \in GNames : gs_cmd_set_groupname(a, g, n)
            \/ \E b \in exist : gs_cmd_invite(a, g, b)
            \/ \E fl \in SUBSET Flags :
                 \/ gs_cmd_set_joinflags(a, g, fl)
                 \/ \E t \in TNames, all \in BOOLEAN : gs_cmd_template(a, g, t, fl, all)
       \/ \E a \in exist, g \in Groups, n \in GNames : gs_cmd_register(a, g, n)
       \/ \E g \in Alive : gs_cmd_fdrop(g) \/ gs_cmd_acsnolimit(g)
       \/ \E a \in Accts : (a \in exist /\ AccountDeleted(a)) \/ AccountRegistered(a)
       \/ mygroup_expire
       \/ Restart

Spec == Init /\ [][Next]_vars

\* The expiry is a timer.
Fairness == WF_vars(~freed /\ mygroup_expire)

-----------------------------------------------------------------------------

\* Every account in a list exists and is there once: groupacs_find() follows the
\* pointers, and FLAGS changes only the first entry.
MembersExist ==
    \A g \in Groups :
        /\ \A i \in DOMAIN acs[g] : acs[g][i].mt \in Accts => acs[g][i].mt \in exist
        /\ \A i, j \in DOMAIN acs[g] : acs[g][i].mt = acs[g][j].mt => i = j

\* A group loses its last founder only with the founder's account, or when the
\* founder is a group that a restart has not found: by no FLAGS, FFLAGS, TEMPLATE
\* or JOIN of any member in any order.
LastFounderStays ==
    \A g \in Alive :
        Founders(g) # {} /\ name'[g] # None =>
            \/ Founders(g)' # {}
            \/ Founders(g) \subseteq (exist \ exist') \union Groups

\* A group without a founder is removed in the end, unless it gets one again.
FounderlessEnd == \A g \in Groups : g \in Alive /\ Founders(g) = {} ~> g \notin Alive \/ Founders(g) # {} \/ freed

\* Lists hold existing accounts, founders stay, and groups do not outlive them.
GroupsKept == []MembersExist /\ [][LastFounderStays]_vars /\ FounderlessEnd

\* What the code does not keep: a group in the list of another one exists ...
MemberGroupsExist == \A g \in Alive : \A i \in DOMAIN acs[g] : acs[g][i].mt \in Groups => acs[g][i].mt \in Alive

\* ... no entry of a list is freed ("making a template empty deletes it", says
\* help/default/groupserv/template:19) ...
NothingFreed == ~freed

\* ... and a restart changes no list.
ListsReloaded == [][Restart => UNCHANGED acs]_vars
=============================================================================
