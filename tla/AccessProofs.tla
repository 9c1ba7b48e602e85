---------------------------- MODULE AccessProofs ----------------------------
(***************************************************************************)
(* Theorems about Access, for any accounts, groups, channels, flags and    *)
(* templates.                                                              *)
(*                                                                         *)
(* That a channel keeps a founder who can manage it needs, beside the      *)
(* entries, that templates with +F have +f (ACCESS ADD copies them), that  *)
(* entries are only those of entities that exist (the successor of a       *)
(* founder is picked from them) and that an account has left its groups    *)
(* before it goes.                                                         *)
(***************************************************************************)
EXTENDS Access, FiniteSetTheorems, TLAPS

\* The flags of an entry, or of none.
LevelOf(x) == IF x = None THEN {} ELSE x

\* The entries of a channel that exists: one is a founder's, founders can change the
\* list, and all are of entities that exist.
GoodEntries(entries) ==
    /\ entries \in [Entities -> {None} \union Levels]
    /\ \E e \in Entities : "F" \in LevelOf(entries[e])
    /\ \A e \in Entities : "F" \in LevelOf(entries[e]) => "f" \in LevelOf(entries[e])
    /\ \A e \in Entities : entries[e] # None => e \in registered

EntriesSound == \A mc \in mychans : GoodEntries(acl[mc])

\* A channel that does not exist has no entries.
NoneLeft == \A mc \in Channels \ mychans : acl[mc] = NoEntries

\* "CA_FLAGS is always on if CA_FOUNDER is on", in templates too.
TemplatesSound ==
    \A mc \in Channels, r \in Roles :
        "F" \in LevelOf(templates[mc][r]) => "f" \in LevelOf(templates[mc][r])

\* Groups consist of accounts that exist, and whoever is being deleted has left them.
GroupsSound ==
    /\ \A g \in Groups : gfounders[g] \subseteq registered
    /\ gone # None => gone \in registered /\ \A g \in Groups : gone \notin gfounders[g]

Inv == TypeOK /\ EntriesSound /\ NoneLeft /\ TemplatesSound /\ GroupsSound

-----------------------------------------------------------------------------
(* Steps on entries *)

\* What the assumptions and the types say of flags.
LEMMA FlagFacts ==
    /\ "F" \in Flags /\ "f" \in Flags /\ {} \in Levels /\ Flags \in Levels
    /\ \A l \in Levels : LevelOf(l) = l /\ l # None
    /\ LevelOf(None) = {}
    /\ FounderFlags \in Levels /\ Founder0 \in Levels
    /\ Accounts \subseteq Entities /\ Groups \subseteq Entities /\ None \notin Entities
  BY AccessAssumption DEF Levels, LevelOf, Entities

\* Level of an entry.
LEMMA LevelType ==
    ASSUME TypeOK, NEW mc \in Channels, NEW e \in Entities
    PROVE  Level(mc, e) = LevelOf(acl[mc][e]) /\ Level(mc, e) \in Levels
  BY FlagFacts DEF TypeOK, Level, LevelOf, Levels

\* A command that writes one channel's entries, and perhaps its templates, request
\* and marks.
LEMMA EntriesStep ==
    ASSUME Inv, NEW mc \in mychans, NEW entries, GoodEntries(entries),
           acl' = [acl EXCEPT ![mc] = entries], UNCHANGED <<groupVars, mychans, gone>>,
           templates' \in [Channels -> [Roles -> {None} \union Levels]], TemplatesSound',
           transfer' \in [Channels -> Accounts \union {None}],
           marks' \in [Channels -> SUBSET {"held", "closed"}]
    PROVE  Inv'
  <1>1. mc \in Channels /\ mychans \subseteq Channels
    BY DEF Inv, TypeOK
  <1>2. \A c \in Channels : acl'[c] = IF c = mc THEN entries ELSE acl[c]
    BY <1>1 DEF Inv, TypeOK
  <1>3. TypeOK'
    BY <1>1, <1>2 DEF Inv, TypeOK, GoodEntries, groupVars
  <1>4. EntriesSound' /\ NoneLeft'
    BY <1>1, <1>2 DEF Inv, EntriesSound, NoneLeft, GoodEntries, groupVars
  <1>5. GroupsSound'
    BY DEF Inv, GroupsSound, groupVars
  <1> QED BY <1>3, <1>4, <1>5 DEF Inv

\* One entry of a channel is replaced: the last founder's only by another founder's.
LEMMA EntryGood ==
    ASSUME Inv, NEW mc \in mychans, NEW t \in registered, NEW x \in {None} \union Levels,
           "F" \in LevelOf(x) => "f" \in LevelOf(x),
           Founders(mc) = {t} => "F" \in LevelOf(x)
    PROVE  GoodEntries([acl[mc] EXCEPT ![t] = x])
  <1> DEFINE new == [acl[mc] EXCEPT ![t] = x]
  <1>1. mc \in Channels /\ t \in Entities /\ GoodEntries(acl[mc])
    BY DEF Inv, TypeOK, EntriesSound
  <1>2. new \in [Entities -> {None} \union Levels] /\ \A e \in Entities : new[e] = IF e = t THEN x ELSE acl[mc][e]
    BY <1>1 DEF GoodEntries
  <1> HIDE DEF new
  <1>3. \E e \in Entities : "F" \in LevelOf(new[e])
    <2>1. \A e \in Entities : e \in Founders(mc) <=> "F" \in LevelOf(acl[mc][e])
      BY <1>1, LevelType DEF Inv, Founders
    <2>2. CASE Founders(mc) = {t}
      BY <1>1, <1>2, <2>2
    <2>3. CASE Founders(mc) # {t}
      <3>1. Founders(mc) # {} /\ Founders(mc) \subseteq Entities
        BY <1>1, <2>1 DEF GoodEntries, Founders
      <3>2. PICK e \in Founders(mc) : e # t
        BY <2>3, <3>1
      <3> QED BY <1>2, <2>1, <3>1, <3>2
    <2> QED BY <2>2, <2>3
  <1>4. \A e \in Entities : "F" \in LevelOf(new[e]) => "f" \in LevelOf(new[e])
    BY <1>1, <1>2 DEF GoodEntries
  <1>5. \A e \in Entities : new[e] # None => e \in registered
    BY <1>1, <1>2 DEF GoodEntries
  <1> QED BY <1>2, <1>3, <1>4, <1>5 DEF GoodEntries, new

LEMMA EntryStep ==
    ASSUME Inv, NEW mc \in mychans, NEW t \in registered, NEW x \in {None} \union Levels,
           "F" \in LevelOf(x) => "f" \in LevelOf(x),
           Founders(mc) = {t} => "F" \in LevelOf(x),
           SetEntry(mc, t, x), UNCHANGED <<groupVars, chanVars, gone>>
    PROVE  Inv'
  <1>1. GoodEntries([acl[mc] EXCEPT ![t] = x])
    BY EntryGood
  <1>2. acl' = [acl EXCEPT ![mc] = [acl[mc] EXCEPT ![t] = x]]
    BY DEF SetEntry
  <1>3. /\ templates' \in [Channels -> [Roles -> {None} \union Levels]] /\ TemplatesSound'
        /\ transfer' \in [Channels -> Accounts \union {None}]
        /\ marks' \in [Channels -> SUBSET {"held", "closed"}]
        /\ UNCHANGED <<groupVars, mychans, gone>>
    BY DEF Inv, TypeOK, TemplatesSound, chanVars
  <1> QED BY <1>1, <1>2, <1>3, EntriesStep

\* The level of an entry that exists: +F has +f, and the only founder has +F.
LEMMA EntryFacts ==
    ASSUME Inv, NEW mc \in mychans, NEW t \in Entities
    PROVE  /\ Level(mc, t) \in Levels /\ mc \in Channels
           /\ "F" \in Level(mc, t) => "f" \in Level(mc, t)
           /\ Founders(mc) = {t} => "F" \in Level(mc, t)
  <1>1. mc \in Channels /\ GoodEntries(acl[mc])
    BY DEF Inv, TypeOK, EntriesSound
  <1>2. Level(mc, t) = LevelOf(acl[mc][t]) /\ Level(mc, t) \in Levels
    BY <1>1, LevelType DEF Inv
  <1> QED BY <1>1, <1>2 DEF GoodEntries, Founders

\* chanacs_close() leaves the flags what they are.
LEMMA CloseFacts ==
    ASSUME NEW l \in Levels
    PROVE  chanacs_close(l) \in {None} \union Levels /\ LevelOf(chanacs_close(l)) = l
  BY FlagFacts DEF chanacs_close, LevelOf

\* The flags of a role: +F has +f.
LEMMA RoleFacts ==
    ASSUME Inv, NEW mc \in Channels, NEW r \in Roles
    PROVE  /\ get_template_flags(mc, r) \in Levels
           /\ "F" \in get_template_flags(mc, r) => "f" \in get_template_flags(mc, r)
  BY FlagFacts, AccessAssumption DEF Inv, TypeOK, TemplatesSound, get_template_flags, LevelOf

\* FLAGS.
LEMMA FlagsKeeps ==
    ASSUME Inv, NEW a, NEW mc \in Channels, NEW t \in Entities, NEW c \in Changes,
           cs_cmd_flags(a, mc, t, c[1], c[2])
    PROVE  Inv'
  <1> DEFINE l == Level(mc, t)
             add0 == c[1]
             rem0 == c[2]
             add == WithFlags(add0)
             rem == IF "F" \in add0 THEN rem0 \ {"f"} ELSE rem0
             m == Modified(l, add, rem)
  <1>1. mc \in mychans /\ t \in registered
    BY DEF cs_cmd_flags, Target
  <1>2. l \in Levels /\ ("F" \in l => "f" \in l) /\ (Founders(mc) = {t} => "F" \in l)
    BY <1>1, EntryFacts
  <1>3. add0 \in Levels /\ rem0 \in Levels
    BY AccessAssumption
  <1>4. ~("F" \in l /\ "f" \in rem0 /\ "F" \notin rem0) /\ ~(Founders(mc) = {t} /\ "F" \in rem0)
    BY DEF cs_cmd_flags
  <1>5. (SetEntry(mc, t, chanacs_close(l)) \/ SetEntry(mc, t, chanacs_close(m)))
        /\ UNCHANGED <<groupVars, chanVars, gone>>
    BY DEF cs_cmd_flags
  <1> HIDE DEF l, add0, rem0
  <1>6. m \in Levels /\ ("F" \in m => "f" \in m) /\ (Founders(mc) = {t} => "F" \in m)
    BY <1>2, <1>3, <1>4, FlagFacts DEF Modified, Added, Removed, WithFlags, Levels
  <1> HIDE DEF m
  <1> QED BY <1>1, <1>2, <1>5, <1>6, CloseFacts, EntryStep

\* FFLAGS.
LEMMA FflagsKeeps ==
    ASSUME Inv, NEW mc \in Channels, NEW t \in Entities, NEW c \in Changes,
           cs_cmd_fflags(mc, t, c[1], c[2])
    PROVE  Inv'
  <1> DEFINE l == Level(mc, t)
             add0 == c[1]
             rem0 == c[2]
             add == IF "f" \in rem0 THEN add0 \ {"F"} ELSE WithFlags(add0)
             rem == IF "f" \in rem0 THEN (rem0 \union {"F"}) \intersect Flags ELSE rem0
             m == Modified(l, add, rem)
             last == is_founder(mc, t) /\ "F" \in rem /\ Cardinality(Founders(mc)) = 1
  <1>1. mc \in mychans /\ t \in registered
    BY DEF cs_cmd_fflags, Target
  <1>2. l \in Levels /\ ("F" \in l => "f" \in l) /\ (Founders(mc) = {t} => "F" \in l)
    BY <1>1, EntryFacts
  <1>3. add0 \in Levels /\ rem0 \in Levels
    BY AccessAssumption
  <1>4. SetEntry(mc, t, IF last THEN l ELSE chanacs_close(m)) /\ UNCHANGED <<groupVars, chanVars, gone>>
    BY DEF cs_cmd_fflags
  <1>5. Founders(mc) = {t} /\ "F" \in rem => last
    <2>1. "F" \in l => is_founder(mc, t)
      BY DEF is_founder, chanacs_entity_flags
    <2> QED BY <1>2, <2>1, FS_Singleton
  <1> HIDE DEF l, add0, rem0, last
  <1>6. m \in Levels /\ ("F" \in m => "f" \in m) /\ (Founders(mc) = {t} /\ ~last => "F" \in m)
    BY <1>2, <1>3, <1>5, FlagFacts DEF Modified, Added, Removed, WithFlags, Levels
  <1> HIDE DEF m
  <1>7. CASE last
    BY <1>1, <1>2, <1>4, <1>7, FlagFacts, EntryStep
  <1>8. CASE ~last
    BY <1>1, <1>4, <1>6, <1>8, CloseFacts, EntryStep
  <1> QED BY <1>7, <1>8

\* ACCESS ADD, SET and DEL.
LEMMA AccessAddKeeps ==
    ASSUME Inv, NEW a, NEW mc \in Channels, NEW t \in Entities, NEW role \in Roles,
           cs_cmd_access_add(a, mc, t, role)
    PROVE  Inv'
  <1> DEFINE new == get_template_flags(mc, role)
  <1>1. /\ mc \in mychans /\ t \in registered /\ Level(mc, t) = {}
        /\ UNCHANGED <<groupVars, chanVars, gone>>
        /\ \E x \in {None, {}, new} : SetEntry(mc, t, x)
    BY DEF cs_cmd_access_add, Target
  <1>2. new \in Levels /\ ("F" \in new => "f" \in new)
    BY RoleFacts
  <1>3. Founders(mc) # {t}
    BY <1>1, EntryFacts
  <1> HIDE DEF new
  <1> QED BY <1>1, <1>2, <1>3, FlagFacts, EntryStep

LEMMA AccessSetKeeps ==
    ASSUME Inv, NEW a, NEW mc \in Channels, NEW t \in Entities, NEW role \in Roles,
           cs_cmd_access_set(a, mc, t, role)
    PROVE  Inv'
  <1> DEFINE new == get_template_flags(mc, role)
             l == Level(mc, t)
  <1>1. mc \in mychans /\ t \in registered /\ UNCHANGED <<groupVars, chanVars, gone>>
    BY DEF cs_cmd_access_set, Target
  <1>2. \/ SetEntry(mc, t, chanacs_close(l)) \/ SetEntry(mc, t, l)
        \/ SetEntry(mc, t, new) /\ ~(Founders(mc) = {t} /\ "F" \notin new)
    BY DEF cs_cmd_access_set
  <1>3. new \in Levels /\ ("F" \in new => "f" \in new)
    BY RoleFacts
  <1>4. l \in Levels /\ ("F" \in l => "f" \in l) /\ (Founders(mc) = {t} => "F" \in l)
    BY <1>1, EntryFacts
  <1> HIDE DEF new, l
  <1>5. CASE SetEntry(mc, t, chanacs_close(l))
    BY <1>1, <1>4, <1>5, CloseFacts, EntryStep
  <1>6. CASE SetEntry(mc, t, l)
    BY <1>1, <1>4, <1>6, FlagFacts, EntryStep
  <1>7. CASE SetEntry(mc, t, new) /\ ~(Founders(mc) = {t} /\ "F" \notin new)
    BY <1>1, <1>3, <1>7, FlagFacts, EntryStep
  <1> QED BY <1>2, <1>5, <1>6, <1>7

LEMMA EntryDeleted ==
    ASSUME Inv, NEW mc \in mychans, NEW t \in registered, Founders(mc) # {t},
           SetEntry(mc, t, None), UNCHANGED <<groupVars, chanVars, gone>>
    PROVE  Inv'
  BY FlagFacts, EntryStep

LEMMA AccessDelKeeps ==
    ASSUME Inv, NEW a, NEW mc \in Channels, NEW t \in Entities, cs_cmd_access_del(a, mc, t)
    PROVE  Inv'
  BY EntryDeleted DEF cs_cmd_access_del, Target

\* SOP, AOP, HOP and VOP.
LEMMA XopKeeps ==
    ASSUME Inv, NEW a, NEW mc \in Channels, NEW t \in Entities, NEW role \in Roles,
           cs_xop_add(a, mc, t, role) \/ cs_xop_del(a, mc, t, role)
    PROVE  Inv'
  <1> DEFINE level == get_template_flags(mc, role)
             l == Level(mc, t)
  <1>1. mc \in mychans /\ t \in registered /\ UNCHANGED <<groupVars, chanVars, gone>>
    BY DEF cs_xop_add, cs_xop_del, Target
  <1>2. level \in Levels /\ l \in Levels /\ (Founders(mc) = {t} => "F" \in l)
    BY <1>1, RoleFacts, EntryFacts
  <1>3. CASE cs_xop_add(a, mc, t, role)
    <2>1. "F" \notin level /\ "F" \notin l /\ \E x \in {l, chanacs_close(l), chanacs_close(level)} : SetEntry(mc, t, x)
      BY <1>3 DEF cs_xop_add
    <2> HIDE DEF level, l
    <2> QED BY <1>1, <1>2, <2>1, FlagFacts, CloseFacts, EntryStep
  <1>4. CASE cs_xop_del(a, mc, t, role)
    <2>1. l = level /\ "F" \notin level /\ SetEntry(mc, t, None)
      BY <1>2, <1>4, FlagFacts DEF cs_xop_del, Level
    <2> QED BY <1>1, <1>2, <2>1, EntryDeleted
  <1> QED BY <1>3, <1>4

-----------------------------------------------------------------------------
(* Steps on whole channels *)

\* The templates, requests and marks have their types and stay sound when they are
\* left alone.
LEMMA ChannelsKept ==
    ASSUME Inv
    PROVE  /\ templates \in [Channels -> [Roles -> {None} \union Levels]]
           /\ transfer \in [Channels -> Accounts \union {None}]
           /\ marks \in [Channels -> SUBSET {"held", "closed"}]
           /\ templates' = templates => TemplatesSound'
  BY DEF Inv, TypeOK, TemplatesSound

\* +F brings +f.
LEMMA WithFlagsFacts ==
    ASSUME NEW l \in Levels
    PROVE  /\ WithFlags(l) \in Levels /\ l \subseteq WithFlags(l)
           /\ "F" \in WithFlags(l) => "f" \in WithFlags(l)
           /\ "F" \in WithFlags(l) <=> "F" \in l
  BY FlagFacts DEF WithFlags, Levels

\* ROLE ADD, SET and DEL: entries change only among flags that agree on +F.
LEMMA UpdateRoleKeeps ==
    ASSUME Inv, NEW mc \in mychans, NEW role \in Roles, NEW old \in Levels, NEW new \in Levels,
           "F" \in new => "f" \in new, update_role_entry(mc, role, old, new)
    PROVE  Inv'
  <1> DEFINE tpl == IF new = {} /\ templates[mc][role] # None THEN None ELSE new
             entries == [e \in Entities |->
                            IF /\ new # {} /\ acl[mc][e] = old
                               /\ "F" \in old <=> "F" \in new
                            THEN new ELSE acl[mc][e]]
  <1>1. mc \in Channels /\ GoodEntries(acl[mc])
    BY DEF Inv, TypeOK, EntriesSound
  <1>2. /\ acl' = [acl EXCEPT ![mc] = entries]
        /\ templates' = [templates EXCEPT ![mc][role] = tpl]
        /\ UNCHANGED <<groupVars, mychans, marks, transfer, gone>>
    BY DEF update_role_entry
  <1>3. \A e \in Entities : /\ entries[e] \in {None} \union Levels
                            /\ "F" \in LevelOf(entries[e]) <=> "F" \in LevelOf(acl[mc][e])
                            /\ "F" \in LevelOf(entries[e]) => "f" \in LevelOf(entries[e])
                            /\ entries[e] # None => e \in registered
    <2> SUFFICES ASSUME NEW e \in Entities
                 PROVE  /\ entries[e] \in {None} \union Levels
                        /\ "F" \in LevelOf(entries[e]) <=> "F" \in LevelOf(acl[mc][e])
                        /\ "F" \in LevelOf(entries[e]) => "f" \in LevelOf(entries[e])
                        /\ entries[e] # None => e \in registered
      OBVIOUS
    <2>1. \/ entries[e] = acl[mc][e]
          \/ entries[e] = new /\ acl[mc][e] = old /\ ("F" \in old <=> "F" \in new)
      OBVIOUS
    <2> HIDE DEF entries
    <2> QED BY <1>1, <2>1, FlagFacts DEF GoodEntries
  <1>4. entries \in [Entities -> {None} \union Levels]
    BY <1>3
  <1> HIDE DEF entries
  <1>5. GoodEntries(entries)
    BY <1>1, <1>3, <1>4 DEF GoodEntries
  <1>6. tpl \in {None} \union Levels /\ ("F" \in LevelOf(tpl) => "f" \in LevelOf(tpl))
    BY FlagFacts
  <1> HIDE DEF tpl
  <1>7. /\ templates' \in [Channels -> [Roles -> {None} \union Levels]]
        /\ \A c \in Channels, r \in Roles :
               templates'[c][r] = IF c = mc /\ r = role THEN tpl ELSE templates[c][r]
    BY <1>1, <1>2, <1>6, ChannelsKept
  <1>8. TemplatesSound'
    BY <1>6, <1>7 DEF Inv, TemplatesSound
  <1> QED BY <1>2, <1>5, <1>7, <1>8, ChannelsKept, EntriesStep

LEMMA RolesKeep ==
    ASSUME Inv, NEW a, NEW mc \in Channels, NEW role \in Roles, NEW l \in RoleLevels,
           cs_cmd_role_add(a, mc, role, l) \/ cs_cmd_role_set(a, mc, role, l)
    PROVE  Inv'
  <1>1. mc \in mychans /\ l \in Levels
    BY AccessAssumption DEF cs_cmd_role_add, cs_cmd_role_set, Source
  <1>2. get_template_flags(mc, role) \in Levels /\ WithFlags(l) \in Levels /\ {} \in Levels
        /\ ("F" \in WithFlags(l) => "f" \in WithFlags(l))
    BY <1>1, RoleFacts, WithFlagsFacts, FlagFacts
  <1>3. \E old \in Levels : update_role_entry(mc, role, old, WithFlags(l))
    BY <1>2 DEF cs_cmd_role_add, cs_cmd_role_set
  <1> QED BY <1>1, <1>2, <1>3, UpdateRoleKeeps

LEMMA RoleDelKeeps ==
    ASSUME Inv, NEW a, NEW mc \in Channels, NEW role \in Roles, cs_cmd_role_del(a, mc, role)
    PROVE  Inv'
  <1>1. mc \in mychans /\ update_role_entry(mc, role, get_template_flags(mc, role), {})
    BY DEF cs_cmd_role_del, Source
  <1> QED BY <1>1, RoleFacts, FlagFacts, UpdateRoleKeeps

\* CLEAR FLAGS.
LEMMA ClearFlagsKeeps ==
    ASSUME Inv, NEW a, NEW mc \in Channels, cs_cmd_clear_flags(a, mc)
    PROVE  Inv'
  <1>1. mc \in mychans /\ GoodEntries(acl[mc])
    BY DEF cs_cmd_clear_flags, Source, Inv, EntriesSound
  <1>2. GoodEntries(KeepFounders(acl[mc]))
    BY <1>1, FlagFacts DEF GoodEntries, KeepFounders, LevelOf
  <1>3. acl' = [acl EXCEPT ![mc] = KeepFounders(acl[mc])] /\ UNCHANGED <<groupVars, chanVars, gone>>
    BY <1>1 DEF cs_cmd_clear_flags, Inv, TypeOK
  <1> QED BY <1>1, <1>2, <1>3, ChannelsKept, EntriesStep DEF chanVars

\* CLONE: the union of two entries where +F comes with +f has +f with +F.
LEMMA CloneKeeps ==
    ASSUME Inv, NEW a, NEW from \in Channels, NEW to \in Channels, cs_cmd_clone(a, from, to)
    PROVE  Inv'
  <1> DEFINE kept(e) == IF "F" \in Level(to, e) THEN Level(to, e) ELSE {}
             entries == [e \in Entities |-> chanacs_close(kept(e) \union Level(from, e))]
  <1>1. /\ from \in mychans /\ to \in mychans
        /\ acl' = [acl EXCEPT ![to] = entries]
        /\ templates' = [templates EXCEPT ![to] =
                            IF templates[from] = NoTemplates THEN templates[to] ELSE templates[from]]
        /\ transfer' = [transfer EXCEPT ![to] = IF transfer[from] = None THEN transfer[to] ELSE transfer[from]]
        /\ marks' = [marks EXCEPT ![to] = {}]
        /\ UNCHANGED <<groupVars, mychans, gone>>
    BY DEF cs_cmd_clone, Source, Inv, TypeOK
  <1>2. GoodEntries(acl[from]) /\ GoodEntries(acl[to])
    BY <1>1 DEF Inv, EntriesSound
  <1>3. \A e \in Entities : /\ Level(from, e) \in Levels /\ Level(to, e) \in Levels
                            /\ Level(from, e) = LevelOf(acl[from][e]) /\ Level(to, e) = LevelOf(acl[to][e])
    BY LevelType DEF Inv
  <1>4. \A e \in Entities :
           /\ entries[e] \in {None} \union Levels
           /\ LevelOf(entries[e]) = kept(e) \union Level(from, e)
           /\ entries[e] # None => LevelOf(entries[e]) # {}
    <2> SUFFICES ASSUME NEW e \in Entities
                 PROVE  /\ entries[e] \in {None} \union Levels
                        /\ LevelOf(entries[e]) = kept(e) \union Level(from, e)
                        /\ entries[e] # None => LevelOf(entries[e]) # {}
      OBVIOUS
    <2> DEFINE l == kept(e) \union Level(from, e)
    <2>1. l \in Levels /\ entries[e] = chanacs_close(l)
      BY <1>3 DEF Levels
    <2> HIDE DEF l, entries
    <2>2. LevelOf(entries[e]) = l /\ entries[e] \in {None} \union Levels /\ (entries[e] # None => l # {})
      BY <2>1, CloseFacts DEF chanacs_close
    <2> QED BY <2>2 DEF l
  <1> HIDE DEF entries
  <1>5. entries \in [Entities -> {None} \union Levels]
    BY <1>4 DEF entries
  <1>6. /\ \E e \in Entities : "F" \in LevelOf(entries[e])
        /\ \A e \in Entities : "F" \in LevelOf(entries[e]) => "f" \in LevelOf(entries[e])
    BY <1>2, <1>3, <1>4 DEF GoodEntries
  <1>7. ASSUME NEW e \in Entities, entries[e] # None PROVE e \in registered
    <2>1. Level(to, e) # {} \/ Level(from, e) # {}
      BY <1>4, <1>7
    <2> QED BY <1>2, <1>3, <2>1 DEF GoodEntries, LevelOf
  <1>8. GoodEntries(entries)
    BY <1>5, <1>6, <1>7 DEF GoodEntries
  <1>9. /\ templates' \in [Channels -> [Roles -> {None} \union Levels]]
        /\ transfer' \in [Channels -> Accounts \union {None}]
        /\ marks' \in [Channels -> SUBSET {"held", "closed"}]
        /\ \A c \in Channels : templates'[c] \in {templates[c], templates[from]}
    BY <1>1, ChannelsKept
  <1>10. TemplatesSound'
    BY <1>9 DEF Inv, TemplatesSound
  <1> QED BY <1>1, <1>8, <1>9, <1>10, EntriesStep

\* A transfer of foundership.
LEMMA TransferredGood ==
    ASSUME Inv, NEW mc \in mychans, NEW t \in registered
    PROVE  GoodEntries(Transferred(acl[mc], t))
  <1> DEFINE new == Transferred(acl[mc], t)
             Owner(l) == (l \ {"F"}) \union Founder0
             Demoted(l) == (l \ {"F"}) \union {"f"}
  <1>1. mc \in Channels /\ t \in Entities /\ GoodEntries(acl[mc])
    BY DEF Inv, TypeOK, EntriesSound
  <1>2. \A l \in Levels : /\ Owner(l) \in Levels /\ "F" \in Owner(l) /\ "f" \in Owner(l)
                          /\ Demoted(l) \in Levels /\ "F" \notin Demoted(l)
    BY FlagFacts, AccessAssumption DEF Levels
  <1>3. \A e \in Entities :
           LET l == LevelOf(acl[mc][e])
           IN  /\ l \in Levels
               /\ new[e] = IF e = t THEN Owner(l) ELSE IF "F" \in l THEN Demoted(l) ELSE acl[mc][e]
    BY <1>1, FlagFacts DEF GoodEntries, Transferred, LevelOf
  <1> HIDE DEF Owner, Demoted
  <1>4. new \in [Entities -> {None} \union Levels]
    <2>1. \A e \in Entities : new[e] \in {None} \union Levels
      BY <1>1, <1>2, <1>3 DEF GoodEntries
    <2>2. new = [e \in Entities |-> new[e]]
      BY DEF Transferred
    <2> QED BY <2>1, <2>2
  <1> HIDE DEF new
  <1>5. \A e \in Entities : "F" \in LevelOf(new[e]) <=> e = t
    BY <1>1, <1>2, <1>3, FlagFacts
  <1>6. "f" \in LevelOf(new[t])
    BY <1>1, <1>2, <1>3, FlagFacts
  <1>7. \A e \in Entities : new[e] # None => e \in registered
    BY <1>1, <1>3, FlagFacts DEF GoodEntries, LevelOf
  <1> QED BY <1>1, <1>4, <1>5, <1>6, <1>7 DEF GoodEntries, new

LEMMA RequestKeeps ==
    ASSUME Inv, NEW a, NEW mc \in Channels, NEW t \in Accounts, set_founder_request(a, mc, t)
    PROVE  Inv'
  <1>1. transfer' \in [Channels -> Accounts \union {None}]
    BY DEF set_founder_request, Inv, TypeOK
  <1>2. TypeOK'
    BY <1>1 DEF set_founder_request, Inv, TypeOK, groupVars
  <1> QED BY <1>2 DEF set_founder_request, Inv, EntriesSound, GoodEntries, NoneLeft, TemplatesSound,
                      GroupsSound, groupVars

LEMMA TransferKeeps ==
    ASSUME Inv, NEW mc \in Channels, NEW t, set_founder_complete(t, mc) \/ cs_cmd_ftransfer(mc, t)
    PROVE  Inv'
  <1>1. /\ mc \in mychans /\ t \in registered
        /\ UNCHANGED <<groupVars, mychans, marks, templates, gone>>
        /\ acl' = [acl EXCEPT ![mc] = Transferred(acl[mc], t)]
        /\ transfer' \in [Channels -> Accounts \union {None}]
    BY DEF set_founder_complete, cs_cmd_ftransfer, Source, Target, Inv, TypeOK
  <1> QED BY <1>1, TransferredGood, ChannelsKept, EntriesStep

-----------------------------------------------------------------------------
(* Registrations *)

\* A channel goes, with its entries and templates.
LEMMA ChannelDeleted ==
    ASSUME Inv, NEW mc \in Channels, mychan_delete(mc), UNCHANGED <<groupVars, gone>>
    PROVE  Inv'
  <1>1. NoEntries \in [Entities -> {None} \union Levels] /\ NoTemplates \in [Roles -> {None} \union Levels]
    BY DEF NoEntries, NoTemplates
  <1>2. /\ mychans' = mychans \ {mc} /\ mychans' \subseteq Channels
        /\ \A c \in Channels : acl'[c] = IF c = mc THEN NoEntries ELSE acl[c]
        /\ \A c \in Channels : templates'[c] = IF c = mc THEN NoTemplates ELSE templates[c]
    BY DEF mychan_delete, Inv, TypeOK
  <1>3. TypeOK'
    <2>1. acl' \in [Channels -> [Entities -> {None} \union Levels]]
          /\ templates' \in [Channels -> [Roles -> {None} \union Levels]]
      BY <1>1 DEF mychan_delete, Inv, TypeOK
    <2>2. marks' \in [Channels -> SUBSET {"held", "closed"}] /\ transfer' \in [Channels -> Accounts \union {None}]
      BY DEF mychan_delete, Inv, TypeOK
    <2> QED BY <1>2, <2>1, <2>2 DEF Inv, TypeOK, groupVars
  <1>4. EntriesSound' /\ NoneLeft'
    BY <1>2 DEF Inv, TypeOK, EntriesSound, NoneLeft, GoodEntries, groupVars
  <1>5. TemplatesSound'
    BY <1>2, FlagFacts DEF Inv, TemplatesSound, NoTemplates
  <1>6. GroupsSound'
    BY DEF Inv, GroupsSound, groupVars
  <1> QED BY <1>3, <1>4, <1>5, <1>6 DEF Inv

LEMMA DropsKeep ==
    ASSUME Inv, NEW a, NEW mc \in Channels, cs_cmd_drop(a, mc) \/ cs_cmd_fdrop(mc)
    PROVE  Inv'
  BY ChannelDeleted DEF cs_cmd_drop, cs_cmd_fdrop

\* A new channel belongs to who registered it.
LEMMA RegisterKeeps ==
    ASSUME Inv, NEW a \in Accounts, NEW mc \in Channels, cs_cmd_register(a, mc)
    PROVE  Inv'
  <1> DEFINE entries == [NoEntries EXCEPT ![a] = FounderFlags]
  <1>1. /\ a \in registered /\ a \in Entities /\ mc \notin mychans /\ mychans' = mychans \union {mc}
        /\ UNCHANGED <<groupVars, marks, templates, transfer, gone>>
    BY FlagFacts DEF cs_cmd_register
  <1>2. acl[mc] = NoEntries
    BY <1>1 DEF Inv, NoneLeft
  <1>3. acl' = [acl EXCEPT ![mc] = entries]
    BY <1>2 DEF cs_cmd_register, SetEntry, Inv, TypeOK
  <1>4. /\ entries \in [Entities -> {None} \union Levels]
        /\ \A e \in Entities : entries[e] = IF e = a THEN FounderFlags ELSE None
    BY <1>1, FlagFacts DEF NoEntries
  <1> HIDE DEF entries
  <1>5. GoodEntries(entries)
    BY <1>1, <1>4, FlagFacts, AccessAssumption DEF GoodEntries
  <1>6. \A c \in Channels : acl'[c] = IF c = mc THEN entries ELSE acl[c]
    BY <1>3 DEF Inv, TypeOK
  <1>7. TypeOK'
    BY <1>1, <1>3, <1>4 DEF Inv, TypeOK, groupVars
  <1>8. EntriesSound' /\ NoneLeft'
    BY <1>1, <1>5, <1>6 DEF Inv, TypeOK, EntriesSound, NoneLeft, GoodEntries, groupVars
  <1> QED BY <1>1, <1>7, <1>8 DEF Inv, TemplatesSound, GroupsSound, groupVars

\* HOLD and CLOSE.
LEMMA MarkKeeps ==
    ASSUME Inv, NEW mc \in Channels, NEW mark \in {"held", "closed"}, Mark(mc, mark)
    PROVE  Inv'
  <1>1. marks' \in [Channels -> SUBSET {"held", "closed"}]
    BY DEF Mark, Inv, TypeOK
  <1>2. TypeOK'
    BY <1>1 DEF Mark, Inv, TypeOK, groupVars
  <1> QED BY <1>2 DEF Mark, Inv, EntriesSound, GoodEntries, NoneLeft, TemplatesSound, GroupsSound, groupVars

\* Accounts and groups are registered; founders of groups come and go.
LEMMA EntitiesKeep ==
    ASSUME Inv, UNCHANGED <<mychans, marks, templates, acl, gone>>, gone = None,
           registered \subseteq registered', registered' \subseteq Entities,
           gfounders' \in [Groups -> SUBSET Accounts],
           \A g \in Groups : gfounders'[g] \subseteq registered',
           transfer' \in [Channels -> Accounts \union {None}]
    PROVE  Inv'
  <1>1. TypeOK'
    BY DEF Inv, TypeOK
  <1>2. EntriesSound'
    BY DEF Inv, EntriesSound, GoodEntries
  <1> QED BY <1>1, <1>2 DEF Inv, NoneLeft, TemplatesSound, GroupsSound

LEMMA NsRegisterKeeps ==
    ASSUME Inv, NEW a \in Accounts, NEW s \in BOOLEAN, ns_cmd_register(a, s)
    PROVE  Inv'
  <1>1. transfer' \in [Channels -> Accounts \union {None}]
    BY DEF ns_cmd_register, Inv, TypeOK
  <1> QED BY <1>1, FlagFacts, EntitiesKeep DEF ns_cmd_register, Inv, TypeOK, GroupsSound

LEMMA GsRegisterKeeps ==
    ASSUME Inv, NEW a \in Accounts, NEW g \in Groups, gs_cmd_register(a, g)
    PROVE  Inv'
  <1>1. gfounders' \in [Groups -> SUBSET Accounts]
    BY DEF gs_cmd_register, Inv, TypeOK
  <1>2. \A x \in Groups : gfounders'[x] \subseteq registered'
    BY DEF gs_cmd_register, Inv, TypeOK, GroupsSound
  <1> QED BY <1>1, <1>2, FlagFacts, EntitiesKeep DEF gs_cmd_register, chanVars, Inv, TypeOK

LEMMA GsFlagsKeeps ==
    ASSUME Inv, NEW a \in Accounts, NEW g \in Groups, NEW t \in Accounts, gs_cmd_flags(a, g, t)
    PROVE  Inv'
  <1>1. /\ gfounders' \in [Groups -> SUBSET Accounts]
        /\ \A x \in Groups : gfounders'[x] \subseteq gfounders[x] \union {t}
    BY DEF gs_cmd_flags, Inv, TypeOK
  <1>2. \A x \in Groups : gfounders'[x] \subseteq registered
    BY <1>1 DEF gs_cmd_flags, Inv, GroupsSound
  <1> QED BY <1>1, <1>2, EntitiesKeep DEF gs_cmd_flags, chanVars, Inv, TypeOK

-----------------------------------------------------------------------------
(* Deleting an entity *)

\* A successor is an account with an entry that is not a founder's.
LEMMA SuccessorFacts ==
    ASSUME NEW mc \in Channels, NEW s \in mychan_pick_successor(mc) \ {None}
    PROVE  s \in Accounts /\ acl[mc][s] # None /\ "F" \notin Level(mc, s)
  <1>1. PICK i \in 1 .. Len(Ladder) : s \in mychan_pick_candidate(mc, Ladder[i])
    BY DEF mychan_pick_successor
  <1> QED BY <1>1 DEF mychan_pick_candidate

\* The successor becomes a founder who can change the list, and the entry of the one
\* who goes is freed.
LEMMA SuccessionGood ==
    ASSUME Inv, NEW mc \in mychans, NEW s \in mychan_pick_successor(mc) \ {None},
           Founders(mc) = {gone}
    PROVE  GoodEntries([acl[mc] EXCEPT ![s] = SuccessorFlags(Level(mc, s)), ![gone] = None])
  <1> DEFINE x == SuccessorFlags(Level(mc, s))
             new == [acl[mc] EXCEPT ![s] = x, ![gone] = None]
  <1>1. mc \in Channels /\ GoodEntries(acl[mc])
    BY DEF Inv, TypeOK, EntriesSound
  <1>2. s \in Entities /\ acl[mc][s] # None /\ Level(mc, s) \in Levels /\ s # gone /\ gone \in Entities
    BY <1>1, SuccessorFacts, LevelType, FlagFacts DEF Inv, Founders
  <1>3. x \in Levels /\ "F" \in x /\ "f" \in x
    BY <1>2, FlagFacts, AccessAssumption DEF SuccessorFlags, Levels
  <1> HIDE DEF x
  <1>4. /\ new \in [Entities -> {None} \union Levels]
        /\ \A e \in Entities : new[e] = IF e = gone THEN None ELSE IF e = s THEN x ELSE acl[mc][e]
    BY <1>1, <1>2, <1>3 DEF GoodEntries
  <1> HIDE DEF new
  <1>5. "F" \in LevelOf(new[s])
    BY <1>2, <1>3, <1>4, FlagFacts
  <1>6. \A e \in Entities : "F" \in LevelOf(new[e]) => "f" \in LevelOf(new[e])
    BY <1>1, <1>3, <1>4, FlagFacts DEF GoodEntries
  <1>7. \A e \in Entities : new[e] # None => e \in registered
    BY <1>1, <1>2, <1>4 DEF GoodEntries
  <1> QED BY <1>2, <1>4, <1>5, <1>6, <1>7 DEF GoodEntries, new, x

\* One turn of the loop: the entry goes, to a successor if it was the last founder's,
\* or the channel goes.
LEMMA RemoveKeeps ==
    ASSUME Inv, NEW mc \in Channels, remove_chanacs(mc)
    PROVE  Inv'
  <1>1. /\ gone # None /\ gone \in registered /\ acl[mc][gone] # None
        /\ UNCHANGED <<groupVars, gone>>
    BY DEF remove_chanacs, Inv, GroupsSound
  <1>2. mc \in mychans
    BY <1>1 DEF Inv, TypeOK, NoneLeft, NoEntries
  <1>3. CASE Founders(mc) # {gone} /\ SetEntry(mc, gone, None) /\ UNCHANGED chanVars
    BY <1>1, <1>2, <1>3, EntryDeleted
  <1>4. CASE /\ Founders(mc) = {gone} /\ UNCHANGED chanVars
             /\ \E s \in mychan_pick_successor(mc) \ {None} :
                   acl' = [acl EXCEPT ![mc][s] = SuccessorFlags(Level(mc, s)), ![mc][gone] = None]
    <2>1. PICK s \in mychan_pick_successor(mc) \ {None} :
             acl' = [acl EXCEPT ![mc][s] = SuccessorFlags(Level(mc, s)), ![mc][gone] = None]
      BY <1>4
    <2> DEFINE x == SuccessorFlags(Level(mc, s))
    <2>2. GoodEntries([acl[mc] EXCEPT ![s] = x, ![gone] = None])
      BY <1>2, <1>4, SuccessionGood
    <2> HIDE DEF x
    <2>3. acl' = [acl EXCEPT ![mc] = [acl[mc] EXCEPT ![s] = x, ![gone] = None]]
      BY <2>1, <1>2 DEF x, Inv, TypeOK
    <2> QED BY <1>1, <1>2, <1>4, <2>2, <2>3, ChannelsKept, EntriesStep DEF chanVars
  <1>5. CASE Founders(mc) = {gone} /\ mychan_delete(mc)
    BY <1>1, <1>5, ChannelDeleted
  <1> QED BY <1>3, <1>4, <1>5 DEF remove_chanacs

\* The start of a deletion: an account leaves its groups, a group is in none.
LEMMA DeletionStarts ==
    ASSUME Inv, NEW e, \/ e \in Accounts /\ myuser_delete(e)
                       \/ e \in Groups /\ remove_group(e)
    PROVE  Inv'
  <1>1. /\ e \in registered /\ registered' = registered /\ gone' = e /\ UNCHANGED <<chanVars, acl>>
        /\ gfounders' \in [Groups -> SUBSET Accounts]
        /\ \A g \in Groups : gfounders'[g] \subseteq gfounders[g] \ {e}
    <2>1. CASE e \in Accounts /\ myuser_delete(e)
      BY <2>1 DEF myuser_delete, Inv, TypeOK
    <2>2. CASE e \in Groups /\ remove_group(e)
      BY <2>2, AccessAssumption DEF remove_group, groupVars, Inv, TypeOK
    <2> QED BY <2>1, <2>2
  <1>2. TypeOK'
    BY <1>1 DEF Inv, TypeOK, chanVars
  <1>3. GroupsSound'
    BY <1>1 DEF Inv, GroupsSound
  <1> QED BY <1>1, <1>2, <1>3 DEF Inv, EntriesSound, GoodEntries, NoneLeft, TemplatesSound, chanVars

\* The end of it: nothing points at the entity any more.
LEMMA DeletionEnds ==
    ASSUME Inv, myentity_del
    PROVE  Inv'
  <1>1. /\ gone # None /\ gone \in registered /\ \A mc \in Channels : acl[mc][gone] = None
        /\ registered' = registered \ {gone} /\ gone' = None
        /\ gfounders' \in [Groups -> SUBSET Accounts]
        /\ \A g \in Groups : gfounders'[g] \subseteq gfounders[g]
        /\ UNCHANGED <<chanVars, acl>>
    BY DEF myentity_del, Inv, TypeOK, GroupsSound
  <1>2. TypeOK'
    BY <1>1 DEF Inv, TypeOK, chanVars
  <1>3. EntriesSound'
    BY <1>1 DEF Inv, TypeOK, EntriesSound, GoodEntries, chanVars
  <1>4. GroupsSound'
    BY <1>1 DEF Inv, GroupsSound
  <1> QED BY <1>1, <1>2, <1>3, <1>4 DEF Inv, NoneLeft, TemplatesSound, chanVars

-----------------------------------------------------------------------------
(* The invariant *)

LEMMA InitInv == Init => Inv
  <1> SUFFICES ASSUME Init PROVE Inv
    OBVIOUS
  <1>1. TypeOK
    BY DEF Init, TypeOK, NoEntries, NoTemplates
  <1>2. TemplatesSound
    BY FlagFacts DEF Init, TemplatesSound, NoTemplates
  <1> QED BY <1>1, <1>2 DEF Init, Inv, EntriesSound, NoneLeft, GroupsSound

LEMMA NextInv == Inv /\ [Next]_vars => Inv'
  <1> SUFFICES ASSUME Inv, [Next]_vars PROVE Inv'
    OBVIOUS
  <1>1. ASSUME NEW a \in Accounts, NEW mc \in Channels, AclCommand(a, mc) PROVE Inv'
    BY <1>1, FlagsKeeps, AccessAddKeeps, AccessSetKeeps, AccessDelKeeps, XopKeeps, RolesKeep,
       RoleDelKeeps, ClearFlagsKeeps DEF AclCommand
  <1>2. ASSUME NEW a \in Accounts, AccountCommand(a) PROVE Inv'
    BY <1>2, NsRegisterKeeps, GsRegisterKeeps, GsFlagsKeeps, RegisterKeeps, DropsKeep, CloneKeeps,
       RequestKeeps, TransferKeeps DEF AccountCommand
  <1>3. CASE OperCommand
    BY <1>3, FflagsKeeps, TransferKeeps, DropsKeep, MarkKeeps, DeletionStarts DEF OperCommand
  <1>4. CASE UNCHANGED vars
    <2>1. TypeOK'
      BY <1>4 DEF Inv, TypeOK, vars, groupVars, chanVars
    <2> QED BY <1>4, <2>1 DEF Inv, EntriesSound, GoodEntries, NoneLeft, TemplatesSound,
                              GroupsSound, vars, groupVars, chanVars
  <1> QED BY <1>1, <1>2, <1>3, <1>4, RemoveKeeps, DeletionEnds DEF Next

\* The state of accounts, groups, channels and their access lists has its type.
THEOREM TypeCorrect == Spec => []TypeOK
  <1>1. Inv => TypeOK
    BY DEF Inv
  <1> QED BY <1>1, InitInv, NextInv, PTL DEF Spec

\* A registered channel always has a founder, and each of its founders can change its
\* access list: the guards of FLAGS, ACCESS, FFLAGS and SET FOUNDER, the roles and the
\* succession in myuser_delete() and remove_group_chanacs() leave no way out.
THEOREM FoundersAlwaysManage == Spec => []FoundersManage
  <1>1. Inv => FoundersManage
    <2> SUFFICES ASSUME Inv PROVE FoundersManage
      OBVIOUS
    <2>1. \A mc \in Channels, e \in Entities : Level(mc, e) = LevelOf(acl[mc][e])
      BY LevelType DEF Inv
    <2>2. FounderKept
      BY <2>1 DEF Inv, TypeOK, EntriesSound, GoodEntries, FounderKept, Founders
    <2>3. ASSUME NEW mc \in Channels, NEW e \in Entities, "F" \in Level(mc, e)
          PROVE  "f" \in Level(mc, e)
      <3>1. mc \in mychans
        BY <2>1, <2>3, FlagFacts DEF Inv, NoneLeft, NoEntries
      <3> QED BY <2>1, <2>3, <3>1 DEF Inv, EntriesSound, GoodEntries
    <2> QED BY <2>2, <2>3 DEF FoundersManage, FounderHasFlags
  <1> QED BY <1>1, InitInv, NextInv, PTL DEF Spec

\* Access entries and memberships point at accounts, groups and channels that exist.
THEOREM NothingDangles == Spec => []NoDangling
  <1>1. Inv => NoDangling
    BY DEF Inv, TypeOK, EntriesSound, GoodEntries, NoneLeft, NoEntries, GroupsSound, NoDangling
  <1> QED BY <1>1, InitInv, NextInv, PTL DEF Spec

-----------------------------------------------------------------------------
(* What a command may change *)

\* What a may give e in a channel, when it is not a founder there.
MayGive(mc, a, e) ==
    LET src == chanacs_entity_flags(mc, a)
    IN  allow_flags(src) \union (IF e = a THEN src ELSE {})

\* What an account has itself is among what it has, also in its automatic form.
LEMMA SourceFacts ==
    ASSUME Inv, NEW mc \in Channels, NEW a \in Accounts, "F" \notin chanacs_entity_flags(mc, a)
    PROVE  /\ Level(mc, a) \subseteq chanacs_entity_flags(mc, a)
           /\ AutoFlags(Level(mc, a)) \subseteq allow_flags(chanacs_entity_flags(mc, a))
           /\ "F" \notin allow_flags(chanacs_entity_flags(mc, a))
           /\ ~is_founder(mc, a)
  <1> DEFINE src == chanacs_entity_flags(mc, a)
             l == Level(mc, a)
  <1>1. l \subseteq src
    BY DEF chanacs_entity_flags
  <1>2. "f" \notin AutoFlags(src) /\ "F" \notin AutoFlags(src)
    BY DEF AutoFlags, AutoOf
  <1> HIDE DEF l, src
  <1>3. AutoFlags(l) \subseteq AutoFlags(src)
    BY <1>1 DEF AutoFlags
  <1>4. AutoFlags(src) \subseteq allow_flags(src)
    BY <1>2 DEF allow_flags
  <1>5. "F" \notin src => "F" \notin allow_flags(src)
    BY <1>2 DEF allow_flags
  <1> QED BY <1>1, <1>3, <1>4, <1>5 DEF src, l, is_founder

\* What chanacs_modify() agrees to stays within the limit.
LEMMA ModifyWithin ==
    ASSUME NEW l \in Levels, NEW add \in Levels, NEW rem \in Levels, NEW restrict,
           chanacs_modify(l, add, rem, restrict)
    PROVE  Modified(l, add, rem) = l \/ l \union Modified(l, add, rem) \subseteq restrict
  BY DEF chanacs_modify, Modified, Added, Removed

\* The same when all flags but the new ones are removed.
LEMMA SetWithin ==
    ASSUME NEW l \in Levels, NEW new \in Levels, NEW restrict,
           chanacs_modify(l, new, Flags \ new, restrict)
    PROVE  new = l \/ l \union new \subseteq restrict
  BY DEF chanacs_modify, Added, Removed, Levels

\* A command on one entry.
LEMMA OneEntryWithin ==
    ASSUME Inv, NEW mc \in Channels, NEW a, NEW t \in Entities, NEW x, SetEntry(mc, t, x),
           LevelOf(x) = Level(mc, t) \/ Level(mc, t) \union LevelOf(x) \subseteq MayGive(mc, a, t)
    PROVE  \A e \in Entities : ~Exceeds(a, mc, e)
  <1>1. \A e \in Entities : acl'[mc][e] = IF e = t THEN x ELSE acl[mc][e]
    BY DEF SetEntry, Inv, TypeOK
  <1>2. \A e \in Entities : Level(mc, e)' = IF e = t THEN LevelOf(x) ELSE Level(mc, e)
    BY <1>1 DEF Level, LevelOf
  <1> QED BY <1>2 DEF Exceeds, MayGive

\* FLAGS: what makes a status automatic for oneself is within what the status gives.
LEMMA FlagsWithin ==
    ASSUME Inv, NEW a \in Accounts, NEW mc \in Channels, NEW t \in Entities, NEW c \in Changes,
           cs_cmd_flags(a, mc, t, c[1], c[2]), "F" \notin chanacs_entity_flags(mc, a)
    PROVE  \A e \in Entities : ~Exceeds(a, mc, e)
  <1> DEFINE src == chanacs_entity_flags(mc, a)
             l == Level(mc, t)
             add == WithFlags(c[1])
             rem == IF "F" \in c[1] THEN c[2] \ {"f"} ELSE c[2]
             m == Modified(l, add, rem)
             auto == /\ src \intersect {"F", "f"} = {} /\ a = t /\ src \intersect DOMAIN AutoOf # {}
                     /\ "b" \in src => src \intersect {"e", "r"} # {}
             restrict == IF auto THEN src \union (AutoFlags(l) \intersect (c[1] \union c[2]))
                         ELSE MayTouch(mc, a, t)
  <1>1. \/ SetEntry(mc, t, chanacs_close(l))
        \/ SetEntry(mc, t, chanacs_close(m)) /\ chanacs_modify(l, add, rem, restrict)
    BY DEF cs_cmd_flags
  <1>2. l \in Levels /\ c[1] \in Levels /\ c[2] \in Levels
    BY LevelType, AccessAssumption DEF Inv
  <1>3. add \in Levels /\ rem \in Levels
    BY <1>2, WithFlagsFacts DEF Levels
  <1>4. restrict \subseteq MayGive(mc, a, t)
    <2>1. CASE auto
      <3>1. restrict \subseteq src \union AutoFlags(Level(mc, a)) /\ a = t
        BY <2>1
      <3> QED BY <3>1, SourceFacts DEF MayGive
    <2>2. CASE ~auto
      BY <2>2 DEF MayTouch, MayGive
    <2> QED BY <2>1, <2>2
  <1> HIDE DEF restrict, l, add, rem
  <1>5. m \in Levels
    BY <1>2, <1>3 DEF Modified, Added, Removed, Levels
  <1>6. CASE SetEntry(mc, t, chanacs_close(l))
    BY <1>2, <1>6, CloseFacts, OneEntryWithin DEF l
  <1>7. CASE SetEntry(mc, t, chanacs_close(m)) /\ chanacs_modify(l, add, rem, restrict)
    <2>1. m = l \/ l \union m \subseteq MayGive(mc, a, t)
      BY <1>2, <1>3, <1>4, <1>7, ModifyWithin
    <2> HIDE DEF m
    <2>2. LevelOf(chanacs_close(m)) = Level(mc, t) \/ Level(mc, t) \union LevelOf(chanacs_close(m)) \subseteq MayGive(mc, a, t)
      BY <1>5, <2>1, CloseFacts DEF l
    <2> QED BY <1>7, <2>2, OneEntryWithin
  <1> QED BY <1>1, <1>6, <1>7

\* ACCESS ADD, SET and DEL.
LEMMA AccessWithin ==
    ASSUME Inv, NEW a \in Accounts, NEW mc \in Channels, NEW t \in Entities, NEW role \in Roles,
           cs_cmd_access_add(a, mc, t, role) \/ cs_cmd_access_set(a, mc, t, role),
           "F" \notin chanacs_entity_flags(mc, a)
    PROVE  \A e \in Entities : ~Exceeds(a, mc, e)
  <1> DEFINE l == Level(mc, t)
             new == get_template_flags(mc, role)
  <1>1. l \in Levels /\ new \in Levels
    BY LevelType, RoleFacts DEF Inv
  <1>2. \/ l = {} /\ \E x \in {None, {}} : SetEntry(mc, t, x)
        \/ SetEntry(mc, t, l) \/ SetEntry(mc, t, chanacs_close(l))
        \/ SetEntry(mc, t, new) /\ chanacs_modify(l, new, Flags \ new, MayTouch(mc, a, t))
    <2>1. CASE cs_cmd_access_add(a, mc, t, role)
      BY <2>1 DEF cs_cmd_access_add, LeftOpen
    <2>2. CASE cs_cmd_access_set(a, mc, t, role)
      BY <2>2 DEF cs_cmd_access_set, LeftOpen
    <2> QED BY <2>1, <2>2
  <1>3. MayTouch(mc, a, t) = MayGive(mc, a, t)
    BY DEF MayTouch, MayGive
  <1> HIDE DEF new
  <1>4. CASE \/ l = {} /\ \E x \in {None, {}} : SetEntry(mc, t, x)
             \/ SetEntry(mc, t, l) \/ SetEntry(mc, t, chanacs_close(l))
    <2> HIDE DEF l
    <2>1. PICK x : SetEntry(mc, t, x) /\ ((x \in {None, {}} /\ l = {}) \/ x \in {l, chanacs_close(l)})
      BY <1>4
    <2>2. LevelOf(x) = l
      BY <1>1, <2>1, CloseFacts, FlagFacts
    <2> QED BY <2>1, <2>2, OneEntryWithin DEF l
  <1>5. CASE SetEntry(mc, t, new) /\ chanacs_modify(l, new, Flags \ new, MayTouch(mc, a, t))
    <2>1. new = l \/ l \union new \subseteq MayGive(mc, a, t)
      BY <1>1, <1>3, <1>5, SetWithin
    <2>2. LevelOf(new) = new
      BY <1>1, FlagFacts
    <2> QED BY <1>5, <2>1, <2>2, OneEntryWithin
  <1> QED BY <1>2, <1>4, <1>5

LEMMA AccessDelWithin ==
    ASSUME Inv, NEW a \in Accounts, NEW mc \in Channels, NEW t \in Entities,
           cs_cmd_access_del(a, mc, t), "F" \notin chanacs_entity_flags(mc, a)
    PROVE  \A e \in Entities : ~Exceeds(a, mc, e)
  <1> DEFINE l == Level(mc, t)
             src == chanacs_entity_flags(mc, a)
             restrict == IF "F" \in src THEN Flags ELSE IF a = t THEN src ELSE allow_flags(src)
  <1>1. chanacs_modify(l, {}, l, restrict) /\ SetEntry(mc, t, None)
    BY DEF cs_cmd_access_del
  <1>2. restrict \subseteq MayGive(mc, a, t)
    BY DEF MayGive
  <1> HIDE DEF restrict
  <1>3. l = {} \/ l \subseteq restrict
    BY <1>1 DEF chanacs_modify, Added, Removed
  <1>4. LevelOf(None) = {}
    BY FlagFacts
  <1> QED BY <1>1, <1>2, <1>3, <1>4, OneEntryWithin

\* SOP, AOP, HOP and VOP.
LEMMA XopWithin ==
    ASSUME Inv, NEW a \in Accounts, NEW mc \in Channels, NEW t \in Entities, NEW role \in Roles,
           cs_xop_add(a, mc, t, role) \/ cs_xop_del(a, mc, t, role),
           "F" \notin chanacs_entity_flags(mc, a)
    PROVE  \A e \in Entities : ~Exceeds(a, mc, e)
  <1> DEFINE l == Level(mc, t)
             level == get_template_flags(mc, role)
             src == chanacs_entity_flags(mc, a)
             allowed == allow_flags(src)
  <1>1. l \in Levels /\ level \in Levels
    BY LevelType, RoleFacts DEF Inv
  <1>2. allowed \subseteq MayGive(mc, a, t) /\ (a = t => l \subseteq MayGive(mc, a, t))
    BY SourceFacts DEF MayGive
  <1>3. CASE cs_xop_add(a, mc, t, role)
    <2>1. \/ SetEntry(mc, t, l) \/ SetEntry(mc, t, chanacs_close(l))
          \/ SetEntry(mc, t, chanacs_close(level)) /\ chanacs_modify(l, level, Flags \ level, allowed)
      BY <1>3 DEF cs_xop_add
    <2> HIDE DEF l, level, allowed
    <2>2. LevelOf(l) = l /\ LevelOf(chanacs_close(l)) = l /\ LevelOf(chanacs_close(level)) = level
      BY <1>1, FlagFacts, CloseFacts
    <2>3. CASE SetEntry(mc, t, l) \/ SetEntry(mc, t, chanacs_close(l))
      BY <2>2, <2>3, OneEntryWithin DEF l
    <2>4. CASE SetEntry(mc, t, chanacs_close(level)) /\ chanacs_modify(l, level, Flags \ level, allowed)
      <3>1. level = l \/ l \union level \subseteq MayGive(mc, a, t)
        BY <1>1, <1>2, <2>4, SetWithin
      <3> QED BY <2>2, <2>4, <3>1, OneEntryWithin DEF l
    <2> QED BY <2>1, <2>3, <2>4
  <1>4. CASE cs_xop_del(a, mc, t, role)
    <2>1. SetEntry(mc, t, None) /\ (a = t \/ level \subseteq allowed) /\ acl[mc][t] = level
      BY <1>4 DEF cs_xop_del
    <2>2. l = level /\ LevelOf(None) = {}
      BY <1>1, <2>1, FlagFacts DEF Level
    <2> QED BY <1>2, <2>1, <2>2, OneEntryWithin
  <1> QED BY <1>3, <1>4

\* The roles: whoever is changed had the old flags and gets the new ones.
LEMMA RolesWithin ==
    ASSUME Inv, NEW a \in Accounts, NEW mc \in Channels, NEW role \in Roles, NEW old, NEW new,
           update_role_entry(mc, role, old, new), "F" \notin chanacs_entity_flags(mc, a),
           old = {} \/ old \subseteq RoleRestrict(mc, a), new \subseteq RoleRestrict(mc, a),
           old \in Levels, new \in Levels
    PROVE  \A e \in Entities : ~Exceeds(a, mc, e)
  <1>1. \A e \in Entities : acl'[mc][e] \in {acl[mc][e]} \/ (acl[mc][e] = old /\ acl'[mc][e] = new)
    BY DEF update_role_entry, Inv, TypeOK
  <1>2. \A e \in Entities : Level(mc, e)' = Level(mc, e) \/ (Level(mc, e) = old /\ Level(mc, e)' = new)
    BY <1>1, FlagFacts DEF Level
  <1>3. RoleRestrict(mc, a) = allow_flags(chanacs_entity_flags(mc, a))
    BY SourceFacts DEF RoleRestrict
  <1> QED BY <1>2, <1>3 DEF Exceeds

LEMMA RoleCommandsWithin ==
    ASSUME Inv, NEW a \in Accounts, NEW mc \in Channels, NEW role \in Roles, NEW l \in RoleLevels,
           cs_cmd_role_add(a, mc, role, l) \/ cs_cmd_role_set(a, mc, role, l),
           "F" \notin chanacs_entity_flags(mc, a)
    PROVE  \A e \in Entities : ~Exceeds(a, mc, e)
  <1>1. l \in Levels /\ get_template_flags(mc, role) \in Levels
    BY AccessAssumption, RoleFacts
  <1>2. l \subseteq RoleRestrict(mc, a)
    BY DEF cs_cmd_role_add, cs_cmd_role_set
  <1>3. RoleRestrict(mc, a) = allow_flags(chanacs_entity_flags(mc, a))
    BY SourceFacts DEF RoleRestrict
  <1>4. WithFlags(l) = l
    BY <1>2, <1>3, SourceFacts DEF WithFlags
  <1>5. CASE cs_cmd_role_add(a, mc, role, l)
    BY <1>1, <1>2, <1>4, <1>5, FlagFacts, RolesWithin DEF cs_cmd_role_add
  <1>6. CASE cs_cmd_role_set(a, mc, role, l)
    BY <1>1, <1>2, <1>4, <1>6, RolesWithin DEF cs_cmd_role_set
  <1> QED BY <1>5, <1>6

LEMMA RoleDelWithin ==
    ASSUME Inv, NEW a \in Accounts, NEW mc \in Channels, NEW role \in Roles,
           cs_cmd_role_del(a, mc, role), "F" \notin chanacs_entity_flags(mc, a)
    PROVE  \A e \in Entities : ~Exceeds(a, mc, e)
  BY RoleFacts, FlagFacts, RolesWithin DEF cs_cmd_role_del

LEMMA CommandsWithin ==
    ASSUME Inv, NEW a \in Accounts, NEW mc \in mychans, AclCommand(a, mc), NEW e \in Entities
    PROVE  ~Exceeds(a, mc, e)
  <1> SUFFICES ASSUME "F" \notin chanacs_entity_flags(mc, a)
               PROVE  ~Exceeds(a, mc, e)
    BY DEF Exceeds
  <1>1. mc \in Channels
    BY DEF Inv, TypeOK
  <1>2. ~cs_cmd_clear_flags(a, mc)
    BY DEF cs_cmd_clear_flags, is_founder
  <1> QED BY <1>1, <1>2, FlagsWithin, AccessWithin, AccessDelWithin, XopWithin, RoleCommandsWithin,
             RoleDelWithin DEF AclCommand

\* No command that sets flags lets a holder of +f who is not a founder touch an entry
\* that holds, or comes to hold, more than it may give, for any flags, templates,
\* groups and limits: chanacs_modify() is given the right restriction on every path.
THEOREM AlwaysWithinOwnAccess == Spec => WithinOwnAccess
  <1>1. Inv => [\A a \in registered \intersect Accounts, mc \in mychans :
                   (\E e \in Entities : Exceeds(a, mc, e)) => ~AclCommand(a, mc)]_vars
    BY CommandsWithin
  <1> QED BY <1>1, InitInv, NextInv, PTL DEF Spec, WithinOwnAccess
=============================================================================
