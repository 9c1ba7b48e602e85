------------------------------ MODULE Settings ------------------------------
(***************************************************************************)
(* The settings of a channel and of an account: SET of ChanServ and of     *)
(* NickServ, what an operator holds, and how the flags are written to the  *)
(* database as letters and read back.  Services may end at any time and    *)
(* start again from what was saved last.                                   *)
(*                                                                         *)
(* One channel and one account are enough: a command changes no other.     *)
(* Mode locks are in module Modes, guards and bots in Presence, e-mail     *)
(* addresses, passwords and STRICTACCESS in Credentials, ENFORCE in        *)
(* Enforce.                                                                *)
(***************************************************************************)
EXTENDS Naturals, Sequences, FiniteSets

CONSTANTS
    Values,       \* texts of URL, PROPERTY and the like
    Props,        \* names for SET PROPERTY, none of them private
    Languages,    \* languages that are known
    Defaults,     \* pairs of default_uflags and default_cflags
    MTA,          \* me.mta: mail can be sent
    MdLimit,      \* me.mdlimit
    MaxCommands,  \* bound: commands
    None

\* The flags that the configuration can name.
uflags == {"HOLD", "NEVEROP", "NOOP", "HIDEMAIL", "NOMEMO", "EMAILMEMOS", "ENFORCE",
           "USE_PRIVMSG", "PRIVATE", "QUIETCHG", "NEVERGROUP", "NOPASSWORD"}
cflags == {"HOLD", "SECURE", "VERBOSE", "KEEPTOPIC", "VERBOSE_OPS", "TOPICLOCK", "GUARD",
           "NOSYNC", "PRIVATE", "LIMITFLAGS", "ANTIFLOOD", "PUBACL"}

\* What the constants are.
SettingsAssumption ==
    /\ MdLimit \in Nat /\ MaxCommands \in Nat /\ MTA \in BOOLEAN /\ None \notin Values
    /\ \A d \in Defaults :
           /\ d.u \subseteq uflags /\ d.c \subseteq cflags
           /\ "VERBOSE" \notin d.c \/ "VERBOSE_OPS" \notin d.c

VARIABLES
    cf,      \* mc->flags
    cmd,     \* metadata of the channel
    locked,  \* the server's own topic lock, which inspircd has
    uf,      \* mu->flags
    umd,     \* metadata of the account
    lang,    \* mu->language
    online,  \* a user is logged in to the account
    disk,    \* what the database holds of them
    saved,   \* what was in memory when it was written
    n        \* commands so far

chanVars == <<cf, cmd, locked>>
userVars == <<uf, umd, lang, online>>
vars == <<cf, cmd, locked, uf, umd, lang, online, disk, saved, n>>

\* The letters, in the order of the tables.
mc_flags ==
    <<<<"a", "PUBACL">>, <<"h", "HOLD">>, <<"o", "NOOP">>, <<"l", "LIMITFLAGS">>, <<"z", "SECURE">>,
      <<"v", "VERBOSE">>, <<"r", "RESTRICTED">>, <<"k", "KEEPTOPIC">>, <<"e", "VERBOSE_OPS">>,
      <<"t", "TOPICLOCK">>, <<"g", "GUARD">>, <<"p", "PRIVATE">>, <<"n", "NOSYNC">>, <<"f", "ANTIFLOOD">>>>

mu_flags ==
    <<<<"h", "HOLD">>, <<"n", "NEVEROP">>, <<"o", "NOOP">>, <<"W", "WAITAUTH">>, <<"s", "HIDEMAIL">>,
      <<"m", "NOMEMO">>, <<"e", "EMAILMEMOS">>, <<"C", "CRYPTPASS">>, <<"b", "NOBURSTLOGIN">>,
      <<"E", "ENFORCE">>, <<"P", "USE_PRIVMSG">>, <<"p", "PRIVATE">>, <<"Q", "QUIETCHG">>,
      <<"g", "NOGREET">>, <<"r", "REGNOLIMIT">>, <<"N", "NEVERGROUP">>, <<"A", "STRICTACCESS">>,
      <<"a", "NOTIFYACL">>, <<"$", "NOTIFYSET">>, <<"e", "EMAILNOTIFY">>, <<"S", "NOPASSWORD">>>>

FlagsIn(table) == {table[i][2] : i \in DOMAIN table}

\* The metadata that commands of their own keep for a channel, and all there can be.
ChanOwn == {"gameserv", "disable_fantasy", "private:prefix", "private:entrymsg", "email", "url"}
ChanNames == ChanOwn \union Props
UserNames == {"private:pubkey", "private:vacation", "private:doenforce"} \union Props

TypeOK ==
    /\ cf \subseteq FlagsIn(mc_flags) /\ uf \subseteq FlagsIn(mu_flags) \union {"NOTIFYMEMO"}
    /\ DOMAIN cmd \subseteq ChanNames /\ DOMAIN umd \subseteq UserNames
    /\ locked \in BOOLEAN /\ online \in BOOLEAN /\ lang \in Languages \union {None} /\ n \in 0..MaxCommands

-----------------------------------------------------------------------------
(* Letters *)

gflags_tostr(table, fs) == {table[i][1] : i \in {j \in DOMAIN table : table[j][2] \in fs}}

\* The first entry of the table that has the letter.
gflag_fromchar(table, l) == table[CHOOSE i \in DOMAIN table :
                                table[i][1] = l /\ \A j \in 1..i - 1 : table[j][1] # l][2]

gflags_fromstr(table, ls) == {gflag_fromchar(table, l) : l \in ls}

-----------------------------------------------------------------------------
(* Metadata *)

metadata_add(f, k, v) == [x \in DOMAIN f \union {k} |-> IF x = k THEN v ELSE f[x]]
metadata_delete(f, k) == [x \in DOMAIN f \ {k} |-> f[x]]

Private == {"private:prefix", "private:entrymsg", "private:pubkey", "private:vacation", "private:doenforce"}

\* What SET PROPERTY counts, whether it is replacing a property or not.
Count(f) == Cardinality(DOMAIN f \ Private)

-----------------------------------------------------------------------------
(* SET of ChanServ.  The source has no access, may SET, has every high      *)
(* privilege, or is a founder.                                              *)

Levels == {"none", "set", "high", "founder"}
MaySet(l) == l \in {"set", "high", "founder"}

cs_cmd_set == n < MaxCommands /\ n' = n + 1 /\ UNCHANGED <<userVars, disk, saved>>

ChanFlag(f, on) ==
    /\ cs_cmd_set /\ (f \in cf) # on
    /\ cf' = IF on THEN cf \union {f} ELSE cf \ {f}
    /\ UNCHANGED <<cmd, locked>>

cs_cmd_set_secure(l, on) == MaySet(l) /\ ChanFlag("SECURE", on)
cs_cmd_set_restricted(l, on) == MaySet(l) /\ ChanFlag("RESTRICTED", on)
cs_cmd_set_private(l, on) == MaySet(l) /\ ChanFlag("PRIVATE", on)
cs_cmd_set_pubacl(l, on) == MaySet(l) /\ ChanFlag("PUBACL", on)

\* Only CA_SET counts here.
cs_cmd_set_nosync(l, on) == l \in {"set", "high"} /\ ChanFlag("NOSYNC", on)

\* The guard is the wrong way round: it keeps out those who have every high privilege.
cs_cmd_set_limitflags(l, on) == l # "high" /\ ChanFlag("LIMITFLAGS", on)

cs_cmd_hold(on) == ChanFlag("HOLD", on)

\* TOPICLOCK turns KEEPTOPIC on; the server is told of the lock.
cs_cmd_set_topiclock(l, on) ==
    /\ MaySet(l) /\ cs_cmd_set /\ ("TOPICLOCK" \in cf) # on
    /\ cf' = IF on THEN cf \union {"KEEPTOPIC", "TOPICLOCK"} ELSE cf \ {"TOPICLOCK"}
    /\ locked' = on /\ UNCHANGED cmd

\* Mutant of cs_cmd_set_keeptopic: the lock stays when the topic is not kept.
KeeptopicOnly(l, on) == MaySet(l) /\ ChanFlag("KEEPTOPIC", on)

\* Without KEEPTOPIC there is no TOPICLOCK; the server is not told.
cs_cmd_set_keeptopic(l, on) ==
    /\ MaySet(l) /\ cs_cmd_set /\ ("KEEPTOPIC" \in cf) # on
    /\ cf' = IF on THEN cf \union {"KEEPTOPIC"} ELSE cf \ {"KEEPTOPIC", "TOPICLOCK"}
    /\ UNCHANGED <<cmd, locked>>

\* VERBOSE is ALL, OPS or OFF.
cs_cmd_set_verbose(l, how) ==
    /\ MaySet(l) /\ cs_cmd_set
    /\ how = {} => cf \intersect {"VERBOSE", "VERBOSE_OPS"} # {}
    /\ how \intersect cf = {}
    /\ cf' = (cf \ {"VERBOSE", "VERBOSE_OPS"}) \union how
    /\ UNCHANGED <<cmd, locked>>

ChanData(new) == cs_cmd_set /\ cmd' = new /\ UNCHANGED <<cf, locked>>

cs_cmd_set_fantasy(l, on) ==
    /\ MaySet(l) /\ ("disable_fantasy" \in DOMAIN cmd) = on
    /\ ChanData(IF on THEN metadata_delete(cmd, "disable_fantasy") ELSE metadata_add(cmd, "disable_fantasy", "on"))

cs_cmd_set_gameserv(l, v) ==
    /\ MaySet(l) /\ v # (IF "gameserv" \in DOMAIN cmd THEN cmd["gameserv"] ELSE None)
    /\ ChanData(IF v = None THEN metadata_delete(cmd, "gameserv") ELSE metadata_add(cmd, "gameserv", v))

\* A text, or None to remove it; PREFIX removes one that is not there too.
Text(l, k, v) ==
    /\ MaySet(l) /\ (v = None => k \in DOMAIN cmd \union {"private:prefix"})
    /\ ChanData(IF v = None THEN metadata_delete(cmd, k) ELSE metadata_add(cmd, k, v))

cs_cmd_set_prefix(l, v) == Text(l, "private:prefix", v)
cs_cmd_set_entrymsg(l, v) == Text(l, "private:entrymsg", v)
cs_cmd_set_email(l, v) == Text(l, "email", v)
cs_cmd_set_url(l, v) == Text(l, "url", v)

cs_cmd_set_property(l, k, v) ==
    /\ l = "founder" /\ IF v = None THEN k \in DOMAIN cmd ELSE Count(cmd) < MdLimit
    /\ ChanData(IF v = None THEN metadata_delete(cmd, k) ELSE metadata_add(cmd, k, v))

-----------------------------------------------------------------------------
(* SET of NickServ, by a user who is logged in *)

ns_cmd_set == n < MaxCommands /\ n' = n + 1 /\ UNCHANGED <<chanVars, disk, saved>>

UserFlag(f, on) ==
    /\ ns_cmd_set /\ (f \in uf) # on
    /\ uf' = IF on THEN uf \union {f} ELSE uf \ {f}
    /\ UNCHANGED <<umd, lang, online>>

ns_cmd_set_hidemail(on) == online /\ UserFlag("HIDEMAIL", on)
ns_cmd_set_nevergroup(on) == online /\ UserFlag("NEVERGROUP", on)
ns_cmd_set_quietchg(on) == online /\ UserFlag("QUIETCHG", on)
ns_cmd_set_neverop(on) == online /\ UserFlag("NEVEROP", on)
ns_cmd_set_noop(on) == online /\ UserFlag("NOOP", on)
ns_cmd_set_nogreet(on) == online /\ UserFlag("NOGREET", on)
ns_cmd_set_notifyacl(on) == online /\ UserFlag("NOTIFYACL", on)
ns_cmd_set_notifymemo(on) == online /\ UserFlag("NOTIFYMEMO", on)
ns_cmd_set_notifyset(on) == online /\ UserFlag("NOTIFYSET", on)
ns_cmd_set_emailnotify(on) == online /\ UserFlag("EMAILNOTIFY", on)
ns_cmd_set_nomemo(on) == online /\ UserFlag("NOMEMO", on)
ns_cmd_set_privmsg(on) == online /\ UserFlag("USE_PRIVMSG", on)
ns_cmd_set_emailmemos(on) == online /\ (on => MTA) /\ UserFlag("EMAILMEMOS", on)

\* PRIVATE hides the address as well; taking it off leaves it hidden.
ns_cmd_set_private(on) ==
    /\ online /\ ns_cmd_set /\ ("PRIVATE" \in uf) # on
    /\ uf' = IF on THEN uf \union {"PRIVATE", "HIDEMAIL"} ELSE uf \ {"PRIVATE"}
    /\ UNCHANGED <<umd, lang, online>>

\* For operators.
ns_cmd_hold(on) == UserFlag("HOLD", on)
ns_cmd_regnolimit(on) == UserFlag("REGNOLIMIT", on)

\* "default" is None.
ns_cmd_set_language(x) == online /\ ns_cmd_set /\ lang' = x /\ UNCHANGED <<uf, umd, online>>

UserData(new) == online /\ ns_cmd_set /\ umd' = new /\ UNCHANGED <<uf, lang, online>>

ns_cmd_set_pubkey(v) ==
    LET k == "private:pubkey" IN
    /\ v # (IF k \in DOMAIN umd THEN umd[k] ELSE None)
    /\ UserData(IF v = None THEN metadata_delete(umd, k) ELSE metadata_add(umd, k, v))

ns_cmd_set_property(k, v) ==
    /\ IF v = None THEN k \in DOMAIN umd ELSE Count(umd) < MdLimit
    /\ UserData(IF v = None THEN metadata_delete(umd, k) ELSE metadata_add(umd, k, v))

ns_cmd_vacation == UserData(metadata_add(umd, "private:vacation", "on"))

\* Logging in ends the vacation.
user_identify_hook ==
    /\ ~online /\ online' = TRUE /\ umd' = metadata_delete(umd, "private:vacation")
    /\ UNCHANGED <<chanVars, uf, lang, disk, saved, n>>

ns_cmd_logout == online /\ online' = FALSE /\ UNCHANGED <<chanVars, uf, umd, lang, disk, saved, n>>

\* The account's server splits (servers.c:221): a login may be restored.
Split ==
    /\ online /\ online' = FALSE /\ uf' = uf \ {"NOBURSTLOGIN"}
    /\ UNCHANGED <<chanVars, umd, lang, disk, saved, n>>

-----------------------------------------------------------------------------
(* The database *)

\* The rows of the account and of its metadata; NOBURSTLOGIN is not written for an
\* account in use.
SavedAccount == [uf |-> gflags_tostr(mu_flags, IF online THEN uf \ {"NOBURSTLOGIN"} ELSE uf), umd |-> umd, lang |-> lang]

SavedChannel == [cf |-> gflags_tostr(mc_flags, cf), cmd |-> cmd]

corestorage_db_save ==
    /\ disk' = [u |-> SavedAccount, c |-> SavedChannel]
    /\ saved' = [uf |-> uf, umd |-> umd, lang |-> lang, cf |-> cf, cmd |-> cmd, online |-> online]
    /\ UNCHANGED <<chanVars, userVars, n>>

\* MDU and MDC: a later row replaces what an earlier one has set.
corestorage_h_md(f, d) == [k \in DOMAIN f \union DOMAIN d |-> IF k \in DOMAIN d THEN d[k] ELSE f[k]]

\* myuser_add_id(): ENFORCE becomes metadata.
Enforced(fs) == fs \ {"ENFORCE"}
EnforceData(fs) == IF "ENFORCE" \in fs THEN [k \in {"private:doenforce"} |-> "1"] ELSE [k \in {} |-> None]

corestorage_h_mu(d) ==
    LET fs == gflags_fromstr(mu_flags, d.uf) IN
    uf' = Enforced(fs) /\ umd' = corestorage_h_md(EnforceData(fs), d.umd) /\ lang' = d.lang

corestorage_h_mc(d) ==
    cf' = gflags_fromstr(mc_flags, d.cf) /\ cmd' = corestorage_h_md([k \in {} |-> None], d.cmd)

\* Services start.  The server is told of the locks when the channels are joined.
Start ==
    /\ disk # None /\ corestorage_h_mu(disk.u) /\ corestorage_h_mc(disk.c)
    /\ online' = FALSE /\ locked' = ("TOPICLOCK" \in cf')
    /\ UNCHANGED <<disk, saved, n>>

-----------------------------------------------------------------------------

\* The defaults: NOPASSWORD is taken out, TOPICLOCK brings KEEPTOPIC.
c_gi_uflags(fs) == fs \ {"NOPASSWORD"}
c_gi_cflags(fs) == IF "TOPICLOCK" \in fs THEN fs \union {"KEEPTOPIC"} ELSE fs

\* The account and the channel have just been registered.
Init ==
    /\ \E d \in Defaults :
        /\ uf = Enforced(c_gi_uflags(d.u)) \union {"NOBURSTLOGIN"} /\ umd = EnforceData(d.u)
        /\ cf = c_gi_cflags(d.c)
    /\ cmd = [k \in {} |-> None] /\ lang = None /\ online = TRUE /\ locked = ("TOPICLOCK" \in cf)
    /\ disk = None /\ saved = None /\ n = 0

Next ==
    \/ \E on \in BOOLEAN :
        \/ \E l \in Levels :
            \/ cs_cmd_set_secure(l, on) \/ cs_cmd_set_restricted(l, on) \/ cs_cmd_set_private(l, on)
            \/ cs_cmd_set_pubacl(l, on) \/ cs_cmd_set_nosync(l, on) \/ cs_cmd_set_limitflags(l, on)
            \/ cs_cmd_set_topiclock(l, on) \/ cs_cmd_set_keeptopic(l, on) \/ cs_cmd_set_fantasy(l, on)
        \/ cs_cmd_hold(on)
        \/ ns_cmd_set_hidemail(on) \/ ns_cmd_set_nevergroup(on) \/ ns_cmd_set_quietchg(on)
        \/ ns_cmd_set_neverop(on) \/ ns_cmd_set_noop(on) \/ ns_cmd_set_nogreet(on)
        \/ ns_cmd_set_notifyacl(on) \/ ns_cmd_set_notifymemo(on) \/ ns_cmd_set_notifyset(on)
        \/ ns_cmd_set_emailnotify(on) \/ ns_cmd_set_nomemo(on) \/ ns_cmd_set_privmsg(on)
        \/ ns_cmd_set_emailmemos(on) \/ ns_cmd_set_private(on) \/ ns_cmd_hold(on) \/ ns_cmd_regnolimit(on)
    \/ \E l \in Levels :
        \/ \E how \in {{}, {"VERBOSE"}, {"VERBOSE_OPS"}} : cs_cmd_set_verbose(l, how)
        \/ \E v \in {"ALL", "VOICE", "OP", None} : cs_cmd_set_gameserv(l, v)
        \/ \E v \in Values \union {None} :
            \/ cs_cmd_set_prefix(l, v) \/ cs_cmd_set_entrymsg(l, v)
            \/ cs_cmd_set_email(l, v) \/ cs_cmd_set_url(l, v)
            \/ \E k \in Props : cs_cmd_set_property(l, k, v)
    \/ \E v \in Values \union {None} : ns_cmd_set_pubkey(v) \/ \E k \in Props : ns_cmd_set_property(k, v)
    \/ \E x \in Languages \union {None} : ns_cmd_set_language(x)
    \/ ns_cmd_vacation \/ user_identify_hook \/ ns_cmd_logout \/ Split
    \/ corestorage_db_save \/ Start

Spec == Init /\ [][Next]_vars

-----------------------------------------------------------------------------
(* Properties *)

\* The flags that the tables do not bring back (see NothingLost).
Unsaved == {"NOTIFYMEMO", "EMAILNOTIFY", "EMAILMEMOS"}

\* What was set is set after a restart; NOBURSTLOGIN is dropped on purpose for an
\* account in use (corestorage.c:90).
SurvivesRestart ==
    [][Start =>
        /\ cf' = saved.cf /\ cmd' = saved.cmd /\ umd' = saved.umd /\ lang' = saved.lang
        /\ uf' \ Unsaved = (IF saved.online THEN saved.uf \ {"NOBURSTLOGIN"} ELSE saved.uf) \ Unsaved]_vars

\* "TOPICLOCK requires KEEPTOPIC and will automatically enable it; disabling
\* KEEPTOPIC will disable TOPICLOCK also" (help/default/cservice/set_topiclock:11).
LockKeeps == "TOPICLOCK" \in cf => "KEEPTOPIC" \in cf

\* One kind of verbosity at most.
VerboseOnce == ~({"VERBOSE", "VERBOSE_OPS"} \subseteq cf)

\* SET PROPERTY adds no more than the limit, whatever other commands have stored.
PropertiesLimited ==
    /\ Cardinality(DOMAIN cmd \intersect (Props \ (ChanOwn \union Private))) <= MdLimit
    /\ Cardinality(DOMAIN umd \intersect (Props \ Private)) <= MdLimit

\* The settings stay consistent and survive restarts.
SettingsHold == [](LockKeeps /\ VerboseOnce /\ PropertiesLimited) /\ SurvivesRestart

\* Not so: EMAILNOTIFY is written with the letter of EMAILMEMOS and read back as
\* that, and NOTIFYMEMO has no letter (flags.c:57-80).
NothingLost == [][Start => uf' \union {"NOBURSTLOGIN"} = saved.uf \union {"NOBURSTLOGIN"}]_vars

\* Not so: KEEPTOPIC OFF ends the lock but the server keeps it (set_keeptopic.c:97).
ServerFollows == locked <=> "TOPICLOCK" \in cf
=============================================================================
