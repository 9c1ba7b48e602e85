------------------------------- MODULE Nicks -------------------------------
(***************************************************************************)
(* Accounts, their names and the nicknames grouped to them (account.c and  *)
(* the commands of NickServ that change them), with the marks operators    *)
(* put on accounts, which outlive the account by its name.                 *)
(*                                                                         *)
(* An account is an identifier that is used once (entity(mu)->id); its     *)
(* name is that of one of its nicknames, and SET ACCOUNTNAME and FUNGROUP  *)
(* change it.  HostServ and MemoServ keep names, not accounts: the modules *)
(* Hosts and Memos are about what becomes of those.                        *)
(*                                                                         *)
(* Left out: what only refuses a command (passwords, RESTRICT, e-mail      *)
(* limits, IRC operators' accounts), and services without nick ownership.  *)
(***************************************************************************)
EXTENDS Naturals, FiniteSets

CONSTANTS
    Accts,     \* identifiers of accounts
    Names,     \* nicknames
    MaxNicks,  \* nicksvs.maxnicks
    None

\* What the constants are.
NicksAssumption == None \notin Accts \union Names /\ MaxNicks \in Nat \ {0}

VARIABLES
    exist,   \* the accounts there are
    unused,  \* the identifiers not given out yet
    main,    \* entity(mu)->name
    owner,   \* nicklist: mn->owner
    held,    \* the accounts with MU_HOLD
    mark,    \* the accounts with private:mark:setter
    old      \* oldnameslist: the names whose mark is remembered

nickVars == <<exist, unused, main, owner, held, mark, old>>

NickTypeOK ==
    /\ exist \subseteq Accts /\ unused \subseteq Accts
    /\ main \in [Accts -> Names \union {None}] /\ owner \in [Names -> Accts \union {None}]
    /\ held \subseteq exist /\ mark \subseteq exist /\ old \subseteq Names

NickInit ==
    /\ exist = {} /\ unused = Accts
    /\ main = [a \in Accts |-> None] /\ owner = [n \in Names |-> None]
    /\ held = {} /\ mark = {} /\ old = {}

NicksOf(a) == {n \in Names : owner[n] = a}

-----------------------------------------------------------------------------
(* account.c *)

\* myuser_name_restore(): the account that takes the name takes its mark.
myuser_name_restore(n, a) ==
    /\ mark' = IF n \in old THEN mark \union {a} ELSE mark
    /\ old' = old \ {n}

\* mynick_add().
mynick_add(a, n) ==
    /\ owner' = [owner EXCEPT ![n] = a]
    /\ myuser_name_restore(n, a)

\* Mutant of myuser_name_remember: the mark goes with the nickname.
ForgetName(n, a) == old' = old

\* myuser_name_remember(): a name leaves an account that is marked.
myuser_name_remember(n, a) == old' = IF a \in mark THEN old \union {n} ELSE old

\* mynick_delete().
mynick_delete(n) ==
    /\ myuser_name_remember(n, owner[n])
    /\ owner' = [owner EXCEPT ![n] = None]

\* myuser_delete().  Its name is remembered first; when the other nicknames go
\* the account has no metadata any more.
myuser_delete(a) ==
    /\ myuser_name_remember(main[a], a)
    /\ owner' = [n \in Names |-> IF owner[n] = a THEN None ELSE owner[n]]
    /\ exist' = exist \ {a} /\ held' = held \ {a} /\ mark' = mark \ {a}
    /\ UNCHANGED <<unused, main>>

\* myuser_rename().
myuser_rename(a, n) == main' = [main EXCEPT ![a] = n]

-----------------------------------------------------------------------------
(* NickServ *)

ns_cmd_register(a, n) ==
    /\ a \in unused /\ owner[n] = None
    /\ exist' = exist \union {a} /\ unused' = unused \ {a}
    /\ main' = [main EXCEPT ![a] = n]
    /\ mynick_add(a, n)
    /\ UNCHANGED held

\* GROUP of the nickname the user has.
ns_cmd_group(a, n) ==
    /\ Cardinality(NicksOf(a)) < MaxNicks
    /\ owner[n] = None
    /\ mynick_add(a, n)
    /\ UNCHANGED <<exist, unused, main, held>>

\* FGROUP knows no limit.
ns_cmd_fgroup(a, n) ==
    /\ owner[n] = None
    /\ mynick_add(a, n)
    /\ UNCHANGED <<exist, unused, main, held>>

ns_cmd_ungroup(a, n) ==
    /\ owner[n] = a /\ n # main[a]
    /\ mynick_delete(n)
    /\ UNCHANGED <<exist, unused, main, held, mark>>

\* FUNGROUP may take the name of the account, if another of its nicknames is
\* given for it.
ns_cmd_fungroup(a, n, m) ==
    /\ owner[n] = a
    /\ IF n = main[a] THEN owner[m] = a /\ m # n /\ myuser_rename(a, m)
                      ELSE m = n /\ UNCHANGED main
    /\ mynick_delete(n)
    /\ UNCHANGED <<exist, unused, held, mark>>

\* Mutant of ns_cmd_set_accountname: any nickname that is nobody's will do.
SetAccountnameFree(a, n) ==
    /\ owner[n] \in {a, None} /\ n # main[a]
    /\ myuser_rename(a, n)
    /\ UNCHANGED <<exist, unused, owner, held, mark, old>>

ns_cmd_set_accountname(a, n) ==
    /\ owner[n] = a /\ n # main[a]
    /\ myuser_rename(a, n)
    /\ UNCHANGED <<exist, unused, owner, held, mark, old>>

\* DROP by its owner: with grouped nicknames it is refused.
ns_cmd_drop(a) == a \notin held /\ NicksOf(a) = {main[a]} /\ myuser_delete(a)
ns_cmd_fdrop(a) == a \notin held /\ myuser_delete(a)

\* The hourly expiry of accounts, and of nicknames that were not used.
expire_myuser_cb(a) == a \notin held /\ myuser_delete(a)
expire_nick(a, n) ==
    /\ owner[n] = a /\ a \notin held /\ n # main[a]
    /\ mynick_delete(n)
    /\ UNCHANGED <<exist, unused, main, held, mark>>

ns_cmd_hold(a) ==
    /\ held' = IF a \in held THEN held \ {a} ELSE held \union {a}
    /\ UNCHANGED <<exist, unused, main, owner, mark, old>>

\* MARK ON and OFF of an account, and OFF of a name that is remembered.
MarkOn(a) == a \notin mark /\ mark' = mark \union {a} /\ UNCHANGED old
MarkOff(a) == a \in mark /\ mark' = mark \ {a} /\ UNCHANGED old
MarkForgotten(n) == owner[n] = None /\ n \in old /\ old' = old \ {n} /\ UNCHANGED mark
ns_cmd_mark ==
    /\ \/ \E a \in exist : MarkOn(a) \/ MarkOff(a)
       \/ \E n \in Names : MarkForgotten(n)
    /\ UNCHANGED <<exist, unused, main, owner, held>>

NickNext ==
    \/ \E a \in Accts, n \in Names : ns_cmd_register(a, n)
    \/ \E a \in exist :
         \/ \E n \in Names :
              \/ ns_cmd_group(a, n) \/ ns_cmd_fgroup(a, n) \/ ns_cmd_ungroup(a, n)
              \/ \E m \in Names : ns_cmd_fungroup(a, n, m)
              \/ ns_cmd_set_accountname(a, n) \/ expire_nick(a, n)
         \/ ns_cmd_drop(a) \/ ns_cmd_fdrop(a) \/ expire_myuser_cb(a) \/ ns_cmd_hold(a)
    \/ ns_cmd_mark

NickSpec == NickInit /\ [][NickNext]_nickVars

-----------------------------------------------------------------------------

\* The name of an account is always one of its own nicknames, and every nickname
\* belongs to an account there is: REGISTER looks only for a nickname, and two
\* accounts of one name would be one entry of accountlist.  db_check() repairs
\* at the next start what breaks this.
NamesOwned ==
    /\ \A a \in exist : owner[main[a]] = a
    /\ \A n \in Names : owner[n] # None => owner[n] \in exist

\* A name is marked while its account is, or while its mark is remembered.
Marked(n) == n \in old \/ owner[n] \in mark

\* A marked name stops being marked only by MARK OFF, except that the nicknames
\* grouped to an account that is deleted lose the mark (see the README): not by
\* dropping, ungrouping, expiry, renaming or registering it again.
MarksStick ==
    \A n \in Names :
        Marked(n) /\ ~Marked(n)' =>
            \/ UNCHANGED <<exist, owner>>
            \/ owner[n] \in exist \ exist' /\ n # main[owner[n]]

\* Names stay owned, and marks stick to them.
NicksKept == []NamesOwned /\ [][MarksStick]_nickVars

\* NEWS.md promises to "Save marks when nicks/accounts are dropped and restore
\* them if they are recreated": not so for the nicknames grouped to an account.
AllMarksSaved == [][\A n \in Names : Marked(n) /\ ~Marked(n)' => UNCHANGED <<exist, owner>>]_nickVars
=============================================================================
