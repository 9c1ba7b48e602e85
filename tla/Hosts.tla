------------------------------- MODULE Hosts -------------------------------
(***************************************************************************)
(* HostServ: the virtual hosts of accounts and of single nicknames, what   *)
(* the clients show, requests and offers (modules/hostserv and             *)
(* nickserv/vhost), while accounts and nicknames come, go and are renamed  *)
(* as in the module Nicks.                                                 *)
(*                                                                         *)
(* A request is kept by the name it is for and outlives the change of what *)
(* the name stands for, unless a hook of HostServ hears of it.             *)
(*                                                                         *)
(* Left out: which hosts are valid, limit_first_request, the log of        *)
(* changes; HOLD and MARK of Nicks, at which HostServ does not look.       *)
(***************************************************************************)
EXTENDS Nicks, Sequences, SequencesExt

CONSTANTS
    Users,           \* clients
    VHosts,          \* hosts without "$account"
    Template,        \* the host with "$account"
    Groups,          \* groups hosts are offered to
    GroupTemplates,  \* the hosts the template of some group gives its members
    PerNick,         \* request_per_nick
    MaxOffers        \* bound: offers at a time

\* A host made from the template is written as the name that is in it.
Shown == VHosts \union Names \union {None}

VARIABLES
    host,     \* what is recorded for accounts and nicknames, and shown
    login,    \* u->myuser
    nick,     \* u->nick
    req,      \* hs_reqlist: the host asked for under each name, and by whom
    offers    \* hs_offeredlist

hostVars == <<host, login, nick, req, offers>>
vars == <<nickVars, hostVars>>

TypeOK ==
    /\ NickTypeOK
    /\ host \in [cloak : [Accts -> Shown], nick : [Accts \X Names -> Shown],
                 recent : SUBSET Accts, shown : [Users -> Shown]]
    /\ login \in [Users -> Accts \union {None}] /\ nick \in [Users -> Names]
    /\ req \in [Names -> [host : Shown, by : Accts \union {None}]]
    /\ offers \subseteq (VHosts \union {Template}) \X (Groups \union {None})

NoRequest == [host |-> None, by |-> None]

Init ==
    /\ NickInit
    /\ host = [cloak |-> [a \in Accts |-> None], nick |-> [p \in Accts \X Names |-> None],
               recent |-> {}, shown |-> [u \in Users |-> None]]
    /\ login = [u \in Users |-> None] /\ nick \in [Users -> Names]
    /\ req = [n \in Names |-> NoRequest] /\ offers = {}

-----------------------------------------------------------------------------
(* hostserv.h: what becomes of the record s *)

\* allow_vhost_change(): once in a while, or with the privilege to override it.
allow_vhost_change(s, a, override) == override \/ a \notin s.recent

do_sethost(s, u, h) == [s EXCEPT !.shown[u] = h]
do_sethost_all(s, a, h) == [s EXCEPT !.shown = [u \in Users |-> IF login[u] = a THEN h ELSE @[u]]]

\* hs_sethost_all(): one host for the account and all its nicknames.
hs_sethost_all(s, a, h) ==
    [s EXCEPT !.nick = [p \in Accts \X Names |-> IF p[1] = a /\ owner[p[2]] = a THEN None ELSE @[p]],
              !.cloak[a] = h, !.recent = @ \union {a}]

SetAll(s, a, h) == do_sethost_all(hs_sethost_all(s, a, h), a, h)

\* The host for a client of the account: that of its nickname comes first.
HostOf(s, a, n) == IF s.nick[a, n] # None THEN s.nick[a, n] ELSE s.cloak[a]

\* VHOST and VHOSTNICK with a host, as ACTIVATE runs them: the account is whoever
\* has the nickname.
hs_cmd_vhost(s, n, h, override) ==
    IF owner[n] # None /\ allow_vhost_change(s, owner[n], override)
    THEN SetAll(s, owner[n], h) ELSE s

ShownBy(s, n, h) == [s EXCEPT !.shown = [u \in Users |-> IF nick[u] = n THEN h ELSE @[u]]]
hs_cmd_vhostnick(s, n, h, override) ==
    IF owner[n] # None /\ allow_vhost_change(s, owner[n], override)
    THEN ShownBy([s EXCEPT !.nick[<<owner[n], n>>] = h], n, IF h = None THEN s.cloak[owner[n]] ELSE h)
    ELSE s

Grant(s, n, h, override) ==
    IF PerNick THEN hs_cmd_vhostnick(s, n, h, override) ELSE hs_cmd_vhost(s, n, h, override)

-----------------------------------------------------------------------------
(* Operators and users set hosts *)

Others == <<nickVars, login, nick, req, offers>>

\* Removing the host of an account needs no leave.
Vhost(n, override) ==
    /\ owner[n] # None
    /\ \/ \E h \in VHosts : host' = hs_cmd_vhost(host, n, h, override)
       \/ host' = SetAll(host, owner[n], None)
       \/ \E h \in VHosts \union {None} : host' = hs_cmd_vhostnick(host, n, h, override)
    /\ UNCHANGED Others

\* VHOST of NickServ leaves the hosts of nicknames alone.
ns_cmd_vhost(a, h) ==
    /\ h # host.cloak[a]
    /\ host' = do_sethost_all([host EXCEPT !.cloak[a] = h, !.recent = @ \union {a}], a, h)
    /\ UNCHANGED Others

\* ON, OFF and GROUP of a client on a nickname of its account that has a host.
hs_cmd_on(u, h) == host' = do_sethost(host, u, h)
hs_cmd_off(u) == host' = do_sethost(host, u, None)
hs_cmd_group(u, h) == host' = SetAll(host, login[u], h)
OnOffGroup(u) ==
    LET h == HostOf(host, login[u], nick[u]) IN
    /\ owner[nick[u]] = login[u] /\ h # None
    /\ hs_cmd_on(u, h) \/ hs_cmd_off(u) \/ hs_cmd_group(u, h)
    /\ UNCHANGED Others

hs_cmd_drop(u) == host' = SetAll(host, login[u], None) /\ UNCHANGED Others

\* The period after which an account may change its host again has passed.
PeriodOver(a) ==
    /\ a \in host.recent
    /\ host' = [host EXCEPT !.recent = @ \ {a}]
    /\ UNCHANGED Others

-----------------------------------------------------------------------------
(* Offers *)

\* "$account" is replaced by the name of the account.
Replaced(t, a) == IF t = Template THEN main[a] ELSE t

\* The groups in which the account has GA_VHOST are gs.
Offered(gs) == {o[1] : o \in {p \in offers : p[2] = None \/ p[2] \in gs}}

hs_cmd_offer(t, g) ==
    /\ Cardinality(offers) < MaxOffers
    /\ IF g = None THEN \A o \in offers : o[1] # t ELSE <<t, g>> \notin offers
    /\ offers' = offers \union {<<t, g>>}
    /\ UNCHANGED <<nickVars, host, login, nick, req>>

hs_cmd_unoffer(t) ==
    /\ \E o \in offers : o[1] = t
    /\ offers' = {o \in offers : o[1] # t}
    /\ UNCHANGED <<nickVars, host, login, nick, req>>

\* The group is dropped.
remove_group_offered_hosts(g) ==
    /\ offers' = {o \in offers : o[2] # g}
    /\ UNCHANGED <<nickVars, host, login, nick, req>>

\* TAKE, of an offer or of what the template of a group gives.
hs_cmd_take(u, gs, override) ==
    /\ allow_vhost_change(host, login[u], override)
    /\ \E t \in Offered(gs) \union (IF gs # {} THEN GroupTemplates ELSE {}) :
           host' = SetAll(host, login[u], Replaced(t, login[u]))
    /\ UNCHANGED Others

\* A host made from the template follows the name of its account.
update_vhost_on_account_name_change(a, n, gs) ==
    IF /\ host.cloak[a] = main[a]
       /\ Template \in Offered(gs) \union (IF gs # {} THEN GroupTemplates ELSE {})
    THEN SetAll(host, a, n) ELSE host

-----------------------------------------------------------------------------
(* Requests *)

Target(u) == IF PerNick THEN nick[u] ELSE main[login[u]]
Has(u) == IF PerNick THEN host.nick[login[u], nick[u]] ELSE host.cloak[login[u]]

\* No account has the host.
Free(h) ==
    /\ \A a \in exist : host.cloak[a] # h
    /\ \A n \in Names : owner[n] # None => host.nick[owner[n], n] # h

hs_cmd_request(u, h, override) ==
    /\ allow_vhost_change(host, login[u], override)
    /\ PerNick => owner[nick[u]] = login[u]
    /\ h # Has(u) /\ Free(h) /\ req[Target(u)].host # h
    /\ req' = [req EXCEPT ![Target(u)] = [host |-> h, by |-> login[u]]]
    /\ UNCHANGED <<nickVars, host, login, nick, offers>>

\* ACTIVATE looks first whether the account of the name may have another host,
\* but only while someone uses the nickname; VHOST may refuse when the request
\* is gone already.
hs_cmd_activate(n, override) ==
    /\ req[n].host # None
    /\ ~ \E u \in Users, a \in exist :
            nick[u] = n /\ main[a] = n /\ ~allow_vhost_change(host, a, override)
    /\ host' = Grant(host, n, req[n].host, override)
    /\ req' = [req EXCEPT ![n] = NoRequest]
    /\ UNCHANGED <<nickVars, login, nick, offers>>

\* ACTIVATE *, in the order of the list.
Pending == {n \in Names : req[n].host # None}
ActivateAll(override) ==
    /\ Pending # {}
    /\ \E order \in SetToSeqs(Pending) :
           host' = FoldLeft(LAMBDA s, n : Grant(s, n, req[n].host, override), host, order)
    /\ req' = [n \in Names |-> NoRequest]
    /\ UNCHANGED <<nickVars, login, nick, offers>>

\* REJECT of some, or of all.
hs_cmd_reject(ns) ==
    /\ ns # {} /\ ns \subseteq Pending
    /\ req' = [n \in Names |-> IF n \in ns THEN NoRequest ELSE req[n]]
    /\ UNCHANGED <<nickVars, host, login, nick, offers>>

-----------------------------------------------------------------------------
(* NickServ, with what HostServ hears of it *)

\* nick_drop_request() and account_delete_request().
nick_drop_request(n) == req' = [req EXCEPT ![n] = NoRequest]

\* Mutant of account_delete_request: nobody tells HostServ.
KeepRequest(a) == req' = req
account_delete_request(a) == req' = [req EXCEPT ![main[a]] = NoRequest]

\* What was recorded for the account goes with it, and its clients are logged out.
Forget(a) ==
    /\ host' = [host EXCEPT !.cloak[a] = None, !.recent = @ \ {a},
                            !.nick = [p \in Accts \X Names |-> IF p[1] = a THEN None ELSE @[p]]]
    /\ login' = [u \in Users |-> IF login[u] = a THEN None ELSE login[u]]

Nickserv ==
    \/ /\ \E a \in Accts, n \in Names :
              \/ ns_cmd_register(a, n)
              \/ a \in exist /\ (ns_cmd_group(a, n) \/ ns_cmd_fgroup(a, n) \/ expire_nick(a, n))
       /\ UNCHANGED hostVars
    \/ \E a \in exist, n \in Names :
         /\ ns_cmd_ungroup(a, n) \/ \E m \in Names : ns_cmd_fungroup(a, n, m)
         /\ nick_drop_request(n)
         /\ UNCHANGED <<host, login, nick, offers>>
    \/ \E a \in exist :
         /\ ns_cmd_drop(a) \/ ns_cmd_fdrop(a) \/ expire_myuser_cb(a)
         /\ account_delete_request(a) /\ Forget(a)
         /\ UNCHANGED <<nick, offers>>
    \/ \E a \in exist \ host.recent, n \in Names, gs \in SUBSET Groups :
         /\ ns_cmd_set_accountname(a, n)
         /\ host' = update_vhost_on_account_name_change(a, n, gs)
         /\ UNCHANGED <<login, nick, req, offers>>

\* A client logs in and is given its host, logs out, or changes its nickname.
on_user_identify(u, a) ==
    LET h == HostOf(host, a, nick[u]) IN
    /\ login[u] = None
    /\ login' = [login EXCEPT ![u] = a]
    /\ host' = IF h = None THEN host ELSE do_sethost(host, u, h)
    /\ UNCHANGED <<nickVars, nick, req, offers>>
Logout(u) ==
    /\ login[u] # None
    /\ login' = [login EXCEPT ![u] = None]
    /\ UNCHANGED <<nickVars, host, nick, req, offers>>
NickChange(u, n) ==
    /\ \A v \in Users : nick[v] # n
    /\ nick' = [nick EXCEPT ![u] = n]
    /\ UNCHANGED <<nickVars, host, login, req, offers>>

Next ==
    \/ Nickserv
    \/ \E override \in BOOLEAN :
         \/ \E n \in Names : Vhost(n, override) \/ hs_cmd_activate(n, override)
         \/ ActivateAll(override)
         \/ \E u \in {v \in Users : login[v] # None} :
              \/ \E h \in VHosts : hs_cmd_request(u, h, override)
              \/ \E gs \in SUBSET Groups : hs_cmd_take(u, gs, override)
    \/ \E a \in exist : PeriodOver(a) \/ \E h \in VHosts \union {None} : ns_cmd_vhost(a, h)
    \/ \E ns \in SUBSET Names : hs_cmd_reject(ns)
    \/ \E t \in VHosts \union {Template} :
         hs_cmd_unoffer(t) \/ \E g \in Groups \union {None} : hs_cmd_offer(t, g)
    \/ \E g \in Groups : remove_group_offered_hosts(g)
    \/ \E u \in Users :
         \/ login[u] # None /\ (OnOffGroup(u) \/ hs_cmd_drop(u))
         \/ Logout(u)
         \/ \E a \in exist : on_user_identify(u, a)
         \/ \E n \in Names : NickChange(u, n)

Spec == Init /\ [][Next]_vars

-----------------------------------------------------------------------------

\* A request under the name of the account that made it can be given only to
\* this account: it is still there and the name still its own, however often the
\* nicknames were dropped, regrouped, expired or renamed.  (A request under
\* another nickname of the account, or under a name the account has given up
\* since, can outlive it and go to whoever registers the name next.)
RequestsOwned ==
    \A n \in Pending :
        n = main[req[n].by] => req[n].by \in exist /\ owner[n] = req[n].by
=============================================================================
