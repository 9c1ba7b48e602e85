---------------------------- MODULE Credentials ----------------------------
(***************************************************************************)
(* How an account is entered and how its owner gets back into it: the      *)
(* password, certificate fingerprints, the access list with STRICTACCESS,  *)
(* and the keys that NickServ mails to the account's address for SETPASS,  *)
(* RESETSTRICTACCESS and VERIFY.  A mail may fail to be sent, and arrives  *)
(* at the address it was sent to, which may not be the account's any more  *)
(* when the key is used.                                                   *)
(*                                                                         *)
(* What a password is does not matter here: whoever uses IDENTIFY gives    *)
(* the right one.  Module Logins has the logins themselves.                *)
(***************************************************************************)
EXTENDS Naturals, FiniteSets

CONSTANTS
    Accts,      \* names of accounts
    Emails,     \* addresses; each is canonical
    Users,      \* users on the network
    CertOf,     \* the certificate fingerprint of each, or None
    HostOf,     \* the host of each
    Certs,      \* fingerprints
    AuthEmail,  \* me.auth is AUTH_EMAIL: addresses are verified
    SetPass,    \* the module setpass is loaded
    MaxUsers,   \* me.maxusers: accounts for an address
    MdLimit,    \* me.mdlimit
    MaxBad,     \* bound: addresses of BADMAIL
    None

\* What the constants are.
CredentialsAssumption ==
    /\ None \notin Accts \union Emails
    /\ DOMAIN CertOf = Users /\ DOMAIN HostOf = Users
    /\ \A u \in Users : CertOf[u] \in Certs \union {None}
    /\ AuthEmail \in BOOLEAN /\ SetPass \in BOOLEAN /\ MaxUsers \in Nat \ {0} /\ MdLimit \in Nat /\ MaxBad \in Nat

VARIABLES
    mu,        \* what services know of each account that exists
    login,     \* the account each user is logged in to, or None
    usedcert,  \* users with UF_USEDCERT
    bad,       \* the addresses of BADMAIL
    byOper     \* accounts whose address an operator has changed

vars == <<mu, login, usedcert, bad, byOper>>

UserHosts == {HostOf[u] : u \in Users}
Address == Emails \union {None}

\* An account: its address; flags; certificates; access list; and for each key the
\* address it was mailed to (newemail: the address that waits to be verified).
Account ==
    [email : Emails, wait : BOOLEAN, frozen : BOOLEAN, nopass : BOOLEAN, strict : BOOLEAN,
     certs : SUBSET Certs, access : SUBSET UserHosts, setpass : Address, strictkey : Address, newemail : Address]

TypeOK ==
    /\ DOMAIN mu \subseteq Accts /\ \A a \in DOMAIN mu : mu[a] \in Account
    /\ login \in [Users -> DOMAIN mu \union {None}]
    /\ usedcert \subseteq Users /\ bad \subseteq Emails /\ byOper \subseteq DOMAIN mu

-----------------------------------------------------------------------------
(* Accounts *)

LoginsOf(a) == {u \in Users : login[u] = a}

myuser_set_email(m, e) == [m EXCEPT !.email = e]

email_within_limits(e) == Cardinality({a \in DOMAIN mu : mu[a].email = e}) < MaxUsers

myuser_access_verify(u, a) == ~mu[a].frozen /\ HostOf[u] \in mu[a].access

\* The limit is passed by one entry, for the list is compared before one is added.
myuser_access_add(m, h) == [m EXCEPT !.access = @ \union {h}]

mycertfp_find(c) == {a \in DOMAIN mu : c \in mu[a].certs}
mycertfp_add(m, c) == [m EXCEPT !.certs = @ \union {c}]
mycertfp_delete(m, c) == [m EXCEPT !.certs = @ \ {c}]

\* sendemail(): whether it works is not in the hands of services.
sendemail == BOOLEAN

Without(f, a) == [x \in DOMAIN f \ {a} |-> f[x]]
Changes(a, m) == mu' = [mu EXCEPT ![a] = m]

\* The account goes and its users are logged out (account.c:206).
myuser_delete(a) ==
    /\ mu' = Without(mu, a)
    /\ login' = [u \in Users |-> IF login[u] = a THEN None ELSE login[u]]
    /\ byOper' = byOper \ {a}

-----------------------------------------------------------------------------
(* Registration *)

\* BADMAIL's hook refuses addresses that are listed.
check_registration(e) == e \notin bad

ns_cmd_register(u, a, e) ==
    /\ login[u] = None /\ a \notin DOMAIN mu
    /\ check_registration(e) /\ email_within_limits(e)
    /\ \E ok \in sendemail :
        /\ ~AuthEmail \/ ok
        /\ mu' = [x \in DOMAIN mu \union {a} |-> IF x # a THEN mu[x] ELSE
                  [email |-> e, wait |-> AuthEmail, frozen |-> FALSE, nopass |-> FALSE, strict |-> FALSE,
                   certs |-> {}, access |-> {}, setpass |-> None, strictkey |-> None, newemail |-> None]]
    /\ login' = [login EXCEPT ![u] = a]
    /\ UNCHANGED <<usedcert, bad, byOper>>

\* An account that is not verified, or one nobody uses, expires.
Expire(a) == a \in DOMAIN mu /\ LoginsOf(a) = {} /\ myuser_delete(a) /\ UNCHANGED <<usedcert, bad>>

VerifyRegister(a) == mu[a].wait /\ Changes(a, [mu[a] EXCEPT !.wait = FALSE])

\* VERIFY: the user must be logged in to the account and give the key.
ns_cmd_verify_register(u, a) == login[u] = a /\ a # None /\ VerifyRegister(a) /\ UNCHANGED <<login, usedcert, bad, byOper>>

ns_cmd_fverify_register(a) == a \in DOMAIN mu /\ VerifyRegister(a) /\ UNCHANGED <<login, usedcert, bad, byOper>>

-----------------------------------------------------------------------------
(* The address *)

\* SET EMAIL: a change waits for VERIFY if addresses are verified; setting the old one
\* again ends the waiting.
ns_cmd_set_email(u, e) ==
    LET a == login[u] IN
    /\ a # None
    /\ \/ mu[a].email = e /\ mu[a].newemail # None /\ Changes(a, [mu[a] EXCEPT !.newemail = None])
       \/ /\ mu[a].email # e /\ email_within_limits(e)
          /\ IF AuthEmail THEN \E ok \in sendemail : Changes(a, [mu[a] EXCEPT !.newemail = IF ok THEN e ELSE None])
             ELSE Changes(a, myuser_set_email(mu[a], e))
    /\ byOper' = IF mu'[a].email = mu[a].email THEN byOper ELSE byOper \ {a}
    /\ UNCHANGED <<login, usedcert, bad>>

\* Mutant of VerifyEmailchg: the limit is not looked at again.
VerifyUnlimited(a) ==
    /\ mu[a].newemail # None
    /\ Changes(a, [myuser_set_email(mu[a], mu[a].newemail) EXCEPT !.newemail = None])

\* The limit is looked at again: the address may have got accounts meanwhile.
VerifyEmailchg(a) ==
    /\ mu[a].newemail # None /\ email_within_limits(mu[a].newemail)
    /\ Changes(a, [myuser_set_email(mu[a], mu[a].newemail) EXCEPT !.newemail = None])

ns_cmd_verify_emailchg(u, a) ==
    /\ login[u] = a /\ a # None /\ VerifyEmailchg(a) /\ byOper' = byOper \ {a}
    /\ UNCHANGED <<login, usedcert, bad>>

\* FVERIFY looks at no limit.
ns_cmd_fverify_emailchg(a) ==
    /\ a \in DOMAIN mu /\ mu[a].newemail # None
    /\ Changes(a, [myuser_set_email(mu[a], mu[a].newemail) EXCEPT !.newemail = None])
    /\ byOper' = byOper \union {a} /\ UNCHANGED <<login, usedcert, bad>>

\* RETURN gives the account, with a new password, to whoever reads the address.
ns_cmd_return(a, e) ==
    /\ a \in DOMAIN mu
    /\ Changes(a, [myuser_set_email(mu[a], e) EXCEPT !.newemail = None, !.setpass = None])
    /\ login' = [u \in Users |-> IF login[u] = a THEN None ELSE login[u]]
    /\ byOper' = byOper \union {a} /\ UNCHANGED <<usedcert, bad>>

ns_cmd_badmail_add(e) ==
    e \notin bad /\ Cardinality(bad) < MaxBad /\ bad' = bad \union {e} /\ UNCHANGED <<mu, login, usedcert, byOper>>
ns_cmd_badmail_del(e) == e \in bad /\ bad' = bad \ {e} /\ UNCHANGED <<mu, login, usedcert, byOper>>

-----------------------------------------------------------------------------
(* Passwords *)

\* A new password ends NOPASSWORD.
Repassword(m) == [m EXCEPT !.nopass = FALSE]

ns_cmd_set_password(u) ==
    /\ login[u] # None /\ mu[login[u]].nopass
    /\ Changes(login[u], Repassword(mu[login[u]])) /\ UNCHANGED <<login, usedcert, bad, byOper>>

\* RESETPASS of an operator.
ns_cmd_resetpass(a) ==
    /\ a \in DOMAIN mu /\ Changes(a, [Repassword(mu[a]) EXCEPT !.setpass = None])
    /\ UNCHANGED <<login, usedcert, bad, byOper>>

MaySend(a) == a \in DOMAIN mu /\ ~mu[a].wait /\ ~mu[a].frozen /\ LoginsOf(a) = {}

\* SENDPASS mails a key, or, without the module setpass, a new password.
ns_cmd_sendpass(a) ==
    /\ MaySend(a) /\ SetPass /\ mu[a].setpass = None
    /\ \E ok \in sendemail : ok /\ Changes(a, [mu[a] EXCEPT !.setpass = mu[a].email])
    /\ UNCHANGED <<login, usedcert, bad, byOper>>

\* SENDPASS of the module sendpass_user, for anyone; it needs setpass.
ns_cmd_sendpass_user(a) == ns_cmd_sendpass(a)

ns_cmd_sendpass_clear(a) ==
    /\ a \in DOMAIN mu /\ ~mu[a].wait /\ mu[a].setpass # None /\ Changes(a, [mu[a] EXCEPT !.setpass = None])
    /\ UNCHANGED <<login, usedcert, bad, byOper>>

\* SETPASS: by one who has the key and is not logged in to the account.
ns_cmd_setpass(u, a) ==
    /\ a \in DOMAIN mu /\ login[u] # a /\ mu[a].setpass # None
    /\ Changes(a, [Repassword(mu[a]) EXCEPT !.setpass = None])
    /\ UNCHANGED <<login, usedcert, bad, byOper>>

\* NOPASSWORD, on or off, needs a certificate of the account.
ns_cmd_set_nopassword(u, on) ==
    /\ login[u] # None /\ mu[login[u]].nopass # on /\ CertOf[u] \in mu[login[u]].certs
    /\ Changes(login[u], [mu[login[u]] EXCEPT !.nopass = on])
    /\ UNCHANGED <<login, usedcert, bad, byOper>>

-----------------------------------------------------------------------------
(* Certificates *)

CertAdd(u, c) ==
    /\ login[u] # None /\ mycertfp_find(c) = {}
    /\ Changes(login[u], mycertfp_add(mu[login[u]], c)) /\ UNCHANGED <<login, usedcert, bad, byOper>>

\* Mutant of CertDel: the last certificate can be deleted.
CertDelLast(u, c) ==
    LET a == login[u] IN
    /\ a # None /\ c \in mu[a].certs
    /\ ~(u \in usedcert /\ mu[a].nopass /\ CertOf[u] = c)
    /\ Changes(a, mycertfp_delete(mu[a], c)) /\ UNCHANGED <<login, usedcert, bad, byOper>>

\* With NOPASSWORD one certificate has to be left, and the one in use.
CertDel(u, c) ==
    LET a == login[u] IN
    /\ a # None /\ c \in mu[a].certs
    /\ ~(mu[a].nopass /\ Cardinality(mu[a].certs) < 2)
    /\ ~(u \in usedcert /\ mu[a].nopass /\ CertOf[u] = c)
    /\ Changes(a, mycertfp_delete(mu[a], c)) /\ UNCHANGED <<login, usedcert, bad, byOper>>

-----------------------------------------------------------------------------
(* Logins *)

\* clear_setpass_key(): identifying ends a key that SENDPASS has mailed.
clear_setpass_key(m) == [m EXCEPT !.setpass = None]

Enters(u, a) ==
    /\ login' = [login EXCEPT ![u] = a] /\ Changes(a, clear_setpass_key(mu[a]))
    /\ UNCHANGED <<bad, byOper>>

Strict(u, a) == mu[a].strict => myuser_access_verify(u, a)

\* IDENTIFY with the password; a user who is logged in elsewhere is logged out there.
ns_cmd_identify(u, a) ==
    /\ a \in DOMAIN mu /\ login[u] # a /\ ~mu[a].frozen /\ ~mu[a].nopass /\ Strict(u, a)
    /\ Enters(u, a) /\ UNCHANGED usedcert

\* CERT IDENTIFY, and the same when the user connects (handle_certfp).
ns_cmd_cert_identify(u, a) ==
    /\ CertOf[u] # None /\ a \in mycertfp_find(CertOf[u])
    /\ login[u] = None /\ ~mu[a].frozen /\ Strict(u, a)
    /\ Enters(u, a) /\ usedcert' = usedcert \union {u}

\* SASL PLAIN: the hosts that STRICTACCESS looks at are those of the users who are
\* logged in already.
SaslPlain(u, a) ==
    /\ a \in DOMAIN mu /\ login[u] = None /\ ~mu[a].frozen /\ ~mu[a].nopass
    /\ mu[a].strict => \A v \in LoginsOf(a) : myuser_access_verify(v, a)
    /\ Enters(u, a) /\ UNCHANGED usedcert

ns_cmd_logout(u) ==
    /\ login[u] # None /\ login' = [login EXCEPT ![u] = None] /\ UNCHANGED <<mu, usedcert, bad, byOper>>

\* The user quits and comes back.
Reconnect(u) == login' = [login EXCEPT ![u] = None] /\ usedcert' = usedcert \ {u} /\ UNCHANGED <<mu, bad, byOper>>

ns_cmd_freeze(a, on) ==
    /\ a \in DOMAIN mu /\ mu[a].frozen # on /\ Changes(a, [mu[a] EXCEPT !.frozen = on])
    /\ login' = [u \in Users |-> IF on /\ login[u] = a THEN None ELSE login[u]]
    /\ UNCHANGED <<usedcert, bad, byOper>>

-----------------------------------------------------------------------------
(* The access list *)

ns_cmd_access_add(u, h) ==
    /\ login[u] # None /\ h \notin mu[login[u]].access /\ Cardinality(mu[login[u]].access) <= MdLimit
    /\ Changes(login[u], myuser_access_add(mu[login[u]], h)) /\ UNCHANGED <<login, usedcert, bad, byOper>>

\* A user who deletes the entry of the host it comes from is only warned.
ns_cmd_access_del(u, h) ==
    /\ login[u] # None /\ h \in mu[login[u]].access
    /\ Changes(login[u], [mu[login[u]] EXCEPT !.access = @ \ {h}]) /\ UNCHANGED <<login, usedcert, bad, byOper>>

\* STRICTACCESS is put on only from a host of the list.  When it is on already the
\* command says so and goes on.
ns_cmd_set_strictaccess(u, on) ==
    /\ login[u] # None /\ mu[login[u]].strict # on /\ (on => myuser_access_verify(u, login[u]))
    /\ Changes(login[u], [mu[login[u]] EXCEPT !.strict = on]) /\ UNCHANGED <<login, usedcert, bad, byOper>>

\* A key is mailed that lifts STRICTACCESS.
ns_cmd_resetstrictaccess(a) ==
    /\ MaySend(a) /\ mu[a].strict /\ mu[a].strictkey = None
    /\ \E ok \in sendemail : ok /\ Changes(a, [mu[a] EXCEPT !.strictkey = mu[a].email])
    /\ UNCHANGED <<login, usedcert, bad, byOper>>

ResetStrictUse(a) ==
    /\ a \in DOMAIN mu /\ mu[a].strictkey # None
    /\ Changes(a, [mu[a] EXCEPT !.strict = FALSE, !.strictkey = None])
    /\ UNCHANGED <<login, usedcert, bad, byOper>>

ResetStrictClear(a) ==
    /\ a \in DOMAIN mu /\ mu[a].strictkey # None
    /\ Changes(a, [mu[a] EXCEPT !.strictkey = None])
    /\ UNCHANGED <<login, usedcert, bad, byOper>>

-----------------------------------------------------------------------------

Init ==
    /\ mu = [a \in {} |-> 0] /\ login = [u \in Users |-> None]
    /\ usedcert = {} /\ bad = {} /\ byOper = {}

Next ==
    \/ \E u \in Users, a \in Accts :
        \/ \E e \in Emails : ns_cmd_register(u, a, e)
        \/ ns_cmd_verify_register(u, a) \/ ns_cmd_verify_emailchg(u, a)
        \/ ns_cmd_setpass(u, a) \/ ns_cmd_identify(u, a) \/ ns_cmd_cert_identify(u, a) \/ SaslPlain(u, a)
    \/ \E a \in Accts :
        \/ Expire(a) \/ ns_cmd_fverify_register(a) \/ ns_cmd_fverify_emailchg(a)
        \/ ns_cmd_resetpass(a) \/ ns_cmd_sendpass(a) \/ ns_cmd_sendpass_user(a) \/ ns_cmd_sendpass_clear(a)
        \/ ns_cmd_resetstrictaccess(a) \/ ResetStrictUse(a) \/ ResetStrictClear(a)
        \/ \E e \in Emails : ns_cmd_return(a, e)
        \/ \E on \in BOOLEAN : ns_cmd_freeze(a, on)
    \/ \E u \in Users :
        \/ \E e \in Emails : ns_cmd_set_email(u, e)
        \/ \E c \in Certs : CertAdd(u, c) \/ CertDel(u, c)
        \/ \E h \in UserHosts : ns_cmd_access_add(u, h) \/ ns_cmd_access_del(u, h)
        \/ \E on \in BOOLEAN : ns_cmd_set_nopassword(u, on) \/ ns_cmd_set_strictaccess(u, on)
        \/ ns_cmd_set_password(u) \/ ns_cmd_logout(u) \/ Reconnect(u)
    \/ \E e \in Emails : ns_cmd_badmail_add(e) \/ ns_cmd_badmail_del(e)

Spec == Init /\ [][Next]_vars

-----------------------------------------------------------------------------
(* Properties *)

\* An account that cannot be entered with a password has a certificate it can be
\* entered with (set_nopassword.c:97-126, cert.c:179).
CertificateLeft == \A a \in DOMAIN mu : mu[a].nopass => mu[a].certs # {}

\* A key that still sets a password was mailed to the address the account has: no
\* change of the address by a user leaves a key behind, since identifying ends it
\* (setpass.c:122-135).
KeysCurrent == \A a \in DOMAIN mu \ byOper : mu[a].setpass \in {None, mu[a].email}

\* Changes of addresses that are under way do not add up to more accounts for an
\* address than are allowed (verify.c:133-139, function.c:465).
AddressesLimited ==
    \A e \in Emails : Cardinality({a \in DOMAIN mu \ byOper : mu[a].email = e}) <= MaxUsers

\* A fingerprint enters at most one account.
OneAccountEach == \A c \in Certs : Cardinality(mycertfp_find(c)) <= 1

\* The ways into an account stay with its owner.
OwnersKeep == CertificateLeft /\ KeysCurrent /\ AddressesLimited /\ OneAccountEach

\* Not so: with STRICTACCESS "it's only possible to identify/login to the account from
\* connections from hosts listed" (help/default/nickserv/set_strictaccess:6), but SASL
\* looks at the users who are logged in already (saslserv/main.c:653-671).
StrictLogins ==
    [][\A u \in Users, a \in DOMAIN mu :
        login[u] # a /\ login'[u] = a /\ mu[a].strict => myuser_access_verify(u, a)]_vars

\* Not so: RETURN gives the account to whoever reads the new address, but leaves
\* NOPASSWORD, the certificates and the key of RESETSTRICTACCESS (return.c:74-110).
ReturnedToReader ==
    [][\A a \in DOMAIN mu, e \in Emails : ns_cmd_return(a, e) => ~mu'[a].nopass]_vars
=============================================================================
