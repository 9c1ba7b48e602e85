------------------------------- MODULE Dnsbl -------------------------------
(***************************************************************************)
(* The stub resolver (libathemecore/res.c) and its one user, the scanner   *)
(* that looks connecting clients up in DNS blacklists                      *)
(* (modules/proxyscan/dnsbl.c).                                            *)
(*                                                                         *)
(* A lookup is two objects: a BlacklistClient on the client's own list and *)
(* a request on the resolver's list, which point at each other and at the  *)
(* client.  It ends by an answer, by the third timeout, or because the     *)
(* client quits or is found listed elsewhere; every one of these frees     *)
(* both objects.  Each try is sent under a new id, so that an answer to an *)
(* earlier try, to an ended lookup or a duplicate may arrive at any time,  *)
(* when its id is unused or has been given to another request.             *)
(***************************************************************************)
EXTENDS Integers, FiniteSets, Functions

CONSTANTS
    Users,          \* user_t
    IPs,            \* the addresses of clients
    IPv4,           \* those a lookup can be made for: dotted quads
    Zones,          \* blacklists, by host
    Listed,         \* the names <<ip, zone>> the blacklists list
    Ids,            \* DNS message ids
    MaxLookups,     \* bound: BlacklistClients at a time
    Actions,        \* values of DNSBLACTION: NONE, SNOOP (as NOTIFY, a report), KLINE
    ExemptIPs,      \* bound: the addresses operators exempt
    MaxNet,         \* bound: queries the name server may still answer
    FirstTimeout,   \* seconds before the first retry
    Retries         \* tries of a request

ASSUME DnsblAssumption ==
    /\ Actions \subseteq {"NONE", "SNOOP", "KLINE"}
    /\ IPv4 \subseteq IPs /\ ExemptIPs \subseteq IPs
    /\ Listed \subseteq IPv4 \X Zones
    /\ IsFiniteSet(Zones)
    /\ MaxLookups \in Nat /\ MaxNet \in Nat
    /\ FirstTimeout \in Nat \ {0} /\ Retries \in Nat \ {0}
    /\ IsFiniteSet(Ids) /\ Cardinality(Ids) > MaxLookups

VARIABLES
    user,         \* each client: "off", or its ip and UF_KLINESENT
    queries,      \* "dnsbl:queries" of each client: its BlacklistClients
    blc,          \* the allocated BlacklistClients: blacklist and user
    requests,     \* request_list, without its order
    blacklists,   \* blacklist_list
    action,       \* what is done about a listed client
    exempt,       \* dnsbl_elist
    net           \* queries sent and not yet lost: any number of answers to each may come

clientVars == <<user, queries, blc>>
resVars == <<requests, net>>
operVars == <<action, exempt>>
vars == <<clientVars, resVars, blacklists, operVars>>

Off == [ip |-> "off"]
Online == {u \in Users : user[u] # Off}
Client == [ip : IPs, klined : BOOLEAN]

Lookup == [blacklist : Zones, u : Users]
Name == IPs \X Zones
Request == [query : 1 .. MaxLookups, queryname : Name, id : Ids,
            retries : 1 .. Retries, timeout : Nat, left : Nat]

-----------------------------------------------------------------------------
(* The resolver *)

UsedIds == {r.id : r \in requests}

make_request(q, name, id) ==
    [query |-> q, queryname |-> name, id |-> id,
     retries |-> Retries, timeout |-> FirstTimeout, left |-> FirstTimeout]

\* Mutant of delete_resolver_queries: the requests are left to time out.
KeepRequests(rs, qs) == rs

delete_resolver_queries(rs, qs) == {r \in rs : r.query \notin qs}

rem_request(r) == requests \ {r}

\* Each message reaches a name server or is lost on the way.
send_res_msg(messages) ==
    \E m \in SUBSET messages : /\ net' = net \union m
                               /\ Cardinality(net') <= MaxNet

\* Mutant of resend_query: a retry does not count.
RetryUncounted(r, id) == [r EXCEPT !.left = r.timeout, !.id = id]

resend_query(r, id) ==
    [r EXCEPT !.retries = @ - 1, !.timeout = 2 * @, !.left = 2 * r.timeout, !.id = id]

\* Mutant of check_question: the id alone decides.
AnyQuestion(r, m) == TRUE

\* The answer m is to the question of r.
check_question(r, m) == r.queryname = m.name

-----------------------------------------------------------------------------
(* The scanner *)

\* The lookups qs are taken off their clients' lists and freed.
FreeLookups(qs) ==
    /\ queries' = [u \in Users |-> queries[u] \ qs]
    /\ blc' = Restrict(blc, DOMAIN blc \ qs)

\* The references the lookups hold to their blacklists are not given back,
\* and nobody counts on them: a blacklist is made with two references, a
\* rehash drops one, so that no blacklist is ever freed.
abort_blacklist_queries(u) ==
    /\ FreeLookups(queries[u])
    /\ requests' = delete_resolver_queries(requests, queries[u])

initiate_blacklist_dnsquery(bl, u) == [blacklist |-> bl, u |-> u]

\* One lookup in every configured blacklist, if the address is IPv4.
lookup_blacklists(u, ip) ==
    IF ip \notin IPv4 \/ blacklists = {}
    THEN UNCHANGED <<queries, blc, requests, net>>
    ELSE LET free == (1 .. MaxLookups) \ DOMAIN blc
             ptr == CHOOSE p \in [blacklists -> free] : IsInjective(p)
         IN  /\ Cardinality(free) >= Cardinality(blacklists)
             /\ queries' = [queries EXCEPT ![u] = @ \union Range(ptr)]
             /\ blc' = [q \in DOMAIN blc \union Range(ptr) |->
                          IF q \in DOMAIN blc THEN blc[q]
                          ELSE initiate_blacklist_dnsquery(CHOOSE bl \in blacklists : ptr[bl] = q, u)]
             /\ \E id \in [blacklists -> Ids \ UsedIds] :
                   /\ IsInjective(id)
                   /\ requests' = requests \union
                        {make_request(ptr[bl], <<ip, bl>>, id[bl]) : bl \in blacklists}
                   /\ send_res_msg({[id |-> id[bl], name |-> <<ip, bl>>] : bl \in blacklists})

\* What is done about a listed client, beside ending its other lookups.
dnsbl_hit(u) ==
    user' = IF action = "KLINE" THEN [user EXCEPT ![u].klined = TRUE] ELSE user

\* The callback of the request r, which the resolver then removes.
blacklist_dns_callback(r, listed) ==
    LET u == blc[r.query].u
        aborted == IF listed THEN queries[u] \ {r.query} ELSE {}
    IN  /\ FreeLookups({r.query} \union aborted)
        /\ requests' = delete_resolver_queries(rem_request(r), aborted)
        /\ IF listed THEN dnsbl_hit(u) ELSE UNCHANGED user

-----------------------------------------------------------------------------
(* Actions *)

Init ==
    /\ user = [u \in Users |-> Off]
    /\ queries = [u \in Users |-> {}]
    /\ blc = [q \in {} |-> 0]
    /\ requests = {}
    /\ blacklists = Zones
    /\ action \in Actions
    /\ exempt = {}
    /\ net = {}

\* user_add: check_dnsbls looks up every client that is not ours or exempt.
UserAdd(u, ip, internal) ==
    /\ user[u] = Off
    /\ user' = [user EXCEPT ![u] = [ip |-> ip, klined |-> FALSE]]
    /\ IF internal \/ action = "NONE" \/ ip \in exempt
       THEN UNCHANGED <<queries, blc, requests, net>>
       ELSE lookup_blacklists(u, ip)
    /\ UNCHANGED <<blacklists, operVars>>

\* user_delete: the client is freed after its lookups are aborted.
UserDelete(u) ==
    /\ u \in Online
    /\ abort_blacklist_queries(u)
    /\ user' = [user EXCEPT ![u] = Off]
    /\ UNCHANGED <<net, blacklists, operVars>>

\* DNSBLSCAN scans any client, whatever is exempt or pending.
ps_cmd_dnsblscan(u) ==
    /\ u \in Online
    /\ lookup_blacklists(u, user[u].ip)
    /\ UNCHANGED <<user, blacklists, operVars>>

\* DNSBLEXEMPT ADD and DEL.
ps_cmd_dnsblexempt(ip) ==
    /\ exempt' \in {exempt \union {ip}, exempt \ {ip}}
    /\ UNCHANGED <<clientVars, resVars, blacklists, action>>

os_cmd_set_dnsblaction(a) ==
    /\ action' = a
    /\ UNCHANGED <<clientVars, resVars, blacklists, exempt>>

\* A rehash empties blacklist_list and reads it from the configuration; the
\* lookups under way keep the blacklists they were made for.
dnsbl_config_handler(zones) ==
    /\ blacklists' = zones
    /\ UNCHANGED <<clientVars, resVars, operVars>>

\* A second has passed and timeout_query_list serves the requests that are
\* due, in the order of the list: the last try ends in a callback without an
\* answer, any other in a new try, under an id that no request has at that
\* point of the pass.
timeout_query_list ==
    LET due == {r \in requests : r.left = 1}
        expired == {r \in due : r.retries = 1}
        again == due \ expired
    IN  /\ requests # {}
        /\ \E id \in [again -> Ids], order \in [due -> 1 .. Cardinality(due)] :
              /\ IsInjective(order)
              /\ \A r \in again : \A s \in requests :
                    IF s \in due /\ order[s] < order[r]
                    THEN s \in again => id[r] # id[s]
                    ELSE id[r] # s.id
              /\ requests' = {[r EXCEPT !.left = @ - 1] : r \in requests \ due}
                             \union {resend_query(r, id[r]) : r \in again}
              /\ send_res_msg({[id |-> id[r], name |-> r.queryname] : r \in again})
        /\ FreeLookups({r.query : r \in expired})
        /\ UNCHANGED <<user, blacklists, operVars>>

\* An answer to the message m, which may come again.  One that no request
\* waits for, or to another question, is ignored.
res_read_single_reply(m, listed) ==
    /\ listed => m.name \in Listed
    /\ \E r \in requests :
          /\ r.id = m.id
          /\ check_question(r, m)
          /\ blacklist_dns_callback(r, listed)
    /\ UNCHANGED <<net, blacklists, operVars>>

\* No more answers to the message m come (external: the network).
Lost(m) ==
    /\ net' = net \ {m}
    /\ UNCHANGED <<clientVars, requests, blacklists, operVars>>

Next ==
    \/ \E u \in Users, ip \in IPs, internal \in BOOLEAN : UserAdd(u, ip, internal)
    \/ \E u \in Users : UserDelete(u) \/ ps_cmd_dnsblscan(u)
    \/ \E ip \in ExemptIPs : ps_cmd_dnsblexempt(ip)
    \/ \E a \in Actions : os_cmd_set_dnsblaction(a)
    \/ \E zones \in SUBSET Zones : dnsbl_config_handler(zones)
    \/ timeout_query_list
    \/ \E m \in net : Lost(m) \/ \E listed \in BOOLEAN : res_read_single_reply(m, listed)

Spec == Init /\ [][Next]_vars

\* The event loop runs the one-second timer.
FairSpec == Spec /\ WF_vars(timeout_query_list)

-----------------------------------------------------------------------------
(* Properties *)

\* Types.
TypeOK ==
    /\ user \in [Users -> Client \union {Off}]
    /\ queries \in [Users -> SUBSET (1 .. MaxLookups)]
    /\ DOMAIN blc \subseteq 1 .. MaxLookups /\ blc \in [DOMAIN blc -> Lookup]
    /\ requests \subseteq Request
    /\ blacklists \subseteq Zones
    /\ action \in Actions
    /\ exempt \subseteq IPs
    /\ net \subseteq [id : Ids, name : Name]

\* Resolver and scanner agree on the pending lookups: every request is for one
\* allocated lookup, which is on the list of its client alone, that client is
\* on the network, and no two requests share an id or a lookup.  A callback
\* (res.c:176, 808-854) and an abort (dnsbl.c:545) therefore never touch a
\* client or a lookup that is gone, however they interleave.
LookupsTracked ==
    /\ {r.query : r \in requests} = DOMAIN blc
    /\ \A r, s \in requests : r.query = s.query \/ r.id = s.id => r = s
    /\ \A u \in Users : queries[u] = {q \in DOMAIN blc : blc[q].u = u}
    /\ \A q \in DOMAIN blc : blc[q].u \in Online

\* A client is k-lined only if a blacklist lists its own address, although ids
\* are reused and answers come late, twice or after the client that asked was
\* replaced by another (res.c:578, dnsbl.c:515).
KlinedAreListed ==
    \A u \in Online : user[u].klined => \E z \in Zones : <<user[u].ip, z>> \in Listed

\* Every lookup ends, also when no answer ever comes (res.c:174).
EveryLookupEnds == \A q \in 1 .. MaxLookups : q \in DOMAIN blc ~> q \notin DOMAIN blc
=============================================================================
