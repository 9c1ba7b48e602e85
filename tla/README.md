# A TLA+ model of the services

Services (an Atheme fork) are one process with one event loop: sockets, timers and
signals call handlers, one at a time. They link to an IRC network as a server, keep
a copy of its clients, servers and channels, answer commands, and save accounts and
registrations to a file. There are no threads. What is hard is the order in which
the network, the timers, the operators, the forked writers and crashes do things:
a client that is renamed by another client while its nickname is being taken away,
an account dropped between a SASL login and the introduction of its client, an
uplink that goes silent, a save that is killed by the next one.

Paths are relative to the repository; "`users.c`" without a path is in
`libathemecore/`.

## Inventory

| Part | State | Operations | Hard because |
|---|---|---|---|
| Clients, servers, channels (`users.c`, `servers.c`, `channels.c`, `ptasks.c`, `cmode.c`, `modules/protocol/ts6-generic.c`) | `userlist`, each client's server and channels, the server tree, member lists, counters, `me.connected` | introduce, nick change, quit, kill, join, part, kick, mode, server, split, loss of the uplink | every relation is stored twice and counted once; deleting a client may introduce another |
| Nickname enforcement (`modules/nickserv/enforce.c`) | `enforce_list`, `enforce_next`, one timer, `UF_DOENFORCE`, enforcers | nick change, identify, SET ENFORCE/ENFORCETIME, access list, RELEASE, REGAIN, the timer | one timer for a sorted list; entries outlive what they were made for |
| Logins and SASL (`services.c`, `account.c`, `modules/saslserv/main.c`, nickserv commands) | `u->myuser`, `mu->logins`, sessions, `MU_NOBURSTLOGIN`, what the ircd has | identify, certificate, SASL, register, drop, freeze, return, logout, introduce, quit, split | checked now, used later; the ircd remembers across splits |
| Ways into an account (`modules/nickserv`: `setpass.c`, `verify.c`, `cert.c`, `set_nopassword.c`, `access.c`, ...) | password, keys, addresses, certificates, access list | register, verify, change and freeze, keys by mail, certificates | a key is mailed now and used later; each command has its own idea of what is enough |
| Nicknames, vhosts, settings (`account.c`, `modules/nickserv`, `modules/hostserv`, SET commands, `flags.c`) | owners of names, marks, requests, offers, hosts, flags, metadata | group, drop, rename, expire; request, activate, take; SET; save and load | kept by name in one place and by account in another; letters for flags in the file |
| Memos (`modules/memoserv`) | lists, `memoct_new`, ignores | send, forward, read, delete, ignore | a count kept by hand in each command |
| Uplink (`uplink.c`, `packet.c`, `node.c`, `conf.c`) | the list of uplinks, `curr_uplink`, connection, reconnect and ping timers | connect, reconnect, ping, close, rehash | one attempt at all times, list changed under a live connection |
| Connection queues (`datastream.c`, `connection.c`, `packet.c`) | chunk lists, `CF_` flags, write interest | add, flush, EOF, receive, get a line, close | partial writes, limits, boundaries |
| Channel bursts (nine modules of `modules/protocol`) | two versions of a channel, two timestamps | sjoin, fjoin, burst, njoin, join, part, mode | two sides create and lower at once; each module decides by itself |
| Database (`modules/backend/corestorage.c`, `opensex.c`, `signal.c`, `atheme.c`) | records, `child_pid`, children, `services.db`, `services.db.new`, the lock | periodic, forced and last save, child ends, crash, start | several processes write one file; crashes; errors nobody looks at |
| Registrations, access (`account.c`, `modules/chanserv`) | `mychan_t`, `chanacs_t`, templates, pending transfers | FLAGS, FFLAGS, ACCESS, ROLE, XOP, CLEAR, CLONE, SET FOUNDER, FTRANSFER, REGISTER, DROP, deletion and succession | a dozen ways to change a founder, each with its own checks; deletion while iterating |
| Groups (`modules/groupserv`) | members with flags, templates, invitations, settings | FLAGS, JOIN, INVITE, TEMPLATE, DROP, expiry, restart | groups in groups; an expiry that frees while it iterates |
| AKICK (`modules/chanserv/akick.c`) | `akickdel_list`, `akickdel_next`, one timer, `expires` of the entries | ADD, DEL, the timer, start, all commands on the same entries | timeouts outlive their entries; one timer for a sorted list |
| Commands on members (`modules/chanserv`: `kick.c`, `ban.c`, `quiet.c`, `clear_users.c`, `recover.c`, `op.c`, ...) | members, lists and modes of a channel, on both sides | OP and the like, KICKBAN, QUIET, CLEAR, SYNC, RECOVER | several messages, crossed by what users do |
| Mode stack and mode locks (`cmode.c`, `modules/chanserv/set_mlock.c`, `modules/botserv/main.c`) | the channel's modes, the lock, pending changes | change, stack, flush, finalize, check | both sides change modes at once; refers to channels and sources that may be gone |
| Presence of ChanServ and bots (`modules/chanserv/main.c`, `modules/botserv/main.c`) | `MC_INHABIT`, assignments, who is in | join and part hooks, SET GUARD, ASSIGN, CLOSE, the timer | hooks inside hooks, in an order of registration |
| ChanFix (`modules/chanfix`) | records with scores, fixes in stages | gather, expire, fix, save, load | pointers that outlive channels; thresholds in integers |
| Resolver, dnsbl (`res.c`, `modules/proxyscan/dnsbl.c`) | requests, lookups per client, blacklists | query, answer, retry, timeout, abort | late and repeated answers, reused identifiers, clients that quit |
| Bans and clones (`node.c`, `modules/operserv/akill.c`, `sgline.c`, `sqline.c`, `clones.c`) | lists of bans, the servers' bans, counts per address, exemptions | add, delete, expire, save, link; introduce, quit | masks that match masks; a client killed inside its introduction |
| Hooks, objects, modules (`hook.c`, `object.c`, `module.c`) | lists of callbacks, reference counts | call, add, delete, unload | deletion while iterating |
| Information, help, games, statistics, listings, authcookies | records | single commands | sequential |
| Transports, parsing, crypto, matching, strings, configuration | none or text | pure functions, wire formats | — |

Interaction: the uplink's socket fills the receive queue (Datastream), whose lines
are parsed by a transport and handed by a protocol module to `users.c`,
`servers.c` and `channels.c` (Network, Bursts). Those call hooks: NickServ's nick-change hook
starts enforcement (Enforce), SASL's and `handle_burstlogin()` log the client in
(Logins). New clients are looked up in blacklists (Dnsbl) and counted by address
(Clones); ChanServ and bots follow members into channels (Presence). Answers go to the
send queue, mode changes by way of the mode stack (Modes). Losing the uplink (Uplink)
deletes the whole network from the tables (Network's `UplinkClose`). Commands change
records (Access, Akick, Groups, Nicks, Hosts, Memos, Settings, Credentials), which a timer
saves (Database).

`PROJECT.json` lists every component, with what is modelled and why the rest is
not, and every hazard with the line where it bites and the properties that cover it.

## Modules

| Module | Models | Actions |
|---|---|---|
| `Network` | the tables | `UserAdd`, `UserQuit`, `EnforcerQuit`, `RemoveEnforcers`, `SetDoEnforce`, `NickChange` (`NickCollision`, `NickChanged`), `Join`, `Part`, `KickService`, `ModePerm`, `UplinkConnect`, `ServerAdd`, `ServerDelete`, `UplinkClose` |
| `Enforce` | `enforce.c` and its callers | `TakeNick`, `Recheck`, `LeaveNick`, `Identify`, `Logout`, `SetEnforceOn/Off`, `SetEnforceTime`, `AccessAdd/Del`, `Release`, `Regain`, `TimeoutCheck`, `RemoveEnforcers`, `Tick` |
| `Credentials` | passwords, mailed keys, addresses, certificates, access lists | registration, VERIFY, SETPASS, SENDPASS, RESETPASS, RETURN, FREEZE, CERT, ACCESS, SET EMAIL, NOPASSWORD and STRICTACCESS, logins, expiry |
| `Logins` | logins and SASL sessions | `Identify`, `Certfp`, `Logout`, `Register`, `Drop`, `Freeze`, `Thaw`, `Return`, `SaslInput`, `SaslMore`, `SaslDone`, `SaslEnd`, `DeleteStale`, `Connect`, `Introduce`, `Quit`, `Split` |
| `Uplink` | the connection to the network | `Boot`, `Reconn`, `HandleConnect`, `RecvLine`, `SendFails`, `RecvClosed`, `PingUplink`, `StrayPing`, `Rehash`, `Tick` |
| `Datastream` | a connection's queues | `SendqAdd`, `SendqAddEof`, `SendqFlush`, `RecvqPut`, `GetLine`, `Close`, `CloseSoon` |
| `ByteQueue` | what the send queue promises (abstract) | `Put`, `Refuse`, `Send`, `Drop` |
| `Bursts` | versions of a channel that meet, by nine protocol modules | the handlers by name (`m_sjoin`, `m_fjoin`, `m_burst`, ...), `join`, `part`; the network's `UserJoins`, `ServerLinks`, `UserModes`, `NetReceives` |
| `Database` | saving and loading | `Change`, `SaveRegular`, `SaveImportant`, `Shutdown`, `ChildprocCheck`, `OpenWrite`, `OpenFails`, `Flush`, `WriteError`, `CloseDb`, `RenameFails`, `Crash`, `Start` |
| `Nicks` | names of accounts, groups of them, marks | REGISTER, GROUP, UNGROUP, FUNGROUP, SET ACCOUNTNAME, DROP, HOLD, MARK, expiry |
| `Hosts` | vhosts, requests, offers, with the names of `Nicks` | VHOST, REQUEST, ACTIVATE, REJECT, OFFER, TAKE, ON, OFF, GROUP, DROP, identify, nick change |
| `Settings` | SET of channels and accounts, storage of flags | the commands, save, start |
| `Access` | access lists, founders, groups, registrations | the commands by the names of their functions, `myuser_delete`, `remove_group`, `remove_chanacs` (one turn of the loop), `myentity_del` |
| `Memos` | memos, the count of unread ones, ignores | SEND, FORWARD, SENDOPS, SENDGROUP, SENDALL, READ, DELETE, IGNORE, drop, load |
| `Akick` | AKICK and its timer | `cs_cmd_akick_add`, `cs_cmd_akick_del`, `akick_timeout_check`, `akickdel_list_create`, `cs_cmd_flags`, `cs_cmd_clear_akicks`, `mychan_delete`, `myentity_del`, `Tick` |
| `Groups` | groups, their lists and templates | the commands by name, `AccountDeleted`, `mygroup_expire`, `Restart` |
| `Modes` | mode changes, the mode stack, mode locks | `channel_mode` (theirs), `channel_mode_ours`, `cs_cmd_set_mlock`, `modestack_flush_callback`, `chanuser_delete`, `bs_cmd_delete`, `RemoteMode`, `RemotePart`, `RemoteReceive` |
| `ChanStatus` | commands on a channel's members and lists | `cmd_op` and the like, KICK, KICKBAN, BAN, QUIET, CLEAR, SYNC, RECOVER; `Joins`, `Parts`, `Sets` of users; `Take`, `Receive` of messages |
| `Presence` | ChanServ and bots in channels | `chanuser_add`, `UserParts`, SYNC, GUARD, CLOSE, DROP, RECOVER, CLEAR USERS, ASSIGN and BOT, `cs_leave_empty` |
| `ChanFix` | scores and fixes of one channel | `chanfix_gather`, `chanfix_expire`, `chanfix_autofix_ev`, `chanfix_cmd_fix`, the channel's life, `Restart` |
| `Bans` | AKILL, SGLINE, SQLINE | `Command`, `line_expire`, `Connect`, `Disconnect`, `Save`, `Restart` |
| `Clones` | counts of clients per address | `Stay`, `Kill`, `Kline`, `UserDelete`, the commands, `Sweep`, `Tick` |
| `Dnsbl` | resolver and blacklist scanner | `UserAdd`, `UserDelete`, `ps_cmd_dnsblscan`, `ps_cmd_dnsblexempt`, `os_cmd_set_dnsblaction`, `dnsbl_config_handler`, `timeout_query_list`, `res_read_single_reply`, `Lost` |

A run is of an `MC…` module, which extends one of these and, in several cases, holds
instances of others that have nothing to do with it. Their state spaces are added up,
not multiplied: a variable `part` is chosen at the start and says which one moves.
Eight `…Proofs` modules have the theorems; `ClientProofs` has those of Enforce, Dnsbl and
Clones, which is why the operators of Enforce that have the same names elsewhere have a prefix. `Lists` has what a loop over a list leaves of
it (`Selected`), for Akick, Groups and Memos.
Operators called "mutant of" are changed forms of a definition, next to it, that
show that a property notices the change; no specification uses them.

### How state and steps correspond to the code

*Network.* An element of `Users` is a slot of `user_heap`, not a person: the slot of
a deleted client is reused, at once by the enforcer that `user_delete()` itself
introduces. Both ends of each relation and each counter are variables of their own and
are changed where the code changes them. A step is a message from the uplink with
everything it causes: a split deletes the whole subtree, with clients,
memberships and dying channels, and introduces enforcers. `Subtree` is the
least closed set of servers, which is what the recursion visits; that keeps the
module free of recursion. `introduced` is what the uplink has been told.

*Enforce.* Time goes by in `Tick`, which waits for a due timer. Entries name a
nickname and a host, as in the code. REGAIN is modelled with the logout and login it
does. The ircd changes the nickname of a client with `UF_DOENFORCE` at some later
time (`LeaveNick`). Where a hash table is enumerated, every order is possible.

*Credentials.* A password is whether there is one; a key is the address it was mailed
to. Mail may fail or arrive, and who reads an address may use what was sent there.

*Logins.* The ircd is synchronous: it takes what services tell it before it says
anything else about that client. `generation` tells apart the accounts that had one
name; `granted` and `splitgen` are history. A mechanism may name the account before it is
done: `ecdsa-nist256p-challenge` does, when it sends its challenge. `sasl_newuser()` looks at
the name only (`saslserv/main.c:761`), so a client introduced at that moment is logged in
(`SaslLogin`), without the ircd knowing; `early` says who was. Not modelled: ircds on which SASL uses
the final user ID, what else the mechanisms exchange (`SaslMore` is one more message),
and burst logins that carry the account's registration time. An
authentication service is loaded.

*Uplink.* Time goes by in units; the ping period and the silence that ends a
connection are constants (300 and 600 seconds in the code, 2 and 4 in the runs). Ping timers that nothing points to any more are a set of
phases (`strays`): two in the same phase act as one. A rehash reads any list of blocks
or is refused.

*Datastream.* Bytes are numbered. Each run of the line handler inside
`recvq_put()` is a step, so that answers may be written between lines; nothing else
happens there, because the event loop is inside the handler. `send()` takes any
number of bytes or fails.

*Bursts.* Two links, each in order and with delay, between services and the rest of the
network, which follows its protocol. A channel is its members with their
statuses and its timestamp. Each protocol module's handlers are actions that its
protocol enables.

*Database.* Rows have one length, so that overwriting a leftover
`services.db.new` replaces whole rows; a write that ends in the middle of a row leaves
it torn. A torn row is read as some other row, when the cut is inside a number or a
name, or ends services at the next start, when a field is missing. `SIGKILL` takes effect at once: the lock makes the next writer wait for the
killed one's descriptors anyway. The host keeps the order of writes and renames
when it goes down (the code does not call `fsync()`), and services are not read-only.
After a crash of services alone, unfinished children go on as orphans.

*Nicks, Hosts, Memos.* An account is an identifier, used once; names are given to
accounts and taken away, and marks, requests and memos remember names.

*Settings.* A flag is what the letter in the file means when it is read again.

*Dnsbl.* An element of `Users` is a slot of `user_heap`, as in Network. The network
holds the messages that may still be answered; an answer may come late, again, or
never. Lookups are numbered (`blc`), so that a number that is free stands for memory
that was freed. A blacklist's reference count is left out: each is made with two
references and a rehash gives one back, so none is ever freed.

*Access.* A flag is a letter and a level a set of flags. An entry is `None` or a level:
an entry with no flags is not the same as none, and some commands leave such entries.
Deleting an account or a group is a loop over its entries (`gone` is the one being
deleted), and what the hooks and the succession do is part of each turn. Which entry
comes first, and who was seen last, is arbitrary. An expired account or channel is
deleted by the same steps as a dropped one. Left out: hostmasks (see Akick), `NEVEROP`,
`RESTRICT`, `REGNOLIMIT` and `LIMITFLAGS`, the TEMPLATE and FORCEXOP commands, renames,
group members that are not founders, and moderated registration. The time that SET
FOUNDER compares is one bit, whether an account was registered in the second of the
request.

*Groups.* A group is a block of `mygroup_heap`: its entries in other groups outlive it
and mean the next group in the block. `freed` says that memory was used after it was
given back, after which nothing is known.

*Akick.* Times are what is left of them, so the state space is finite. A target is an
account or a mask; `Matches` says which mask matches which. Commands that set flags
are those of Access, here as one action that sets any level. A channel or account that
is dropped leaves its timeouts, and the next one may get its address: names stand for
addresses.

*Modes.* One channel and one life of it. Lines to and from the server are queues;
`crossed` remembers that changes met on the way, `lost` that some found no source,
`sound` that the lock was set before anything had crossed. Simple modes are a set, a
slot is the limit or another mode with one value, the key is replaced by removing and
setting it, and a list stands for bans. `MAXMODES` parameters make a line; its bound in
bytes makes the same flush. Left out: commands meant to override a lock (OperServ MODE,
RECOVER, CLOSE, ChanFix), services getting their status back, the hooks that undo changes, and
timestamps, with which a channel that was recreated is checked again.

*ChanStatus.* Services' copy of the channel, the server's, the stack, and the two queues
between. A command's target is a member as services see it; the server takes or
ignores what arrives. What is stacked is sent where the code flushes: `ban()` with a ban that
is new, `remove_ban_exceptions()` with ircds that have exceptions (`Flushes`). `Knows` says
that services and the server will have the same channel; a command decides from what services
know, and promises nothing about a channel they are wrong about. `mistaken` are users
who joined while services still took them for members.

*Presence.* The hooks of one join or part are operators on the channel, put together
in the order in which the code calls them.

*ChanFix, Clones, Bans.* Times are what is left, or what has passed up to a bound.
ChanFix is about one channel; its scores are whole numbers, divided as in the code.
Clones' warnings are left out. Bans has the servers' bans beside the list, which
services only set and lift. What `match()` makes of two masks is a relation of which
nothing is assumed: a mask with an escaped wildcard (`match.c:187`) does not match its own
text. The timer finds an SGLINE that is over by its mask, so `ExpireExact` is about lists on
which those that are over match their own (`Findable`). A mask that finds a later ban makes
the loop of the timer delete the node it goes on with, and it then ends there or goes on
(`LoopEnds`). A mask may match the text of a range that reaches further
than the mask; `CoverageKept` is about masks of which none does.

## Runs

Each run of several modules adds the state spaces of its parts.

| Run | Instances | States | What it shows |
|---|---|---|---|
| `network` | Network: a service, 3 other slots, 4 nicknames, 3 servers, a channel; symmetric in slots, nicknames, servers | 6 thousand | all copies and counters in step; the tree; `channel_delete()`'s assertion; services keep their nicknames; empty channels die; a nickname under enforcement goes to an enforcer |
| `enforce` | Enforce: 2 clients behind one host, 2 nicknames of one account, grace periods 1 and 2, 3 units of time, 2 entries. Credentials, three times: an account and two users, one with a certificate; two accounts that compete for an address; two accounts without verified addresses and one certificate | 382 thousand | sorted list, one early enough timer, due entries served; an owner keeps a way into the account, keys and addresses within their limits |
| `timers` | Uplink: 3 uplinks, 2 rehashes, lists of at most 2. Akick: a channel, an account, two masks of which one matches the other, durations 1 and 2, 2 timeouts. Groups, four times: flags and templates; two groups in each other; invitations and bans; joining | 168 thousand | one attempt, silent uplinks dropped, each configured one tried again and again; an early enough AKICK timer, timed AKICKs end; groups keep a founder or go |
| `logins` | Logins: 2 clients, one with a key for the challenge, 2 accounts, one registered twice, 1 login each | 231 thousand | services' two records and the ircd agree; sessions wait; bursts legitimate; stale sessions end |
| `logins_frozen` | same | violated | an account frozen between SASL and the introduction is logged in to |
| `datastream` | Datastream: chunks of 3, lines of 2, limit 8; every stream of 6 bytes, or 10 bytes written, and requests of none. Bursts: nine protocols, 2 users, 2 timestamps, 4 events; one with two statuses. ChanStatus, four times: 2 users of one host with the rights of a founder, of every status, of an exempt, the last without ban exceptions; one user, 5 events, 2 messages under way | 578 thousand | implements `ByteQueue`; lines; draining; two versions of a channel become one; what commands on members do holds at the server |
| `database` | Database: 2 rows, 2 children, 2 saves, 2 starts. Nicks: 3 accounts, 3 names. Hosts, twice: requests; offers to a group. Settings: 2 commands between saves | 304 thousand | complete, in order, the last records after a shutdown, saving goes on; names owned, marks stick, requests go to who made them; settings survive |
| `dnsbl` | Dnsbl: 2 client slots, a listed and an unlisted address, a blacklist, 3 identifiers, 2 tries | 146 thousand | every pending lookup has one request and a client that is there; only listed clients are banned; every lookup ends |
| `access` | Access: 2 accounts, a group, 2 channels, flags `F`, `f` and `v`, a role, at most 2 entries and founders of a channel, 2 channels of a founder, 3 entries and one mark, role or transfer in all; symmetric in accounts and channels. Memos: 2 accounts, 2 memos, an ignore | 154 thousand | a founder for every channel, with `+f`; nothing dangles; nobody exceeds its own access; the count of unread memos |
| `modes` | Modes: 2 parameters per line, 4 changes by services and the server in all, queues of 4 and 2 lines, a bot | 2.1 million | services and server agree unless changes crossed; the lock holds all the same; destroyed channels die |
| `operators` | Bans, three times: AKILLs on a mask, a matched address and a range, with a client; SGLINEs on a mask, a name it matches and one with an escaped wildcard; SQLINEs. Clones: 3 clients of one address, one immune, limits 0 and 1, symmetric in two of them | 409 thousand | what is banned stays banned, no ban is lost track of, expiry is exact; counts per address exact, kills before k-lines |
| `channels` | ChanFix, twice: 2 users at addresses of their own; one user with an account. Presence: 3 users, one immune, 2 bots | 199 thousand | records sound, fixes fair, in time and finite; guarded channels keep a service, empty ones lose it, and none has one without a use |

A violated run is a disagreement between the code and what a document, comment or
message of the repository says; `PROJECT.json` quotes it under `findings`. The modules
state further properties of this sort that the code violates; see "Known disagreements".

Why the bounds are enough. Network: three slots are a changer, the client it
collides with and a third that is split away; three servers give a split below the
uplink with a child. Enforce: two entries with different grace periods can be in the
wrong order, and the third unit of time lets a timer re-armed by a check fire. Credentials: an
address can be asked for by one account while another gets it, and a certificate added by
one user to two accounts. Logins:
two clients race for the only login, and a name registered twice makes a remembered
login stale. Uplink: two rehashes remove the uplink in use and bring it back. Datastream:
a stream of six covers two chunks and three lines at every alignment, and the limit is
not a multiple of the chunk. Bursts: two timestamps are an older and a newer version, a
registration time that may be lower than both makes services lower theirs, and four
events create the channel on both sides and change each once more. ChanStatus: two
users behind one host are a target and somebody a ban on the host also meets; three
events by users cross a command and one more. Database: two saves are the one being replaced and its
successor, or an orphan's and that of the next services; the smaller of two sets of
records shows a leftover. Nicks and Hosts: a third account takes a name that two others
dealt with; one more name than the account may hold shows its limit. Dnsbl: two slots are a client that quits and
the one that gets its place or its identifier; the third identifier is for a retry. Access: two
accounts and a group are a founder, a successor and a group that may be either; a
second channel is what CLONE and the limit on channels need. Memos: two memos reach both
limits. Akick: two timeouts can be in the
wrong order, stale, or one removed with the other's mask. Groups: a founder who leaves, one
who stays, and a group that is a member of one it has as a member. Modes: two parameters fill a
line, so that a command is cut in the middle, and four changes are the smallest number with
which a stacked change, one that crosses it, a lock and another change meet. Bans: a mask,
what it matches and a range over that are every way in which one ban covers another, and a mask
that does not match itself one that the timer cannot find. Clones: a
third client arrives when two are counted and one is killed inside its own introduction.
ChanFix: two users with different scores are the one who must get ops and the one who must
not. Presence: a bot can be exchanged for another, a user removed by the hook of its own join. Every bound (`MaxTime`, `MaxPending`, `MaxGen`, `MaxRehash`,
`MaxBlocks`, `MaxAsked`, `MaxSaves`, `MaxStarts`, `MaxLookups`, `MaxNet`, `MaxTimeouts`,
`MaxSent`, `MaxQueue`, `MaxChanges`, `MaxEvents`, `MaxUnder`, `MaxAge`, `MaxBans`, `MaxId`, `MaxExempts`,
`MaxCommands`, `MaxBad`; `Small` of MCAccess) is a constant used in a guard, and the
theorems hold for all values of theirs.

Deadlock is not checked where the instance may stop: when its bounds are used up
(Database, Datastream, Modes, Bursts, ChanStatus, Settings), when services have exited (Uplink), after
freed memory was used (Groups), or where an idle system has nothing
to do (Dnsbl, Access, Akick, Bans, Clones, ChanFix, Presence).

Fairness. Enforce: the event loop runs a due timer, and time passes. Logins:
`delete_stale()` is periodic. Uplink: `main()` goes on, timers run, the kernel ends every
`connect()`. Datastream: a socket with write interest is writable again and again
and is then served, whatever else the round of the event loop does (strong fairness of
the flush, since reading interrupts it), and the loop inside `recvq_put()` goes on.
Database: the host runs every process and the event loop looks at its signals; nothing
is assumed about commands, saves, crashes or starts. Dnsbl: `timeout_query_list()` is
periodic; nothing is assumed about answers. Akick: time passes and a due timer runs.
Groups: `mygroup_expire()` is an hourly timer. ChanFix: its timers run and minutes pass.
Presence: `cs_leave_empty()` is a timer. The others state safety only.

## Theorems

All are for every value of the constants that meets the modules' `ASSUME`s (sets of
any size, finite where something is counted; any bounds). Where a run uses an instance of a
module inside its `MC…` module, the theorem is about the module itself.

| Theorem | States | Argument |
|---|---|---|
| Network: `TypeCorrect` | `TypeOK` | by itself inductive |
| `ClientTablesAgree`, `ServicesSurvive` | nick index, server lists, flags; services keep their nicknames | `ClientInv`: they need each other, because a collision looks at the index, deletes from the list and tests the flag |
| `MembershipsAgree` | `MembershipOK` | inductive with the type |
| `TreeCorrect` | `TreeOK` | `TreeInv` adds `cnt.server = 1 + Cardinality(Linked)`: the uplink is recognised by that counter, so only with it is there no second one; `SubtreeIsLeast` replaces induction over the tree |
| `ChannelDeleteAssertion`, `DisconnectedIsEmpty`, `AllTablesAgree` | `UplinkCloseLeavesOurs`, `NothingWhenDisconnected`, `TablesAgree` | from the tree, the lists and the memberships |
| `CountersCorrect` | `CountersOK` | `ClientCounters` and `ChannelCounters`: each action adds or takes away a set whose size it adds or takes away (`CardPlus`, `CardMinus`); for `UplinkClose` and a split the sets are those of `AllTablesAgree` |
| `EmptiedChannelsDie`, `HeldNicksHandedOver` | `EmptyChannelsDie`, `HeldNickGoesToEnforcer` | action by action, from the counters and the index: `Emptied` looks at `nummembers`, not at the list |
| Enforce (`ClientProofs`): `EntriesTyped`, `ListSorted`, `TimerEarlyEnough`, `DeadlinesAlwaysKept`, `NothingDueStays` | type, order, the timer, both, the check | `ListInv`: a check stops at the first entry not due, so the timer's bound needs the order |
| Logins: `LoginRecordsAgree`, `IrcdViewAgrees`, `SessionsCorrect`, `LoginStatesAgree` | logins, the ircd, sessions, all of them | `Inv` adds that only sessions have an `authzid` |
| `BurstsAreLegit` | `BurstLoginLegit` | adds `BurstNeedsSplit`: an account without `MU_NOBURSTLOGIN` had sessions that split |
| `CredentialsTyped`, `OwnersAlwaysKeep` | `Credentials!TypeOK`, `Credentials!OwnersKeep` | `CertInv` (no two accounts have a certificate in common), `KeyInv` (nobody is logged in while a key is out, who could change the address under it), `AddressInv` (finitely many accounts, within the limit); the 30 actions are of four kinds (`SomeKind`) |
| Uplink: `AlwaysReconnecting` | `OneAttempt` | `AttemptInv` |
| `DeadUplinksDropped` | `SilentUplinkDropped` | `SilenceInv`: silence plus the time to the next ping is below the sum |
| Akick (`TimersProofs`): `TimerAlwaysCovers` | `TimerCoversAkicks` | inductive with the type: an entry is added in its place (`AddedSorted`) and what commands and the timer take out leaves a sorted list (`SublistSorted`, from `SelectedResult`), so a timer for the first covers all |
| Groups (`TimersProofs`): `MembersAlwaysExist`, `LastFoundersStay` | `MembersExist`, `LastFounderStays` | lists stay without duplicates and of accounts that exist through what `Selected` takes out of them; templates have no `F` (`PlainTemplates`), so JOIN and TEMPLATE neither make nor unmake a founder |
| Memos (`TimersProofs`): `UnreadAlwaysCounted`, `UnwantedNeverSent` | `UnreadCounted`, `~Unwanted` for every step | the number of unread memos under an addition, a mark and a selection (`UnreadAdded`, `UnreadMarked`, `UnreadWithout`); one step of READ, of DELETE and of a sender is one of these on each list |
| Presence (`TimersProofs`): `GuardAlwaysKept`, `NoServiceStrays` | `GuardKept`, `NoStrayService` | every hook and every loop of kicks leaves a channel in which no service is missing while users are left (`Served`, along the loop `PathServed`); adds that nobody is in a closed channel, which ChanServ may leave, and that a user and a service are two members (`NotAlone`), so ChanServ comes when the bot goes |
| ChanFix (`TimersProofs`): `RecordsAlwaysSound`, `HighestAlwaysFirst` | `RecordsSound`, `HighestFirst` | `FixInv`: the record points to the channel while there is one, and its list is `Sound` (ages above zero, each user@host once). Gathering adds an entry only for a user of whom none is found (`UpdateKempt`, along the loop `GatheredKempt`), expiry takes entries out (`SelectedSound`), INFO puts them in an order that has each once. Scores are whole numbers, so the threshold is at least one (`ThresholdIs`), and who has no entry never reaches it |
| Bans (`TimersProofs`): `ListsStayOrderly`, `ExpiresExactly`, `LosesNoBan`, `AkillAddFreesNobody` | `BansInv`; `ExpireExact`, `NoStrayBans`, `CoverageKept`: the parts of `BansExact` | `BansInv`: no search for an SGLINE or SQLINE stops at one before it (`Orderly`), because one that is found is not added. So the loop of the timer, at a ban that is over and matches its own mask (`Findable`), finds that ban, those before it that are over being gone (`VictimIs`, along the loop `ExpiredIs`), and never deletes the one it goes on with (`EndsAt`). Nothing is assumed of what `match()` accepts. Each step leaves every ban of the servers as it was, lifts it, or has one on the list that lasts as long (`StaysBacked`) |
| Datastream: `ImplementsQueue` | `Implements`, the refinement of `ByteQueue` | `Inv`: both queues are a `GoodQueue` (only the last chunk is empty, and then free from its start); `ConsumeResult` and `FillResult` say what the two loops leave, `ChunksContents` that cutting bytes into chunks loses none; each action is a `Put`, `Refuse`, `Send` or `Drop`, or changes nothing of the queue |
| `TypeCorrect`, `LimitKept`, `InterestExact` | `TypeOK`, `SendqBounded`, `WriteInterest` | from `Inv` |
| `LinesAlwaysSplit` | `SplitOK`, with `Split` as the reference | `SplitInv`: the bytes taken from the receive queue are split into the lines given to `parse()` with nothing begun, the queue holds the others in order, with a newline at most in its last chunk; so what `recvq_getline()` takes ends a line or fills one (`TakenResult`), and what is left meets the same (`EarlyKept`) |
| `NeverAGap` | `NoGap` | in `ByteQueue`, queue and wire are consecutive and, until it is shut, end at what was asked; by `ImplementsQueue` so in the code |
| Database: `DatabaseTyped` | `TypeOK` | one step per action |
| `AlwaysComplete`, `SavesInOrder`, `ShutdownSaves`, `FileAlwaysHolds` | `Complete`, `NotBackwards`, `CleanExitSaved`, `FileHolds` | `FileInv`: there is one writer, and what it has written is the beginning of its records; `OrderInv`: the only running writer that is not an orphan has the newest save |
| Nicks (`DatabaseProofs`): `NamesAlwaysOwned`, `MarksAlwaysStick` | `NamesOwned`, `MarksStick` | `Named`: an identifier is given out once, and accounts that exist have names; each command is one of a few changes of names (`NickAdded` and the like), and a mark moves with the name of an account or is remembered when it goes |
| Hosts (`DatabaseProofs`): `RequestsAlwaysOwned` | `NamesOwned` and `RequestsOwned` | adds that only accounts that exist are logged in to (`LoginsInv`) and that a request was made by an account (`AskedInv`), for one vhost and for one per nickname |
| Settings (`DatabaseProofs`): `SettingsAlwaysHold` | `SettingsHold` | reading what was written gives the flags back but for the letters that clash or are missing (`ChanFlagsBack`, `UserFlagsBack`); the limits are sizes of finite sets, one more or less at a time |
| Access: `TypeCorrect`, `FoundersAlwaysManage`, `NothingDangles` | `TypeOK`, `FoundersManage`, `NoDangling` | `Inv` adds to the type that a channel's entries are of entities that exist, one has `F` and all with `F` have `f` (`EntriesSound`), that a channel that does not exist has none (`NoneLeft`), that roles with `F` have `f`, since ACCESS ADD copies them (`TemplatesSound`), and that who is being deleted has left its groups (`GroupsSound`) |
| `AlwaysWithinOwnAccess` | `WithinOwnAccess` | a command's level is within the changer's own at the point where it is given; from the guards, with `GoodEntries` |
| Dnsbl (`ClientProofs`): `TypeCorrect`, `AlwaysTracked`, `OnlyListedKlined` | `TypeOK`, `LookupsTracked`, `KlinedAreListed` | `Lookups` adds to the one-to-one relation of lookups and requests that a request asks for its client's own address (`AskedFor`), which makes the check of the question enough, and has time and tries left (`Waiting`) |
| Modes: `ServerAlwaysFollows` | `ServerFollows` | `ModesInv` speaks of the server as it will be (`Future`) and of the list `c` of changes under way to services: with `c` applied, the modes of services are those of `Future` with the stack applied (`Agrees`). Every step moves changes from one of these places to the next: onto the stack (`ChangeGoes`), into a line (`FlushGoes`), into the server (`SentHead`); and what waits on the stack when reports are under way is nothing, or changes have crossed |
| `LocksAlwaysHold` | `MlockHolds` | `LockInv`, with `ModesInv`: each simple mode, each slot and the key obeys the lock at the server's end, or a report that breaks it is still under way (`Pending`), which `check_modes()` will answer (`LockFixes`). A change that crosses touches only what it names (`Drifts`), so the rest of the argument holds when changes cross |
| Clones (`ClientProofs`): `ClonesExact`, `GraceAlwaysGiven` | `Clones!HostsExact`, `Clones!GraceGiven` | `CloneInv` adds `PeriodRecent`: while the period of an address runs, the kill that began it is recent |

Induction. The library's induction theorems take an operator, which these provers
cannot instantiate. Sequences of any length (the chunks and the stream of
`DatastreamProofs`, the lists of `TimersProofs`) are dealt
with by the set of lengths for which a statement holds: if it is not all of
`Nat`, it has a least counterexample, by `WFMin` of `WellFoundedInduction`
(`NatInductionSet`). A fold of the community modules is one `CHOOSE` of a function on
sets of indices; `IteratesExists` shows by the same induction that there is one, and so
that the fold is the last of a sequence of states in which each follows from the one
before (`SyncPath`, `ClosePath`, `ClearPath`, `GatherPath`; in `ModesProofs` `ApplyPath`, `ReceivePath`, `ChangePath`).

Logins that kill the client (`LogoutKills`, p10) are covered by the theorems only; the
run has it off.

Only model-checked: liveness (`DueEntriesAreServed`, `StaleSessionsEnd`, `AllTried`,
`QueueDrains`, `SavesResume`, `EveryLookupEnds`, the liveness in `AkicksEnd`, `GroupsKept`,
`FixesEnd` and `ServicesStay`), which the prover does not do. Not proved yet, for no
reason of principle: `VersionsAgree` and `CommandsHold`, which fold over lists as
Presence does over users.

## Known disagreements

The violated run shows one. The following are stated in the modules, quote the comment,
message or document they come from, and are violated as well; naming one as the only
property of a copy of a `.cfg` that instantiates the module gives the trace.

| Property | Module | What the code does |
|---|---|---|
| `OurClientsIntroduced` | `Network` | an enforcer that outlives the loss of the uplink is not introduced to the next one (`uplink.c:217`) |
| `GracePeriodKept` | `Enforce` | an entry left over from an earlier use of a nickname renames a client before the time it was told (`enforce.c:505`) |
| `StrictLogins` | `Credentials` | SASL checks STRICTACCESS against the users who are logged in already (`saslserv/main.c:653`) |
| `ReturnedToReader` | `Credentials` | RETURN leaves NOPASSWORD, the certificates and the key of RESETSTRICTACCESS (`return.c:74`) |
| `OnePingTimer` | `Uplink` | a ping timer that runs while services are not connected is forgotten, not destroyed, and goes on beside the next (`packet.c:82`) |
| `NothingNewer` | `Bursts` | `unreal.c` and `nefarious.c` take statuses of the newer version, and `m_create()` of `p10-generic.c` its timestamp |
| `UnreadNotReplaced` | `Database` | services that could not open an existing database start without records, and their next save replaces it (`opensex.c:277`; `NEWS.md:1403` says they exit) |
| `AllMarksSaved` | `Nicks` | marks of nicknames that are grouped to an account are lost when it is deleted (`account.c:297` comes before 342; `NEWS.md:1136`) |
| `NothingLost` | `Settings` | EMAILNOTIFY is written with the letter of EMAILMEMOS, and NOTIFYMEMO has none (`flags.c:57-80`) |
| `ServerFollows` | `Settings` | KEEPTOPIC OFF ends the topic lock and leaves the server's (`set_keeptopic.c:97`) |
| `SuccessorHadAccess` | `Access` | an entry that ACCESS ADD left without flags may become founder (`access.c:1112`) |
| `TransferRequested` | `Access` | CLONE copies a pending transfer to a channel whose founder did not ask for it (`clone.c`) |
| `PermanentAkickStays` | `Akick` | FLAGS leaves the timeout of a timed AKICK behind, which ends the permanent one that follows (`akick.c:694`) |
| `MemberGroupsExist`, `NothingFreed`, `ListsReloaded` | `Groups` | a dropped group stays in the lists of others; the expiry frees what it walks over; a restart reads groups before the groups they name |
| `SourceExists` | `Modes` | BOT DEL does not flush what the bot was to send, and the changes are lost (`botserv/main.c:801`) |
| `TimerExact` | `Bans` | the timer deletes an SGLINE by searching for its mask; one with an escaped wildcard, `foo\*bar`, does not match itself: when it is over it stays, and a wider one added after it is deleted in its place, though it runs on (`node.c:403`, `match.c:187`) |
| `SglineNumbersDistinct`, `DelRemovesNamed` | `Bans` | numbers start again after a restart while those in the list are kept; AKILL DEL removes the first ban that matches the mask it was given |
| `OnlyRedundantRemoved` | `Bans` | a new mask is also compared with the text of a range: 10.* matches 10.0.0.0/7, which "is now redundant" (`akill.c:266`) and goes, with what it barred at 11.0.0.1 |
| `GraceCountKept`, `ExemptionsEnd` | `Clones` | the entry that counts grace kills is freed with the last client of an address; an exemption that is over goes on until the sweep |
| `TimestampLowered`, `InfoShowsHighest`, `EntitiesExist`, `ActiveKept` | `ChanFix` | a fix takes the timestamp the record was made with; INFO shows the oldest record's score; records keep pointers to dropped accounts; `lastupdate` is the time of the last new record, and all go when it is long ago |

## What the code does that a reader should know

Besides these:

- `services.db.new` is not truncated (`opensex.c:324`). A save killed or crashed after
  more rows than the next one has leaves its end in the database; `Complete` says
  that only the beginning is certain then.
- Errors of `fprintf()` and `fclose()` are not looked at (`opensex.c:376`), so a save cut
  short by a full disk replaces a good database.
- The number of logins is checked when SASL ends and not when the client is
  introduced, so several waiting sessions exceed `maxlogins` (`saslserv/main.c:709`).
- A client introduced between the challenge of `ecdsa-nist256p-challenge` and its answer is
  logged in to the account it has named: `sasl_newuser()` does not ask whether the session
  is done (`saslserv/main.c:761`). `IrcdAgrees` excepts these clients.
- A channel that loses the permanent mode while it is empty stays (`cmode.c:147`).
- ACCESS ADD and SET, and FFLAGS on a member of the only founder group, return without
  closing the entry they opened. The entries without flags that this leaves
  count towards the limit, and ROLE ADD gives them the new role's flags (`access.c:539`).
- A pending transfer names an account by its name and outlives the founder who asked;
  CLONE also drops the target's HOLD mark.
- `mychan_pick_candidate()` returns nothing when the best candidate is a group, also
  if there are others: the channel goes to a lower candidate or is deleted.
- A request of `moderate.c` keeps a raw pointer to the account that made it.
- After a restart no timer is set for the timed AKICKs that were loaded: they do not
  end before another is added (`akick.c:746`). AKICK DEL of a mask frees the timeouts of
  wider masks too (`akick.c:495`), whose AKICKs then never end.
- A mode lock set after changes crossed is compared with what services believe,
  and may stay violated at the server; `MlockHolds` excepts this.
- A mode that makes a channel permanent may be on its way when services send the PART
  that ends the channel for them: the server's channel stays, and services have no channel to take
  the mode off. `DestroyedChannelsDie` excepts changes that crossed.
- Unloading dnsbl with lookups pending leaves their requests in the resolver.
- A client with `UF_DOENFORCE` that changes into a nickname in use loses the flag
  and then collides: its old nickname gets no enforcer (`users.c:411`);
  `HeldNickGoesToEnforcer` excepts this.
- Presence: a bot kept in a channel by `MC_INHABIT` stays for ever when the channel is
  empty; UNASSIGN meanwhile and then SET GUARD ON leaves a guarded channel without ChanServ;
  RECOVER of an empty channel with a bot leaves ChanServ behind; CLEAR USERS by
  somebody outside takes ChanServ out without `leave_chans` (`clear_users.c:123`).
- KICKBAN of somebody on whose host services have just stacked a ban: `ban()` finds it and returns
  (`services.c:53`), and on an ircd without exceptions nothing else sends the stack
  (`services.c:73`), so KICK leaves before the ban. `KickbannedStayOut` excepts this.
- ChanStatus: INVITE refuses everybody (`invite.c:58`); with SECURE, OWNER and PROTECT ask for the
  access to op; QUIET does not count halfops; RECOVER gives op to who has only
  the right to recover.
- Memos: READ NEW ends at the first memo that asks for a receipt (`read.c:120` uses its
  counter again).
- Hosts: a request for a single nickname, or under a name that was given up, outlives the
  account; ACTIVATE of somebody offline deletes the request even if VHOST then refuses;
  FUNGROUP renames an account without updating a vhost with "$account";
  `vhostnick.c` sets the host on whoever uses the nickname.
- Groups: the rights of a group that is a member count with the flags it has there; the
  flags for JOIN may include `F`; a founder added by somebody who is none skips the check of
  levels; the expiry calls no `group_drop` hook; an invitation by name outlives
  renames; limits are compared with `>`; TEMPLATEVHOST touches the members of any template.
- Settings: the guard of LIMITFLAGS is inverted (`set_limitflags.c:65`).
- `ts6`'s `m_sjoin()` strips only `@`, `%` and `+` from nicknames.

## Not modelled

Pure text and wire formats (what protocol modules send and parse, transports, parsers,
help, languages), cryptography, string and table helpers, single-command records without timers or
concurrency (information, help requests, games, statistics), embedded interpreters and offline tools:
nothing there takes several steps to go wrong. They make up
most of the repository's lines. `PROJECT.json` lists each with its reason.

Parts with behaviour of their own that remain: hooks and objects (deletion during a
call, reference counts); the HTTP server's connections and `connection_close_soon()`
(`connection.c:271`); the kill fight counter of `handle_kill()` (`ptasks.c:765`);
requests of moderated registration, ANTIFLOOD and topics of channels; how the other
protocol modules introduce clients; authcookies; matching and addresses (`match.c`, `cidr.c`) against a reference
definition.

Proofs to add: `VersionsAgree` and `CommandsHold`.
