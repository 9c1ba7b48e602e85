------------------------------ MODULE ChanFix -------------------------------
(***************************************************************************)
(* ChanFix (modules/chanfix): who has ops in an unregistered channel is    *)
(* recorded and scored by a timer; another timer gives ops back in a       *)
(* channel that has none, first to members with a high score and, as time  *)
(* passes, to ones with a lower score.                                     *)
(*                                                                         *)
(* Records of different channels have nothing to do with each other, so    *)
(* the module is about one channel.  A record finds its operator by        *)
(* account or by user@host.  Account pointers are never cleared: an        *)
(* account that is dropped leaves its records with the address, which a    *)
(* later account may get.                                                  *)
(*                                                                         *)
(* Marks, listings and log channels, where ChanFix stays, are left out.    *)
(***************************************************************************)
EXTENDS Integers, Sequences, FiniteSets, SequencesExt, Lists

CONSTANTS
    Users,
    HostOf,         \* the user@host of a user
    Accounts,       \* addresses of accounts
    NoAccount,      \* NULL
    TSs,            \* timestamps of channels
    OpThreshold,    \* CHANFIX_OP_THRESHHOLD
    MinFixScore,    \* CHANFIX_MIN_FIX_SCORE
    InitialStep,    \* CHANFIX_INITIAL_STEP, in percent
    FinalStep,      \* CHANFIX_FINAL_STEP, in percent
    FixTime,        \* CHANFIX_FIX_TIME, in rounds of the autofix timer
    Retention,      \* CHANFIX_RETENTION_TIME
    Divisor,        \* CHANFIX_EXPIRE_DIVISOR
    MaxAge,         \* bound: the age of a record
    MinTS           \* bound: timestamps

\* What the constants are.
ChanFixAssumption ==
    /\ IsFiniteSet(Users) /\ NoAccount \notin Accounts
    /\ TSs \subseteq Nat \ {0} /\ MinTS \in Int
    /\ OpThreshold \in Nat \ {0} /\ MinFixScore \in Nat \ {0}
    /\ FinalStep \in 1 .. 99 /\ InitialStep \in FinalStep .. 99
    /\ FixTime \in Nat \ {0} /\ Retention \in Nat \ {0}
    /\ Divisor \in Nat \ {0} /\ MaxAge \in Nat \ {0}

VARIABLES
    exists,     \* services know the channel
    ts,         \* its timestamp
    members, ops,
    barred,     \* it has bans, a key, a limit or is invite only
    registered,
    login,      \* the account of a user
    accounts,   \* accounts that exist
    rec,        \* the chanfix_channel_t, or NoRec
    autofix     \* chanfix_do_autofix

chanfixVars == <<exists, ts, members, ops, barred, registered, login, accounts, rec, autofix>>
channel == <<exists, ts, members, ops, barred>>
others == <<registered, login, accounts, autofix>>

NoRec == [list |-> <<>>, ts |-> 0, chan |-> FALSE, idle |-> 0, started |-> -1, requested |-> FALSE]

\* started is 0, or one more than the rounds since fix_started; idle is the
\* time since lastupdate, which is long ago in a new record.
NewRec(chan, t) ==
    [list |-> <<>>, ts |-> IF chan THEN t ELSE 0, chan |-> chan, idle |-> Retention,
     started |-> 0, requested |-> FALSE]

ChanFixInit ==
    /\ exists = FALSE /\ ts = 0 /\ members = {} /\ ops = {} /\ barred = FALSE
    /\ registered = FALSE
    /\ login = [u \in Users |-> NoAccount]
    /\ accounts = {}
    /\ rec = NoRec
    /\ autofix \in BOOLEAN

-----------------------------------------------------------------------------
(* Scores.                                                                 *)

First(I) == CHOOSE i \in I : \A j \in I : i <= j

chanfix_oprecord_find(list, u) ==
    {i \in DOMAIN list : (list[i].entity # NoAccount /\ list[i].entity = login[u]) \/ list[i].host = HostOf[u]}

chanfix_calculate_score(r) == IF r.entity = NoAccount THEN r.age ELSE (3 * r.age) \div 2

Score(u) ==
    LET I == chanfix_oprecord_find(rec.list, u)
    IN  IF I = {} THEN 0 ELSE chanfix_calculate_score(rec.list[First(I)])

chanfix_get_highscore ==
    LET S == {0} \union {chanfix_calculate_score(rec.list[i]) : i \in DOMAIN rec.list}
    IN  CHOOSE s \in S : \A t \in S : t <= s

\* Mutant of chanfix_get_threshold: it does not fall.
SteadyThreshold(t) ==
    LET share == (chanfix_get_highscore * InitialStep) \div 100
    IN  IF share = 0 THEN 1 ELSE share

chanfix_get_threshold(t) ==
    LET elapsed == IF t > FixTime THEN FixTime ELSE t
        share == (chanfix_get_highscore * (InitialStep * FixTime - (InitialStep - FinalStep) * elapsed))
                     \div (100 * FixTime)
    IN  IF share = 0 THEN 1 ELSE share

-----------------------------------------------------------------------------
(* The channel.                                                            *)

\* Mutant of chanfix_channel_delete_ev: the pointer is kept.
KeepPointer == IF rec # NoRec THEN rec ELSE NewRec(FALSE, 0)

chanfix_channel_delete_ev == IF rec # NoRec THEN [rec EXCEPT !.chan = FALSE] ELSE NewRec(FALSE, 0)

\* The channel appears, with some of its members.  The record keeps the
\* timestamp it was made with.
ChannelAdd(t, M, O) ==
    /\ ~exists /\ M # {} /\ O \subseteq M
    /\ exists' = TRUE /\ ts' = t /\ members' = M /\ ops' = O /\ barred' \in BOOLEAN
    /\ rec' = IF rec # NoRec THEN [rec EXCEPT !.chan = TRUE] ELSE NewRec(TRUE, t)
    /\ UNCHANGED others

\* A member leaves; the last one takes the channel along.
Part(u) ==
    /\ u \in members
    /\ members' = members \ {u} /\ ops' = ops \ {u}
    /\ IF members = {u}
       THEN exists' = FALSE /\ ts' = 0 /\ barred' = FALSE /\ rec' = chanfix_channel_delete_ev
       ELSE UNCHANGED <<exists, ts, barred, rec>>
    /\ UNCHANGED others

Join(u) ==
    /\ exists /\ ~barred /\ u \notin members
    /\ members' = members \union {u}
    /\ UNCHANGED <<exists, ts, ops, barred, rec, others>>

\* Operators change modes.
Mode(O, b) ==
    /\ ops # {} /\ O \subseteq members
    /\ ops' = O /\ barred' = b
    /\ UNCHANGED <<exists, ts, members, rec, others>>

\* The channel is joined with an older one of the same name.
Merge(t, O) ==
    /\ exists /\ t < ts /\ O \subseteq members
    /\ ts' = t /\ ops' = O
    /\ UNCHANGED <<exists, members, barred, rec, others>>

\* ChanServ REGISTER, by an operator who is logged in; a score that counts
\* for a fix is asked for unless the user is an administrator.
Register(u, admin) ==
    /\ ~registered /\ u \in ops /\ login[u] # NoAccount
    /\ \/ admin
       \/ chanfix_get_highscore < MinFixScore
       \/ 100 * Score(u) >= FinalStep * chanfix_get_highscore
    /\ registered' = TRUE
    /\ UNCHANGED <<channel, login, accounts, rec, autofix>>

Drop ==
    /\ registered /\ registered' = FALSE
    /\ UNCHANGED <<channel, login, accounts, rec, autofix>>

Login(u, a) ==
    /\ a \in accounts \union {NoAccount}
    /\ login' = [login EXCEPT ![u] = a]
    /\ UNCHANGED <<channel, registered, accounts, rec, autofix>>

RegisterAccount(a) ==
    /\ a \notin accounts /\ accounts' = accounts \union {a}
    /\ UNCHANGED <<channel, registered, login, rec, autofix>>

\* The records are not told.
DropAccount(a) ==
    /\ a \in accounts /\ accounts' = accounts \ {a}
    /\ login' = [u \in Users |-> IF login[u] = a THEN NoAccount ELSE login[u]]
    /\ UNCHANGED <<channel, registered, rec, autofix>>

ChanFixRehash ==
    /\ autofix' = ~autofix
    /\ UNCHANGED <<channel, registered, login, accounts, rec>>

-----------------------------------------------------------------------------
(* Gathering.                                                              *)

SeenAgain(x, u) ==
    [x EXCEPT !.age = @ + 1, !.idle = 0, !.entity = IF @ = NoAccount THEN login[u] ELSE @]

chanfix_oprecord_update(r, u) ==
    LET I == chanfix_oprecord_find(r.list, u)
    IN  IF I = {}
        THEN [r EXCEPT !.idle = 0,
                       !.list = Append(@, [entity |-> login[u], host |-> HostOf[u], age |-> 1, idle |-> 0])]
        ELSE [r EXCEPT !.list[First(I)] = SeenAgain(@, u)]

\* The members are visited in any order.
chanfix_gather ==
    /\ exists /\ ~registered
    /\ LET r == IF rec = NoRec THEN NewRec(TRUE, ts) ELSE rec
       IN  \E order \in SetToSeqs(ops) : rec' = FoldLeft(chanfix_oprecord_update, r, order)
    /\ \A i \in DOMAIN rec'.list : rec'.list[i].age <= MaxAge
    /\ UNCHANGED <<channel, others>>

\* The decay is rounded up.
Decayed(r) == [r EXCEPT !.age = @ - (@ + Divisor - 1) \div Divisor]

\* Mutant of Kept: a record stays as long as its time lasts.
KeptByTime(r) == r.idle < Retention

Kept(r) == r.age > 0 /\ r.idle < Retention

chanfix_expire ==
    LET list == [i \in DOMAIN rec.list |-> Decayed(rec.list[i])]
        kept == Selected(list, {i \in DOMAIN list : Kept(list[i])})
    IN  /\ rec # NoRec
        /\ rec' = IF kept # <<>> /\ rec.idle < Retention THEN [rec EXCEPT !.list = kept] ELSE NoRec
        /\ UNCHANGED <<channel, others>>

Longer(n) == IF n < Retention THEN n + 1 ELSE n

\* A good part of the retention time passes.
Later ==
    /\ rec # NoRec
    /\ LET Older(x) == [x EXCEPT !.idle = Longer(@)]
       IN  rec' = [Older(rec) EXCEPT !.list = [i \in DOMAIN @ |-> Older(@[i])]]
    /\ UNCHANGED <<channel, others>>

-----------------------------------------------------------------------------
(* Fixing.                                                                 *)

\* Mutant of chanfix_should_handle: a fix is never considered done.
HandleForever ==
    /\ rec.chan /\ ~registered
    /\ Cardinality(ops) < OpThreshold
    /\ ops # {} => rec.started # 0

chanfix_should_handle ==
    /\ rec.chan /\ ~registered
    /\ Cardinality(ops) < OpThreshold
    /\ ops # {} => rec.started # 0 /\ rec.started - 1 <= FixTime

chanfix_can_start_fix ==
    \E u \in members :
        /\ chanfix_oprecord_find(rec.list, u) # {}
        /\ Score(u) >= (chanfix_get_highscore * FinalStep) \div 100

Qualified(t) ==
    {u \in members \ ops : /\ chanfix_oprecord_find(rec.list, u) # {}
                           /\ Score(u) >= chanfix_get_threshold(t)}

\* Mutant of chanfix_fix_channel: one at a time.
FixOne(t) == IF Qualified(t) = {} THEN {} ELSE {CHOOSE u \in Qualified(t) : TRUE}

\* The members that are given ops.
chanfix_fix_channel(t) == Qualified(t)

\* Mutant of Cleared: not when there was nobody to start with.
ClearedLater(started, opped) == started # 0 /\ opped = {} /\ ops = {}

\* Bans and the like are removed if nobody got ops and nobody has any.
Cleared(started, opped) == opped = {} /\ (rec.started = 0 \/ ops = {})

chanfix_autofix_ev ==
    /\ rec # NoRec /\ (autofix \/ rec.requested)
    /\ IF chanfix_should_handle
       THEN LET started == IF rec.started = 0 /\ chanfix_can_start_fix THEN 1 ELSE rec.started
                opped == IF started = 0 THEN {} ELSE chanfix_fix_channel(started - 1)
            IN  /\ rec' = [rec EXCEPT !.started = started]
                /\ ops' = ops \union opped
                /\ barred' = IF Cleared(started, opped) THEN FALSE ELSE barred
       ELSE /\ rec' = [rec EXCEPT !.started = 0, !.requested = FALSE]
            /\ UNCHANGED <<ops, barred>>
    /\ UNCHANGED <<exists, ts, members, others>>

\* A minute passes.
Minute ==
    /\ rec.started \in 1 .. FixTime + 1
    /\ rec' = [rec EXCEPT !.started = @ + 1]
    /\ UNCHANGED <<channel, others>>

\* CHANFIX: modes and ops are removed, with a timestamp that is to make the
\* servers do the same; the timer does the rest.
chanfix_cmd_fix ==
    /\ exists /\ rec # NoRec /\ ~registered
    /\ chanfix_get_highscore >= MinFixScore
    /\ rec.ts > MinTS
    /\ IF rec.chan
       THEN /\ ts' = rec.ts - 1 /\ ops' = {} /\ barred' = FALSE
            /\ rec' = [rec EXCEPT !.ts = @ - 1, !.requested = TRUE]
       ELSE rec' = [rec EXCEPT !.requested = TRUE] /\ UNCHANGED <<ts, ops, barred>>
    /\ UNCHANGED <<exists, members, others>>

\* SCORES and INFO sort the records by age, and leave those of the same age in
\* their order: the one list there is.
SortedByAge ==
    LET D == DOMAIN rec.list
        Before(i, j) == \/ rec.list[i].age > rec.list[j].age
                        \/ rec.list[i].age = rec.list[j].age /\ i < j
    IN  {[i \in D |-> rec.list[index[i]]] :
            index \in {f \in [D -> D] : \A i, j \in D : i < j => Before(f[i], f[j])}}

\* What INFO then gives as the highest score.
InfoScore ==
    IF rec.list = <<>> THEN 0
    ELSE chanfix_calculate_score((CHOOSE list \in SortedByAge : TRUE)[1])

chanfix_cmd_info ==
    /\ rec # NoRec
    /\ \E list \in SortedByAge : rec' = [rec EXCEPT !.list = list]
    /\ UNCHANGED <<channel, others>>

-----------------------------------------------------------------------------
(* Services save everything, end and start again.  An account is saved by  *)
(* its name and found by it; the name of one that is gone is read from     *)
(* memory that was freed.                                                  *)

Restart ==
    /\ exists' = FALSE /\ ts' = 0 /\ members' = {} /\ ops' = {} /\ barred' = FALSE
    /\ login' = [u \in Users |-> NoAccount]
    /\ \E read \in [DOMAIN rec.list -> accounts \union {NoAccount}] :
          /\ \A i \in DOMAIN rec.list :
                rec.list[i].entity \in accounts \union {NoAccount} => read[i] = rec.list[i].entity
          /\ rec' = IF rec = NoRec THEN NoRec
                    ELSE [rec EXCEPT !.chan = FALSE, !.started = 0, !.requested = FALSE,
                             !.list = [i \in DOMAIN @ |-> [@[i] EXCEPT !.entity = read[i]]]]
    /\ UNCHANGED <<registered, accounts, autofix>>

ChanFixNext ==
    \/ \E t \in TSs, M \in SUBSET Users, O \in SUBSET Users : ChannelAdd(t, M, O)
    \/ \E u \in Users : Part(u) \/ Join(u)
    \/ \E O \in SUBSET Users, b \in BOOLEAN : Mode(O, b)
    \/ \E t \in TSs, O \in SUBSET Users : Merge(t, O)
    \/ \E u \in Users, admin \in BOOLEAN : Register(u, admin)
    \/ Drop
    \/ \E u \in Users, a \in Accounts \union {NoAccount} : Login(u, a)
    \/ \E a \in Accounts : RegisterAccount(a) \/ DropAccount(a)
    \/ ChanFixRehash
    \/ chanfix_gather \/ chanfix_expire \/ Later
    \/ chanfix_autofix_ev \/ Minute
    \/ chanfix_cmd_fix \/ chanfix_cmd_info
    \/ Restart

\* The event loop runs its timers, and time passes.
ChanFixSpec == ChanFixInit /\ [][ChanFixNext]_chanfixVars /\ WF_chanfixVars(chanfix_autofix_ev) /\ WF_chanfixVars(Minute)

-----------------------------------------------------------------------------
(* Properties.                                                             *)

\* The record points to the channel exactly while there is one, whatever was
\* expired, made again, saved and loaded in between: a timer that follows
\* the pointer never meets a channel that is gone.
PointerOK == rec # NoRec => rec.chan = exists

\* No record that has decayed to nothing, whose weight would let anyone pass
\* for an operator, and no two that were made for the same user@host, between
\* which an operator's time would be split.
RecordsOK ==
    \A i, j \in DOMAIN rec.list :
        /\ rec.list[i].age > 0
        /\ rec.list[i].host = rec.list[j].host => i = j

\* The two, whatever becomes of the channel and its record (gather.c:25-260).
RecordsSound == PointerOK /\ RecordsOK

Handled == rec.chan /\ ~registered /\ (autofix \/ rec.requested)

\* Nobody who is given ops by a fix has less of a score than a member who
\* is left without.
HighestFirst ==
    [][chanfix_autofix_ev =>
          \A u \in ops' \ ops, v \in members \ ops' : Score(v) < Score(u)]_chanfixVars

\* An opless channel with a member whose score reaches the final step does
\* not stay opless.
OpsReturn ==
    []<>~(/\ Handled /\ ops = {}
          /\ \E u \in members : LET t == (chanfix_get_highscore * FinalStep) \div 100
                                IN  Score(u) >= (IF t = 0 THEN 1 ELSE t))

\* A fix in a channel that has ops comes to its end: ChanFix does not go on
\* giving ops to members with lower scores for ever.
FixEnds == []<>~(Handled /\ rec.started > 0 /\ ops # {})

\* An opless channel does not stay closed to those who had ops in it.
DoorsOpen == []<>~(Handled /\ ops = {} /\ barred)

\* CHANFIX removes modes "locally only, chan_lowerts() will propagate": the
\* servers take its modes and statuses only with a lower timestamp.  But the
\* record has the timestamp of the channel that it was made for.
TimestampLowered == [][chanfix_cmd_fix => ts' < ts]_chanfixVars

\* INFO displays the highest score: it takes that of the oldest record, and
\* scores also depend on accounts.
InfoShowsHighest == InfoScore = chanfix_get_highscore

\* The accounts of the records exist.  (Not so: see DropAccount.)
EntitiesExist == \A i \in DOMAIN rec.list : rec.list[i].entity \in accounts \union {NoAccount}

\* An operator who was seen lately keeps a score through an expiry that
\* leaves some of it.  (Not so: lastupdate is the time of the last new
\* record, and all the records go when it is long ago.)
ActiveKept ==
    [][chanfix_expire =>
          \A i \in DOMAIN rec.list : rec.list[i].idle = 0 /\ Decayed(rec.list[i]).age > 0 =>
              \E j \in DOMAIN rec'.list : rec'.list[j].host = rec.list[i].host]_chanfixVars
=============================================================================
