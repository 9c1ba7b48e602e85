------------------------------- MODULE Akick -------------------------------
(***************************************************************************)
(* Timed AKICKs (modules/chanserv/akick.c): the +b entries of access lists *)
(* that carry an "expires" time, the sorted list of their timeouts and the *)
(* one timer that serves it.                                               *)
(*                                                                         *)
(* The list refers to entries only by channel and target, both kept as     *)
(* addresses: FLAGS, CLEAR AKICKS, a dropped channel or account take the   *)
(* entry away and leave the timeout, which later meets whatever has come   *)
(* to live at these addresses.  A freed channel's list is empty.           *)
(*                                                                         *)
(* Times are seconds from now.  What has passed is -1: only the order of   *)
(* times not yet reached is ever compared.  Who may use the commands is    *)
(* module Access's matter; a refused command changes nothing.              *)
(***************************************************************************)
EXTENDS Integers, Sequences, FiniteSets, SequencesExt, Lists

CONSTANTS
    Channels,     \* mychan_t, by address
    Entities,     \* myentity_t, by address
    Masks,        \* hostmasks
    Matches,      \* the pairs <<mask, name>> of hostmasks that match() accepts
    Mixed,        \* bound: the targets that may get flags beside +b
    Durations,    \* durations of AKICKs, in seconds, beside permanent
    MaxTimeouts,  \* bound: timeouts on the list
    None

\* What the constants are.
AkickAssumption ==
    /\ Entities \intersect Masks = {}
    /\ Matches \subseteq Masks \X Masks
    /\ \A m \in Masks : <<m, m>> \in Matches
    /\ Mixed \subseteq Entities \union Masks
    /\ Durations \subseteq Nat \ {0}
    /\ MaxTimeouts \in Nat
    /\ None \notin Int

VARIABLES
    chanacs,        \* the access lists, without entries nobody ever akicks
    akickdel_list,  \* the timeouts, the first to expire first
    akickdel_next   \* when the timer runs, or None for 0

vars == <<chanacs, akickdel_list, akickdel_next>>

Targets == Entities \union Masks

\* Levels: +b, and one flag that stands for all others.
Levels(t) == SUBSET (IF t \in Mixed THEN {"b", "v"} ELSE {"b"})

NoEntry == [level |-> {}, expires |-> None]
Akicked(c, t) == "b" \in chanacs[c][t].level

\* An entry is freed when nothing is left of it (chanacs_close).
SetLevel(ca, level) == IF level = {} THEN NoEntry ELSE [ca EXCEPT !.level = level]

Timeout(c, t, left, loaded) == [chan |-> c, target |-> t, expiration |-> left, loaded |-> loaded]

-----------------------------------------------------------------------------
\* Mutant of akick_add_timeout: new timeouts go last.
AppendTimeout(list, to) == Append(list, to)

\* After the last that expires no later, or first.
akick_add_timeout(list, to) ==
    LET last == CHOOSE k \in 0 .. Len(list) :
                   /\ k > 0 => list[k].expiration <= to.expiration
                   /\ \A i \in k + 1 .. Len(list) : list[i].expiration > to.expiration
    IN  InsertAt(list, last + 1, to)

\* The timer runs for a new timeout if it would run later, or not at all.
ArmTimer(left) ==
    IF akickdel_next = None \/ akickdel_next > left THEN left ELSE akickdel_next

\* AKICK ADD.  There must be no entry of the target, and of a hostmask no
\* more general AKICK.
cs_cmd_akick_add(c, t, duration) ==
    /\ chanacs[c][t] = NoEntry
    /\ ~ \E m \in Masks : <<m, t>> \in Matches /\ Akicked(c, m)
    /\ chanacs' = [chanacs EXCEPT ![c][t] = [level |-> {"b"}, expires |-> duration]]
    /\ IF duration = None
       THEN UNCHANGED <<akickdel_list, akickdel_next>>
       ELSE /\ Len(akickdel_list) < MaxTimeouts
            /\ akickdel_list' = akick_add_timeout(akickdel_list, Timeout(c, t, duration, FALSE))
            /\ akickdel_next' = ArmTimer(duration)

\* The timeouts AKICK DEL takes off the list: of an account its own, of a
\* hostmask those of every mask that matches it.
Dropped(c, t, to) ==
    to.chan = c /\ IF t \in Masks THEN <<to.target, t>> \in Matches ELSE to.target = t

\* AKICK DEL.  The timer is left as it is.
cs_cmd_akick_del(c, t) ==
    /\ Akicked(c, t)
    /\ chanacs' = [chanacs EXCEPT ![c][t] = SetLevel(@, @.level \ {"b"})]
    /\ akickdel_list' = Selected(akickdel_list,
           {i \in DOMAIN akickdel_list : ~Dropped(c, t, akickdel_list[i])})
    /\ UNCHANGED akickdel_next

\* Mutant of Rearmed: the timer is not set again for what is left.
NeverRearmed(rest) == None

\* The timer after a pass that leaves rest on the list.
Rearmed(rest) == IF rest = <<>> THEN None ELSE rest[1].expiration

\* The timer: +b is removed from the targets of all timeouts up to the first
\* that is not due, whatever has become of their entries meanwhile.
akick_timeout_check ==
    LET n == CHOOSE k \in 0 .. Len(akickdel_list) :
                /\ \A i \in 1 .. k : akickdel_list[i].expiration <= 0
                /\ k < Len(akickdel_list) => akickdel_list[k + 1].expiration > 0
        rest == SubSeq(akickdel_list, n + 1, Len(akickdel_list))
        Hit(c, t) == \E i \in 1 .. n : akickdel_list[i].chan = c /\ akickdel_list[i].target = t
    IN  /\ akickdel_next # None /\ akickdel_next <= 0
        /\ chanacs' = [c \in Channels |-> [t \in Targets |->
                         IF Hit(c, t) THEN SetLevel(chanacs[c][t], chanacs[c][t].level \ {"b"})
                         ELSE chanacs[c][t]]]
        /\ akickdel_list' = rest
        /\ akickdel_next' = Rearmed(rest)

\* Services start again with the access lists they had, and the module
\* makes the list from these: what has expired is removed, the rest is
\* listed by akick_add_timeout(), so that timeouts of one moment stand in the
\* order of the channels and of their lists, and no timer is set.
akickdel_list_create ==
    LET Timed(c, t) == Akicked(c, t) /\ chanacs[c][t].expires # None
        Late(c, t) == Timed(c, t) /\ chanacs[c][t].expires < 0
        keys == {k \in Channels \X Targets : Timed(k[1], k[2]) /\ ~Late(k[1], k[2])}
        timeouts == {Timeout(k[1], k[2], chanacs[k[1]][k[2]].expires, TRUE) : k \in keys}
    IN  /\ chanacs' = [c \in Channels |-> [t \in Targets |->
                         IF Late(c, t) THEN SetLevel(chanacs[c][t], chanacs[c][t].level \ {"b"})
                         ELSE chanacs[c][t]]]
        /\ Cardinality(timeouts) \in 0 .. MaxTimeouts
        /\ akickdel_list' \in SetToSeqs(timeouts)
        /\ \A i, j \in DOMAIN akickdel_list' :
              i <= j => akickdel_list'[i].expiration <= akickdel_list'[j].expiration
        /\ akickdel_next' = None

\* FLAGS and the other commands of module Access set any level.
cs_cmd_flags(c, t, level) ==
    /\ chanacs' = [chanacs EXCEPT ![c][t] = SetLevel(@, level)]
    /\ UNCHANGED <<akickdel_list, akickdel_next>>

\* CLEAR AKICKS deletes the entries that are +b and nothing else.
cs_cmd_clear_akicks(c) ==
    /\ chanacs' = [chanacs EXCEPT ![c] =
                     [t \in Targets |-> IF @[t].level = {"b"} THEN NoEntry ELSE @[t]]]
    /\ UNCHANGED <<akickdel_list, akickdel_next>>

\* The channel is dropped, and the next one registered may get its address.
mychan_delete(c) ==
    /\ chanacs' = [chanacs EXCEPT ![c] = [t \in Targets |-> NoEntry]]
    /\ UNCHANGED <<akickdel_list, akickdel_next>>

\* The account or group is dropped, likewise.
myentity_del(t) ==
    /\ chanacs' = [c \in Channels |-> [chanacs[c] EXCEPT ![t] = NoEntry]]
    /\ UNCHANGED <<akickdel_list, akickdel_next>>

\* A second passes.
Tick ==
    LET Pass(left) == IF left = None THEN None ELSE IF left < 0 THEN left ELSE left - 1
    IN  /\ chanacs' = [c \in Channels |-> [t \in Targets |->
                         [chanacs[c][t] EXCEPT !.expires = Pass(@)]]]
        /\ akickdel_list' = [i \in DOMAIN akickdel_list |->
                               [akickdel_list[i] EXCEPT !.expiration = Pass(@)]]
        /\ akickdel_next' = Pass(akickdel_next)

Init ==
    /\ chanacs = [c \in Channels |-> [t \in Targets |-> NoEntry]]
    /\ akickdel_list = <<>>
    /\ akickdel_next = None

Next ==
    \/ \E c \in Channels :
          \/ \E t \in Targets :
                \/ \E d \in {None} \union Durations : cs_cmd_akick_add(c, t, d)
                \/ cs_cmd_akick_del(c, t)
                \/ \E level \in Levels(t) : cs_cmd_flags(c, t, level)
          \/ cs_cmd_clear_akicks(c)
          \/ mychan_delete(c)
    \/ \E t \in Entities : myentity_del(t)
    \/ akick_timeout_check
    \/ akickdel_list_create
    \/ Tick

Spec == Init /\ [][Next]_vars

\* Time passes, and the event loop runs the timer once it is due.
FairSpec == Spec /\ WF_vars(Tick) /\ WF_vars(akick_timeout_check)

-----------------------------------------------------------------------------
(* Properties *)

\* Types.
TypeOK ==
    /\ chanacs \in [Channels -> [Targets -> [level : SUBSET {"b", "v"}, expires : {None} \union Int]]]
    /\ akickdel_list \in Seq([chan : Channels, target : Targets, expiration : Int, loaded : BOOLEAN])
    /\ akickdel_next \in {None} \union Int

\* The list is sorted, as the pass that stops at the first timeout not due
\* needs it (akick.c:675), and the timer runs no later than any timeout that
\* AKICK ADD put there (akick.c:335, 401): also when AKICK DEL has removed the
\* timeout it was set for, and when timeouts loaded at start, which set no
\* timer, stand before it.
TimerCoversAkicks ==
    /\ \A i, j \in DOMAIN akickdel_list :
          i <= j => akickdel_list[i].expiration <= akickdel_list[j].expiration
    /\ \A i \in DOMAIN akickdel_list : ~akickdel_list[i].loaded =>
          akickdel_next # None /\ akickdel_next <= akickdel_list[i].expiration

\* An AKICK for which a timeout made by AKICK ADD waits does not stay that
\* way: it is lifted, or the timeout is, whatever commands add and remove
\* other AKICKs meanwhile and though the timer is set for one timeout at a
\* time (akick.c:660).
TimedAkicksEnd ==
    \A c \in Channels, t \in Targets :
       LET waiting == /\ Akicked(c, t)
                      /\ \E i \in DOMAIN akickdel_list : /\ akickdel_list[i].chan = c
                                                         /\ akickdel_list[i].target = t
                                                         /\ ~akickdel_list[i].loaded
       IN  waiting ~> ~waiting

\* "If the !P token is specified, the AKICK will never expire (permanent)"
\* (help/default/cservice/akick): the timer removes no AKICK without an
\* expiry.  The code violates it: FLAGS -b leaves the timeout of a timed AKICK
\* behind, which ends the permanent one that follows it.
PermanentAkickStays ==
    [][akick_timeout_check =>
          \A c \in Channels, t \in Targets :
             Akicked(c, t) /\ chanacs[c][t].expires = None => Akicked(c, t)']_vars
=============================================================================
