------------------------------- MODULE Modes -------------------------------
(***************************************************************************)
(* Channel modes (libathemecore/cmode.c): services' view of the modes of a *)
(* channel, the stack in which their own changes wait to be sent together, *)
(* mode locks, and what becomes of the stack when the channel dies or the  *)
(* bot in whose name it is to be sent is deleted.                          *)
(*                                                                         *)
(* The server at the other end keeps its own view; both ends change it at  *)
(* will and tell each other over links that keep the order and take time,  *)
(* so that changes may cross.  One channel is followed through one life.   *)
(* A change to another channel flushes the stack as its timer does.        *)
(*                                                                         *)
(* The limit and the modes with a parameter the protocol module lists      *)
(* (ignore_mode_list) are alike: slots with a value or none.  Bans and     *)
(* statuses are members of a list.  The bound on parameters in a line      *)
(* stands for the bound on its length too.                                 *)
(***************************************************************************)
EXTENDS Integers, Sequences, FiniteSets, SequencesExt

CONSTANTS
    SimpleModes,  \* mode_list
    PermModes,    \* ircd->perm_mode: the channel outlives its members
    Slots,        \* the limit and ignore_mode_list
    Values,       \* their values
    Keys,         \* channel keys
    Lists,        \* bans and statuses, each with its parameter
    Locks,        \* bound: the locks SET MLOCK sets
    OurChanges, TheirChanges,  \* bound: the changes services and users make
    MAXMODES,     \* modes with a parameter in a line
    MaxSent,      \* bound: messages to the server under way
    MaxQueue,     \* bound: messages to services under way
    MaxChanges,   \* bound: changes that users and commands make
    None, Off     \* no value, and a lock on having none

VARIABLES
    chan,     \* services' channel_t, or None
    mlock,    \* mlock_on, mlock_off, mlock_limit, mlock_key, "private:mlockext"
    stack,    \* modestackdata
    bot,      \* the bot assigned to the channel exists
    toIrcd,   \* what services have sent
    toUs,     \* mode changes and the last PART the server has sent
    ircd,     \* the server's channel: modes, and what keeps it alive
    lost,     \* stacked changes were not sent for want of a source
    crossed,  \* a change was made at one end before all of the other's arrived
    sound,    \* the lock was set when no changes had crossed
    made      \* changes made

vars == <<chan, mlock, stack, bot, toIrcd, toUs, ircd, lost, crossed, sound, made>>

NoModes == [modes |-> {}, slot |-> [x \in Slots |-> None], key |-> None, list |-> {}]
NoLock == [on |-> {}, off |-> {}, slot |-> [x \in Slots |-> None], key |-> None]

\* The modes of a channel.
ModesOf == [modes : SUBSET SimpleModes, slot : [Slots -> {None} \union Values],
            key : {None} \union Keys, list : SUBSET Lists]

-----------------------------------------------------------------------------
(* Mode changes: simple modes, a slot, the key or a list. *)

Simple(on, off) == [kind |-> "simple", on |-> on, off |-> off]
Slot(x, v) == [kind |-> "slot", slot |-> x, val |-> v]
Key(v) == [kind |-> "key", val |-> v]
List(add, e) == [kind |-> "list", add |-> add, val |-> e]

Changes == [kind : {"simple"}, on : SUBSET SimpleModes, off : SUBSET SimpleModes]
           \union [kind : {"slot"}, slot : Slots, val : {None} \union Values]
           \union [kind : {"key"}, val : {None} \union Keys]
           \union [kind : {"list"}, add : BOOLEAN, val : Lists]

ASSUME ModesAssumption ==
    /\ PermModes \subseteq SimpleModes /\ IsFiniteSet(Slots)
    /\ None # Off /\ {None, Off} \intersect Values = {} /\ {None, Off} \intersect Keys = {}
    /\ None \notin ModesOf
    /\ MAXMODES \in Nat \ {0} /\ MaxSent \in Nat /\ MaxQueue \in Nat /\ MaxChanges \in Nat
    /\ OurChanges \union TheirChanges \subseteq Changes
    /\ \A lock \in Locks :
          /\ lock.on \subseteq SimpleModes /\ lock.off \subseteq SimpleModes \ lock.on
          /\ \A x \in Slots : lock.slot[x] \in {None, Off} \union Values
          /\ lock.key \in {None, Off} \union Keys

Apply(m, ch) ==
    CASE ch.kind = "simple" -> [m EXCEPT !.modes = (@ \ ch.off) \union ch.on]
      [] ch.kind = "slot" -> [m EXCEPT !.slot[ch.slot] = ch.val]
      [] ch.kind = "key" -> [m EXCEPT !.key = ch.val]
      [] ch.kind = "list" -> [m EXCEPT !.list = IF ch.add THEN @ \union {ch.val} ELSE @ \ {ch.val}]

-----------------------------------------------------------------------------
(* The stack *)

Unused == [x \in Slots |-> Off]

modestack_clear(st) == [st EXCEPT !.on = {}, !.off = {}, !.slot = Unused, !.params = <<>>]

Empty(st) == st = modestack_clear(st)

\* The line modestack_flush sends: modes off, then on, then parameters in order.
Line(st) ==
    LET slots == SetToSeq({x \in Slots : st.slot[x] # Off})
    IN  <<Simple(st.on, st.off)>>
        \o [k \in DOMAIN slots |-> Slot(slots[k], st.slot[slots[k]])]
        \o st.params

\* The state of a handler that stacks modes: the stack, the lines sent and
\* whether some found no source (mode_sts of the protocol module).
modestack_flush(s) ==
    IF Empty(s.stack) THEN s
    ELSE LET known == s.stack.source = "chanserv" \/ s.bot
         IN  [s EXCEPT !.stack = modestack_clear(@),
                       !.out = IF known THEN Append(@, [modes |-> Line(s.stack)]) ELSE @,
                       !.lost = @ \/ ~known]

modestack_init(s, source) ==
    LET t == IF s.stack.source # source THEN modestack_flush(s) ELSE s
    IN  [t EXCEPT !.stack.source = source]

paramcount(st) == Cardinality({x \in Slots : st.slot[x] # Off}) + Len(st.params)

\* Mutant of modestack_add_simple: the opposite change stays.
AddSimpleOnly(st, ch) == [st EXCEPT !.on = @ \union ch.on, !.off = @ \union ch.off]

modestack_add_simple(st, ch) ==
    [st EXCEPT !.on = (@ \ ch.off) \union ch.on, !.off = (@ \ ch.on) \union ch.off]

\* A limit or listed mode replaces what was stacked for it.
modestack_add_slot(s, ch) ==
    LET u == [s EXCEPT !.stack.slot[ch.slot] = Off]
        t == IF paramcount(u.stack) >= MAXMODES THEN modestack_flush(u) ELSE u
    IN  [t EXCEPT !.stack.slot[ch.slot] = ch.val]

\* The key once in a line, anything else in the order it came.
modestack_add_param(s, ch) ==
    LET full == \/ paramcount(s.stack) >= MAXMODES
                \/ ch.kind = "key" /\ \E i \in DOMAIN s.stack.params : s.stack.params[i].kind = "key"
        t == IF full THEN modestack_flush(s) ELSE s
    IN  [t EXCEPT !.stack.params = Append(@, ch)]

\* Services make the change ch, in the name of the bot if there is one.
ModeChange(s, ch) ==
    LET t == modestack_init(s, IF s.bot THEN "bot" ELSE "chanserv")
        u == IF ch.kind = "simple"
             THEN IF ch.on \union ch.off = {} THEN s
                  ELSE [t EXCEPT !.stack = modestack_add_simple(@, ch)]
             ELSE IF ch.kind = "slot" THEN modestack_add_slot(t, ch)
             ELSE modestack_add_param(t, ch)
    IN  [u EXCEPT !.chan = Apply(@, ch)]

Handler == [chan |-> chan, stack |-> stack, out |-> <<>>, lost |-> lost, bot |-> bot]

Made == made < MaxChanges /\ made' = made + 1

Finish(s) ==
    /\ chan' = s.chan
    /\ stack' = s.stack
    /\ toIrcd' = toIrcd \o s.out
    /\ Len(toIrcd') <= MaxSent
    /\ lost' = s.lost

-----------------------------------------------------------------------------
(* Mode locks *)

\* What check_modes changes, given the modes m and the lock.
SlotsToSet(m, lock) == {x \in Slots : lock.slot[x] \in Values /\ m.slot[x] # lock.slot[x]}
SlotsToClear(m, lock) == {x \in Slots : lock.slot[x] = Off /\ m.slot[x] # None}

KeyChanges(m, lock) ==
    CASE lock.key = None \/ m.key = lock.key -> <<>>
      [] lock.key = Off -> IF m.key = None THEN <<>> ELSE <<Key(None)>>
      [] lock.key \in Keys \ {m.key} -> IF m.key = None THEN <<Key(lock.key)>>
                                        ELSE <<Key(None), Key(lock.key)>>

LockChanges(m, lock) ==
    LET slots == SetToSeq(SlotsToSet(m, lock) \union SlotsToClear(m, lock))
    IN  <<Simple(lock.on \ m.modes, {})>>
        \o KeyChanges(m, lock)
        \o <<Simple({}, lock.off \intersect m.modes)>>
        \o [k \in DOMAIN slots |->
              Slot(slots[k], IF lock.slot[slots[k]] = Off THEN None ELSE lock.slot[slots[k]])]

\* Mutant of check_modes: keys are not looked at.
CheckNoKey(s, lock) ==
    FoldLeft(ModeChange, s, <<Simple(lock.on \ s.chan.modes, {}), Simple({}, lock.off \intersect s.chan.modes)>>)

check_modes(s, lock) == FoldLeft(ModeChange, s, LockChanges(s.chan, lock))

Locked(m, lock) ==
    /\ lock.on \subseteq m.modes /\ lock.off \intersect m.modes = {}
    /\ SlotsToSet(m, lock) = {} /\ SlotsToClear(m, lock) = {}
    /\ KeyChanges(m, lock) = <<>>

-----------------------------------------------------------------------------
(* Services *)

\* channel_mode() with a source, and modestack_mode_*() for what a command
\* has set itself.  The commands that override a lock (OperServ MODE, RECOVER,
\* CLOSE, ChanFix) are left out.
channel_mode_ours(ch) ==
    /\ chan # None
    /\ Locked(Apply(chan, ch), mlock)
    /\ Finish(ModeChange(Handler, ch))
    /\ crossed' = (crossed \/ toUs # <<>>)
    /\ Made
    /\ UNCHANGED <<mlock, bot, toUs, ircd, sound>>

\* channel_mode() without one: a change from the server.  It is checked
\* against the lock if it changed anything but a list.
channel_mode ==
    /\ toUs # <<>> /\ Head(toUs).kind # "part"
    /\ toUs' = Tail(toUs)
    /\ IF chan = None
       THEN UNCHANGED <<chan, stack, toIrcd, lost, crossed>>
       ELSE LET s == [Handler EXCEPT !.chan = Apply(@, Head(toUs))]
                t == IF [s.chan EXCEPT !.list = chan.list] # chan THEN check_modes(s, mlock) ELSE s
            IN  /\ Finish(t)
                /\ crossed' = (crossed \/ (t # s /\ toUs' # <<>>))
    /\ UNCHANGED <<mlock, bot, ircd, sound, made>>

cs_cmd_set_mlock(lock) ==
    /\ mlock' = lock
    /\ IF chan = None
       THEN UNCHANGED <<chan, stack, toIrcd, lost, crossed>>
       ELSE LET t == check_modes(Handler, lock)
            IN  /\ Finish(t)
                /\ crossed' = (crossed \/ (t # Handler /\ toUs # <<>>))
    /\ sound' = ~crossed
    /\ Made
    /\ UNCHANGED <<bot, toUs, ircd>>

\* The timer of the stack, and modestack_flush_now.
modestack_flush_callback ==
    /\ ~Empty(stack)
    /\ Finish(modestack_flush(Handler))
    /\ UNCHANGED <<mlock, bot, toUs, ircd, crossed, sound, made>>

\* Mutant of modestack_finalize_channel: the stack is dropped.
FinalizeDrops(s) == [s EXCEPT !.stack = modestack_clear(@)]

\* A channel that is going to be destroyed: changes are dropped, but for the
\* one that lets the server destroy it too.
modestack_finalize_channel(s) ==
    IF s.stack.off \intersect PermModes = {} THEN [s EXCEPT !.stack = modestack_clear(@)]
    ELSE LET t == modestack_flush([s EXCEPT !.out = Append(@, [join |-> s.chan])])
         IN  [t EXCEPT !.out = Append(@, [leave |-> TRUE])]

\* The last user leaves, and the bot after it.  An empty channel dies unless
\* it is permanent.
chanuser_delete ==
    /\ toUs # <<>> /\ Head(toUs).kind = "part"
    /\ toUs' = Tail(toUs)
    /\ LET s == [Handler EXCEPT !.out = IF bot THEN <<[leave |-> TRUE]>> ELSE <<>>]
       IN  Finish(IF chan.modes \intersect PermModes # {} THEN s
                  ELSE [modestack_finalize_channel(s) EXCEPT !.chan = None])
    /\ UNCHANGED <<mlock, bot, ircd, crossed, sound, made>>

\* BOT DEL: the bot quits, its stacked changes stay.
bs_cmd_delete ==
    /\ bot
    /\ bot' = FALSE
    /\ Finish([Handler EXCEPT !.out = <<[leave |-> TRUE]>>])
    /\ UNCHANGED <<mlock, toUs, ircd, crossed, sound, made>>

-----------------------------------------------------------------------------
(* The server (external) *)

Live(i) == [i EXCEPT !.alive = i.users \/ i.svc \/ i.m.modes \intersect PermModes # {}]

\* Users change modes.
RemoteMode(ch) ==
    /\ ircd.users
    /\ Apply(ircd.m, ch) # ircd.m
    /\ Len(toUs) < MaxQueue
    /\ ircd' = [ircd EXCEPT !.m = Apply(@, ch)]
    /\ toUs' = Append(toUs, ch)
    /\ crossed' = (crossed \/ toIrcd # <<>> \/ ~Empty(stack))
    /\ Made
    /\ UNCHANGED <<chan, mlock, stack, bot, toIrcd, lost, sound>>

\* The last user leaves.
RemotePart ==
    /\ ircd.users
    /\ Len(toUs) < MaxQueue
    /\ ircd' = Live([ircd EXCEPT !.users = FALSE])
    /\ toUs' = Append(toUs, [kind |-> "part"])
    /\ UNCHANGED <<chan, mlock, stack, bot, toIrcd, lost, crossed, sound, made>>

\* What a message from services makes of the channel i.  Modes for no channel
\* are ignored, a channel that is joined exists.
Receive(i, msg) ==
    CASE "modes" \in DOMAIN msg ->
           IF i.alive THEN Live([i EXCEPT !.m = FoldLeft(Apply, @, msg.modes)]) ELSE i
      [] "join" \in DOMAIN msg ->
           [i EXCEPT !.svc = TRUE, !.alive = TRUE,
                     !.m = IF i.alive THEN [i.m EXCEPT !.modes = @ \union msg.join.modes]
                           ELSE msg.join]
      [] "leave" \in DOMAIN msg -> Live([i EXCEPT !.svc = FALSE])

RemoteReceive ==
    /\ toIrcd # <<>>
    /\ toIrcd' = Tail(toIrcd)
    /\ ircd' = Receive(ircd, Head(toIrcd))
    /\ UNCHANGED <<chan, mlock, stack, bot, toUs, lost, crossed, sound, made>>

-----------------------------------------------------------------------------
Init ==
    /\ chan = NoModes
    /\ mlock = NoLock
    /\ stack = modestack_clear([source |-> "chanserv", on |-> {}, off |-> {},
                                slot |-> Unused, params |-> <<>>])
    /\ bot = TRUE
    /\ toIrcd = <<>> /\ toUs = <<>>
    /\ ircd = [m |-> NoModes, users |-> TRUE, svc |-> TRUE, alive |-> TRUE]
    /\ lost = FALSE /\ crossed = FALSE /\ sound = TRUE
    /\ made = 0

Next ==
    \/ \E ch \in OurChanges : channel_mode_ours(ch)
    \/ \E ch \in TheirChanges : RemoteMode(ch)
    \/ channel_mode
    \/ \E lock \in Locks : cs_cmd_set_mlock(lock)
    \/ modestack_flush_callback
    \/ chanuser_delete
    \/ bs_cmd_delete
    \/ RemotePart
    \/ RemoteReceive

Spec == Init /\ [][Next]_vars

-----------------------------------------------------------------------------
(* Properties *)

\* Everything sent has arrived, and nothing waits to be sent.
Quiet == toIrcd = <<>> /\ toUs = <<>> /\ Empty(stack)

\* What services believe of the channel is what the server will have once it
\* has all they sent and stacked, as long as no changes crossed on the way:
\* the stack reorders changes, merges opposite ones and splits lines at
\* MAXMODES without changing what they amount to (cmode.c:473, 584-674).
ModesAgree ==
    (~lost /\ ~crossed /\ chan # None /\ toUs = <<>> /\ ircd.users) =>
       FoldLeft(Apply, FoldLeft(Receive, ircd, toIrcd).m, Line(stack)) = chan

\* Whatever changes cross on the way, once all have arrived the server's
\* channel obeys the mode lock (cmode.c:358, 857), unless changes were lost
\* with the bot that was to make them, or had crossed when the lock was set:
\* services check a new lock against what they believe.
MlockHolds ==
    (Quiet /\ ~lost /\ sound /\ chan # None /\ ircd.alive) => Locked(ircd.m, mlock)

\* A channel services destroyed is gone at the server too once all has
\* arrived, also when the mode that made it permanent was still stacked to be
\* removed (cmode.c:697).  Changes that crossed are excepted: a mode that makes
\* the channel permanent may arrive after its end, when it is no channel of
\* services any more.
DestroyedChannelsDie ==
    (Quiet /\ ~lost /\ ~crossed /\ chan = None) => ~ircd.alive

\* The server follows services, in a channel's modes and in its end.
ServerFollows == ModesAgree /\ DestroyedChannelsDie

\* "return_if_fail(u != NULL)" (modules/protocol/ts6-generic.c:435): the source
\* of stacked modes exists when they are sent.  The code violates it: BOT DEL
\* does not flush what the bot was to send.
SourceExists == ~lost
=============================================================================
