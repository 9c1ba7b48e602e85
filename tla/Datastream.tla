----------------------------- MODULE Datastream -----------------------------
(***************************************************************************)
(* A connection's queues (libathemecore/datastream.c), with the line       *)
(* splitter of the uplink (packet.c) and the two ways to close a           *)
(* connection (connection.c).                                              *)
(*                                                                         *)
(* A queue is a list of struct sendq of fixed size.  Its bytes are numbers: *)
(* on the way out in the order sendq_add() is given them, on the way in the *)
(* positions of the stream the peer sends.  recvq_put() runs the handler    *)
(* until it consumes nothing; each run is a step, between which the handler *)
(* may send (parse() answers), but nothing else happens: the event loop is *)
(* inside recvq_put().                                                     *)
(***************************************************************************)
EXTENDS Integers, Sequences, SequencesExt, FiniteSetsExt

CONSTANTS
    SENDQSIZE,    \* bytes of a struct sendq
    LineMax,      \* the longest line the handler takes, BUFSIZE
    sendq_limit,  \* cptr->sendq_limit, 0 for none
    Streams,      \* what the peer may send: sequences of NL and others
    Lengths,      \* lengths of what is written to the connection
    MaxAsked,     \* bound: bytes written to a connection whose peer sends a
                  \* stream, by stream
    NL            \* a newline

ASSUME DatastreamAssumption ==
    /\ SENDQSIZE \in Nat \ {0} /\ LineMax \in Nat \ {0}
    /\ sendq_limit \in Nat /\ MaxAsked \in [Streams -> Nat]
    /\ Lengths \subseteq Nat

VARIABLES
    sendq,      \* cptr->sendq
    recvq,      \* cptr->recvq
    flags,      \* of CF_DEAD, CF_SEND_EOF, CF_SEND_DEAD, CF_NONEWLINE
    selwrite,   \* the write handler: sendq_flush or none
    state,      \* open, reading (inside recvq_put()), soon or closed
    asked,      \* history: how many bytes sendq_add() was given
    wire,       \* history: the bytes send() took
    stream,     \* what the peer sends
    got,        \* how much of it recv() has returned
    lines       \* history: the lines given to parse()

sendVars == <<sendq, selwrite, asked, wire>>
recvVars == <<recvq, stream, got, lines>>
vars == <<sendVars, recvVars, flags, state>>

\* A struct sendq: its used bytes, and firstfree.
Chunk(data, firstfree) == [data |-> data, firstfree |-> firstfree]

Contents(q) == FlattenSeq([i \in 1..Len(q) |-> q[i].data])

-----------------------------------------------------------------------------
(* Writing to and reading from a list of chunks *)

\* The bytes of b from the i-th to the j-th, or to the end.
Part(b, i, j) == SubSeq(b, i, Min({j, Len(b)}))

\* The chunks that hold the bytes b, when no chunk is there to begin with.
Chunks(b) ==
    [i \in 1..((Len(b) + SENDQSIZE - 1) \div SENDQSIZE) |->
        LET part == Part(b, (i - 1) * SENDQSIZE + 1, i * SENDQSIZE)
        IN  Chunk(part, Len(part))]

\* sendq_add() fills the last chunk and adds new ones for the rest.
Fill(q, b) ==
    IF q = <<>> THEN Chunks(b)
    ELSE LET l == SENDQSIZE - Last(q).firstfree
             part == Part(b, 1, l)
         IN  Append(Front(q), Chunk(Last(q).data \o part,
                                    Last(q).firstfree + Len(part)))
                \o Chunks(SubSeq(b, l + 1, Len(b)))

\* Mutant of Consume: the last chunk is freed although it is partly used.
ConsumeFrees(q, k) ==
    LET size == [i \in 0..Len(q) |-> Len(Contents(SubSeq(q, 1, i)))]
        full == {i \in 1..Len(q) : size[i - 1] < k}
    IN  SubSeq(q, Cardinality(full) + 1, Len(q))

\* The first k bytes are taken: chunks that are used up are freed, except
\* that one is kept, empty.
Consume(q, k) ==
    LET size == [i \in 0..Len(q) |-> Len(Contents(SubSeq(q, 1, i)))]
        gone == Cardinality({i \in 1..Len(q) : q[i].data # <<>> /\ size[i] <= k})
    IN  IF k = 0 THEN q
        ELSE IF gone = Len(q) THEN <<Chunk(<<>>, 0)>>
        ELSE LET q1 == q[gone + 1]
                 data == SubSeq(q1.data, k - size[gone] + 1, Len(q1.data))
             IN  <<Chunk(data, q1.firstfree)>> \o SubSeq(q, gone + 2, Len(q))

-----------------------------------------------------------------------------
(* Sending *)

Has(f) == f \in flags

sendq_nonempty ==
    /\ ~Has("SEND_DEAD")
    /\ Has("SEND_EOF") \/ (sendq # <<>> /\ sendq[1].data # <<>>)

Running == state \in {"open", "reading"}

\* Mutant of OverLimit: the bytes in the queue are counted, not its chunks.
OverLimitBytes(len) ==
    sendq_limit # 0 /\ Len(Contents(sendq)) + len > sendq_limit

OverLimit(len) ==
    sendq_limit # 0 /\ Len(sendq) * SENDQSIZE + len > sendq_limit

\* sendq_add() of the next len bytes; of none it does nothing.  A queue over its
\* limit kills the connection, but not at once: CF_DEAD is seen by recvq_put().
SendqAdd(len) ==
    /\ Running /\ asked + len <= MaxAsked[stream]
    /\ asked' = asked + len
    /\ \/ /\ Has("DEAD") \/ Has("SEND_EOF") \/ len = 0
          /\ UNCHANGED <<flags, sendq, selwrite>>
       \/ /\ ~Has("DEAD") /\ ~Has("SEND_EOF") /\ len # 0 /\ OverLimit(len)
          /\ flags' = flags \union {"DEAD"}
          /\ UNCHANGED <<sendq, selwrite>>
       \/ /\ ~Has("DEAD") /\ ~Has("SEND_EOF") /\ len # 0 /\ ~OverLimit(len)
          /\ selwrite' = (selwrite \/ ~sendq_nonempty)
          /\ sendq' = Fill(sendq, [i \in 1..len |-> asked + i])
          /\ UNCHANGED flags
    /\ UNCHANGED <<recvVars, state, wire>>

\* Mutant of SendqAddEof: an empty queue is not flushed for it.
SendqAddEofNoSelect ==
    /\ Running /\ ~Has("DEAD") /\ ~Has("SEND_EOF")
    /\ flags' = flags \union {"SEND_EOF"}
    /\ UNCHANGED <<sendVars, recvVars, state>>

SendqAddEof ==
    /\ Running /\ ~Has("DEAD") /\ ~Has("SEND_EOF")
    /\ selwrite' = (selwrite \/ ~sendq_nonempty)
    /\ flags' = flags \union {"SEND_EOF"}
    /\ UNCHANGED <<recvVars, state, sendq, asked, wire>>

\* The chunk boundaries, where sendq_flush() calls send() again.
Boundaries(q) == {Len(Contents(SubSeq(q, 1, i))) : i \in 0..Len(q)}

\* sendq_flush(), from the event loop or called directly: send() takes k bytes
\* in all.  It stops within a chunk, before one (EAGAIN or a write error), or
\* at the end of the queue, where a pending EOF is sent.
SendqFlush(k) ==
    LET b == Contents(sendq) IN
    /\ Running
    /\ wire' = wire \o SubSeq(b, 1, k)
    /\ sendq' = Consume(sendq, k)
    /\ \/ /\ k < Len(b)
          /\ flags' \in {flags} \union (IF k \in Boundaries(sendq)
                                        THEN {flags \union {"DEAD"}} ELSE {})
          /\ UNCHANGED selwrite
       \/ /\ k = Len(b)
          /\ flags' = flags \union (IF Has("SEND_EOF") THEN {"SEND_DEAD"} ELSE {})
          /\ selwrite' = FALSE
    /\ UNCHANGED <<recvVars, state, asked>>

-----------------------------------------------------------------------------
(* Receiving *)

\* connection_close(): from recvq_put() or, while open, from a timer.
Close ==
    /\ state = "open"
    /\ state' = "closed"
    /\ sendq' = <<>> /\ recvq' = <<>> /\ selwrite' = FALSE
    /\ UNCHANGED <<flags, asked, wire, stream, got, lines>>

\* The chunk list recv() writes to.
Room(q) ==
    IF q = <<>> \/ Last(q).firstfree = SENDQSIZE
    THEN Append(q, Chunk(<<>>, 0)) ELSE q

\* recvq_put(): recv() returns k bytes, none on EAGAIN.  When CF_DEAD or
\* CF_SEND_DEAD is set, or recv() fails, it closes the connection: Close.
RecvqPut(k) ==
    LET q == Room(recvq) IN
    /\ state = "open" /\ ~Has("DEAD") /\ ~Has("SEND_DEAD")
    /\ k <= SENDQSIZE - Last(q).firstfree /\ got + k <= Len(stream)
    /\ recvq' = Append(Front(q), Chunk(Last(q).data \o [i \in 1..k |-> got + i],
                                       Last(q).firstfree + k))
    /\ got' = got + k
    /\ state' = "reading"
    /\ UNCHANGED <<sendVars, flags, stream, lines>>

\* The chunks of q at which recvq_getline() ends its search.
Stops(q) == {i \in 1..Len(q) : \/ \E p \in Range(q[i].data) : stream[p] = NL
                               \/ Len(Contents(SubSeq(q, 1, i))) >= LineMax}

\* Where the newline is in chunk c, 0 if it has none.
Newline(c) ==
    LET at == {i \in 1..Len(c.data) : stream[c.data[i]] = NL}
    IN  IF at = {} THEN 0 ELSE Min(at)

\* What recvq_getline() does when its search ends at chunk i: how many bytes
\* it takes, and whether the line ends there.  A chunk that is used up does
\* not end the copying.
Taken(q, i) ==
    LET before == Len(Contents(SubSeq(q, 1, i - 1)))
        l == Min({Len(q[i].data), LineMax - before})
        nl == Newline(q[i])
        ends == nl # 0 /\ l >= nl
        n == IF ends THEN nl ELSE l
    IN  [ends |-> ends,
         count |-> IF n < Len(q[i].data) THEN before + n
                   ELSE Min({LineMax, Len(Contents(q))})]

\* Mutant of GetLine: the rest of a line that is too long is a line.
GetLineKeepsRest ==
    /\ state = "reading"
    /\ \/ Stops(recvq) = {} /\ state' = "open" /\ UNCHANGED <<recvq, flags, lines>>
       \/ /\ Stops(recvq) # {}
          /\ LET t == Taken(recvq, Min(Stops(recvq))) IN
             /\ recvq' = Consume(recvq, t.count)
             /\ flags' = flags
             /\ lines' = Append(lines, SubSeq(Contents(recvq), 1, t.count))
          /\ state' = IF Contents(recvq') = <<>> THEN "open" ELSE "reading"
    /\ UNCHANGED <<sendVars, stream, got>>

\* One run of irc_recvq_handler(), and recvq_put()'s test whether to go on.
GetLine ==
    /\ state = "reading"
    /\ \/ Stops(recvq) = {} /\ state' = "open" /\ UNCHANGED <<recvq, flags, lines>>
       \/ /\ Stops(recvq) # {}
          /\ LET t == Taken(recvq, Min(Stops(recvq))) IN
             /\ recvq' = Consume(recvq, t.count)
             /\ flags' = IF t.ends THEN flags \ {"NONEWLINE"}
                         ELSE flags \union {"NONEWLINE"}
             /\ lines' = IF Has("NONEWLINE") THEN lines
                         ELSE Append(lines, SubSeq(Contents(recvq), 1, t.count))
          /\ state' = IF Contents(recvq') = <<>> THEN "open" ELSE "reading"
    /\ UNCHANGED <<sendVars, stream, got>>

\* connection_close_soon(): the handlers are replaced by one that does
\* nothing, so neither recvq_put() nor sendq_flush() runs again.
CloseSoon ==
    /\ state = "open"
    /\ state' = "soon"
    /\ flags' = flags \union {"DEAD"}
    /\ selwrite' = FALSE
    /\ UNCHANGED <<recvVars, sendq, asked, wire>>

-----------------------------------------------------------------------------
(* The specification *)

Init ==
    /\ sendq = <<>> /\ recvq = <<>> /\ flags = {} /\ selwrite = FALSE
    /\ state = "open" /\ asked = 0 /\ wire = <<>>
    /\ stream \in Streams /\ got = 0 /\ lines = <<>>

Next ==
    \/ \E len \in Lengths : SendqAdd(len)
    \/ SendqAddEof
    \/ \E k \in 0..Len(Contents(sendq)) : SendqFlush(k)
    \/ \E k \in 0..SENDQSIZE : RecvqPut(k)
    \/ GetLine \/ Close \/ CloseSoon

Spec == Init /\ [][Next]_vars

\* Every round of the event loop serves the sockets that are writable as well
\* as those that are readable, so reads cannot keep sendq_flush() from being
\* called (strong fairness), and send() takes something from a writable
\* socket; recvq_put() ends.
FlushReady ==
    selwrite /\ state = "open" /\ \E k \in 0..Len(Contents(sendq)) :
        (k > 0 \/ Contents(sendq) = <<>>) /\ SendqFlush(k)

Fairness == SF_vars(FlushReady) /\ WF_vars(GetLine)

FairSpec == Spec /\ Fairness

-----------------------------------------------------------------------------
(* Properties *)

IsQueue(q) ==
    \A i \in 1..Len(q) : /\ Len(q[i].data) <= q[i].firstfree
                         /\ q[i].firstfree <= SENDQSIZE
                         /\ i < Len(q) => q[i].data # <<>>

\* Every variable keeps its type; in both queues only the last chunk may be
\* empty, where sendq_flush() and recvq_getline() end their loops.
TypeOK ==
    /\ IsQueue(sendq) /\ IsQueue(recvq)
    /\ flags \subseteq {"DEAD", "SEND_EOF", "SEND_DEAD", "NONEWLINE"}
    /\ state \in {"open", "reading", "soon", "closed"}
    /\ selwrite \in BOOLEAN

\* What the sender relies on.
Queue == INSTANCE ByteQueue WITH
    queue <- Contents(sendq),
    shut <- ~Running \/ Has("DEAD") \/ Has("SEND_EOF")

\* The send queue implements ByteQueue: bytes leave in order, and after one
\* was refused none is taken.
Implements == Queue!Spec

\* The peer sees no gap and no byte twice (datastream.c:52, 61-68).
NoGap == Queue!NoGap

\* The event loop is asked to call sendq_flush() exactly while there is
\* something to send, an EOF included: otherwise it would spin or stall
\* (datastream.c:70, 109 and 171).
WriteInterest == Running => (selwrite <=> sendq_nonempty)

\* A queue with a limit never holds a chunk more than the limit has room for
\* (datastream.c:61).
SendqBounded ==
    sendq_limit # 0 => Len(sendq) * SENDQSIZE < sendq_limit + SENDQSIZE

\* What the bytes of the stream s are split into, byte after byte: a line is
\* complete at its newline or when it has LineMax bytes, and then the rest of
\* it is skipped.
NextByte(s, a, p) ==
    LET cur == Append(a.cur, p) IN
    IF s[p] # NL /\ Len(cur) # LineMax THEN [a EXCEPT !.cur = cur]
    ELSE [cur |-> <<>>, skip |-> s[p] # NL,
          out |-> IF a.skip THEN a.out ELSE Append(a.out, cur)]

SplitState(s, n) ==
    LET after[i \in 0..n] ==
            IF i = 0 THEN [cur |-> <<>>, skip |-> FALSE, out |-> <<>>]
            ELSE NextByte(s, after[i - 1], i)
    IN  after[n]

\* The lines of the first n bytes of s.
Split(s, n) == SplitState(s, n).out

\* However the stream is cut into reads and chunks, parse() has been given
\* exactly its complete lines, in order, each once (packet.c:41-55).
SplitOK == state \in {"open", "soon", "closed"} => lines = Split(stream, got)

\* What was accepted leaves, unless the connection dies (datastream.c:70).
QueueDrains ==
    sendq_nonempty ~> (~sendq_nonempty \/ Has("DEAD") \/ ~Running)

=============================================================================
