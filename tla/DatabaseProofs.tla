--------------------------- MODULE DatabaseProofs ---------------------------
(***************************************************************************)
(* Database for any records, processes and bounds, Nicks and Hosts for any *)
(* accounts, names, clients and hosts, Settings for any names and values.  *)
(***************************************************************************)
EXTENDS Database, FiniteSetTheorems, TLAPS

USE DEF Writers

\* The processes that are made have their type.
LEMMA ProcessType ==
    ASSUME NEW s \in {"none", "start", "writing", "zombie"}, NEW x \in Seq(Rows),
           NEW n \in Nat
    PROVE  Process(s, x, n) \in Processes
  BY DEF Process, Processes

LEMMA IdleType == Idle \in Processes /\ Zombie \in Processes
  <1>1. <<>> \in Seq(Rows)
    OBVIOUS
  <1> QED BY <1>1, ProcessType DEF Idle, Zombie

\* services.db.new consists of rows and parts of rows.
LEMMA WrittenType ==
    ASSUME newfile \in Seq(Rows \union {Torn}),
           NEW s \in Seq(Rows), NEW k \in 0..Len(s), NEW torn \in BOOLEAN
    PROVE  Written(s, k, torn) \in Seq(Rows \union {Torn})
  <1> DEFINE n == IF torn /\ k < Len(s) THEN k + 1 ELSE k
             m == IF n > Len(newfile) THEN n ELSE Len(newfile)
             f(i) == IF i <= k THEN s[i]
                     ELSE IF torn /\ i = k + 1 THEN Torn ELSE newfile[i]
  <1>1. n \in Nat /\ m \in Nat
    OBVIOUS
  <1>2. ASSUME NEW i \in 1..m PROVE f(i) \in Rows \union {Torn}
    <2>1. CASE i <= k
      BY <2>1, <1>1
    <2>2. CASE i > k /\ torn /\ i = k + 1
      BY <2>2, <1>1
    <2>3. CASE i > k /\ ~(torn /\ i = k + 1)
      <3>1. i <= Len(newfile)
        BY <2>3, <1>1
      <3> QED BY <2>3, <3>1, <1>1
    <2> QED BY <2>1, <2>2, <2>3, <1>1
  <1>3. Written(s, k, torn) = [i \in 1..m |-> f(i)]
    BY DEF Written
  <1> HIDE DEF n, m, f
  <1>4. [i \in 1..m |-> f(i)] \in Seq(Rows \union {Torn})
    BY <1>1, <1>2
  <1> QED BY <1>3, <1>4

LEMMA KilledType ==
    ASSUME TypeOK PROVE Killed \in [Writers -> Processes]
  BY IdleType DEF TypeOK, Killed

LEMMA BeginType ==
    ASSUME TypeOK, NEW w \in Writers, NEW procs \in [Writers -> Processes],
           Begin(w, procs)
    PROVE  proc' \in [Writers -> Processes] /\ saves' \in Nat
  <1>1. Process("start", mem, saves + 1) \in Processes
    BY ProcessType DEF TypeOK
  <1> QED BY <1>1 DEF Begin, TypeOK

LEMMA EndType ==
    ASSUME TypeOK, NEW w \in Writers, NEW ok \in BOOLEAN, End(w, ok)
    PROVE  /\ proc' \in [Writers -> Processes]
           /\ services' \in {"down", "up", "saving", "exiting"}
           /\ saved' \in BOOLEAN
           /\ UNCHANGED <<mem, child_pid, saves, starts, unread>>
  <1>1. proc' \in [Writers -> Processes]
    BY IdleType DEF End, TypeOK
  <1>2. saved' \in BOOLEAN
    BY Zenon DEF End, TypeOK
  <1> QED BY <1>1, <1>2 DEF End, TypeOK

\* A writer that changes only one field keeps the type.
LEMMA FieldType ==
    ASSUME TypeOK, NEW w \in Writers
    PROVE  /\ \A k \in Nat : [proc EXCEPT ![w].pos = k] \in [Writers -> Processes]
           /\ [proc EXCEPT ![w].error = TRUE] \in [Writers -> Processes]
           /\ [proc EXCEPT ![w].stage = "writing", ![w].over = (newfile # <<>>)]
                \in [Writers -> Processes]
           /\ [proc[w] EXCEPT !.orphan = TRUE] \in Processes
  BY ZenonT(60) DEF TypeOK, Processes

\* No step breaks the types.
LEMMA TypeStep == TypeOK /\ [Next]_vars => TypeOK'
  <1> SUFFICES ASSUME TypeOK, [Next]_vars PROVE TypeOK'
    OBVIOUS
  <1>1. CASE Change
    <2>1. mem' \in Seq(Rows)
      <3>1. ASSUME NEW r \in Rows PROVE Append(mem, r) \in Seq(Rows)
        BY DEF TypeOK
      <3>2. ASSUME NEW i \in DOMAIN mem
            PROVE  SubSeq(mem, 1, i - 1) \o SubSeq(mem, i + 1, Len(mem)) \in Seq(Rows)
        <4>1. SubSeq(mem, 1, i - 1) \in Seq(Rows)
          BY DEF TypeOK
        <4>2. SubSeq(mem, i + 1, Len(mem)) \in Seq(Rows)
          BY DEF TypeOK
        <4> QED BY <4>1, <4>2
      <3> QED BY <1>1, <3>1, <3>2 DEF Change
    <2> QED BY <1>1, <2>1 DEF Change, TypeOK, fileVars
  <1>2. ASSUME NEW procs \in [Writers -> Processes], Fork(procs), services = "up",
               UNCHANGED <<mem, fileVars, starts, saved, unread>>
        PROVE  TypeOK'
    <2>1. CASE \E p \in Pids : Begin(p, procs) /\ child_pid' = p /\ UNCHANGED services
      <3>1. PICK p \in Pids : Begin(p, procs) /\ child_pid' = p /\ UNCHANGED services
        BY <2>1
      <3>2. proc' \in [Writers -> Processes] /\ saves' \in Nat
        BY <3>1, <1>2, BeginType
      <3> QED BY <1>2, <3>1, <3>2 DEF TypeOK, fileVars
    <2>2. CASE Begin(Self, procs) /\ services' = "saving" /\ UNCHANGED child_pid
      <3>1. proc' \in [Writers -> Processes] /\ saves' \in Nat
        BY <2>2, <1>2, BeginType
      <3> QED BY <1>2, <2>2, <3>1 DEF TypeOK, fileVars
    <2> QED BY <1>2, <2>1, <2>2 DEF Fork
  <1>3. CASE SaveRegular
    BY <1>3, <1>2 DEF SaveRegular, TypeOK
  <1>4. CASE SaveImportant
    BY <1>4, <1>2, KilledType DEF SaveImportant
  <1>5. CASE Shutdown
    <2>1. proc' \in [Writers -> Processes] /\ saves' \in Nat
      BY <1>5, KilledType, BeginType DEF Shutdown
    <2> QED BY <1>5, <2>1 DEF Shutdown, TypeOK, fileVars
  <1>6. CASE ChildprocCheck
    BY <1>6, IdleType DEF ChildprocCheck, TypeOK, fileVars
  <1>7. ASSUME NEW w \in Writers, Write(w) PROVE TypeOK'
    <2>1. CASE OpenWrite(w)
      BY <2>1, FieldType DEF OpenWrite, TypeOK, fileVars
    <2>2. CASE OpenFails(w)
      BY <2>2, EndType DEF OpenFails, TypeOK, fileVars
    <2>3. CASE WriteError(w)
      BY <2>3, FieldType DEF WriteError, TypeOK, fileVars
    <2>4. CASE CloseDb(w)
      <3>1. (~proc[w].error) \in BOOLEAN
        OBVIOUS
      <3>2. db' \in Saved /\ newfile' \in Seq(Rows \union {Torn})
        BY <2>4 DEF CloseDb, TypeOK, Saved, Processes
      <3> QED BY <2>4, <3>1, <3>2, EndType DEF CloseDb, TypeOK
    <2>5. CASE RenameFails(w)
      BY <2>5, EndType DEF RenameFails, TypeOK, fileVars
    <2>6. ASSUME NEW k \in 0..Len(proc[w].snap), NEW torn \in BOOLEAN,
                 Flush(w, k, torn)
          PROVE  TypeOK'
      <3>1. proc[w].snap \in Seq(Rows)
        BY DEF TypeOK, Processes
      <3>2. newfile' \in Seq(Rows \union {Torn})
        BY <2>6, <3>1, WrittenType DEF Flush, TypeOK
      <3>3. k \in Nat
        BY <3>1
      <3>4. proc' \in [Writers -> Processes]
        BY <2>6, <3>3, FieldType DEF Flush
      <3> QED BY <2>6, <3>2, <3>4 DEF Flush, TypeOK
    <2> QED BY <1>7, <2>1, <2>2, <2>3, <2>4, <2>5, <2>6 DEF Write
  <1>8. ASSUME NEW survive \in SUBSET Pids, Crash(survive) PROVE TypeOK'
    <2>1. proc' \in [Writers -> Processes]
      BY <1>8, IdleType, FieldType DEF Crash
    <2>2. mem' \in Seq(Rows)
      BY <1>8 DEF Crash
    <2> QED BY <1>8, <2>1, <2>2 DEF Crash, TypeOK, fileVars
  <1>9. CASE Start
    <2>1. mem' \in Seq(Rows)
      <3>1. CASE mem' = <<>>
        BY <3>1
      <3>2. CASE db # None /\ mem' \in ReadAs(db.rows)
        <4>1. Len(db.rows) \in Nat
          BY <3>2 DEF TypeOK, Saved
        <4> QED BY <4>1, <3>2 DEF ReadAs
      <3> QED BY <1>9, <3>1, <3>2 DEF Start, Load, OpenReadFails
    <2>2. unread' \in BOOLEAN
      BY <1>9 DEF Start, Load, OpenReadFails
    <2>3. proc' \in [Writers -> Processes]
      BY <1>9, IdleType DEF Start, TypeOK
    <2>4. starts' \in Nat
      BY <1>9 DEF Start, TypeOK
    <2>5. saved' \in BOOLEAN
      BY <1>9 DEF Start
    <2>6. /\ services' \in {"down", "up", "saving", "exiting"}
          /\ child_pid' \in Pids \union {None}
      BY <1>9 DEF Start
    <2>7. UNCHANGED <<newfile, db, saves>>
      BY <1>9 DEF Start, fileVars
    <2> QED BY <2>1, <2>2, <2>3, <2>4, <2>5, <2>6, <2>7 DEF TypeOK
  <1>10. CASE UNCHANGED vars
    BY <1>10 DEF vars, fileVars, TypeOK
  <1> QED BY <1>1, <1>3, <1>4, <1>5, <1>6, <1>7, <1>8, <1>9, <1>10 DEF Next

LEMMA TypeInit == Init => TypeOK
  <1> SUFFICES ASSUME Init PROVE TypeOK
    OBVIOUS
  <1>1. proc \in [Writers -> Processes]
    BY IdleType DEF Init
  <1>2. mem \in Seq(Rows) /\ newfile \in Seq(Rows \union {Torn})
    BY DEF Init
  <1> QED BY <1>1, <1>2 DEF Init, TypeOK

\* The state of the save machinery has its type.
THEOREM DatabaseTyped == Spec => []TypeOK
  BY TypeInit, TypeStep, PTL DEF Spec

-----------------------------------------------------------------------------
(* What is in the files *)

\* There is one writer, which starts at the beginning; what it has written so
\* far is at the beginning of services.db.new, which is no longer than its
\* records if it found none.
FileInv ==
    /\ \A w \in Writers :
          /\ proc[w].stage = "start" => proc[w].pos = 0
          /\ proc[w].stage = "writing" =>
                /\ \A v \in Writers : proc[v].stage = "writing" => v = w
                /\ proc[w].pos <= Len(proc[w].snap)
                /\ proc[w].pos <= Len(newfile)
                /\ \A i \in 1..proc[w].pos : newfile[i] = proc[w].snap[i]
                /\ ~proc[w].over => Len(newfile) <= Len(proc[w].snap)
    /\ Complete

\* Processes that end, or are new, and files that stay.
LEMMA FileKept ==
    ASSUME TypeOK, FileInv, UNCHANGED <<newfile, db>>,
           \A w \in Writers :
              \/ proc'[w].stage \notin {"start", "writing"}
              \/ proc'[w].stage = "start" /\ proc'[w].pos = 0
              \/ /\ proc'[w].stage = proc[w].stage /\ proc'[w].pos = proc[w].pos
                 /\ proc'[w].snap = proc[w].snap /\ proc'[w].over = proc[w].over
    PROVE  FileInv'
  BY SMTT(60) DEF FileInv, Complete, TypeOK, Processes

LEMMA FileStep == TypeOK /\ FileInv /\ [Next]_vars => FileInv'
  <1> SUFFICES ASSUME TypeOK, FileInv, [Next]_vars PROVE FileInv'
    OBVIOUS
  <1> USE DEF Idle, Zombie, Process, Processes
  <1>1. CASE Change
    BY <1>1, FileKept DEF Change, fileVars
  <1>2. ASSUME NEW procs, procs \in {proc, Killed}, NEW w \in Writers,
               Begin(w, procs), UNCHANGED fileVars
        PROVE  FileInv'
    <2>1. CASE procs = proc
      BY <1>2, <2>1, FileKept DEF Begin, fileVars, TypeOK
    <2>2. CASE procs = Killed
      BY <1>2, <2>2, FileKept DEF Begin, Killed, fileVars, TypeOK
    <2> QED BY <1>2, <2>1, <2>2
  <1>3. CASE SaveRegular
    BY <1>3, <1>2 DEF SaveRegular, Fork
  <1>4. CASE SaveImportant
    BY <1>4, <1>2 DEF SaveImportant, Fork
  <1>5. CASE Shutdown
    BY <1>5, <1>2 DEF Shutdown
  <1>6. CASE ChildprocCheck
    BY <1>6, FileKept DEF ChildprocCheck, fileVars
  <1>7. ASSUME NEW w \in Writers, Write(w) PROVE FileInv'
    <2>1. CASE OpenWrite(w)
      <3>1. /\ proc'[w].stage = "writing" /\ proc'[w].pos = 0
            /\ proc'[w].snap = proc[w].snap /\ proc'[w].over = (newfile # <<>>)
        BY <2>1 DEF OpenWrite, TypeOK, FileInv
      <3>2. \A v \in Writers \ {w} : proc'[v] = proc[v] /\ proc[v].stage # "writing"
        BY <2>1 DEF OpenWrite, TypeOK, Unlocked
      <3>3. UNCHANGED <<newfile, db>>
        BY <2>1 DEF OpenWrite, fileVars
      <3>4. ~proc'[w].over => Len(newfile) = 0
        <4>1. ~proc'[w].over => newfile = <<>>
          BY <3>1, Zenon
        <4> QED BY <4>1
      <3>5. proc[w].snap \in Seq(Rows) /\ newfile \in Seq(Rows \union {Torn})
        BY DEF TypeOK
      <3>6. Complete'
        BY <3>3 DEF FileInv, Complete
      <3>7. /\ proc'[w].pos <= Len(proc'[w].snap)
            /\ proc'[w].pos <= Len(newfile')
            /\ \A i \in 1..proc'[w].pos : newfile'[i] = proc'[w].snap[i]
            /\ ~proc'[w].over => Len(newfile') <= Len(proc'[w].snap)
        BY <3>1, <3>3, <3>4, <3>5
      <3> QED BY <3>1, <3>2, <3>6, <3>7 DEF FileInv
    <2>2. CASE OpenFails(w)
      BY <2>2, FileKept DEF OpenFails, End, fileVars, TypeOK
    <2>3. CASE WriteError(w)
      BY <2>3, FileKept DEF WriteError, fileVars, TypeOK
    <2>4. CASE CloseDb(w)
      <3>1. ASSUME NEW v \in Writers
            PROVE  /\ proc'[v].stage = "start" => proc'[v].pos = 0
                   /\ proc'[v].stage # "writing"
        BY <2>4 DEF CloseDb, Done, End, TypeOK, FileInv
      <3>2. Complete'
        <4>1. /\ db'.rows = newfile /\ db'.snap = proc[w].snap
              /\ db'.error = proc[w].error /\ db'.over = proc[w].over
          BY <2>4 DEF CloseDb
        <4>2. proc[w].stage = "writing"
          BY <2>4 DEF CloseDb, Done
        <4>3. SUFFICES ASSUME ~proc[w].error
              PROVE  /\ Len(proc[w].snap) <= Len(newfile)
                     /\ \A i \in 1..Len(proc[w].snap) : newfile[i] = proc[w].snap[i]
                     /\ ~proc[w].over => newfile = proc[w].snap
          BY <4>1 DEF Complete
        <4>4. proc[w].pos = Len(proc[w].snap)
          BY <2>4, <4>3 DEF CloseDb, Done
        <4>5. proc[w].snap \in Seq(Rows) /\ newfile \in Seq(Rows \union {Torn})
          BY DEF TypeOK
        <4>6. /\ Len(proc[w].snap) <= Len(newfile)
              /\ \A i \in 1..Len(proc[w].snap) : newfile[i] = proc[w].snap[i]
          BY <4>2, <4>4 DEF FileInv
        <4>7. ASSUME ~proc[w].over PROVE newfile = proc[w].snap
          <5>1. Len(newfile) <= Len(proc[w].snap)
            BY <4>2, <4>7 DEF FileInv
          <5>2. Len(newfile) = Len(proc[w].snap)
            BY <5>1, <4>5, <4>6
          <5> QED BY <5>2, <4>5, <4>6
        <4> QED BY <4>6, <4>7
      <3> QED BY <3>1, <3>2 DEF FileInv
    <2>5. CASE RenameFails(w)
      BY <2>5, FileKept DEF RenameFails, End, fileVars, TypeOK
    <2>6. ASSUME NEW k \in 0..Len(proc[w].snap), NEW torn \in BOOLEAN,
                 Flush(w, k, torn)
          PROVE  FileInv'
      <3>1. /\ proc'[w].stage = "writing" /\ proc'[w].pos = k
            /\ proc'[w].snap = proc[w].snap /\ proc'[w].over = proc[w].over
        BY <2>6 DEF Flush, TypeOK
      <3>2. \A v \in Writers \ {w} : proc'[v] = proc[v] /\ proc[v].stage # "writing"
        BY <2>6 DEF Flush, TypeOK, FileInv
      <3>3. proc[w].snap \in Seq(Rows) /\ newfile \in Seq(Rows \union {Torn})
        BY DEF TypeOK
      <3>4. k <= Len(newfile')
        BY <2>6, <3>3 DEF Flush, Written
      <3>5. \A i \in 1..k : newfile'[i] = proc[w].snap[i]
        BY <2>6, <3>3 DEF Flush, Written
      <3>6. ~proc[w].over => Len(newfile') <= Len(proc[w].snap)
        <4>1. ~proc[w].over => Len(newfile) <= Len(proc[w].snap)
          BY <2>6 DEF Flush, FileInv
        <4> QED BY <4>1, <2>6, <3>3 DEF Flush, Written
      <3>7. Complete'
        BY <2>6 DEF Flush, FileInv, Complete
      <3>8. /\ proc'[w].pos <= Len(proc'[w].snap) /\ proc'[w].pos <= Len(newfile')
            /\ \A i \in 1..proc'[w].pos : newfile'[i] = proc'[w].snap[i]
            /\ ~proc'[w].over => Len(newfile') <= Len(proc'[w].snap)
        BY <3>1, <3>3, <3>4, <3>5, <3>6
      <3> QED BY <3>1, <3>2, <3>7, <3>8, SMTT(60) DEF FileInv
    <2> QED BY <1>7, <2>1, <2>2, <2>3, <2>4, <2>5, <2>6 DEF Write
  <1>8. ASSUME NEW survive \in SUBSET Pids, Crash(survive) PROVE FileInv'
    BY <1>8, FileKept, ZenonT(60) DEF Crash, fileVars, TypeOK
  <1>9. CASE Start
    BY <1>9, FileKept DEF Start, fileVars
  <1>10. CASE UNCHANGED vars
    BY <1>10, FileKept DEF vars, fileVars
  <1> QED BY <1>1, <1>3, <1>4, <1>5, <1>6, <1>7, <1>8, <1>9, <1>10 DEF Next

LEMMA FileInit == Init => FileInv
  BY DEF Init, FileInv, Complete, Idle, Process

\* services.db begins with all the records of one moment, whoever writes,
\* dies and renames (opensex_db_open_write(), opensex_db_close()).
THEOREM AlwaysComplete == Spec => []Complete
  <1>1. FileInv => Complete
    BY DEF FileInv
  <1> QED BY <1>1, TypeInit, TypeStep, FileInit, FileStep, PTL DEF Spec

-----------------------------------------------------------------------------
(* Who writes, and in which order *)

\* A child that writes is the one of child_pid, and services wait for nothing
\* else; services write when they save or exit, what is in memory.  A writer
\* of the services that run has the newest save: orphans and services.db have
\* older ones.
OrderInv ==
    /\ \A w \in Writers : proc[w].stamp <= saves
    /\ db # None => db.stamp <= saves
    /\ ~proc[Self].orphan
    /\ \A p \in Pids : Running(p) /\ ~proc[p].orphan => child_pid = p /\ services = "up"
    /\ Running(Self) => services \in {"saving", "exiting"} /\ proc[Self].snap = mem
    /\ \A v, w \in Writers :
          v # w /\ Running(v) /\ Running(w) /\ ~proc[w].orphan
            => proc[v].orphan /\ proc[v].stamp < proc[w].stamp
    /\ \A w \in Writers :
          Running(w) /\ ~proc[w].orphan /\ db # None => db.stamp < proc[w].stamp
    /\ saved => services = "down"
    /\ CleanExitSaved

\* Processes may end; nothing else changes that matters.
LEMMA OrderKept ==
    ASSUME TypeOK, OrderInv, UNCHANGED <<db, saves>>,
           \A w \in Writers :
              \/ ~Running(w)' /\ proc'[w].stamp <= saves /\ ~proc'[w].orphan
              \/ /\ Running(w) /\ proc'[w].stamp = proc[w].stamp
                 /\ proc'[w].orphan = proc[w].orphan /\ proc'[w].snap = proc[w].snap
              \/ proc'[w] = proc[w],
           \A p \in Pids : Running(p)' /\ ~proc'[p].orphan
                              => child_pid' = p /\ services' = "up",
           Running(Self)' => services' \in {"saving", "exiting"} /\ mem' = mem,
           saved' => services' = "down",
           CleanExitSaved'
    PROVE  OrderInv'
  BY DEF OrderInv, TypeOK, Processes, Saved, Running

\* A new writer, when only orphans write.
LEMMA OrderBegin ==
    ASSUME TypeOK, OrderInv, NEW w \in Writers,
           NEW procs \in [Writers -> Processes], Begin(w, procs),
           \A v \in Writers : procs[v].stamp <= saves,
           ~procs[Self].orphan,
           \A v \in Writers : procs[v].stage \in {"start", "writing"}
                                => procs[v].orphan,
           UNCHANGED <<mem, db, saved>>, services = "up",
           w \in Pids => child_pid' = w /\ services' = "up",
           w = Self => services' \in {"saving", "exiting"}
    PROVE  OrderInv'
  <1> DEFINE new == Process("start", mem, saves + 1)
  <1>1. /\ proc'[w] = new
        /\ \A v \in Writers \ {w} : proc'[v] = procs[v]
        /\ saves' = saves + 1
    BY DEF Begin
  <1>2. /\ new.stage = "start" /\ new.snap = mem /\ new.stamp = saves + 1
        /\ ~new.orphan
    BY DEF Process
  <1> HIDE DEF new
  <1>3. saves \in Nat /\ \A v \in Writers : procs[v].stamp \in Nat
    BY DEF TypeOK, Processes
  <1>4. \A v \in Writers : v # w => (Running(v)' => procs[v].orphan)
    BY <1>1 DEF Running
  <1>5. \A v \in Writers : v # w /\ Running(v)' => proc'[v].orphan
    BY <1>1, <1>4
  <1>6. /\ \A v \in Writers : proc'[v].stamp <= saves'
        /\ \A v \in Writers \ {w} : proc'[v].stamp < proc'[w].stamp
    BY <1>1, <1>2, <1>3
  <1>7. db' # None => db'.stamp <= saves' /\ db'.stamp < proc'[w].stamp
    BY <1>1, <1>2, <1>3 DEF OrderInv, TypeOK, Saved
  <1>8. ~proc'[Self].orphan
    BY <1>1, <1>2
  <1>9. \A p \in Pids : Running(p)' /\ ~proc'[p].orphan
                           => child_pid' = p /\ services' = "up"
    BY <1>5
  <1>10. Running(Self)' => services' \in {"saving", "exiting"} /\ proc'[Self].snap = mem'
    BY <1>1, <1>2, <1>5, <1>8
  <1>11. ~saved'
    BY DEF OrderInv
  <1>12. \A v \in Writers : Running(v)' /\ ~proc'[v].orphan => v = w
    BY <1>5
  <1> QED BY <1>5, <1>6, <1>7, <1>8, <1>9, <1>10, <1>11, <1>12
          DEF OrderInv, CleanExitSaved

\* Only orphans write while no child is known, and after it is killed.
LEMMA OnlyOrphans ==
    ASSUME TypeOK, OrderInv, services = "up"
    PROVE  /\ child_pid = None =>
                \A v \in Writers : proc[v].stage \in {"start", "writing"}
                                     => proc[v].orphan
           /\ \A v \in Writers : Killed[v].stage \in {"start", "writing"}
                                   => Killed[v].orphan
           /\ \A v \in Writers : Killed[v].stamp <= saves
           /\ ~Killed[Self].orphan
  <1>1. saves >= 0
    BY DEF TypeOK
  <1>2. None \notin Pids /\ Self \notin Pids
    BY DatabaseAssumption
  <1> QED BY <1>1, <1>2 DEF OrderInv, Killed, Running, Zombie, Process, TypeOK

LEMMA OrderStep == TypeOK /\ OrderInv /\ [Next]_vars => OrderInv'
  <1> SUFFICES ASSUME TypeOK, OrderInv, [Next]_vars PROVE OrderInv'
    OBVIOUS
  <1>0. /\ Idle.stage = "none" /\ Idle.stamp = 0 /\ ~Idle.orphan
        /\ Zombie.stage = "zombie" /\ Zombie.stamp = 0 /\ ~Zombie.orphan
        /\ saves >= 0
    BY DEF Idle, Zombie, Process, TypeOK
  <1>1. CASE Change
    BY <1>1, OrderKept DEF Change, fileVars, OrderInv, CleanExitSaved, Running
  <1>2. ASSUME NEW procs, procs = Killed \/ (procs = proc /\ child_pid = None),
               Fork(procs), services = "up", UNCHANGED <<mem, fileVars, saved>>
        PROVE  OrderInv'
    <2>1. /\ procs \in [Writers -> Processes]
          /\ \A v \in Writers : procs[v].stamp <= saves
          /\ ~procs[Self].orphan
          /\ \A v \in Writers : procs[v].stage \in {"start", "writing"}
                                  => procs[v].orphan
      BY <1>2, KilledType, OnlyOrphans DEF TypeOK, OrderInv
    <2>2. None \notin Pids /\ Self \notin Pids
      BY DatabaseAssumption
    <2>3. CASE \E p \in Pids : Begin(p, procs) /\ child_pid' = p /\ UNCHANGED services
      BY <1>2, <2>1, <2>2, <2>3, OrderBegin DEF fileVars
    <2>4. CASE Begin(Self, procs) /\ services' = "saving"
      BY <1>2, <2>1, <2>2, <2>4, OrderBegin DEF fileVars
    <2> QED BY <1>2, <2>3, <2>4 DEF Fork
  <1>3. CASE SaveRegular
    BY <1>3, <1>2 DEF SaveRegular
  <1>4. CASE SaveImportant
    BY <1>4, <1>2 DEF SaveImportant
  <1>5. CASE Shutdown
    <2>1. Self \notin Pids
      BY DatabaseAssumption
    <2> QED BY <1>5, <2>1, KilledType, OnlyOrphans, OrderBegin DEF Shutdown, fileVars
  <1>6. CASE ChildprocCheck
    <2>1. \A p \in Pids : Running(p)' => Running(p) /\ p \notin Zombies
                                         /\ proc'[p] = proc[p]
      BY <1>6, <1>0 DEF ChildprocCheck, Running, Zombies
    <2>2. Running(Self)' => FALSE
      BY <1>6, <1>0 DEF ChildprocCheck, OrderInv, Running, Zombies
    <2> QED BY <1>6, <1>0, <2>1, <2>2, OrderKept
            DEF ChildprocCheck, fileVars, OrderInv, CleanExitSaved, Running
  <1>7. ASSUME NEW w \in Writers, Write(w) PROVE OrderInv'
    <2>1. ASSUME \A v \in Writers :
                    \/ /\ Running(v) /\ proc'[v].stage = "writing"
                       /\ proc'[v].stamp = proc[v].stamp
                       /\ proc'[v].orphan = proc[v].orphan
                       /\ proc'[v].snap = proc[v].snap
                    \/ proc'[v] = proc[v],
                 UNCHANGED <<services, mem, child_pid, db, saves, saved>>
          PROVE  OrderInv'
      <3>1. \A v \in Writers : /\ Running(v)' => Running(v)
                               /\ proc'[v].orphan = proc[v].orphan
        BY <2>1 DEF Running
      <3> QED BY <2>1, <3>1, OrderKept DEF OrderInv, CleanExitSaved
    <2>2. CASE OpenWrite(w)
      BY <2>1, <2>2 DEF OpenWrite, Running, fileVars, TypeOK, Processes
    <2>3. CASE WriteError(w)
      BY <2>1, <2>3 DEF WriteError, Running, fileVars, TypeOK, Processes
    <2>4. ASSUME NEW k \in 0..Len(proc[w].snap), NEW torn \in BOOLEAN,
                 Flush(w, k, torn)
          PROVE  OrderInv'
      BY <2>1, <2>4 DEF Flush, Running, TypeOK, Processes
    <2>5. ASSUME NEW ok \in BOOLEAN, End(w, ok), Running(w)
          PROVE  /\ ~Running(w)' /\ proc'[w].stamp = 0 /\ ~proc'[w].orphan
                 /\ \A v \in Writers \ {w} : proc'[v] = proc[v] /\ (Running(v)' = Running(v))
                 /\ w # Self => UNCHANGED <<services, saved>>
                 /\ w = Self => /\ ~saved
                                /\ services' = "down" \/ (services' = "up" /\ ~saved')
                                /\ saved' => ok
                                /\ \A p \in Pids : Running(p) => proc[p].orphan
                 /\ UNCHANGED <<mem, child_pid, saves>>
      <3>1. /\ proc'[w] \in {Idle, Zombie}
            /\ \A v \in Writers \ {w} : proc'[v] = proc[v]
            /\ UNCHANGED <<mem, child_pid, saves>>
            /\ w # Self => UNCHANGED <<services, saved>>
        BY <2>5 DEF End, TypeOK
      <3>2. ASSUME w = Self
            PROVE  /\ ~saved
                   /\ services' = "down" \/ (services' = "up" /\ ~saved')
                   /\ saved' => ok
                   /\ \A p \in Pids : Running(p) => proc[p].orphan
        <4>1. services \in {"saving", "exiting"}
          BY <2>5, <3>2 DEF OrderInv
        <4>2. ~saved
          BY <4>1 DEF OrderInv
        <4>3. \A p \in Pids : Running(p) => proc[p].orphan
          BY <4>1 DEF OrderInv
        <4>4. services = "exiting" => services' = "down" /\ saved' = ok
          BY <2>5, <3>2 DEF End
        <4>5. services = "saving" => services' = "up" /\ saved' = saved
          BY <2>5, <3>2 DEF End
        <4> QED BY <4>1, <4>2, <4>3, <4>4, <4>5
      <3>3. \A v \in Writers \ {w} : Running(v)' = Running(v)
        BY <3>1 DEF Running
      <3>4. ~Running(w)' /\ proc'[w].stamp = 0 /\ ~proc'[w].orphan
        BY <3>1, <1>0 DEF Running
      <3> QED BY <3>1, <3>2, <3>3, <3>4
    <2>6. ASSUME End(w, FALSE), Running(w), UNCHANGED fileVars PROVE OrderInv'
      <3> DEFINE no == FALSE
      <3>1. no \in BOOLEAN /\ End(w, no)
        BY <2>6
      <3>2. saved' => saved /\ w # Self
        BY <3>1, <2>5, <2>6
      <3>3. saved' => services' = "down"
        BY <3>1, <3>2, <2>5, <2>6 DEF OrderInv
      <3>4. CleanExitSaved'
        BY <3>1, <3>2, <2>5, <2>6 DEF OrderInv, CleanExitSaved, fileVars
      <3>5. \A p \in Pids : Running(p)' /\ ~proc'[p].orphan
                               => child_pid' = p /\ services' = "up"
        <4>1. \A p \in Pids : Running(p)' /\ ~proc'[p].orphan
                 => /\ Running(p) /\ ~proc[p].orphan /\ w # Self
                    /\ UNCHANGED <<child_pid, services>>
          BY <3>1, <2>5, <2>6
        <4> QED BY <4>1 DEF OrderInv
      <3>6. Running(Self)' => services' \in {"saving", "exiting"} /\ mem' = mem
        <4>1. Running(Self)' => /\ w # Self /\ Running(Self)
                                /\ UNCHANGED <<services, mem>>
          BY <3>1, <2>5, <2>6
        <4> QED BY <4>1 DEF OrderInv
      <3>7. \A v \in Writers :
              \/ ~Running(v)' /\ proc'[v].stamp <= saves /\ ~proc'[v].orphan
              \/ proc'[v] = proc[v]
        BY <3>1, <2>5, <2>6, <1>0
      <3> QED BY <2>6, <2>5, <3>1, <3>3, <3>4, <3>5, <3>6, <3>7, OrderKept DEF fileVars
    <2>7. CASE OpenFails(w)
      BY <2>6, <2>7 DEF OpenFails, Running
    <2>8. CASE RenameFails(w)
      BY <2>6, <2>8 DEF RenameFails, Done, Running
    <2>9. CASE CloseDb(w)
      <3> DEFINE ok == ~proc[w].error
      <3>1. ok \in BOOLEAN /\ End(w, ok) /\ Running(w)
        BY <2>9 DEF CloseDb, Done, Running
      <3>2. /\ db' # None => TRUE
            /\ db'.stamp = proc[w].stamp /\ db'.snap = proc[w].snap
            /\ db'.orphan = proc[w].orphan
        BY <2>9 DEF CloseDb
      <3> HIDE DEF ok
      <3>3. /\ \A v \in Writers : proc'[v].stamp <= saves'
            /\ db'.stamp <= saves'
            /\ ~proc'[Self].orphan
        BY <3>1, <3>2, <2>5, <1>0 DEF OrderInv
      <3>4. \A p \in Pids : Running(p)' /\ ~proc'[p].orphan
                               => child_pid' = p /\ services' = "up"
        BY <3>1, <2>5 DEF OrderInv
      <3>5. Running(Self)' => services' \in {"saving", "exiting"}
                              /\ proc'[Self].snap = mem'
        <4>1. Running(Self)' => /\ w # Self /\ Running(Self)
                                /\ proc'[Self] = proc[Self]
                                /\ UNCHANGED <<services, mem>>
          BY <3>1, <2>5
        <4> QED BY <4>1 DEF OrderInv
      <3>6. \A v, u \in Writers :
               v # u /\ Running(v)' /\ Running(u)' /\ ~proc'[u].orphan
                 => proc'[v].orphan /\ proc'[v].stamp < proc'[u].stamp
        BY <3>1, <2>5 DEF OrderInv
      <3>7. \A v \in Writers :
               Running(v)' /\ ~proc'[v].orphan => db'.stamp < proc'[v].stamp
        BY <3>1, <3>2, <2>5 DEF OrderInv
      <3>8. saved' => services' = "down"
        <4>1. CASE w = Self
          BY <4>1, <3>1, <2>5
        <4>2. CASE w # Self
          BY <4>2, <3>1, <2>5 DEF OrderInv
        <4> QED BY <4>1, <4>2
      <3>9. CleanExitSaved'
        <4> SUFFICES ASSUME saved'
                     PROVE  db' # None /\ (proc[w].orphan \/ proc[w].snap = mem)
          BY <3>1, <3>2, <2>5 DEF CleanExitSaved
        <4>1. db' # None
          <5>1. db' \in Saved
            BY <2>9 DEF CloseDb, TypeOK, Processes, Saved
          <5> QED BY <5>1, DatabaseAssumption
        <4>2. CASE w = Self
          BY <4>1, <4>2, <3>1 DEF OrderInv
        <4>3. CASE w # Self
          <5>1. services = "down"
            BY <4>3, <3>1, <2>5 DEF OrderInv
          <5> QED BY <4>1, <4>3, <3>1, <5>1 DEF OrderInv
        <4> QED BY <4>2, <4>3
      <3> QED BY <3>3, <3>4, <3>5, <3>6, <3>7, <3>8, <3>9 DEF OrderInv
    <2> QED BY <1>7, <2>2, <2>3, <2>4, <2>7, <2>8, <2>9 DEF Write
  <1>8. ASSUME NEW survive, survive \in {{}, {p \in Pids : Running(p)}}, Crash(survive)
        PROVE  OrderInv'
    <2>1. ~saved'
      BY <1>8 DEF Crash, OrderInv
    <2>2. \A v \in Writers : /\ Running(v)' => v \in Pids /\ proc'[v].orphan
                             /\ proc'[v].stamp <= saves
      BY <1>8, <1>0 DEF Crash, Running, OrderInv, TypeOK, Processes
    <2>3. UNCHANGED <<db, saves>>
      BY <1>8 DEF Crash, fileVars
    <2>4. ~proc'[Self].orphan /\ ~Running(Self)'
      <3>1. Self \notin survive
        BY <1>8, DatabaseAssumption
      <3> QED BY <1>8, <3>1, <1>0 DEF Crash, Running
    <2> QED BY <2>1, <2>2, <2>3, <2>4 DEF OrderInv, CleanExitSaved
  <1>9. CASE Start
    <2>1. \A v \in Writers : Running(v)' => Running(v) /\ proc'[v] = proc[v]
      BY <1>9, <1>0 DEF Start, Running
    <2>2. \A v \in Writers : Running(v) => v \in Pids /\ proc[v].orphan
      BY <1>9 DEF Start, OrderInv
    <2>3. \A v \in Writers :
             \/ ~Running(v)' /\ proc'[v].stamp <= saves /\ ~proc'[v].orphan
             \/ proc'[v] = proc[v]
      BY <1>9, <1>0 DEF Start, Running
    <2>4. ~saved' /\ UNCHANGED <<db, saves>>
      BY <1>9 DEF Start, fileVars
    <2>5. Self \notin Pids
      BY DatabaseAssumption
    <2> QED BY <2>1, <2>2, <2>3, <2>4, <2>5, OrderKept DEF CleanExitSaved
  <1>10. CASE UNCHANGED vars
    BY <1>10, OrderKept DEF vars, fileVars, OrderInv, CleanExitSaved, Running
  <1> QED BY <1>1, <1>3, <1>4, <1>5, <1>6, <1>7, <1>8, <1>9, <1>10 DEF Next

LEMMA OrderInit == Init => OrderInv
  BY DEF Init, OrderInv, CleanExitSaved, Idle, Process, Running

\* The services that run never put an older save in the place of a newer one
\* (corestorage_db_write()).
THEOREM SavesInOrder == Spec => NotBackwards
  <1>1. OrderInv /\ [Next]_vars =>
          [\A w \in Writers : CloseDb(w) /\ ~proc[w].orphan /\ db # None
                                => db.stamp < proc[w].stamp]_vars
    BY DEF OrderInv, CloseDb, Done, Running
  <1> QED BY <1>1, TypeInit, TypeStep, OrderInit, OrderStep, PTL DEF Spec, NotBackwards

\* What was in memory when services shut down is in services.db.
THEOREM ShutdownSaves == Spec => []CleanExitSaved
  <1>1. OrderInv => CleanExitSaved
    BY DEF OrderInv
  <1> QED BY <1>1, TypeInit, TypeStep, OrderInit, OrderStep, PTL DEF Spec

\* services.db is complete at any time, and the last records after a shutdown.
THEOREM FileAlwaysHolds == Spec => []FileHolds
  <1> QED BY AlwaysComplete, ShutdownSaves, PTL DEF FileHolds

-----------------------------------------------------------------------------
(* Nicks: the names of accounts, and their marks. *)

CONSTANTS Accts, Names, MaxNicks, Users, VHosts, Template, Groups, GroupTemplates, PerNick, MaxOffers

VARIABLES exist, unused, main, owner, held, mark, old, host, login, nick, req, offers

H == INSTANCE Hosts

\* An identifier is given out once, and an account that exists has a name.
Named == exist \intersect unused = {} /\ \A a \in exist : main[a] \in Names

NamesInv == H!NickTypeOK /\ H!NamesOwned /\ Named

LEMMA NickConstants == ASSUME H!NicksAssumption PROVE None \notin Accts /\ None \notin Names
  BY DEF H!NicksAssumption

LEMMA NamesInit == ASSUME H!NickInit PROVE NamesInv
  BY DEF H!NickInit, NamesInv, Named, H!NickTypeOK, H!NamesOwned

\* A free nickname becomes one of an account, with the mark it had.
LEMMA NickAdded ==
    ASSUME H!NicksAssumption, NamesInv, NEW a \in exist, NEW n \in Names, owner[n] = None,
           H!mynick_add(a, n), UNCHANGED <<exist, unused, main, held>>
    PROVE  NamesInv' /\ H!MarksStick
  <1>1. owner' = [owner EXCEPT ![n] = a]
    BY DEF H!mynick_add
  <1>2. /\ mark' = IF n \in old THEN mark \union {a} ELSE mark
        /\ old' = old \ {n}
    BY DEF H!mynick_add, H!myuser_name_restore
  <1>3. NamesInv'
    BY <1>1, <1>2, NickConstants DEF NamesInv, Named, H!NickTypeOK, H!NamesOwned
  <1>4. H!MarksStick
    BY <1>1, <1>2, NickConstants DEF NamesInv, Named, H!NickTypeOK, H!MarksStick, H!Marked
  <1> QED BY <1>3, <1>4

LEMMA Registered ==
    ASSUME H!NicksAssumption, NamesInv, NEW a \in Accts, NEW n \in Names, H!ns_cmd_register(a, n)
    PROVE  NamesInv' /\ H!MarksStick
  <1>0. /\ a \in unused /\ owner[n] = None
        /\ exist' = exist \union {a} /\ unused' = unused \ {a}
        /\ main' = [main EXCEPT ![a] = n] /\ held' = held
    BY DEF H!ns_cmd_register
  <1>1. owner' = [owner EXCEPT ![n] = a]
    BY DEF H!ns_cmd_register, H!mynick_add
  <1>2. /\ mark' = IF n \in old THEN mark \union {a} ELSE mark
        /\ old' = old \ {n}
    BY DEF H!ns_cmd_register, H!mynick_add, H!myuser_name_restore
  <1>3. NamesInv'
    <2>1. H!NickTypeOK' /\ Named'
      BY <1>0, <1>1, <1>2 DEF NamesInv, Named, H!NickTypeOK
    <2>2. H!NamesOwned'
      BY <1>0, <1>1, NickConstants DEF NamesInv, Named, H!NickTypeOK, H!NamesOwned
    <2> QED BY <2>1, <2>2 DEF NamesInv
  <1>4. H!MarksStick
    BY <1>0, <1>1, <1>2, NickConstants DEF NamesInv, Named, H!NickTypeOK, H!MarksStick, H!Marked
  <1> QED BY <1>3, <1>4

\* A nickname that is not the name of its account (any more) is freed.
LEMMA NickDeleted ==
    ASSUME H!NicksAssumption, NamesInv, NEW a \in exist, NEW n \in Names, owner[n] = a,
           H!mynick_delete(n), UNCHANGED <<exist, unused, held, mark>>,
           \/ n # main[a] /\ main' = main
           \/ \E m \in Names : owner[m] = a /\ m # n /\ main' = [main EXCEPT ![a] = m]
    PROVE  NamesInv' /\ H!MarksStick
  <1>1. owner' = [owner EXCEPT ![n] = None] /\ old' = IF a \in mark THEN old \union {n} ELSE old
    BY DEF H!mynick_delete, H!myuser_name_remember
  <1>2. NamesInv'
    <2>1. H!NickTypeOK' /\ Named'
      BY <1>1 DEF NamesInv, Named, H!NickTypeOK
    <2>2. H!NamesOwned'
      <3>1. \A b \in exist : main'[b] # n /\ owner[main'[b]] = b /\ main'[b] \in Names
        <4>1. \A b \in exist : owner[main[b]] = b /\ main[b] \in Names
          BY NickConstants DEF NamesInv, Named, H!NickTypeOK, H!NamesOwned
        <4>2. CASE n # main[a] /\ main' = main
          BY <4>1, <4>2
        <4>3. ASSUME NEW m \in Names, owner[m] = a, m # n, main' = [main EXCEPT ![a] = m]
              PROVE  \A b \in exist : main'[b] # n /\ owner[main'[b]] = b /\ main'[b] \in Names
          BY <4>1, <4>3 DEF NamesInv, Named, H!NickTypeOK
        <4> QED BY <4>2, <4>3
      <3>2. \A p \in Names : owner'[p] # None => owner'[p] \in exist
        BY <1>1 DEF NamesInv, Named, H!NickTypeOK, H!NamesOwned
      <3> QED BY <1>1, <3>1, <3>2 DEF NamesInv, Named, H!NickTypeOK, H!NamesOwned
    <2> QED BY <2>1, <2>2 DEF NamesInv
  <1>3. H!MarksStick
    BY <1>1, NickConstants DEF NamesInv, Named, H!NickTypeOK, H!MarksStick, H!Marked
  <1> QED BY <1>2, <1>3

LEMMA AccountGone ==
    ASSUME H!NicksAssumption, NamesInv, NEW a \in exist, H!myuser_delete(a)
    PROVE  NamesInv' /\ H!MarksStick
  <1>1. /\ old' = IF a \in mark THEN old \union {main[a]} ELSE old
        /\ owner' = [n \in Names |-> IF owner[n] = a THEN None ELSE owner[n]]
        /\ exist' = exist \ {a} /\ held' = held \ {a} /\ mark' = mark \ {a}
        /\ UNCHANGED <<unused, main>>
    BY DEF H!myuser_delete, H!myuser_name_remember
  <1>2. main[a] \in Names /\ owner[main[a]] = a
    BY NickConstants DEF NamesInv, Named, H!NickTypeOK, H!NamesOwned
  <1>3. NamesInv'
    <2>1. H!NickTypeOK' /\ Named'
      BY <1>1, <1>2 DEF NamesInv, Named, H!NickTypeOK
    <2>2. H!NamesOwned'
      BY <1>1, NickConstants DEF NamesInv, Named, H!NickTypeOK, H!NamesOwned
    <2> QED BY <2>1, <2>2 DEF NamesInv
  <1>4. H!MarksStick
    <2> SUFFICES ASSUME NEW n \in Names, H!Marked(n), ~H!Marked(n)'
                 PROVE  owner[n] \in exist \ exist' /\ n # main[owner[n]]
      BY DEF H!MarksStick
    <2>1. n \notin old' /\ owner'[n] \notin mark'
      BY DEF H!Marked
    <2>2. owner[n] \in mark
      BY <2>1, <1>1 DEF H!Marked
    <2>3. owner[n] = a
      BY <2>1, <2>2, <1>1
    <2> QED BY <2>1, <2>2, <2>3, <1>1
  <1> QED BY <1>3, <1>4

LEMMA NickSteps ==
    ASSUME H!NicksAssumption, NamesInv, H!NickNext PROVE NamesInv' /\ H!MarksStick
  <1> DEFINE Goal == NamesInv' /\ H!MarksStick
  <1>1. ASSUME NEW a \in Accts, NEW n \in Names, H!ns_cmd_register(a, n) PROVE Goal
    BY <1>1, Registered
  <1>2. ASSUME NEW a \in exist, NEW n \in Names,
               H!ns_cmd_group(a, n) \/ H!ns_cmd_fgroup(a, n)
        PROVE  Goal
    BY <1>2, NickAdded DEF H!ns_cmd_group, H!ns_cmd_fgroup
  <1>3. ASSUME NEW a \in exist, NEW n \in Names,
               \/ H!ns_cmd_ungroup(a, n) \/ H!expire_nick(a, n)
               \/ \E m \in Names : H!ns_cmd_fungroup(a, n, m)
        PROVE  Goal
    <2>1. /\ owner[n] = a /\ H!mynick_delete(n) /\ UNCHANGED <<exist, unused, held, mark>>
          /\ \/ n # main[a] /\ main' = main
             \/ \E m \in Names : owner[m] = a /\ m # n /\ main' = [main EXCEPT ![a] = m]
      BY <1>3 DEF H!ns_cmd_ungroup, H!expire_nick, H!ns_cmd_fungroup, H!myuser_rename
    <2> QED BY <2>1, NickDeleted
  <1>4. ASSUME NEW a \in exist, NEW n \in Names, H!ns_cmd_set_accountname(a, n) PROVE Goal
    <2>1. /\ owner[n] = a /\ main' = [main EXCEPT ![a] = n]
          /\ UNCHANGED <<exist, unused, owner, held, mark, old>>
      BY <1>4 DEF H!ns_cmd_set_accountname, H!myuser_rename
    <2>2. NamesInv'
      BY <2>1 DEF NamesInv, Named, H!NickTypeOK, H!NamesOwned
    <2>3. H!MarksStick
      BY <2>1 DEF H!MarksStick, H!Marked
    <2> QED BY <2>2, <2>3
  <1>5. ASSUME NEW a \in exist, H!ns_cmd_drop(a) \/ H!ns_cmd_fdrop(a) \/ H!expire_myuser_cb(a)
        PROVE  Goal
    BY <1>5, AccountGone DEF H!ns_cmd_drop, H!ns_cmd_fdrop, H!expire_myuser_cb
  <1>6. ASSUME NEW a \in exist, H!ns_cmd_hold(a) PROVE Goal
    <2>1. NamesInv'
      BY <1>6 DEF H!ns_cmd_hold, NamesInv, Named, H!NickTypeOK, H!NamesOwned
    <2>2. H!MarksStick
      BY <1>6 DEF H!ns_cmd_hold, H!MarksStick, H!Marked
    <2> QED BY <2>1, <2>2
  <1>7. ASSUME H!ns_cmd_mark PROVE Goal
    <2>1. NamesInv'
      BY <1>7 DEF H!ns_cmd_mark, H!MarkOn, H!MarkOff, H!MarkForgotten, NamesInv, Named,
                  H!NickTypeOK, H!NamesOwned
    <2>2. H!MarksStick
      BY <1>7 DEF H!ns_cmd_mark, H!MarksStick
    <2> QED BY <2>1, <2>2
  <1> HIDE DEF Goal
  <1>8. ASSUME \E a \in Accts, n \in Names : H!ns_cmd_register(a, n) PROVE Goal
    BY <1>8, <1>1, Zenon
  <1>9. ASSUME NEW a \in exist, NEW n \in Names,
               \/ H!ns_cmd_group(a, n) \/ H!ns_cmd_fgroup(a, n) \/ H!ns_cmd_ungroup(a, n)
               \/ \E m \in Names : H!ns_cmd_fungroup(a, n, m)
               \/ H!ns_cmd_set_accountname(a, n) \/ H!expire_nick(a, n)
        PROVE  Goal
    BY <1>9, <1>2, <1>3, <1>4
  <1>10. ASSUME NEW a \in exist,
                \/ H!ns_cmd_drop(a) \/ H!ns_cmd_fdrop(a) \/ H!expire_myuser_cb(a)
                \/ H!ns_cmd_hold(a)
         PROVE  Goal
    BY <1>10, <1>5, <1>6
  <1>11. Goal
    BY <1>7, <1>8, <1>9, <1>10, Zenon DEF H!NickNext
  <1> QED BY <1>11 DEF Goal

LEMMA NamesUnchanged == ASSUME NamesInv, UNCHANGED H!nickVars PROVE NamesInv'
  BY DEF H!nickVars, NamesInv, Named, H!NickTypeOK, H!NamesOwned

\* Hosts: requests belong to the accounts that made them.

LoginsInv == login \in [Users -> exist \union {None}] /\ nick \in [Users -> Names]

\* Who asks for a host is an account.
AskedInv ==
    /\ req \in [Names -> [host : VHosts \union {None}, by : Accts \union {None}]]
    /\ \A n \in Names : req[n].host # None => req[n].by \in Accts

HostsInv == NamesInv /\ LoginsInv /\ AskedInv /\ H!RequestsOwned

LEMMA HostsInit == ASSUME H!NicksAssumption, H!Init PROVE HostsInv
  <1>1. NamesInv
    BY NamesInit DEF H!Init
  <1>2. LoginsInv
    BY DEF H!Init, LoginsInv
  <1>3. AskedInv /\ H!RequestsOwned
    BY DEF H!Init, H!NoRequest, AskedInv, H!RequestsOwned, H!Pending
  <1> QED BY <1>1, <1>2, <1>3 DEF HostsInv

\* What is asked for under a name, with what the invariant says of it.
LEMMA AskedBy ==
    ASSUME H!NicksAssumption, HostsInv, NEW n \in Names, req[n].host # None,
           n = main[req[n].by]
    PROVE  req[n].by \in exist /\ owner[n] = req[n].by
  BY DEF HostsInv, H!RequestsOwned, H!Pending

\* Requests only go: some names have none any more.
LEMMA Withdrawn ==
    ASSUME H!NicksAssumption, HostsInv, NEW ns \in SUBSET Names,
           req' = [n \in Names |-> IF n \in ns THEN H!NoRequest ELSE req[n]]
    PROVE  AskedInv' /\ \A n \in Names : req'[n].host # None => n \notin ns /\ req'[n] = req[n]
  BY DEF HostsInv, AskedInv, H!NoRequest

\* Requests go and nothing happens to names.
LEMMA OnlyWithdrawn ==
    ASSUME H!NicksAssumption, HostsInv, NEW ns \in SUBSET Names,
           req' = [n \in Names |-> IF n \in ns THEN H!NoRequest ELSE req[n]],
           UNCHANGED H!nickVars, UNCHANGED <<login, nick>>
    PROVE  HostsInv'
  <1>1. NamesInv'
    BY NamesUnchanged DEF HostsInv
  <1>2. LoginsInv'
    BY DEF HostsInv, LoginsInv, H!nickVars
  <1>3. AskedInv' /\ \A n \in Names : req'[n].host # None => n \notin ns /\ req'[n] = req[n]
    BY Withdrawn
  <1>4. H!RequestsOwned'
    BY <1>3, AskedBy DEF H!RequestsOwned, H!Pending, H!nickVars
  <1> QED BY <1>1, <1>2, <1>3, <1>4 DEF HostsInv

\* The request is under a nickname of the account that makes it.
LEMMA Requested ==
    ASSUME H!NicksAssumption, HostsInv, NEW u \in Users, login[u] # None,
           NEW h \in VHosts, NEW override, H!hs_cmd_request(u, h, override)
    PROVE  HostsInv'
  <1> DEFINE t == H!Target(u)
  <1>1. login[u] \in exist /\ login[u] \in Accts /\ nick[u] \in Names
    BY DEF HostsInv, LoginsInv, NamesInv, H!NickTypeOK
  <1>2. t \in Names /\ owner[t] = login[u]
    BY <1>1 DEF H!Target, H!hs_cmd_request, HostsInv, NamesInv, Named, H!NamesOwned
  <1>3. /\ req' = [req EXCEPT ![t] = [host |-> h, by |-> login[u]]]
        /\ UNCHANGED H!nickVars /\ UNCHANGED <<login, nick>>
    BY DEF H!hs_cmd_request
  <1> HIDE DEF t
  <1>4. NamesInv'
    BY <1>3, NamesUnchanged DEF HostsInv
  <1>5. LoginsInv'
    BY <1>3 DEF HostsInv, LoginsInv, H!nickVars
  <1>6. AskedInv'
    BY <1>1, <1>2, <1>3 DEF HostsInv, AskedInv
  <1>7. H!RequestsOwned'
    <2> SUFFICES ASSUME NEW n \in Names, req'[n].host # None, n = main[req'[n].by]
                 PROVE  req'[n].by \in exist /\ owner[n] = req'[n].by
      BY <1>3 DEF H!RequestsOwned, H!Pending, H!nickVars
    <2>1. CASE n = t
      BY <2>1, <1>1, <1>2, <1>3 DEF HostsInv, AskedInv
    <2>2. CASE n # t
      BY <2>2, <1>3, AskedBy DEF HostsInv, AskedInv
    <2> QED BY <2>1, <2>2
  <1> QED BY <1>4, <1>5, <1>6, <1>7 DEF HostsInv

\* A name that is free becomes one of an account, or one of an account that is
\* not its name is freed: what is asked for stays as it is.
LEMMA NamesComeAndGo ==
    ASSUME H!NicksAssumption, HostsInv, UNCHANGED H!hostVars, NEW a \in Accts, NEW n \in Names,
           H!ns_cmd_register(a, n) \/
               (a \in exist /\ (H!ns_cmd_group(a, n) \/ H!ns_cmd_fgroup(a, n) \/ H!expire_nick(a, n)))
    PROVE  HostsInv'
  <1>1. NamesInv'
    BY NickSteps DEF HostsInv, H!NickNext
  <1>2. \/ /\ owner[n] = None /\ owner' = [owner EXCEPT ![n] = a]
           /\ \/ exist' = exist \union {a} /\ main' = [main EXCEPT ![a] = n]
              \/ exist' = exist /\ main' = main
        \/ owner[n] = a /\ n # main[a] /\ owner' = [owner EXCEPT ![n] = None] /\ exist' = exist /\ main' = main
    BY DEF H!ns_cmd_register, H!ns_cmd_group, H!ns_cmd_fgroup, H!expire_nick, H!mynick_add,
           H!mynick_delete
  <1>3. LoginsInv' /\ AskedInv'
    BY <1>2 DEF HostsInv, LoginsInv, AskedInv, H!hostVars
  <1>4. H!RequestsOwned'
    <2> SUFFICES ASSUME NEW p \in Names, req[p].host # None, p = main'[req[p].by]
                 PROVE  req[p].by \in exist' /\ owner'[p] = req[p].by
      BY DEF H!RequestsOwned, H!Pending, H!hostVars
    <2>1. req[p].by \in Accts /\ exist \subseteq Accts
      BY DEF HostsInv, AskedInv, NamesInv, H!NickTypeOK
    <2>2. p = main[req[p].by] => req[p].by \in exist /\ owner[p] = req[p].by
      BY AskedBy
    <2>3. owner \in [Names -> Accts \union {None}] /\ main \in [Accts -> Names \union {None}]
      BY DEF HostsInv, NamesInv, H!NickTypeOK
    <2> QED BY <2>1, <2>2, <2>3, <1>2, NickConstants
  <1> QED BY <1>1, <1>3, <1>4 DEF HostsInv

\* A nickname is taken from an account, and the request under it with it.
LEMMA Ungrouped ==
    ASSUME H!NicksAssumption, HostsInv, NEW a \in exist, NEW n \in Names,
           H!ns_cmd_ungroup(a, n) \/ \E m \in Names : H!ns_cmd_fungroup(a, n, m),
           H!nick_drop_request(n), UNCHANGED <<login, nick>>
    PROVE  HostsInv'
  <1>1. NamesInv'
    BY NickSteps DEF HostsInv, H!NickNext
  <1>2. /\ owner[n] = a /\ owner' = [owner EXCEPT ![n] = None] /\ exist' = exist
        /\ \/ main' = main
           \/ \E m \in Names : owner[m] = a /\ m # n /\ main' = [main EXCEPT ![a] = m]
    BY DEF H!ns_cmd_ungroup, H!ns_cmd_fungroup, H!mynick_delete, H!myuser_rename
  <1>3. LoginsInv'
    BY <1>2 DEF HostsInv, LoginsInv
  <1>4. req' = [p \in Names |-> IF p \in {n} THEN H!NoRequest ELSE req[p]]
    BY DEF H!nick_drop_request, HostsInv, AskedInv
  <1>5. AskedInv' /\ \A p \in Names : req'[p].host # None => p # n /\ req'[p] = req[p]
    BY <1>4, Withdrawn
  <1>6. H!RequestsOwned'
    <2> SUFFICES ASSUME NEW p \in Names, req'[p].host # None, p = main'[req'[p].by]
                 PROVE  req'[p].by \in exist' /\ owner'[p] = req'[p].by
      BY DEF H!RequestsOwned, H!Pending
    <2>1. req[p].by \in Accts /\ exist \subseteq Accts /\ p # n /\ req'[p] = req[p]
      BY <1>5 DEF HostsInv, AskedInv, NamesInv, H!NickTypeOK
    <2>2. p = main[req[p].by] => req[p].by \in exist /\ owner[p] = req[p].by
      BY <2>1, <1>5, AskedBy
    <2>3. owner \in [Names -> Accts \union {None}] /\ main \in [Accts -> Names \union {None}]
      BY DEF HostsInv, NamesInv, H!NickTypeOK
    <2> QED BY <2>1, <2>2, <2>3, <1>2
  <1> QED BY <1>1, <1>3, <1>5, <1>6 DEF HostsInv

\* An account goes, its clients are logged out, and the request under its name
\* goes too.
LEMMA AccountForgotten ==
    ASSUME H!NicksAssumption, HostsInv, NEW a \in exist,
           H!ns_cmd_drop(a) \/ H!ns_cmd_fdrop(a) \/ H!expire_myuser_cb(a),
           H!account_delete_request(a), H!Forget(a), nick' = nick
    PROVE  HostsInv'
  <1>1. NamesInv'
    BY NickSteps DEF HostsInv, H!NickNext
  <1>2. /\ owner' = [n \in Names |-> IF owner[n] = a THEN None ELSE owner[n]]
        /\ exist' = exist \ {a} /\ main' = main
    BY DEF H!ns_cmd_drop, H!ns_cmd_fdrop, H!expire_myuser_cb, H!myuser_delete
  <1>3. LoginsInv'
    BY <1>2 DEF HostsInv, LoginsInv, H!Forget
  <1>4. req' = [p \in Names |-> IF p \in {main[a]} THEN H!NoRequest ELSE req[p]]
    BY DEF H!account_delete_request, HostsInv, AskedInv
  <1>5. main[a] \in Names
    BY DEF HostsInv, NamesInv, Named
  <1>6. AskedInv' /\ \A p \in Names : req'[p].host # None => p # main[a] /\ req'[p] = req[p]
    BY <1>4, <1>5, Withdrawn
  <1>7. H!RequestsOwned'
    <2> SUFFICES ASSUME NEW p \in Names, req'[p].host # None, p = main'[req'[p].by]
                 PROVE  req'[p].by \in exist' /\ owner'[p] = req'[p].by
      BY DEF H!RequestsOwned, H!Pending
    <2>1. p # main[a] /\ req'[p] = req[p] /\ req[p].host # None
      BY <1>6
    <2>2. p = main[req[p].by] => req[p].by \in exist /\ owner[p] = req[p].by
      BY <2>1, AskedBy
    <2> QED BY <2>1, <2>2, <1>2
  <1> QED BY <1>1, <1>3, <1>6, <1>7 DEF HostsInv

\* SET ACCOUNTNAME: the other name is the account's too.
LEMMA Renamed ==
    ASSUME H!NicksAssumption, HostsInv, NEW a \in exist, NEW n \in Names,
           H!ns_cmd_set_accountname(a, n), UNCHANGED <<login, nick, req>>
    PROVE  HostsInv'
  <1>1. NamesInv'
    BY NickSteps DEF HostsInv, H!NickNext
  <1>2. owner[n] = a /\ main' = [main EXCEPT ![a] = n] /\ UNCHANGED <<exist, owner>>
    BY DEF H!ns_cmd_set_accountname, H!myuser_rename
  <1>3. LoginsInv' /\ AskedInv'
    BY <1>2 DEF HostsInv, LoginsInv, AskedInv
  <1>4. H!RequestsOwned'
    <2> SUFFICES ASSUME NEW p \in Names, req[p].host # None, p = main'[req[p].by]
                 PROVE  req[p].by \in exist /\ owner[p] = req[p].by
      BY <1>2 DEF H!RequestsOwned, H!Pending
    <2>1. req[p].by \in Accts /\ main \in [Accts -> Names \union {None}]
      BY DEF HostsInv, AskedInv, NamesInv, H!NickTypeOK
    <2>2. p = main[req[p].by] => req[p].by \in exist /\ owner[p] = req[p].by
      BY AskedBy
    <2> QED BY <2>1, <2>2, <1>2
  <1> QED BY <1>1, <1>3, <1>4 DEF HostsInv

\* Names and requests stay, while clients come, go and change nickname.
LEMMA ClientsMove ==
    ASSUME H!NicksAssumption, HostsInv, UNCHANGED H!nickVars, req' = req,
           login' \in [Users -> exist \union {None}], nick' \in [Users -> Names]
    PROVE  HostsInv'
  <1>1. NamesInv'
    BY NamesUnchanged DEF HostsInv
  <1>2. LoginsInv'
    BY DEF LoginsInv, H!nickVars
  <1>3. AskedInv' /\ H!RequestsOwned'
    BY DEF HostsInv, AskedInv, H!RequestsOwned, H!Pending, H!nickVars
  <1> QED BY <1>1, <1>2, <1>3 DEF HostsInv

LEMMA HostsStay ==
    ASSUME H!NicksAssumption, HostsInv, UNCHANGED H!nickVars, UNCHANGED <<req, login, nick>>
    PROVE  HostsInv'
  BY ClientsMove DEF HostsInv, LoginsInv

\* The commands of operators and users, but for NickServ's.
LEMMA HostservSteps ==
    ASSUME H!NicksAssumption, HostsInv, NEW override,
           \/ \E n \in Names : H!Vhost(n, override) \/ H!hs_cmd_activate(n, override)
           \/ H!ActivateAll(override)
           \/ \E u \in {v \in Users : login[v] # None} :
                \/ \E h \in VHosts : H!hs_cmd_request(u, h, override)
                \/ \E gs \in SUBSET Groups : H!hs_cmd_take(u, gs, override)
    PROVE  HostsInv'
  <1>1. ASSUME NEW n \in Names, H!Vhost(n, override) PROVE HostsInv'
    BY <1>1, HostsStay DEF H!Vhost, H!Others
  <1>2. ASSUME NEW n \in Names, H!hs_cmd_activate(n, override) PROVE HostsInv'
    <2>1. req' = [p \in Names |-> IF p \in {n} THEN H!NoRequest ELSE req[p]]
      BY <1>2 DEF H!hs_cmd_activate, HostsInv, AskedInv
    <2>2. UNCHANGED H!nickVars /\ UNCHANGED <<login, nick>>
      BY <1>2 DEF H!hs_cmd_activate
    <2> QED BY <2>1, <2>2, OnlyWithdrawn
  <1>3. CASE H!ActivateAll(override)
    <2>1. req' = [p \in Names |-> IF p \in Names THEN H!NoRequest ELSE req[p]]
      BY <1>3 DEF H!ActivateAll
    <2>2. UNCHANGED H!nickVars /\ UNCHANGED <<login, nick>>
      BY <1>3 DEF H!ActivateAll
    <2> QED BY <2>1, <2>2, OnlyWithdrawn
  <1>4. ASSUME NEW u \in Users, NEW gs, H!hs_cmd_take(u, gs, override) PROVE HostsInv'
    BY <1>4, HostsStay DEF H!hs_cmd_take, H!Others
  <1> QED BY <1>1, <1>2, <1>3, <1>4, Requested

LEMMA NickservSteps == ASSUME H!NicksAssumption, HostsInv, H!Nickserv PROVE HostsInv'
  <1>1. exist \subseteq Accts
    BY DEF HostsInv, NamesInv, H!NickTypeOK
  <1>2. ASSUME NEW a \in Accts, NEW n \in Names, UNCHANGED H!hostVars,
               H!ns_cmd_register(a, n) \/
                   (a \in exist /\ (H!ns_cmd_group(a, n) \/ H!ns_cmd_fgroup(a, n) \/ H!expire_nick(a, n)))
        PROVE  HostsInv'
    BY <1>2, NamesComeAndGo
  <1>3. ASSUME NEW a \in exist, NEW n \in Names,
               H!ns_cmd_ungroup(a, n) \/ \E m \in Names : H!ns_cmd_fungroup(a, n, m),
               H!nick_drop_request(n), UNCHANGED <<host, login, nick, offers>>
        PROVE  HostsInv'
    BY <1>3, Ungrouped
  <1>4. ASSUME NEW a \in exist,
               H!ns_cmd_drop(a) \/ H!ns_cmd_fdrop(a) \/ H!expire_myuser_cb(a),
               H!account_delete_request(a), H!Forget(a), UNCHANGED <<nick, offers>>
        PROVE  HostsInv'
    BY <1>4, AccountForgotten
  <1>5. ASSUME NEW a \in exist, NEW n \in Names,
               H!ns_cmd_set_accountname(a, n), UNCHANGED <<login, nick, req, offers>>
        PROVE  HostsInv'
    BY <1>5, Renamed
  <1> QED BY <1>2, <1>3, <1>4, <1>5 DEF H!Nickserv

LEMMA HostsStep == ASSUME H!NicksAssumption, HostsInv, [H!Next]_(H!vars) PROVE HostsInv'
  <1>1. login \in [Users -> exist \union {None}] /\ nick \in [Users -> Names]
    BY DEF HostsInv, LoginsInv
  <1>2. CASE UNCHANGED H!vars
    BY <1>2, HostsStay DEF H!vars, H!hostVars
  <1>3. CASE H!Nickserv
    BY <1>3, NickservSteps
  <1>4. ASSUME NEW override \in BOOLEAN,
               \/ \E n \in Names : H!Vhost(n, override) \/ H!hs_cmd_activate(n, override)
               \/ H!ActivateAll(override)
               \/ \E u \in {v \in Users : login[v] # None} :
                    \/ \E h \in VHosts : H!hs_cmd_request(u, h, override)
                    \/ \E gs \in SUBSET Groups : H!hs_cmd_take(u, gs, override)
        PROVE  HostsInv'
    BY <1>4, HostservSteps
  <1>5. ASSUME NEW a \in exist,
               H!PeriodOver(a) \/ \E h \in VHosts \union {None} : H!ns_cmd_vhost(a, h)
        PROVE  HostsInv'
    BY <1>5, HostsStay DEF H!PeriodOver, H!ns_cmd_vhost, H!Others
  <1>6. ASSUME NEW ns \in SUBSET Names, H!hs_cmd_reject(ns) PROVE HostsInv'
    BY <1>6, OnlyWithdrawn DEF H!hs_cmd_reject
  <1>7. ASSUME NEW t, H!hs_cmd_unoffer(t) \/ \E g \in Groups \union {None} : H!hs_cmd_offer(t, g)
        PROVE  HostsInv'
    BY <1>7, HostsStay DEF H!hs_cmd_unoffer, H!hs_cmd_offer
  <1>8. ASSUME NEW g, H!remove_group_offered_hosts(g) PROVE HostsInv'
    BY <1>8, HostsStay DEF H!remove_group_offered_hosts
  <1>9. ASSUME NEW u \in Users, login[u] # None /\ (H!OnOffGroup(u) \/ H!hs_cmd_drop(u))
        PROVE  HostsInv'
    BY <1>9, HostsStay DEF H!OnOffGroup, H!hs_cmd_drop, H!Others
  <1>10. ASSUME NEW u \in Users, H!Logout(u) PROVE HostsInv'
    <2>1. login' \in [Users -> exist \union {None}]
      BY <1>10, <1>1 DEF H!Logout
    <2> QED BY <2>1, <1>1, <1>10, ClientsMove DEF H!Logout
  <1>11. ASSUME NEW u \in Users, NEW a \in exist, H!on_user_identify(u, a) PROVE HostsInv'
    <2>1. login' \in [Users -> exist \union {None}]
      BY <1>11, <1>1 DEF H!on_user_identify
    <2> QED BY <2>1, <1>1, <1>11, ClientsMove DEF H!on_user_identify
  <1>12. ASSUME NEW u \in Users, NEW n \in Names, H!NickChange(u, n) PROVE HostsInv'
    <2>1. nick' \in [Users -> Names]
      BY <1>12, <1>1 DEF H!NickChange
    <2> QED BY <2>1, <1>1, <1>12, ClientsMove DEF H!NickChange
  <1> QED
    BY <1>2, <1>3, <1>4, <1>5, <1>6, <1>7, <1>8, <1>9, <1>10, <1>11, <1>12 DEF H!Next

\* Every nickname belongs to an account there is, and the name of an account is
\* one of its own, however accounts and nicknames are registered, grouped, given
\* up, dropped, expired and renamed.
THEOREM NamesAlwaysOwned == ASSUME H!NicksAssumption PROVE H!NickSpec => []H!NamesOwned
  <1>1. H!NickInit => NamesInv
    BY NamesInit
  <1>2. NamesInv /\ [H!NickNext]_(H!nickVars) => NamesInv'
    BY NickSteps, NamesUnchanged
  <1>3. NamesInv => H!NamesOwned
    BY DEF NamesInv
  <1> QED BY <1>1, <1>2, <1>3, PTL DEF H!NickSpec

\* A mark stays with its name while its account is dropped, the name is given up,
\* renamed or registered again, until MARK OFF; only the nicknames grouped to an
\* account that is deleted lose it (account.c:297).
THEOREM MarksAlwaysStick ==
    ASSUME H!NicksAssumption PROVE H!NickSpec => [][H!MarksStick]_(H!nickVars)
  <1>1. H!NickInit => NamesInv
    BY NamesInit
  <1>2. NamesInv /\ [H!NickNext]_(H!nickVars) => NamesInv' /\ [H!MarksStick]_(H!nickVars)
    BY NickSteps, NamesUnchanged
  <1> QED BY <1>1, <1>2, PTL DEF H!NickSpec

\* A host asked for under the name of an account can only be given to it.
THEOREM RequestsAlwaysOwned ==
    ASSUME H!NicksAssumption PROVE H!Spec => [](H!NamesOwned /\ H!RequestsOwned)
  <1>1. H!Init => HostsInv
    BY HostsInit
  <1>2. HostsInv /\ [H!Next]_(H!vars) => HostsInv'
    BY HostsStep
  <1>3. HostsInv => H!NamesOwned /\ H!RequestsOwned
    BY DEF HostsInv, NamesInv
  <1> QED BY <1>1, <1>2, <1>3, PTL DEF H!Spec

-----------------------------------------------------------------------------
(* Settings: what is set, what is written, and what is read back. *)

CONSTANTS Values, Props, Languages, Defaults, MTA, MdLimit, MaxCommands

VARIABLES cf, cmd, locked, uf, umd, lang, online, disk, ssaved, ncmd

S == INSTANCE Settings WITH saved <- ssaved, n <- ncmd

\* The letters of channels are all different.
LEMMA ChanLetter ==
    ASSUME NEW i \in DOMAIN S!mc_flags
    PROVE  S!gflag_fromchar(S!mc_flags, S!mc_flags[i][1]) = S!mc_flags[i][2]
  <1> DEFINE t == S!mc_flags
  <1>1. DOMAIN t = 1..14 /\ \A j \in DOMAIN t : t[j][1] = t[i][1] => j = i
    BY DEF S!mc_flags
  <1> HIDE DEF t
  <1>2. /\ i \in DOMAIN t
        /\ t[i][1] = t[i][1] /\ \A j \in 1..i - 1 : t[j][1] # t[i][1]
    BY <1>1 DEF t
  <1>3. \A k \in DOMAIN t :
            t[k][1] = t[i][1] /\ (\A j \in 1..k - 1 : t[j][1] # t[i][1]) => k = i
    BY <1>1
  <1>4. S!gflag_fromchar(t, t[i][1]) = t[i][2]
    BY <1>2, <1>3 DEF S!gflag_fromchar
  <1> QED BY <1>4 DEF t

\* So are those of accounts, but for the one that stands for EMAILMEMOS.
LEMMA UserLetter ==
    ASSUME NEW i \in DOMAIN S!mu_flags
    PROVE  S!gflag_fromchar(S!mu_flags, S!mu_flags[i][1]) =
               IF S!mu_flags[i][1] = "e" THEN "EMAILMEMOS" ELSE S!mu_flags[i][2]
  <1> DEFINE t == S!mu_flags
             first == IF t[i][1] = "e" THEN 7 ELSE i
  <1>1. /\ DOMAIN t = 1..21 /\ t[7] = <<"e", "EMAILMEMOS">>
        /\ \A j \in DOMAIN t : t[j][1] = t[i][1] => j = i \/ (t[i][1] = "e" /\ j \in {7, 20})
        /\ \A j \in 1..6 : t[j][1] # "e"
    BY DEF S!mu_flags
  <1> HIDE DEF t
  <1>2. /\ first \in DOMAIN t
        /\ t[first][1] = t[i][1] /\ \A j \in 1..first - 1 : t[j][1] # t[i][1]
    BY <1>1 DEF t
  <1>3. \A k \in DOMAIN t :
            t[k][1] = t[i][1] /\ (\A j \in 1..k - 1 : t[j][1] # t[i][1]) => k = first
    BY <1>1 DEF t
  <1> HIDE DEF first
  <1>4. S!gflag_fromchar(t, t[i][1]) = t[first][2]
    BY <1>2, <1>3 DEF S!gflag_fromchar
  <1>5. t[first][2] = IF t[i][1] = "e" THEN "EMAILMEMOS" ELSE t[i][2]
    BY <1>1 DEF first
  <1> QED BY <1>4, <1>5 DEF t

\* The flags of a channel are read back as they were written.
LEMMA ChanFlagsBack ==
    ASSUME NEW fs \in SUBSET S!FlagsIn(S!mc_flags)
    PROVE  S!gflags_fromstr(S!mc_flags, S!gflags_tostr(S!mc_flags, fs)) = fs
  <1> DEFINE t == S!mc_flags
  <1>1. S!gflags_tostr(t, fs) = {t[i][1] : i \in {j \in DOMAIN t : t[j][2] \in fs}}
    BY DEF S!gflags_tostr
  <1>2. fs = {t[i][2] : i \in {j \in DOMAIN t : t[j][2] \in fs}}
    BY DEF S!FlagsIn
  <1> HIDE DEF t
  <1>3. \A i \in DOMAIN t : S!gflag_fromchar(t, t[i][1]) = t[i][2]
    BY ChanLetter DEF t
  <1>4. S!gflags_fromstr(t, S!gflags_tostr(t, fs)) = fs
    BY <1>1, <1>2, <1>3 DEF S!gflags_fromstr
  <1> QED BY <1>4 DEF t

\* Those of an account are, but for the two that share a letter and the one
\* that has none.
LEMMA UserFlagsBack ==
    ASSUME NEW fs \in SUBSET (S!FlagsIn(S!mu_flags) \union {"NOTIFYMEMO"}),
           NEW back, back = S!gflags_fromstr(S!mu_flags, S!gflags_tostr(S!mu_flags, fs))
    PROVE  back \ S!Unsaved = fs \ S!Unsaved /\ back \subseteq S!FlagsIn(S!mu_flags)
  <1> DEFINE t == S!mu_flags
             F(l) == S!gflag_fromchar(t, l)
  <1>1. \A i \in DOMAIN t : F(t[i][1]) = IF t[i][1] = "e" THEN "EMAILMEMOS" ELSE t[i][2]
    BY UserLetter
  <1>2. S!FlagsIn(t) = {t[i][2] : i \in DOMAIN t}
    BY DEF S!FlagsIn
  <1>3. \A i \in DOMAIN t : t[i][1] = "e" => t[i][2] \in S!Unsaved
    BY DEF S!mu_flags, S!Unsaved
  <1>4. "EMAILMEMOS" \in S!Unsaved /\ "NOTIFYMEMO" \in S!Unsaved
    BY DEF S!Unsaved
  <1>5. "EMAILMEMOS" \in S!FlagsIn(t)
    <2>1. 7 \in DOMAIN t /\ t[7][2] = "EMAILMEMOS"
      BY DEF S!mu_flags
    <2> QED BY <2>1, <1>2
  <1>6. back = {F(l) : l \in {t[i][1] : i \in {j \in DOMAIN t : t[j][2] \in fs}}}
    BY DEF S!gflags_fromstr, S!gflags_tostr
  <1> HIDE DEF t, F
  <1>7. ASSUME NEW f \in back
        PROVE  f \in S!FlagsIn(t) /\ (f \in fs \/ f \in S!Unsaved)
    <2>1. PICK i \in DOMAIN t : t[i][2] \in fs /\ f = F(t[i][1])
      BY <1>6
    <2> QED BY <2>1, <1>1, <1>2, <1>4, <1>5
  <1>8. ASSUME NEW f \in fs, f \notin S!Unsaved PROVE f \in back
    <2>1. PICK i \in DOMAIN t : t[i][2] = f
      BY <1>8, <1>2, <1>4 DEF t
    <2>2. F(t[i][1]) = f
      BY <2>1, <1>1, <1>3, <1>8
    <2> QED BY <2>1, <2>2, <1>6
  <1> QED BY <1>7, <1>8 DEF t
\* Metadata is a function of finitely many names.
IsData(f) == f = [k \in DOMAIN f |-> f[k]] /\ IsFiniteSet(DOMAIN f)

Fits(f, P) == Cardinality(DOMAIN f \intersect P) <= MdLimit

\* What SET PROPERTY limits, of a channel and of an account.
OfChan == Props \ (S!ChanOwn \union S!Private)
OfUser == Props \ S!Private

LEMMA Deleted ==
    ASSUME S!SettingsAssumption, NEW f, IsData(f), NEW P, Fits(f, P), NEW k,
           NEW g, g = S!metadata_delete(f, k)
    PROVE  IsData(g) /\ Fits(g, P)
  <1>1. g = [x \in DOMAIN f \ {k} |-> f[x]]
    BY DEF S!metadata_delete
  <1>2. DOMAIN g \subseteq DOMAIN f
    BY <1>1
  <1>3. IsFiniteSet(DOMAIN g) /\ IsFiniteSet(DOMAIN f \intersect P)
    BY <1>2, FS_Subset DEF IsData
  <1>4. /\ Cardinality(DOMAIN g \intersect P) <= Cardinality(DOMAIN f \intersect P)
        /\ Cardinality(DOMAIN g \intersect P) \in Nat /\ Cardinality(DOMAIN f \intersect P) \in Nat
    <2>1. DOMAIN g \intersect P \subseteq DOMAIN f \intersect P
      BY <1>2
    <2> QED BY <2>1, <1>3, FS_Subset, FS_CardinalityType
  <1>5. IsData(g)
    BY <1>1, <1>3 DEF IsData
  <1> QED BY <1>4, <1>5 DEF Fits, S!SettingsAssumption

\* What is added is not limited, or there is room.
LEMMA Added ==
    ASSUME S!SettingsAssumption, NEW f, IsData(f), NEW P, Fits(f, P), NEW k, NEW v,
           P \intersect S!Private = {}, k \notin P \/ S!Count(f) < MdLimit,
           NEW g, g = S!metadata_add(f, k, v)
    PROVE  IsData(g) /\ Fits(g, P)
  <1>1. g = [x \in DOMAIN f \union {k} |-> IF x = k THEN v ELSE f[x]]
    BY DEF S!metadata_add
  <1>2. IsData(g)
    BY <1>1, FS_AddElement DEF IsData
  <1>3. IsFiniteSet(DOMAIN f) /\ DOMAIN g = DOMAIN f \union {k}
    BY <1>1 DEF IsData
  <1>4. CASE k \notin P
    <2>1. DOMAIN g \intersect P = DOMAIN f \intersect P
      BY <1>3, <1>4
    <2> QED BY <1>2, <2>1 DEF Fits
  <1>5. CASE S!Count(f) < MdLimit
    <2> DEFINE A == DOMAIN f \intersect P
               B == DOMAIN f \ S!Private
               D == DOMAIN g \intersect P
    <2>1. A \subseteq B /\ B \subseteq DOMAIN f /\ D \subseteq A \union {k}
      BY <1>3
    <2>2. IsFiniteSet(A) /\ IsFiniteSet(B)
      BY <1>3, <2>1, FS_Subset
    <2>3. Cardinality(B) < MdLimit
      <3>1. S!Cardinality(B) = Cardinality(B)
        BY DEF Cardinality, S!Cardinality
      <3> QED BY <3>1, <1>5 DEF S!Count
    <2>4. Cardinality(A) <= Cardinality(B) /\ Cardinality(A) \in Nat /\ Cardinality(B) \in Nat
      BY <2>1, <2>2, FS_Subset, FS_CardinalityType
    <2> HIDE DEF A, B, D
    <2>5. /\ IsFiniteSet(A \union {k}) /\ Cardinality(A \union {k}) \in Nat
          /\ Cardinality(A \union {k}) <= Cardinality(A) + 1
      BY <2>2, <2>4, FS_AddElement, FS_CardinalityType
    <2>6. Cardinality(D) <= Cardinality(A \union {k}) /\ Cardinality(D) \in Nat
      BY <2>1, <2>5, FS_Subset, FS_CardinalityType
    <2>7. Cardinality(D) <= MdLimit
      BY <2>3, <2>4, <2>5, <2>6 DEF S!SettingsAssumption
    <2> QED BY <1>2, <2>7 DEF Fits, D
  <1> QED BY <1>4, <1>5

ChanSound(fs, data) ==
    /\ fs \subseteq S!FlagsIn(S!mc_flags)
    /\ "TOPICLOCK" \in fs => "KEEPTOPIC" \in fs
    /\ ~({"VERBOSE", "VERBOSE_OPS"} \subseteq fs)
    /\ IsData(data) /\ Fits(data, OfChan)

UserSound(fs, data) ==
    /\ fs \subseteq S!FlagsIn(S!mu_flags) \union {"NOTIFYMEMO"} /\ "ENFORCE" \notin fs
    /\ IsData(data) /\ Fits(data, OfUser)

\* What is on disk is what was saved, as it is written.
DiskInv ==
    disk = None \/
        /\ ChanSound(ssaved.cf, ssaved.cmd) /\ UserSound(ssaved.uf, ssaved.umd)
        /\ disk.u.uf = S!gflags_tostr(S!mu_flags,
               IF ssaved.online THEN ssaved.uf \ {"NOBURSTLOGIN"} ELSE ssaved.uf)
        /\ disk.u.umd = ssaved.umd /\ disk.u.lang = ssaved.lang
        /\ disk.c.cf = S!gflags_tostr(S!mc_flags, ssaved.cf) /\ disk.c.cmd = ssaved.cmd

SettingsInv == ChanSound(cf, cmd) /\ UserSound(uf, umd) /\ DiskInv

LEMMA KnownFlags ==
    /\ S!FlagsIn(S!mc_flags) =
           {"PUBACL", "HOLD", "NOOP", "LIMITFLAGS", "SECURE", "VERBOSE", "RESTRICTED", "KEEPTOPIC",
            "VERBOSE_OPS", "TOPICLOCK", "GUARD", "PRIVATE", "NOSYNC", "ANTIFLOOD"}
    /\ S!FlagsIn(S!mu_flags) =
           {"HOLD", "NEVEROP", "NOOP", "WAITAUTH", "HIDEMAIL", "NOMEMO", "EMAILMEMOS", "CRYPTPASS",
            "NOBURSTLOGIN", "ENFORCE", "USE_PRIVMSG", "PRIVATE", "QUIETCHG", "NOGREET",
            "REGNOLIMIT", "NEVERGROUP", "STRICTACCESS", "NOTIFYACL", "NOTIFYSET",
            "EMAILNOTIFY", "NOPASSWORD"}
  <1>1. DOMAIN S!mc_flags = 1..14 /\ DOMAIN S!mu_flags = 1..21
    BY DEF S!mc_flags, S!mu_flags
  <1> QED BY <1>1 DEF S!FlagsIn, S!mc_flags, S!mu_flags

\* Nothing is stored yet, or only that ENFORCE was a default.
LEMMA FreshData ==
    ASSUME S!SettingsAssumption, NEW fs
    PROVE  /\ IsData(S!EnforceData(fs)) /\ Fits(S!EnforceData(fs), OfUser)
           /\ IsData([k \in {} |-> None]) /\ Fits([k \in {} |-> None], OfChan)
  <1> DEFINE e == S!EnforceData(fs)
             z == [k \in {} |-> None]
  <1>1. e = [k \in DOMAIN e |-> e[k]] /\ DOMAIN e \in {{}, {"private:doenforce"}}
    BY DEF S!EnforceData
  <1>2. z = [k \in DOMAIN z |-> z[k]] /\ DOMAIN z = {}
    OBVIOUS
  <1> HIDE DEF e, z
  <1>3. IsFiniteSet({}) /\ IsFiniteSet({"private:doenforce"}) /\ Cardinality({}) = 0
    BY FS_EmptySet, FS_Singleton
  <1>4. DOMAIN e \intersect OfUser = {} /\ DOMAIN z \intersect OfChan = {}
    BY <1>1, <1>2 DEF OfUser, S!Private
  <1>5. IsFiniteSet(DOMAIN e) /\ IsFiniteSet(DOMAIN z)
    BY <1>1, <1>2, <1>3
  <1>6. IsData(e) /\ IsData(z)
    BY <1>1, <1>2, <1>5, Zenon DEF IsData
  <1>7. Fits(e, OfUser) /\ Fits(z, OfChan)
    <2>1. Cardinality(DOMAIN e \intersect OfUser) = 0 /\ Cardinality(DOMAIN z \intersect OfChan) = 0
      BY <1>3, <1>4, Zenon
    <2> QED BY <2>1 DEF Fits, S!SettingsAssumption
  <1> QED BY <1>6, <1>7 DEF e, z

LEMMA SettingsInit == ASSUME S!SettingsAssumption, S!Init PROVE SettingsInv
  <1> PICK d \in Defaults :
        /\ uf = S!Enforced(S!c_gi_uflags(d.u)) \union {"NOBURSTLOGIN"} /\ umd = S!EnforceData(d.u)
        /\ cf = S!c_gi_cflags(d.c)
    BY DEF S!Init
  <1>1. cmd = [k \in {} |-> None] /\ disk = None
    BY DEF S!Init
  <1>2. /\ d.u \subseteq S!uflags /\ d.c \subseteq S!cflags
        /\ "VERBOSE" \notin d.c \/ "VERBOSE_OPS" \notin d.c
    BY DEF S!SettingsAssumption
  <1>3. ChanSound(cf, cmd)
    BY <1>1, <1>2, KnownFlags, FreshData DEF ChanSound, S!c_gi_cflags, S!cflags
  <1>4. UserSound(uf, umd)
    BY <1>2, KnownFlags, FreshData DEF UserSound, S!Enforced, S!c_gi_uflags, S!uflags
  <1> QED BY <1>1, <1>3, <1>4 DEF SettingsInv, DiskInv

\* SET of ChanServ.
ChanNext ==
    \/ \E on \in BOOLEAN :
        \/ \E l \in S!Levels :
            \/ S!cs_cmd_set_secure(l, on) \/ S!cs_cmd_set_restricted(l, on)
            \/ S!cs_cmd_set_private(l, on) \/ S!cs_cmd_set_pubacl(l, on)
            \/ S!cs_cmd_set_nosync(l, on) \/ S!cs_cmd_set_limitflags(l, on)
            \/ S!cs_cmd_set_topiclock(l, on) \/ S!cs_cmd_set_keeptopic(l, on)
            \/ S!cs_cmd_set_fantasy(l, on)
        \/ S!cs_cmd_hold(on)
    \/ \E l \in S!Levels :
        \/ \E how \in {{}, {"VERBOSE"}, {"VERBOSE_OPS"}} : S!cs_cmd_set_verbose(l, how)
        \/ \E v \in {"ALL", "VOICE", "OP", None} : S!cs_cmd_set_gameserv(l, v)
        \/ \E v \in Values \union {None} :
            \/ S!cs_cmd_set_prefix(l, v) \/ S!cs_cmd_set_entrymsg(l, v)
            \/ S!cs_cmd_set_email(l, v) \/ S!cs_cmd_set_url(l, v)
            \/ \E k \in Props : S!cs_cmd_set_property(l, k, v)

LEMMA ChanFlagSet ==
    ASSUME S!SettingsAssumption, ChanSound(cf, cmd),
           NEW f \in S!FlagsIn(S!mc_flags) \ {"TOPICLOCK", "KEEPTOPIC", "VERBOSE", "VERBOSE_OPS"},
           NEW on, S!ChanFlag(f, on)
    PROVE  ChanSound(cf', cmd')
  BY DEF S!ChanFlag, ChanSound

LEMMA ChanDataSet ==
    ASSUME S!SettingsAssumption, ChanSound(cf, cmd), cf' = cf, NEW k, NEW v,
           \/ cmd' = S!metadata_delete(cmd, k)
           \/ /\ cmd' = S!metadata_add(cmd, k, v)
              /\ k \in S!ChanOwn \/ S!Count(cmd) < MdLimit
    PROVE  ChanSound(cf', cmd')
  <1>1. OfChan \intersect S!Private = {} /\ OfChan \intersect S!ChanOwn = {}
    BY DEF OfChan
  <1>2. IsData(cmd) /\ Fits(cmd, OfChan)
    BY DEF ChanSound
  <1>3. IsData(cmd') /\ Fits(cmd', OfChan)
    <2>1. CASE cmd' = S!metadata_delete(cmd, k)
      BY <2>1, <1>2, Deleted
    <2>2. CASE cmd' = S!metadata_add(cmd, k, v) /\ (k \in S!ChanOwn \/ S!Count(cmd) < MdLimit)
      <3>1. k \notin OfChan \/ S!Count(cmd) < MdLimit
        BY <2>2, <1>1
      <3> QED BY <2>2, <3>1, <1>1, <1>2, Added
    <2> QED BY <2>1, <2>2
  <1> QED BY <1>3 DEF ChanSound

LEMMA ChanSteps ==
    ASSUME S!SettingsAssumption, ChanSound(cf, cmd), ChanNext
    PROVE  ChanSound(cf', cmd') /\ UNCHANGED <<uf, umd, disk, ssaved>>
  <1> USE DEF S!userVars
  <1> DEFINE Goal == ChanSound(cf', cmd') /\ UNCHANGED <<uf, umd, disk, ssaved>>
  <1>1. ASSUME NEW on \in BOOLEAN, NEW l,
               \/ S!cs_cmd_set_secure(l, on) \/ S!cs_cmd_set_restricted(l, on)
               \/ S!cs_cmd_set_private(l, on) \/ S!cs_cmd_set_pubacl(l, on)
               \/ S!cs_cmd_set_nosync(l, on) \/ S!cs_cmd_set_limitflags(l, on)
               \/ S!cs_cmd_hold(on)
        PROVE  Goal
    <2>1. PICK f \in S!FlagsIn(S!mc_flags) \ {"TOPICLOCK", "KEEPTOPIC", "VERBOSE", "VERBOSE_OPS"} :
              S!ChanFlag(f, on)
      BY <1>1, KnownFlags
         DEF S!cs_cmd_set_secure, S!cs_cmd_set_restricted, S!cs_cmd_set_private,
             S!cs_cmd_set_pubacl, S!cs_cmd_set_nosync, S!cs_cmd_set_limitflags, S!cs_cmd_hold
    <2>2. UNCHANGED <<uf, umd, disk, ssaved>>
      BY <2>1 DEF S!ChanFlag, S!cs_cmd_set
    <2> QED BY <2>1, <2>2, ChanFlagSet
  <1>2. ASSUME NEW on \in BOOLEAN, NEW l \in S!Levels,
               S!cs_cmd_set_topiclock(l, on) \/ S!cs_cmd_set_keeptopic(l, on)
        PROVE  Goal
    BY <1>2, KnownFlags DEF S!cs_cmd_set_topiclock, S!cs_cmd_set_keeptopic, S!cs_cmd_set, ChanSound
  <1>3. ASSUME NEW l \in S!Levels, NEW how \in {{}, {"VERBOSE"}, {"VERBOSE_OPS"}},
               S!cs_cmd_set_verbose(l, how)
        PROVE  Goal
    BY <1>3, KnownFlags DEF S!cs_cmd_set_verbose, S!cs_cmd_set, ChanSound
  <1>4. ASSUME NEW on \in BOOLEAN, NEW l \in S!Levels, S!cs_cmd_set_fantasy(l, on) PROVE Goal
    <2>1. /\ cf' = cf /\ UNCHANGED <<uf, umd, disk, ssaved>>
          /\ \/ cmd' = S!metadata_delete(cmd, "disable_fantasy")
             \/ cmd' = S!metadata_add(cmd, "disable_fantasy", "on")
      BY <1>4 DEF S!cs_cmd_set_fantasy, S!ChanData, S!cs_cmd_set
    <2> QED BY <2>1, ChanDataSet DEF S!ChanOwn
  <1>5. ASSUME NEW l \in S!Levels, NEW v, S!cs_cmd_set_gameserv(l, v) PROVE Goal
    <2>1. /\ cf' = cf /\ UNCHANGED <<uf, umd, disk, ssaved>>
          /\ \/ cmd' = S!metadata_delete(cmd, "gameserv")
             \/ cmd' = S!metadata_add(cmd, "gameserv", v)
      BY <1>5 DEF S!cs_cmd_set_gameserv, S!ChanData, S!cs_cmd_set
    <2> QED BY <2>1, ChanDataSet DEF S!ChanOwn
  <1>6. ASSUME NEW l \in S!Levels, NEW v,
               \/ S!cs_cmd_set_prefix(l, v) \/ S!cs_cmd_set_entrymsg(l, v)
               \/ S!cs_cmd_set_email(l, v) \/ S!cs_cmd_set_url(l, v)
        PROVE  Goal
    <2>1. PICK k \in S!ChanOwn : S!Text(l, k, v)
      BY <1>6 DEF S!cs_cmd_set_prefix, S!cs_cmd_set_entrymsg, S!cs_cmd_set_email,
                  S!cs_cmd_set_url, S!ChanOwn
    <2>2. /\ cf' = cf /\ UNCHANGED <<uf, umd, disk, ssaved>>
          /\ \/ cmd' = S!metadata_delete(cmd, k)
             \/ cmd' = S!metadata_add(cmd, k, v)
      BY <2>1 DEF S!Text, S!ChanData, S!cs_cmd_set
    <2> QED BY <2>2, ChanDataSet
  <1>7. ASSUME NEW l \in S!Levels, NEW k, NEW v, S!cs_cmd_set_property(l, k, v) PROVE Goal
    <2>1. /\ cf' = cf /\ UNCHANGED <<uf, umd, disk, ssaved>>
          /\ \/ cmd' = S!metadata_delete(cmd, k)
             \/ cmd' = S!metadata_add(cmd, k, v) /\ S!Count(cmd) < MdLimit
      BY <1>7 DEF S!cs_cmd_set_property, S!ChanData, S!cs_cmd_set
    <2> QED BY <2>1, ChanDataSet
  <1> HIDE DEF Goal
  <1>8. ASSUME NEW on \in BOOLEAN,
               \/ \E l \in S!Levels :
                   \/ S!cs_cmd_set_secure(l, on) \/ S!cs_cmd_set_restricted(l, on)
                   \/ S!cs_cmd_set_private(l, on) \/ S!cs_cmd_set_pubacl(l, on)
                   \/ S!cs_cmd_set_nosync(l, on) \/ S!cs_cmd_set_limitflags(l, on)
                   \/ S!cs_cmd_set_topiclock(l, on) \/ S!cs_cmd_set_keeptopic(l, on)
                   \/ S!cs_cmd_set_fantasy(l, on)
               \/ S!cs_cmd_hold(on)
        PROVE  Goal
    BY <1>8, <1>1, <1>2, <1>4
  <1>9. ASSUME NEW l \in S!Levels,
               \/ \E how \in {{}, {"VERBOSE"}, {"VERBOSE_OPS"}} : S!cs_cmd_set_verbose(l, how)
               \/ \E v \in {"ALL", "VOICE", "OP", None} : S!cs_cmd_set_gameserv(l, v)
               \/ \E v \in Values \union {None} :
                   \/ S!cs_cmd_set_prefix(l, v) \/ S!cs_cmd_set_entrymsg(l, v)
                   \/ S!cs_cmd_set_email(l, v) \/ S!cs_cmd_set_url(l, v)
                   \/ \E k \in Props : S!cs_cmd_set_property(l, k, v)
        PROVE  Goal
    BY <1>9, <1>3, <1>5, <1>6, <1>7
  <1>10. Goal
    BY <1>8, <1>9 DEF ChanNext
  <1> QED BY <1>10 DEF Goal

\* SET of NickServ, logins and logouts.
UserNext ==
    \/ \E on \in BOOLEAN :
        \/ S!ns_cmd_set_hidemail(on) \/ S!ns_cmd_set_nevergroup(on) \/ S!ns_cmd_set_quietchg(on)
        \/ S!ns_cmd_set_neverop(on) \/ S!ns_cmd_set_noop(on) \/ S!ns_cmd_set_nogreet(on)
        \/ S!ns_cmd_set_notifyacl(on) \/ S!ns_cmd_set_notifymemo(on) \/ S!ns_cmd_set_notifyset(on)
        \/ S!ns_cmd_set_emailnotify(on) \/ S!ns_cmd_set_nomemo(on) \/ S!ns_cmd_set_privmsg(on)
        \/ S!ns_cmd_set_emailmemos(on) \/ S!ns_cmd_set_private(on) \/ S!ns_cmd_hold(on)
        \/ S!ns_cmd_regnolimit(on)
    \/ \E v \in Values \union {None} :
        S!ns_cmd_set_pubkey(v) \/ \E k \in Props : S!ns_cmd_set_property(k, v)
    \/ \E x \in Languages \union {None} : S!ns_cmd_set_language(x)
    \/ S!ns_cmd_vacation \/ S!user_identify_hook \/ S!ns_cmd_logout \/ S!Split

LEMMA UserDataSet ==
    ASSUME S!SettingsAssumption, UserSound(uf, umd), uf' = uf, NEW k, NEW v,
           \/ umd' = S!metadata_delete(umd, k)
           \/ /\ umd' = S!metadata_add(umd, k, v)
              /\ k \in S!Private \/ S!Count(umd) < MdLimit
    PROVE  UserSound(uf', umd')
  <1>1. OfUser \intersect S!Private = {}
    BY DEF OfUser
  <1>2. IsData(umd) /\ Fits(umd, OfUser)
    BY DEF UserSound
  <1>3. IsData(umd') /\ Fits(umd', OfUser)
    <2>1. CASE umd' = S!metadata_delete(umd, k)
      BY <2>1, <1>2, Deleted
    <2>2. CASE umd' = S!metadata_add(umd, k, v) /\ (k \in S!Private \/ S!Count(umd) < MdLimit)
      <3>1. k \notin OfUser \/ S!Count(umd) < MdLimit
        BY <2>2, <1>1
      <3> QED BY <2>2, <3>1, <1>1, <1>2, Added
    <2> QED BY <2>1, <2>2
  <1> QED BY <1>3 DEF UserSound

\* A flag that a user or an operator sets.
LEMMA UserFlagSet ==
    ASSUME UserSound(uf, umd),
           NEW f \in (S!FlagsIn(S!mu_flags) \union {"NOTIFYMEMO"}) \ {"ENFORCE"},
           NEW on, S!UserFlag(f, on)
    PROVE  UserSound(uf', umd') /\ UNCHANGED <<cf, cmd, disk, ssaved>>
  BY DEF S!UserFlag, S!ns_cmd_set, S!chanVars, UserSound

LEMMA UserSteps ==
    ASSUME S!SettingsAssumption, UserSound(uf, umd), UserNext
    PROVE  UserSound(uf', umd') /\ UNCHANGED <<cf, cmd, disk, ssaved>>
  <1> USE DEF S!chanVars
  <1> DEFINE Goal == UserSound(uf', umd') /\ UNCHANGED <<cf, cmd, disk, ssaved>>
  <1>1. ASSUME NEW on \in BOOLEAN,
               \/ S!ns_cmd_set_hidemail(on) \/ S!ns_cmd_set_nevergroup(on)
               \/ S!ns_cmd_set_quietchg(on) \/ S!ns_cmd_set_neverop(on) \/ S!ns_cmd_set_noop(on)
               \/ S!ns_cmd_set_nogreet(on) \/ S!ns_cmd_set_notifyacl(on)
               \/ S!ns_cmd_set_notifymemo(on) \/ S!ns_cmd_set_notifyset(on)
               \/ S!ns_cmd_set_emailnotify(on) \/ S!ns_cmd_set_nomemo(on)
               \/ S!ns_cmd_set_privmsg(on) \/ S!ns_cmd_set_emailmemos(on)
               \/ S!ns_cmd_hold(on) \/ S!ns_cmd_regnolimit(on)
        PROVE  Goal
    <2>1. PICK f \in (S!FlagsIn(S!mu_flags) \union {"NOTIFYMEMO"}) \ {"ENFORCE"} : S!UserFlag(f, on)
      BY <1>1, KnownFlags
         DEF S!ns_cmd_set_hidemail, S!ns_cmd_set_nevergroup, S!ns_cmd_set_quietchg,
             S!ns_cmd_set_neverop, S!ns_cmd_set_noop, S!ns_cmd_set_nogreet,
             S!ns_cmd_set_notifyacl, S!ns_cmd_set_notifymemo, S!ns_cmd_set_notifyset,
             S!ns_cmd_set_emailnotify, S!ns_cmd_set_nomemo, S!ns_cmd_set_privmsg,
             S!ns_cmd_set_emailmemos, S!ns_cmd_hold, S!ns_cmd_regnolimit
    <2> QED BY <2>1, UserFlagSet
  <1>2. ASSUME NEW on \in BOOLEAN, S!ns_cmd_set_private(on) PROVE Goal
    BY <1>2, KnownFlags DEF S!ns_cmd_set_private, S!ns_cmd_set, UserSound
  <1>3. ASSUME NEW v, S!ns_cmd_set_pubkey(v) PROVE Goal
    <2>1. /\ uf' = uf /\ UNCHANGED <<cf, cmd, disk, ssaved>>
          /\ \/ umd' = S!metadata_delete(umd, "private:pubkey")
             \/ umd' = S!metadata_add(umd, "private:pubkey", v)
      BY <1>3 DEF S!ns_cmd_set_pubkey, S!UserData, S!ns_cmd_set
    <2> QED BY <2>1, UserDataSet DEF S!Private
  <1>4. ASSUME NEW k, NEW v, S!ns_cmd_set_property(k, v) PROVE Goal
    <2>1. /\ uf' = uf /\ UNCHANGED <<cf, cmd, disk, ssaved>>
          /\ \/ umd' = S!metadata_delete(umd, k)
             \/ umd' = S!metadata_add(umd, k, v) /\ S!Count(umd) < MdLimit
      BY <1>4 DEF S!ns_cmd_set_property, S!UserData, S!ns_cmd_set
    <2> QED BY <2>1, UserDataSet
  <1>5. ASSUME NEW x, S!ns_cmd_set_language(x) PROVE Goal
    BY <1>5 DEF S!ns_cmd_set_language, S!ns_cmd_set
  <1>6. CASE S!ns_cmd_vacation
    <2>1. /\ uf' = uf /\ UNCHANGED <<cf, cmd, disk, ssaved>>
          /\ umd' = S!metadata_add(umd, "private:vacation", "on")
      BY <1>6 DEF S!ns_cmd_vacation, S!UserData, S!ns_cmd_set
    <2> QED BY <2>1, UserDataSet DEF S!Private
  <1>7. CASE S!user_identify_hook
    <2>1. /\ uf' = uf /\ UNCHANGED <<cf, cmd, disk, ssaved>>
          /\ umd' = S!metadata_delete(umd, "private:vacation")
      BY <1>7 DEF S!user_identify_hook
    <2> QED BY <2>1, UserDataSet
  <1>8. CASE S!ns_cmd_logout \/ S!Split
    BY <1>8 DEF S!ns_cmd_logout, S!Split, UserSound
  <1>9. ASSUME NEW on \in BOOLEAN,
               \/ S!ns_cmd_set_hidemail(on) \/ S!ns_cmd_set_nevergroup(on)
               \/ S!ns_cmd_set_quietchg(on) \/ S!ns_cmd_set_neverop(on) \/ S!ns_cmd_set_noop(on)
               \/ S!ns_cmd_set_nogreet(on) \/ S!ns_cmd_set_notifyacl(on)
               \/ S!ns_cmd_set_notifymemo(on) \/ S!ns_cmd_set_notifyset(on)
               \/ S!ns_cmd_set_emailnotify(on) \/ S!ns_cmd_set_nomemo(on)
               \/ S!ns_cmd_set_privmsg(on) \/ S!ns_cmd_set_emailmemos(on)
               \/ S!ns_cmd_set_private(on) \/ S!ns_cmd_hold(on) \/ S!ns_cmd_regnolimit(on)
        PROVE  Goal
    BY <1>9, <1>1, <1>2
  <1> QED BY <1>3, <1>4, <1>5, <1>6, <1>7, <1>8, <1>9 DEF UserNext

LEMMA Saves ==
    ASSUME SettingsInv, S!corestorage_db_save PROVE SettingsInv'
  <1>1. ChanSound(cf, cmd)' /\ UserSound(uf, umd)'
    BY DEF SettingsInv, S!corestorage_db_save, S!chanVars, S!userVars, ChanSound, UserSound
  <1>2. /\ disk' = [u |-> S!SavedAccount, c |-> S!SavedChannel]
        /\ ssaved' = [uf |-> uf, umd |-> umd, lang |-> lang, cf |-> cf, cmd |-> cmd, online |-> online]
    BY DEF S!corestorage_db_save
  <1>3. ChanSound(ssaved'.cf, ssaved'.cmd) /\ UserSound(ssaved'.uf, ssaved'.umd)
    BY <1>2 DEF SettingsInv
  <1>4. DiskInv'
    BY <1>2, <1>3 DEF DiskInv, S!SavedAccount, S!SavedChannel
  <1> QED BY <1>1, <1>4 DEF SettingsInv

\* What was saved is read back.
LEMMA Starts ==
    ASSUME SettingsInv, S!Start
    PROVE  /\ SettingsInv'
           /\ cf' = ssaved.cf /\ cmd' = ssaved.cmd /\ umd' = ssaved.umd /\ lang' = ssaved.lang
           /\ uf' \ S!Unsaved =
                  (IF ssaved.online THEN ssaved.uf \ {"NOBURSTLOGIN"} ELSE ssaved.uf) \ S!Unsaved
  <1> DEFINE before == IF ssaved.online THEN ssaved.uf \ {"NOBURSTLOGIN"} ELSE ssaved.uf
             back == S!gflags_fromstr(S!mu_flags, disk.u.uf)
  <1>1. /\ ChanSound(ssaved.cf, ssaved.cmd) /\ UserSound(ssaved.uf, ssaved.umd)
        /\ disk.u.uf = S!gflags_tostr(S!mu_flags, before)
        /\ disk.u.umd = ssaved.umd /\ disk.u.lang = ssaved.lang
        /\ disk.c.cf = S!gflags_tostr(S!mc_flags, ssaved.cf) /\ disk.c.cmd = ssaved.cmd
    BY DEF SettingsInv, DiskInv, S!Start
  <1>2. before \in SUBSET (S!FlagsIn(S!mu_flags) \union {"NOTIFYMEMO"}) /\ "ENFORCE" \notin before
    BY <1>1 DEF UserSound
  <1>3. /\ uf' = S!Enforced(back)
        /\ umd' = S!corestorage_h_md(S!EnforceData(back), disk.u.umd) /\ lang' = disk.u.lang
        /\ cf' = S!gflags_fromstr(S!mc_flags, disk.c.cf)
        /\ cmd' = S!corestorage_h_md([k \in {} |-> None], disk.c.cmd)
        /\ UNCHANGED <<disk, ssaved>>
    BY DEF S!Start, S!corestorage_h_mu, S!corestorage_h_mc
  <1> HIDE DEF before, back
  <1>4. back \ S!Unsaved = before \ S!Unsaved /\ back \subseteq S!FlagsIn(S!mu_flags)
    BY <1>1, <1>2, UserFlagsBack DEF back
  <1>5. "ENFORCE" \notin back
    BY <1>2, <1>4 DEF S!Unsaved
  <1>6. uf' = back
    BY <1>3, <1>5 DEF S!Enforced
  <1>7. IsData(ssaved.umd) /\ IsData(ssaved.cmd)
    BY <1>1 DEF ChanSound, UserSound
  <1>8. umd' = ssaved.umd
    <2>1. S!EnforceData(back) = [k \in {} |-> None]
      BY <1>5 DEF S!EnforceData
    <2>2. umd' = [k \in DOMAIN ssaved.umd |-> ssaved.umd[k]]
      BY <2>1, <1>1, <1>3 DEF S!corestorage_h_md
    <2> QED BY <2>2, <1>7 DEF IsData
  <1>9. cmd' = ssaved.cmd
    <2>1. cmd' = [k \in DOMAIN ssaved.cmd |-> ssaved.cmd[k]]
      BY <1>1, <1>3 DEF S!corestorage_h_md
    <2> QED BY <2>1, <1>7 DEF IsData
  <1>10. cf' = ssaved.cf
    BY <1>1, <1>3, ChanFlagsBack DEF ChanSound
  <1>11. ChanSound(cf, cmd)'
    BY <1>1, <1>9, <1>10 DEF ChanSound
  <1>12. UserSound(uf, umd)'
    BY <1>1, <1>4, <1>5, <1>6, <1>8 DEF UserSound
  <1>13. DiskInv'
    BY <1>3 DEF SettingsInv, DiskInv
  <1>14. uf' \ S!Unsaved = before \ S!Unsaved /\ lang' = ssaved.lang
    BY <1>1, <1>3, <1>4, <1>6
  <1>15. SettingsInv'
    BY <1>11, <1>12, <1>13 DEF SettingsInv
  <1> QED BY <1>8, <1>9, <1>10, <1>14, <1>15 DEF before

\* The action of SurvivesRestart.
Restored ==
    S!Start =>
        /\ cf' = ssaved.cf /\ cmd' = ssaved.cmd /\ umd' = ssaved.umd /\ lang' = ssaved.lang
        /\ uf' \ S!Unsaved =
               (IF ssaved.online THEN ssaved.uf \ {"NOBURSTLOGIN"} ELSE ssaved.uf) \ S!Unsaved

LEMMA SettingsStep ==
    ASSUME S!SettingsAssumption, SettingsInv, [S!Next]_(S!vars)
    PROVE  SettingsInv'
  <1>1. CASE UNCHANGED S!vars
    BY <1>1 DEF S!vars, SettingsInv, ChanSound, UserSound, DiskInv
  <1>2. CASE ChanNext
    <2>1. ChanSound(cf', cmd') /\ UNCHANGED <<uf, umd, disk, ssaved>>
      BY <1>2, ChanSteps DEF SettingsInv
    <2> QED BY <2>1 DEF SettingsInv, ChanSound, UserSound, DiskInv
  <1>3. CASE UserNext
    <2>1. UserSound(uf', umd') /\ UNCHANGED <<cf, cmd, disk, ssaved>>
      BY <1>3, UserSteps DEF SettingsInv
    <2> QED BY <2>1 DEF SettingsInv, ChanSound, UserSound, DiskInv
  <1>4. CASE S!corestorage_db_save \/ S!Start
    BY <1>4, Saves, Starts
  <1>5. S!Next => ChanNext \/ UserNext \/ S!corestorage_db_save \/ S!Start
    BY DEF S!Next, ChanNext, UserNext
  <1> QED BY <1>1, <1>2, <1>3, <1>4, <1>5

\* The topic is locked only while it is kept, a channel is verbose in one way at
\* most, SET PROPERTY keeps to its limit, and what was saved is set again after a
\* restart, but for the flags without a letter of their own.
THEOREM SettingsAlwaysHold == ASSUME S!SettingsAssumption PROVE S!Spec => S!SettingsHold
  <1>1. S!Init => SettingsInv
    BY SettingsInit
  <1>2. SettingsInv /\ [S!Next]_(S!vars) => SettingsInv'
    BY SettingsStep
  <1>3. SettingsInv => [Restored]_(S!vars)
    BY Starts DEF Restored
  <1>4. SettingsInv => S!LockKeeps /\ S!VerboseOnce /\ S!PropertiesLimited
    <2>1. \A A : S!Cardinality(A) = Cardinality(A)
      BY DEF Cardinality, S!Cardinality
    <2> QED BY <2>1 DEF SettingsInv, ChanSound, UserSound, S!LockKeeps, S!VerboseOnce,
                        S!PropertiesLimited, Fits, OfChan, OfUser
  <1> QED BY <1>1, <1>2, <1>3, <1>4, PTL DEF S!Spec, S!SettingsHold, S!SurvivesRestart, Restored
=============================================================================
