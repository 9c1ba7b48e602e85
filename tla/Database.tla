------------------------------ MODULE Database ------------------------------
(***************************************************************************)
(* Saving and loading services.db: corestorage.c, opensex.c, the children  *)
(* of signal.c, and who calls db_save() and db_load().                     *)
(*                                                                         *)
(* A regular or forced save is written by a forked child, the last one by  *)
(* services.  A writer takes the lock, writes services.db.new and renames  *)
(* it; a forced save kills the child of the save before it.  Services or   *)
(* the whole host may crash at any time.                                   *)
(*                                                                         *)
(* The records are a sequence of rows in the order they are written.  The  *)
(* rows are taken to have one length; a write() that ends inside a row     *)
(* leaves it torn, and a torn row is read as another one or makes the next *)
(* start exit.  The host has fork() and flock(), keeps the order of writes *)
(* and renames when it crashes, and services are not read-only.            *)
(***************************************************************************)
EXTENDS Integers, Sequences

CONSTANTS
    Rows,       \* what the database can hold
    Torn,       \* a part of a row
    Pids,       \* of the children
    Self,       \* services, as a writer
    MaxSaves,   \* bound: how often services save
    MaxStarts,  \* bound: how often services start
    None

\* services.db: its rows, and as history whose save it is (see Process).
Saved == [rows : Seq(Rows \union {Torn}), snap : Seq(Rows), stamp : Nat,
          error : BOOLEAN, over : BOOLEAN, orphan : BOOLEAN]

ASSUME DatabaseAssumption ==
    /\ Torn \notin Rows /\ Self \notin Pids
    /\ None \notin Pids \union {Self} \union Saved
    /\ MaxSaves \in Nat /\ MaxStarts \in Nat

Writers == Pids \union {Self}

VARIABLES
    services,   \* down, up, saving (then up) or exiting (saving, then down)
    mem,        \* the records in memory
    child_pid,  \* corestorage.c's child_pid
    proc,       \* the processes that write: see Process
    newfile,    \* the rows of services.db.new, <<>> if there is none
    db,         \* services.db: see Saved
    saves,      \* how often services have saved
    starts,     \* how often services have started
    saved,      \* history: services have saved and ended
    unread      \* history: services.db exists and was not read at the start

fileVars == <<newfile, db>>
vars == <<services, mem, child_pid, proc, fileVars, saves, starts, saved, unread>>

\* A process: its stage, the records it saves (memory when it was forked), how
\* many rows it has written, and whether its FILE has an error, which nobody
\* looks at.  As history the number of its save, whether it writes over a
\* leftover services.db.new, and whether its services have crashed.
Process(stage, snap, stamp) ==
    [stage |-> stage, snap |-> snap, pos |-> 0, error |-> FALSE,
     stamp |-> stamp, over |-> FALSE, orphan |-> FALSE]

Idle == Process("none", <<>>, 0)
Zombie == Process("zombie", <<>>, 0)

Running(w) == proc[w].stage \in {"start", "writing"}

\* Mutant of Unlocked: the lock is not taken.
UnlockedAlways == TRUE

\* flock(): there is one writer of services.db.new.
Unlocked == \A w \in Writers : proc[w].stage # "writing"

-----------------------------------------------------------------------------
(* Services *)

\* A command or a timer adds a record or removes one.
Change ==
    /\ services = "up"
    /\ \/ \E r \in Rows :
             /\ \A i \in DOMAIN mem : mem[i] # r
             /\ mem' = Append(mem, r)
       \/ \E i \in DOMAIN mem :
             mem' = SubSeq(mem, 1, i - 1) \o SubSeq(mem, i + 1, Len(mem))
    /\ UNCHANGED <<services, child_pid, proc, fileVars, saves, starts, saved, unread>>

\* Mutant of Killed: a forced save does not end the save before it.
KilledNot == proc

\* The processes after the child of an unfinished save is killed, before it is
\* waited for.
Killed ==
    [w \in Writers |-> IF w = child_pid /\ Running(w) THEN Zombie ELSE proc[w]]

\* A writer with the records of this moment.
Begin(w, procs) ==
    /\ saves < MaxSaves
    /\ saves' = saves + 1
    /\ proc' = [procs EXCEPT ![w] = Process("start", mem, saves + 1)]

\* fork() gives a pid that no process has, or fails: services write.
Fork(procs) ==
    \/ \E p \in Pids :
          /\ procs[p].stage = "none"
          /\ Begin(p, procs)
          /\ child_pid' = p
          /\ UNCHANGED services
    \/ /\ Begin(Self, procs)
       /\ services' = "saving"
       /\ UNCHANGED child_pid

\* db_save_periodic(): skipped while a save is unfinished.
SaveRegular ==
    /\ services = "up"
    /\ child_pid = None
    /\ Fork(proc)
    /\ UNCHANGED <<mem, fileVars, starts, saved, unread>>

\* UPDATE, REHASH, MODRELOAD and SIGHUP.
SaveImportant ==
    /\ services = "up"
    /\ Fork(Killed)
    /\ UNCHANGED <<mem, fileVars, starts, saved, unread>>

\* The end of atheme_main().
Shutdown ==
    /\ services = "up"
    /\ Begin(Self, Killed)
    /\ services' = "exiting"
    /\ UNCHANGED <<mem, child_pid, fileVars, starts, saved, unread>>

Zombies == {p \in Pids : proc[p].stage = "zombie"}

\* Mutant of ChildprocCheck: the callback does not forget the child.
ChildprocCheckKeeps ==
    /\ services = "up"
    /\ Zombies # {}
    /\ proc' = [w \in Writers |-> IF w \in Zombies THEN Idle ELSE proc[w]]
    /\ UNCHANGED <<services, mem, child_pid, fileVars, saves, starts, saved, unread>>

\* check_signals(), childproc_check(): every ended child is waited for, and
\* corestorage_db_saved_cb() forgets the last one.
ChildprocCheck ==
    /\ services = "up"
    /\ Zombies # {}
    /\ proc' = [w \in Writers |-> IF w \in Zombies THEN Idle ELSE proc[w]]
    /\ child_pid' = IF child_pid \in Zombies THEN None ELSE child_pid
    /\ UNCHANGED <<services, mem, fileVars, saves, starts, saved, unread>>

-----------------------------------------------------------------------------
(* Writers *)

\* The writer exits or, if it is services, goes on; ok: it has saved.
End(w, ok) ==
    /\ proc' = [proc EXCEPT ![w] =
          IF w = Self \/ proc[w].orphan THEN Idle ELSE Zombie]
    /\ services' = IF w # Self THEN services
                   ELSE IF services = "exiting" THEN "down" ELSE "up"
    /\ saved' = IF w = Self /\ services = "exiting" THEN ok ELSE saved
    /\ UNCHANGED <<mem, child_pid, saves, starts, unread>>

\* opensex_db_open_write() takes the lock and opens services.db.new, which it
\* does not truncate.
OpenWrite(w) ==
    /\ proc[w].stage = "start"
    /\ Unlocked
    /\ proc' = [proc EXCEPT ![w].stage = "writing", ![w].over = (newfile # <<>>)]
    /\ UNCHANGED <<services, mem, child_pid, fileVars, saves, starts, saved, unread>>

\* It cannot be opened: "aborting save".
OpenFails(w) ==
    /\ proc[w].stage = "start"
    /\ Unlocked
    /\ End(w, FALSE)
    /\ UNCHANGED fileVars

\* services.db.new when the first k rows of s are written, and a part of what
\* follows if torn.
Written(s, k, torn) ==
    LET n == IF torn /\ k < Len(s) THEN k + 1 ELSE k
    IN  [i \in 1..(IF n > Len(newfile) THEN n ELSE Len(newfile)) |->
            IF i <= k THEN s[i] ELSE IF torn /\ i = k + 1 THEN Torn ELSE newfile[i]]

\* stdio writes out its buffer, which can end anywhere.
Flush(w, k, torn) ==
    /\ proc[w].stage = "writing" /\ ~proc[w].error
    /\ proc[w].pos < k \/ (proc[w].pos = k /\ torn)
    /\ k <= Len(proc[w].snap)
    /\ newfile' = Written(proc[w].snap, k, torn)
    /\ proc' = [proc EXCEPT ![w].pos = k]
    /\ UNCHANGED <<services, mem, child_pid, db, saves, starts, saved, unread>>

\* write() fails, for want of space: the rest is not written.
WriteError(w) ==
    /\ proc[w].stage = "writing" /\ ~proc[w].error
    /\ proc[w].pos < Len(proc[w].snap)
    /\ proc' = [proc EXCEPT ![w].error = TRUE]
    /\ UNCHANGED <<services, mem, child_pid, fileVars, saves, starts, saved, unread>>

\* All of it is written, or what could be.
Done(w) ==
    /\ proc[w].stage = "writing"
    /\ proc[w].pos = Len(proc[w].snap) \/ proc[w].error

\* opensex_db_close() renames services.db.new whatever fclose() says.
CloseDb(w) ==
    /\ Done(w)
    /\ db' = [rows |-> newfile, snap |-> proc[w].snap, stamp |-> proc[w].stamp,
              error |-> proc[w].error, over |-> proc[w].over,
              orphan |-> proc[w].orphan]
    /\ newfile' = <<>>
    /\ End(w, ~proc[w].error)

\* rename() fails.
RenameFails(w) ==
    /\ Done(w)
    /\ End(w, FALSE)
    /\ UNCHANGED fileVars

-----------------------------------------------------------------------------
(* Crashes and starts *)

\* Services die; the children in survive, all or none of them, go on.
Crash(survive) ==
    /\ services # "down"
    /\ services' = "down"
    /\ mem' = <<>> /\ child_pid' = None
    /\ proc' = [w \in Writers |->
          IF w \in survive THEN [proc[w] EXCEPT !.orphan = TRUE] ELSE Idle]
    /\ UNCHANGED <<fileVars, saves, starts, saved, unread>>

\* What reading rows can give: a torn row that can still be read is some row.
\* One that cannot ends services, which then have not started.
ReadAs(rows) ==
    {s \in [1..Len(rows) -> Rows] :
        \A i \in 1..Len(rows) : rows[i] # Torn => s[i] = rows[i]}

\* opensex_db_open_read() returns NULL: there is no database, or it cannot be
\* opened.
OpenReadFails ==
    /\ mem' = <<>>
    /\ unread' = (db # None)

\* corestorage_db_load(): a database that cannot be opened, for whatever
\* reason, is no database.
Load ==
    \/ db # None /\ mem' \in ReadAs(db.rows) /\ unread' = FALSE
    \/ OpenReadFails

\* atheme_main(): services start; ended children of the run before have no
\* parent left.
Start ==
    /\ services = "down"
    /\ starts < MaxStarts
    /\ starts' = starts + 1
    /\ services' = "up"
    /\ Load
    /\ child_pid' = None
    /\ proc' = [w \in Writers |-> IF w \in Zombies THEN Idle ELSE proc[w]]
    /\ saved' = FALSE
    /\ UNCHANGED <<fileVars, saves>>

Init ==
    /\ services = "down"
    /\ mem = <<>>
    /\ child_pid = None
    /\ proc = [w \in Writers |-> Idle]
    /\ newfile = <<>> /\ db = None
    /\ saves = 0 /\ starts = 0
    /\ saved = FALSE /\ unread = FALSE

Write(w) ==
    \/ OpenWrite(w) \/ OpenFails(w) \/ WriteError(w) \/ CloseDb(w) \/ RenameFails(w)
    \/ \E k \in 0..Len(proc[w].snap), torn \in BOOLEAN : Flush(w, k, torn)

Next ==
    \/ Change \/ SaveRegular \/ SaveImportant \/ Shutdown \/ ChildprocCheck
    \/ \E w \in Writers : Write(w)
    \/ \E survive \in {{}, {p \in Pids : Running(p)}} : Crash(survive)
    \/ Start

Spec == Init /\ [][Next]_vars

\* The host runs every process, and the event loop looks at its signals.
FairSpec ==
    /\ Spec
    /\ \A w \in Writers : WF_vars(Write(w))
    /\ WF_vars(ChildprocCheck)

-----------------------------------------------------------------------------
(* Properties *)

Processes ==
    [stage : {"none", "start", "writing", "zombie"}, snap : Seq(Rows), pos : Nat,
     error : BOOLEAN, stamp : Nat, over : BOOLEAN, orphan : BOOLEAN]

\* Every variable keeps its type; memory holds whole rows, whatever was loaded
\* (opensex.c reads a row or exits).
TypeOK ==
    /\ services \in {"down", "up", "saving", "exiting"}
    /\ mem \in Seq(Rows)
    /\ child_pid \in Pids \union {None}
    /\ proc \in [Writers -> Processes]
    /\ newfile \in Seq(Rows \union {Torn})
    /\ db \in Saved \union {None}
    /\ saves \in Nat /\ starts \in Nat
    /\ saved \in BOOLEAN /\ unread \in BOOLEAN

\* Whatever was killed, crashed or went on writing meanwhile, services.db
\* begins with all the records of one moment, and holds nothing else if its
\* writer found no services.db.new; only an error that nobody looked at cuts
\* it short (opensex.c:321-323 and 376-381).
Complete ==
    db # None /\ ~db.error =>
        /\ Len(db.snap) <= Len(db.rows)
        /\ \A i \in 1..Len(db.snap) : db.rows[i] = db.snap[i]
        /\ ~db.over => db.rows = db.snap

\* A save of the services that run never replaces a newer one: the child of
\* the save before a forced one is gone when that is written
\* (corestorage.c:965-973).
NotBackwards ==
    [][\A w \in Writers :
          CloseDb(w) /\ ~proc[w].orphan /\ db # None
            => db.stamp < proc[w].stamp]_vars

\* After a shutdown that could write, services.db is what was in memory, until
\* services start again (atheme.c:449-450).
CleanExitSaved ==
    saved => db # None /\ (db.orphan \/ db.snap = mem)

\* services.db can be loaded and is what it should be: one complete set of
\* records at any time, and the last one after a shutdown
\* (corestorage.c:952-1010, atheme.c:449-450).
FileHolds == Complete /\ CleanExitSaved

\* A save that does not finish does not end regular saving: its child is
\* forgotten when it has ended or was killed (corestorage.c:941-950).
SavesResume ==
    \A p \in Pids : child_pid = p ~> (child_pid # p \/ services # "up")

\* NEWS.md:1403: "Exit atheme if atheme.db cannot be opened for reading for any
\* reason other than it not existing, to avoid overwriting it with an empty
\* database later."
UnreadNotReplaced ==
    [][\A w \in Writers : CloseDb(w) /\ ~proc[w].orphan => ~unread]_vars
=============================================================================
