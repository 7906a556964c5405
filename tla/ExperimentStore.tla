-------------------------- MODULE ExperimentStore --------------------------
(***************************************************************************)
(* The experiment store (storage.py): a bounded table in memory, guarded   *)
(* by a lock, mirrored to a JSON file that every process with the same     *)
(* path (the API and worker.py) rewrites whole and reloads when its mtime  *)
(* has moved.                                                              *)
(*                                                                         *)
(* Atomicity.  add holds the process's lock, but write_text truncates the  *)
(* file before it fills it, and _refresh_from_disk looks at the file       *)
(* without the lock; stat, read and reload are three steps.  A write moves *)
(* the file's mtime by whole ticks of the file system's clock: it may be   *)
(* the one the file already had.                                           *)
(*                                                                         *)
(* A run is identified by its created_at.  Each run is added once.         *)
(***************************************************************************)
EXTENDS Integers, FiniteSets

CONSTANTS
    Runs,       \* the created_at of the experiments
    Procs,      \* processes that share the file
    Threads, ProcOf, \* their threads
    Readers,    \* threads that call get, list_recent or is_empty
    Free,       \* nobody holds the lock
    MaxEntries, \* max_entries
    MaxFaults,  \* bound on failing writes
    MaxCrashes  \* bound on restarts

ASSUME ExperimentStoreAssumption ==
    /\ Runs \subseteq Nat /\ IsFiniteSet(Runs)
    /\ ProcOf \in [Threads -> Procs]
    /\ Readers \subseteq Threads /\ Free \notin Threads
    /\ MaxEntries \in Nat \ {0} /\ MaxFaults \in Nat /\ MaxCrashes \in Nat

VARIABLES
    runs,     \* _runs of each process
    known,    \* _persist_mtime, 0 for None
    ok,       \* _last_persist_ok
    lock,     \* _lock
    content, torn, mtime, \* the file: its runs, truncated or not, its mtime (0: no file)
    sameTick, \* history: a readable file was rewritten within the tick of its mtime
    pc,       \* where a thread is
    stamp, data, \* what a reload has read so far: the mtime, the runs
    added,    \* history: the runs passed to add
    evicted,  \* history: the runs add dropped as the oldest
    faults, crashes

procVars   == <<runs, known, ok, lock>>
fileVars   == <<content, torn, mtime, sameTick>>
threadVars == <<pc, stamp, data>>
history    == <<added, evicted>>
envVars    == <<faults, crashes>>
storeVars  == <<procVars, fileVars, threadVars, history, envVars>>

StoreInit ==
    /\ runs = [p \in Procs |-> {}]
    /\ known = [p \in Procs |-> 0]
    /\ ok = [p \in Procs |-> TRUE]
    /\ lock = [p \in Procs |-> Free]
    /\ content = {}
    /\ torn = FALSE
    /\ mtime = 0
    /\ sameTick = FALSE
    /\ pc = [t \in Threads |-> "idle"]
    /\ stamp = [t \in Threads |-> 0]
    /\ data = [t \in Threads |-> {}]
    /\ added = {}
    /\ evicted = {}
    /\ faults = 0
    /\ crashes = 0

Goto(t, p) == pc' = [pc EXCEPT ![t] = p]
Unlock(t)  == lock' = [lock EXCEPT ![ProcOf[t]] = Free]
Return(t) ==
    /\ Goto(t, "idle")
    /\ stamp' = [stamp EXCEPT ![t] = 0]
    /\ data' = [data EXCEPT ![t] = {}]

-----------------------------------------------------------------------------
(* add *)

Oldest(S) == {r \in S : \A q \in S : r <= q}

NoEviction(S) == {}
\* What add drops from the table S: the oldest entry, if there are too many.
Surplus(S) == IF Cardinality(S) > MaxEntries THEN Oldest(S) ELSE {}

AddInsert(t, r) ==
    LET p == ProcOf[t]  table == runs[p] \union {r}
    IN  /\ pc[t] = "idle" /\ lock[p] = Free /\ r \notin added
        /\ lock' = [lock EXCEPT ![p] = t]
        /\ runs' = [runs EXCEPT ![p] = table \ Surplus(table)]
        /\ added' = added \union {r}
        /\ evicted' = evicted \union Surplus(table)
        /\ Goto(t, "truncate")
        /\ UNCHANGED <<known, ok, fileVars, stamp, data, envVars>>

\* The mtime of a write: the clock has ticked since the last one, or it has not.
Stamps == IF mtime = 0 THEN {1} ELSE {mtime, mtime + 1}

\* _persist: write_text opens the file, ...
AddTruncate(t) ==
    /\ pc[t] = "truncate"
    /\ torn' = TRUE
    /\ content' = {}
    /\ mtime' \in Stamps
    /\ sameTick' = (mtime' = mtime /\ (sameTick \/ ~ torn))
    /\ Goto(t, "write")
    /\ UNCHANGED <<procVars, stamp, data, history, envVars>>

\* ... fills it, ...
AddWrite(t) ==
    /\ pc[t] = "write"
    /\ torn' = FALSE
    /\ content' = runs[ProcOf[t]]
    /\ mtime' \in Stamps
    /\ sameTick' = (mtime' = mtime /\ sameTick)
    /\ Goto(t, "stat")
    /\ UNCHANGED <<procVars, stamp, data, history, envVars>>

\* ... and its mtime is noted; add returns and releases the lock.
AddStat(t) ==
    /\ pc[t] = "stat"
    /\ known' = [known EXCEPT ![ProcOf[t]] = mtime]
    /\ ok' = [ok EXCEPT ![ProcOf[t]] = TRUE]
    /\ Unlock(t)
    /\ Goto(t, "idle")
    /\ UNCHANGED <<runs, fileVars, stamp, data, history, envVars>>

NoteFailure(t) == ok' = [ok EXCEPT ![ProcOf[t]] = FALSE]

\* An exception inside _persist is swallowed.
AddFails(t) ==
    /\ pc[t] \in {"truncate", "write", "stat"} /\ faults < MaxFaults
    /\ faults' = faults + 1
    /\ NoteFailure(t)
    /\ Unlock(t)
    /\ Goto(t, "idle")
    /\ UNCHANGED <<runs, known, fileVars, stamp, data, history, crashes>>

-----------------------------------------------------------------------------
(* _refresh_from_disk, before get, list_recent and is_empty *)

IsStale(p) == mtime # 0 /\ (known[p] = 0 \/ mtime > known[p])

\* No reload: the table is read under the lock.
ReadTable(t) ==
    /\ pc[t] = "idle" /\ t \in Readers
    /\ ~ IsStale(ProcOf[t]) /\ lock[ProcOf[t]] = Free
    /\ UNCHANGED storeVars

RefreshStat(t) ==
    /\ pc[t] = "idle" /\ t \in Readers
    /\ IsStale(ProcOf[t])
    /\ stamp' = [stamp EXCEPT ![t] = mtime]
    /\ Goto(t, "read")
    /\ UNCHANGED <<procVars, fileVars, data, history, envVars>>

\* A truncated file does not parse: the table stays.
RefreshRead(t) ==
    /\ pc[t] = "read"
    /\ \/ torn /\ NoteFailure(t) /\ Return(t)
       \/ /\ ~torn /\ data' = [data EXCEPT ![t] = content]
          /\ Goto(t, "load") /\ UNCHANGED <<stamp, ok>>
    /\ UNCHANGED <<runs, known, lock, fileVars, history, envVars>>

NoteNow(t)   == known' = [known EXCEPT ![ProcOf[t]] = mtime]
NoteStamp(t) == known' = [known EXCEPT ![ProcOf[t]] = stamp[t]]

RefreshLoad(t) ==
    /\ pc[t] = "load" /\ lock[ProcOf[t]] = Free
    /\ runs' = [runs EXCEPT ![ProcOf[t]] = data[t]]
    /\ NoteStamp(t)
    /\ ok' = [ok EXCEPT ![ProcOf[t]] = TRUE]
    /\ Return(t)
    /\ UNCHANGED <<lock, fileVars, history, envVars>>

-----------------------------------------------------------------------------
\* The process dies and starts again; the constructor loads what it can parse.
RestartProcess(p) ==
    /\ crashes < MaxCrashes
    /\ crashes' = crashes + 1
    /\ runs' = [runs EXCEPT ![p] = content]
    /\ known' = [known EXCEPT ![p] = IF torn THEN 0 ELSE mtime]
    /\ ok' = [ok EXCEPT ![p] = TRUE]
    /\ lock' = [lock EXCEPT ![p] = Free]
    /\ pc' = [t \in Threads |-> IF ProcOf[t] = p THEN "idle" ELSE pc[t]]
    /\ stamp' = [t \in Threads |-> IF ProcOf[t] = p THEN 0 ELSE stamp[t]]
    /\ data' = [t \in Threads |-> IF ProcOf[t] = p THEN {} ELSE data[t]]
    /\ UNCHANGED <<fileVars, history, faults>>

StoreNext ==
    \/ \E t \in Threads :
         \/ \E r \in Runs : AddInsert(t, r)
         \/ AddTruncate(t)
         \/ AddWrite(t)
         \/ AddStat(t)
         \/ AddFails(t)
         \/ ReadTable(t)
         \/ RefreshStat(t)
         \/ RefreshRead(t)
         \/ RefreshLoad(t)
    \/ \E p \in Procs : RestartProcess(p)

StoreSpec == StoreInit /\ [][StoreNext]_storeVars

-----------------------------------------------------------------------------
(* Properties *)

\* The docstring's "bounded number of recent experiments" (storage.py:14): no
\* table and no file outgrows max_entries, whoever reloads whose file.
Bounded ==
    /\ Cardinality(content) <= MaxEntries
    /\ \A p \in Procs : Cardinality(runs[p]) <= MaxEntries

\* With one process: when a reader sees no reason to reload (the mtime it knows
\* is the file's, storage.py:104) and health_summary reports persist_ok, its table
\* is the file's content, whatever adds and reloads overlapped before (lines 91
\* and 114), unless the file was rewritten within one tick of its mtime: then a
\* reload that read the earlier of the two files is installed as the current one.
Coherent == \A p \in Procs :
    /\ Procs = {p} /\ lock[p] = Free /\ ok[p]
    /\ known[p] # 0 /\ known[p] = mtime /\ ~ sameTick
    => ~ torn /\ runs[p] = content

\* "It keeps a bounded number of recent experiments" (storage.py:14): what add
\* was given, and add did not drop as the oldest, is in a table or in the file.
NoLostRun == crashes = 0 =>
    \A r \in added \ evicted : r \in content \/ \E p \in Procs : r \in runs[p]
=============================================================================
