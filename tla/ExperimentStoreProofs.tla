----------------------- MODULE ExperimentStoreProofs -----------------------
(***************************************************************************)
(* The experiment store's bound, for any number of processes, threads and  *)
(* runs, and its coherence with the file for any number of threads of one  *)
(* process, whatever writes fail and whenever the processes restart.       *)
(***************************************************************************)
EXTENDS ExperimentStore, FiniteSetTheorems, WellFoundedInduction, TLAPS

USE ExperimentStoreAssumption

Adding == {"truncate", "write", "stat"}     \* inside add, past the table
Pcs    == Adding \union {"idle", "read", "load"}

TypeOK ==
    /\ runs \in [Procs -> SUBSET Runs]
    /\ known \in [Procs -> Nat]
    /\ ok \in [Procs -> BOOLEAN]
    /\ lock \in [Procs -> Threads \union {Free}]
    /\ content \in SUBSET Runs
    /\ torn \in BOOLEAN
    /\ mtime \in Nat /\ sameTick \in BOOLEAN
    /\ pc \in [Threads -> Pcs]
    /\ stamp \in [Threads -> Nat]
    /\ data \in [Threads -> SUBSET Runs]

\* Every copy of the table is within the bound: what a reload has read as well.
Within ==
    /\ Cardinality(content) <= MaxEntries
    /\ \A p \in Procs : Cardinality(runs[p]) <= MaxEntries
    /\ \A t \in Threads : Cardinality(data[t]) <= MaxEntries

\* The lock of a process is its adding thread's.
Locked ==
    /\ \A t \in Threads : pc[t] \in Adding => lock[ProcOf[t]] = t
    /\ \A p \in Procs : lock[p] # Free => ProcOf[lock[p]] = p /\ pc[lock[p]] \in Adding

\* What a reload holds is the file's content if the file has not moved since, and
\* was not rewritten without moving.
ReloadInv(t) ==
    /\ stamp[t] <= mtime
    /\ pc[t] = "load" /\ stamp[t] = mtime /\ ~ sameTick => ~ torn /\ data[t] = content

\* While add writes no reader can parse the file, and what it has written stays
\* until it has noted the mtime.
WrittenInv(t) ==
    /\ pc[t] = "write" => torn
    /\ pc[t] = "stat" => ~ torn /\ runs[ProcOf[t]] = content

Inv == \A p \in Procs : Procs = {p} =>
    /\ Locked
    /\ \A t \in Threads : ReloadInv(t) /\ WrittenInv(t)
    /\ Coherent

-----------------------------------------------------------------------------
(* The type invariant *)

\* The tables, the locks and what the threads have read keep their types.
THEOREM TypeCorrect == StoreSpec => []TypeOK
<1>1. StoreInit => TypeOK
  <2> SUFFICES ASSUME StoreInit PROVE TypeOK
    OBVIOUS
  <2>1. torn \in BOOLEAN /\ sameTick \in BOOLEAN
    BY DEF StoreInit
  <2>2. QED
    BY <2>1 DEF StoreInit, TypeOK, Pcs
<1>2. TypeOK /\ [StoreNext]_storeVars => TypeOK'
  <2> SUFFICES ASSUME TypeOK, [StoreNext]_storeVars PROVE TypeOK'
    OBVIOUS
  <2> USE DEF TypeOK, Pcs, Adding, procVars, fileVars, threadVars, Goto
  <2>1. ASSUME NEW t \in Threads, NEW r \in Runs, AddInsert(t, r) PROVE TypeOK'
    BY <2>1 DEF AddInsert
  <2>2. ASSUME NEW t \in Threads, AddTruncate(t) PROVE TypeOK'
    <3>1. /\ torn' = TRUE /\ content' = {}
          /\ sameTick' = (mtime' = mtime /\ (sameTick \/ ~ torn))
          /\ pc' = [pc EXCEPT ![t] = "write"]
          /\ UNCHANGED <<runs, known, ok, lock, stamp, data>>
      BY <2>2 DEF AddTruncate
    <3>2. content' \in SUBSET Runs /\ torn' \in BOOLEAN /\ sameTick' \in BOOLEAN
      BY <3>1
    <3>3. mtime' \in Nat
      BY <2>2 DEF AddTruncate, Stamps
    <3>4. QED
      BY <3>1, <3>2, <3>3
  <2>3. ASSUME NEW t \in Threads, AddWrite(t) PROVE TypeOK'
    <3>1. /\ torn' = FALSE /\ content' = runs[ProcOf[t]]
          /\ sameTick' = (mtime' = mtime /\ sameTick)
          /\ pc' = [pc EXCEPT ![t] = "stat"]
          /\ UNCHANGED <<runs, known, ok, lock, stamp, data>>
      BY <2>3 DEF AddWrite
    <3>2. content' \in SUBSET Runs /\ torn' \in BOOLEAN /\ sameTick' \in BOOLEAN
      BY <3>1
    <3>3. mtime' \in Nat
      BY <2>3 DEF AddWrite, Stamps
    <3>4. QED
      BY <3>1, <3>2, <3>3
  <2>4. ASSUME NEW t \in Threads, AddStat(t) PROVE TypeOK'
    BY <2>4 DEF AddStat, Unlock
  <2>5. ASSUME NEW t \in Threads, AddFails(t) PROVE TypeOK'
    BY <2>5 DEF AddFails, NoteFailure, Unlock
  <2>6. ASSUME NEW t \in Threads, RefreshStat(t) PROVE TypeOK'
    BY <2>6 DEF RefreshStat
  <2>7. ASSUME NEW t \in Threads, RefreshRead(t) PROVE TypeOK'
    <3>1. CASE torn
      <4>1. /\ ok' = [ok EXCEPT ![ProcOf[t]] = FALSE] /\ pc' = [pc EXCEPT ![t] = "idle"]
            /\ stamp' = [stamp EXCEPT ![t] = 0] /\ data' = [data EXCEPT ![t] = {}]
            /\ UNCHANGED <<runs, known, lock, content, torn, mtime, sameTick>>
        BY <2>7, <3>1 DEF RefreshRead, NoteFailure, Return
      <4>2. data' \in [Threads -> SUBSET Runs] /\ ok' \in [Procs -> BOOLEAN]
        BY <4>1
      <4>3. QED
        BY <4>1, <4>2
    <3>2. CASE ~ torn
      BY <2>7, <3>2 DEF RefreshRead
    <3>3. QED
      BY <3>1, <3>2
  <2>8. ASSUME NEW t \in Threads, RefreshLoad(t) PROVE TypeOK'
    BY <2>8 DEF RefreshLoad, NoteStamp, Return
  <2>9. ASSUME NEW p \in Procs, RestartProcess(p) PROVE TypeOK'
    BY <2>9 DEF RestartProcess
  <2>10. CASE UNCHANGED storeVars
    BY <2>10 DEF storeVars
  <2>11. QED
    BY <2>1, <2>2, <2>3, <2>4, <2>5, <2>6, <2>7, <2>8, <2>9, <2>10 DEF StoreNext, ReadTable
<1>3. QED
  BY <1>1, <1>2, PTL DEF StoreSpec

-----------------------------------------------------------------------------
(* The bound *)

\* Among any runs one has the earliest created_at (min of storage.py:76).
LEMMA HasOldest == ASSUME NEW S \in SUBSET Nat, S # {} PROVE Oldest(S) # {}
<1>1. PICK x \in S : \A y \in S : <<y, x>> \notin OpToRel(<, Nat)
  BY NatLessThanWellFounded, WFMin
<1>2. \A y \in S : ~ (y < x)
  BY <1>1 DEF OpToRel
<1>3. QED
  BY <1>2 DEF Oldest

\* add makes room for what it inserts.
LEMMA AddedWithin ==
    ASSUME NEW S \in SUBSET Runs, NEW r \in Runs, Cardinality(S) <= MaxEntries
    PROVE  Cardinality((S \union {r}) \ Surplus(S \union {r})) <= MaxEntries
<1> DEFINE U == S \union {r}
<1>1. IsFiniteSet(S) /\ IsFiniteSet(U)
  BY FS_Subset, FS_AddElement
<1>2. Cardinality(S) \in Nat /\ Cardinality(U) \in Nat
  BY <1>1, FS_CardinalityType
<1>3. Cardinality(U) <= Cardinality(S) + 1
  <2>1. Cardinality(U) = IF r \in S THEN Cardinality(S) ELSE Cardinality(S) + 1
    BY <1>1, FS_AddElement
  <2>2. QED
    BY <1>2, <2>1
<1>4. CASE Cardinality(U) > MaxEntries
  <2>1. PICK x \in U : x \in Oldest(U)
    BY HasOldest DEF Oldest
  <2>2. U \ Oldest(U) \subseteq U \ {x}
    BY <2>1
  <2>3. IsFiniteSet(U \ {x}) /\ Cardinality(U \ {x}) = Cardinality(U) - 1
    BY <1>1, <2>1, FS_RemoveElement
  <2>4. /\ Cardinality(U \ Oldest(U)) <= Cardinality(U \ {x})
        /\ Cardinality(U \ Oldest(U)) \in Nat
    BY <2>2, <2>3, FS_Subset, FS_CardinalityType
  <2>5. U \ Surplus(U) = U \ Oldest(U)
    BY <1>4 DEF Surplus
  <2>6. Cardinality(U \ Oldest(U)) <= MaxEntries
    BY <1>2, <1>3, <2>3, <2>4
  <2>7. QED
    BY <2>5, <2>6
<1>5. CASE ~ (Cardinality(U) > MaxEntries)
  <2>1. U \ Surplus(U) = U
    BY <1>5 DEF Surplus
  <2>2. QED
    BY <1>2, <1>5, <2>1
<1>6. QED
  BY <1>4, <1>5

\* "It keeps a bounded number of recent experiments" (storage.py:14): no table
\* and no file outgrows max_entries, whichever process reloads whose file and
\* however its reads and the other's writes overlap.
THEOREM BoundedHolds == StoreSpec => []Bounded
<1>0. Cardinality({}) <= MaxEntries
  BY FS_EmptySet
<1>1. StoreInit => Within
  BY <1>0 DEF StoreInit, Within
<1>2. TypeOK /\ Within /\ [StoreNext]_storeVars => Within'
  <2> SUFFICES ASSUME TypeOK, Within, [StoreNext]_storeVars PROVE Within'
    OBVIOUS
  <2> USE DEF Within, TypeOK, procVars, fileVars, threadVars
  <2>1. ASSUME NEW t \in Threads, NEW r \in Runs, AddInsert(t, r) PROVE Within'
    <3> DEFINE table == runs[ProcOf[t]] \union {r}
    <3>1. Cardinality(table \ Surplus(table)) <= MaxEntries
      BY AddedWithin
    <3>2. /\ runs' = [runs EXCEPT ![ProcOf[t]] = table \ Surplus(table)]
          /\ UNCHANGED <<content, data>>
      BY <2>1 DEF AddInsert
    <3> HIDE DEF table
    <3>3. QED
      BY <3>1, <3>2
  <2>2. ASSUME NEW t \in Threads, AddTruncate(t) PROVE Within'
    BY <1>0, <2>2 DEF AddTruncate
  <2>3. ASSUME NEW t \in Threads, AddWrite(t) PROVE Within'
    BY <2>3 DEF AddWrite
  <2>4. ASSUME NEW t \in Threads, AddStat(t) \/ AddFails(t) \/ RefreshStat(t) PROVE Within'
    BY <2>4 DEF AddStat, AddFails, RefreshStat
  <2>5. ASSUME NEW t \in Threads, RefreshRead(t) PROVE Within'
    BY <1>0, <2>5 DEF RefreshRead, Return
  <2>6. ASSUME NEW t \in Threads, RefreshLoad(t) PROVE Within'
    BY <1>0, <2>6 DEF RefreshLoad, Return
  <2>7. ASSUME NEW p \in Procs, RestartProcess(p) PROVE Within'
    BY <1>0, <2>7 DEF RestartProcess
  <2>8. CASE UNCHANGED storeVars
    BY <2>8 DEF storeVars
  <2>9. QED
    BY <2>1, <2>2, <2>3, <2>4, <2>5, <2>6, <2>7, <2>8 DEF StoreNext, ReadTable
<1>3. Within => Bounded
  BY DEF Within, Bounded
<1>4. QED
  BY <1>1, <1>2, <1>3, TypeCorrect, PTL DEF StoreSpec

-----------------------------------------------------------------------------
(* Coherence *)

\* One step of a thread of the only process, or its restart.
LEMMA InvInductive == TypeOK /\ Inv /\ [StoreNext]_storeVars => Inv'
<1> SUFFICES ASSUME TypeOK, Inv, [StoreNext]_storeVars, NEW p \in Procs, Procs = {p}
             PROVE  /\ Locked'
                    /\ \A t \in Threads : ReloadInv(t)' /\ WrittenInv(t)'
                    /\ Coherent'
  BY DEF Inv
<1>0. /\ Locked /\ Coherent
      /\ \A t \in Threads : ReloadInv(t) /\ WrittenInv(t) /\ ProcOf[t] = p
  BY DEF Inv
<1> DEFINE Parts == /\ Locked
                    /\ \A t \in Threads : ReloadInv(t) /\ WrittenInv(t)
                    /\ Coherent
<1> USE <1>0 DEF TypeOK, Adding, procVars, fileVars, threadVars, Goto, Unlock
<1>1. ASSUME NEW t \in Threads, NEW r \in Runs, AddInsert(t, r) PROVE Parts'
  BY <1>1 DEF AddInsert, Locked, ReloadInv, WrittenInv, Coherent
<1>2. ASSUME NEW t \in Threads, AddTruncate(t) PROVE Parts'
  <2>1. /\ pc[t] = "truncate" /\ pc' = [pc EXCEPT ![t] = "write"] /\ torn' = TRUE
        /\ sameTick' = (mtime' = mtime /\ (sameTick \/ ~ torn))
        /\ UNCHANGED <<runs, known, ok, lock, stamp, data>>
    BY <1>2 DEF AddTruncate
  <2>2. mtime' = mtime \/ mtime' = mtime + 1
    BY <1>2 DEF AddTruncate, Stamps
  <2>3. lock[p] = t /\ t # Free
    BY <2>1 DEF Locked
  <2>4. Locked'
    BY <2>1, <2>3 DEF Locked
  <2>5. \A u \in Threads : ReloadInv(u)' /\ WrittenInv(u)'
    <3> SUFFICES ASSUME NEW u \in Threads PROVE ReloadInv(u)' /\ WrittenInv(u)'
      OBVIOUS
    <3>1. WrittenInv(u)'
      BY <2>1, <2>3 DEF WrittenInv, Locked
    <3>2. ReloadInv(u)'
      <4>1. (stamp[u] <= mtime)'
        BY <2>1, <2>2 DEF ReloadInv
      <4>2. ASSUME pc'[u] = "load", stamp[u] = mtime', ~ sameTick' PROVE FALSE
        <5>1. pc[u] = "load"
          BY <2>1, <4>2
        <5>2. mtime' # mtime
          <6> SUFFICES ASSUME mtime' = mtime PROVE FALSE
            OBVIOUS
          <6>1. ~ sameTick /\ torn
            BY <2>1, <4>2
          <6> QED
            BY <4>2, <5>1, <6>1 DEF ReloadInv
        <5> QED
          BY <2>2, <4>2, <5>2 DEF ReloadInv
      <4> QED
        BY <2>1, <4>1, <4>2 DEF ReloadInv
    <3> QED
      BY <3>1, <3>2
  <2>6. Coherent'
    BY <2>1, <2>3 DEF Coherent
  <2> QED
    BY <2>4, <2>5, <2>6
<1>3. ASSUME NEW t \in Threads, AddWrite(t) PROVE Parts'
  BY <1>3 DEF AddWrite, Stamps, Locked, ReloadInv, WrittenInv, Coherent
<1>4. ASSUME NEW t \in Threads, AddStat(t) PROVE Parts'
  BY <1>4 DEF AddStat, Locked, ReloadInv, WrittenInv, Coherent
<1>5. ASSUME NEW t \in Threads, AddFails(t) PROVE Parts'
  BY <1>5 DEF AddFails, NoteFailure, Locked, ReloadInv, WrittenInv, Coherent
<1>6. ASSUME NEW t \in Threads, RefreshStat(t) PROVE Parts'
  BY <1>6 DEF RefreshStat, Locked, ReloadInv, WrittenInv, Coherent
<1>7. ASSUME NEW t \in Threads, RefreshRead(t) PROVE Parts'
  <2>1. CASE torn
    BY <1>7, <2>1 DEF RefreshRead, NoteFailure, Return, Locked, ReloadInv, WrittenInv, Coherent
  <2>2. CASE ~ torn
    BY <1>7, <2>2 DEF RefreshRead, Locked, ReloadInv, WrittenInv, Coherent
  <2>3. QED
    BY <2>1, <2>2
<1>8. ASSUME NEW t \in Threads, RefreshLoad(t) PROVE Parts'
  BY <1>8 DEF RefreshLoad, NoteStamp, Return, Locked, ReloadInv, WrittenInv, Coherent
<1>9. CASE RestartProcess(p)
  BY <1>9 DEF RestartProcess, Locked, ReloadInv, WrittenInv, Coherent
<1>10. CASE UNCHANGED storeVars
  BY <1>10 DEF storeVars, Locked, ReloadInv, WrittenInv, Coherent
<1>11. QED
  BY <1>1, <1>2, <1>3, <1>4, <1>5, <1>6, <1>7, <1>8, <1>9, <1>10 DEF StoreNext, ReadTable

\* With one process, a table that nobody sees a reason to reload is the file's
\* content, whatever adds and reloads of its threads overlapped and whichever
\* writes failed (storage.py:91 and 114), unless two writes share the tick of the
\* file's mtime, which is all that storage.py:104 compares.
THEOREM CoherentHolds == StoreSpec => []Coherent
<1>1. StoreInit => Inv
  BY DEF StoreInit, Inv, Locked, ReloadInv, WrittenInv, Coherent, Adding
<1>2. Inv => Coherent
  BY DEF Inv, Coherent
<1>3. QED
  BY <1>1, <1>2, TypeCorrect, InvInductive, PTL DEF StoreSpec
=============================================================================
