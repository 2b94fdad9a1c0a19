---------------------- MODULE FillerProcessProofs ----------------------
(***************************************************************************)
(* The parts of a reader process, for any values of their constants: a       *)
(* transaction and its client (ContractTransaction), its                     *)
(* jobs give way to a reader that is behind (JobQueue), it passes over no     *)
(* block (ReaderProcess), the marker of version 2 and the rows it stands for  *)
(* are complete (V2Continuity), and its schema is the one of its image        *)
(* (Migrations).                                                            *)
(*                                                                          *)
(* A step of the process is a step of one of the parts and leaves the        *)
(* variables of the others alone, so that what is inductive for the steps of  *)
(* a part is an invariant of the process.                                   *)
(***************************************************************************)
EXTENDS MCFillerProcess, FiniteSetTheorems, SequenceTheorems, TLAPS

-----------------------------------------------------------------------------
(* The lock.                                                                *)

Locks == {<<>>, <<"worker">>, <<"hook">>, <<"worker", "hook">>, <<"hook", "worker">>}
WorkerQueued == lock \in {<<"worker">>, <<"worker", "hook">>, <<"hook", "worker">>}
HookQueued == lock \in {<<"hook">>, <<"worker", "hook">>, <<"hook", "worker">>}

LEMMA AppendToOne ==
  ASSUME NEW a, NEW b
  PROVE  Append(<<a>>, b) = <<a, b>>
<1> DEFINE t == <<a>>
           s == Append(t, b)
<1>1. t \in Seq({a, b}) /\ Len(t) = 1 /\ t[1] = a
  OBVIOUS
<1> HIDE DEF t
<1>2. /\ s \in Seq({a, b}) /\ Len(s) = Len(t) + 1
      /\ \A i \in 1..Len(t) : s[i] = t[i]
      /\ s[Len(t) + 1] = b
  <2>1. b \in {a, b}
    OBVIOUS
  <2> QED BY <1>1, <2>1, AppendProperties, ZenonT(60)
<1>3. ASSUME NEW u \in Seq({a, b}), Len(u) = 2, u[1] = a, u[2] = b
      PROVE  u = <<a, b>>
  BY <1>3
<1> HIDE DEF s
<1>4. s = <<a, b>>
  BY <1>1, <1>2, <1>3
<1> QED BY <1>4 DEF s, t

LEMMA AcquireWorker ==
  ASSUME lock \in Locks, ~WorkerQueued, Acquire("worker")
  PROVE  \/ lock = <<>> /\ lock' = <<"worker">>
         \/ lock = <<"hook">> /\ lock' = <<"hook", "worker">>
<1>1. CASE lock = <<>>
  BY <1>1 DEF Acquire
<1>2. CASE lock = <<"hook">>
  <2>1. lock' = Append(<<"hook">>, "worker")
    BY <1>2 DEF Acquire
  <2> QED BY <1>2, <2>1, AppendToOne
<1> QED BY <1>1, <1>2 DEF Locks, WorkerQueued

LEMMA AcquireHook ==
  ASSUME lock \in Locks, ~HookQueued, Acquire("hook")
  PROVE  \/ lock = <<>> /\ lock' = <<"hook">>
         \/ lock = <<"worker">> /\ lock' = <<"worker", "hook">>
<1>1. CASE lock = <<>>
  BY <1>1 DEF Acquire
<1>2. CASE lock = <<"worker">>
  <2>1. lock' = Append(<<"worker">>, "hook")
    BY <1>2 DEF Acquire
  <2> QED BY <1>2, <2>1, AppendToOne
<1> QED BY <1>1, <1>2 DEF Locks, HookQueued

LEMMA ReleaseWorker ==
  ASSUME lock \in Locks, Holds("worker"), Release
  PROVE  \/ lock = <<"worker">> /\ lock' = <<>>
         \/ lock = <<"worker", "hook">> /\ lock' = <<"hook">>
<1>1. lock # <<>> /\ lock # <<"hook">> /\ lock # <<"hook", "worker">>
  BY DEF Holds
<1>2. CASE lock = <<"worker">>
  BY <1>2 DEF Release
<1>3. CASE lock = <<"worker", "hook">>
  BY <1>3 DEF Release
<1> QED BY <1>1, <1>2, <1>3 DEF Locks

LEMMA ReleaseHook ==
  ASSUME lock \in Locks, Holds("hook"), Release
  PROVE  \/ lock = <<"hook">> /\ lock' = <<>>
         \/ lock = <<"hook", "worker">> /\ lock' = <<"worker">>
<1>1. lock # <<>> /\ lock # <<"worker">> /\ lock # <<"worker", "hook">>
  BY DEF Holds
<1>2. CASE lock = <<"hook">>
  BY <1>2 DEF Release
<1>3. CASE lock = <<"hook", "worker">>
  BY <1>3 DEF Release
<1> QED BY <1>1, <1>2, <1>3 DEF Locks

LEMMA LocksDiffer ==
  /\ <<>> # <<"worker">> /\ <<>> # <<"hook">>
  /\ <<>> # <<"worker", "hook">> /\ <<>> # <<"hook", "worker">>
  /\ <<"worker">> # <<"hook">>
  /\ <<"worker">> # <<"worker", "hook">> /\ <<"worker">> # <<"hook", "worker">>
  /\ <<"hook">> # <<"worker", "hook">> /\ <<"hook">> # <<"hook", "worker">>
  /\ <<"worker", "hook">> # <<"hook", "worker">>
  OBVIOUS

(***************************************************************************)
(* Whoever waits for the lock, or holds it, is in its queue, once.          *)
(***************************************************************************)
Waiting == {"op", "chunk", "flush", "logs", "commit", "abort"}

LockInv ==
  /\ pc \in [worker: WorkerStates, hook: {"idle", "abort", "done"}]
  /\ lock \in Locks
  /\ pc.worker \in Waiting <=> WorkerQueued
  /\ pc.hook = "abort" <=> HookQueued

\* The three ways in which the worker moves, and what each means to a hook
\* that is in the queue already.
LEMMA WorkerStays ==
  ASSUME LockInv, NEW l \in WorkerStates \ Waiting, pc.worker \notin Waiting,
         Goto("worker", l), UNCHANGED lock
  PROVE  LockInv' /\ (HookQueued => lock' = <<"hook">>) /\ pc'.worker = l
<1>1. pc' = [pc EXCEPT !.worker = l]
  BY DEF Goto
<1>2. pc'.worker = l /\ pc'.hook = pc.hook
      /\ pc' \in [worker: WorkerStates, hook: {"idle", "abort", "done"}]
  BY <1>1 DEF LockInv
<1>3. HookQueued => lock' = <<"hook">>
  BY LocksDiffer DEF LockInv, HookQueued, WorkerQueued
<1> QED BY <1>2, <1>3 DEF LockInv, WorkerQueued, HookQueued

LEMMA WorkerAcquires ==
  ASSUME LockInv, NEW l \in WorkerStates \cap Waiting, pc.worker \notin Waiting,
         Goto("worker", l), Acquire("worker")
  PROVE  /\ LockInv' /\ pc'.worker = l
         /\ HookQueued => lock' = <<"hook", "worker">>
<1>1. pc' = [pc EXCEPT !.worker = l]
  BY DEF Goto
<1>2. pc'.worker = l /\ pc'.hook = pc.hook
      /\ pc' \in [worker: WorkerStates, hook: {"idle", "abort", "done"}]
  BY <1>1 DEF LockInv
<1>3. \/ lock = <<>> /\ lock' = <<"worker">>
      \/ lock = <<"hook">> /\ lock' = <<"hook", "worker">>
  BY AcquireWorker DEF LockInv
<1> QED BY <1>2, <1>3, LocksDiffer DEF LockInv, WorkerQueued, HookQueued, Locks

LEMMA WorkerReleases ==
  ASSUME LockInv, NEW l \in WorkerStates \ Waiting, Holds("worker"),
         Goto("worker", l), Release
  PROVE  /\ LockInv' /\ pc'.worker = l
         /\ HookQueued => lock = <<"worker", "hook">> /\ lock' = <<"hook">>
<1>1. pc' = [pc EXCEPT !.worker = l]
  BY DEF Goto
<1>2. pc'.worker = l /\ pc'.hook = pc.hook
      /\ pc' \in [worker: WorkerStates, hook: {"idle", "abort", "done"}]
  BY <1>1 DEF LockInv
<1>3. \/ lock = <<"worker">> /\ lock' = <<>>
      \/ lock = <<"worker", "hook">> /\ lock' = <<"hook">>
  BY ReleaseWorker DEF LockInv
<1> QED BY <1>2, <1>3, LocksDiffer DEF LockInv, WorkerQueued, HookQueued, Locks

\* A hook that is in the queue is ahead of all the worker asks for later.
LEMMA WorkerLock ==
  ASSUME LockInv, Worker
  PROVE  LockInv' /\ (HookQueued => HookQueued' /\ lock' # <<"worker", "hook">>)
<1> USE DEF WorkerStates, Waiting
<1>1. CASE pc.worker \notin Waiting /\ UNCHANGED <<pc, lock>>
  <2>1. HookQueued => lock' = <<"hook">>
    BY <1>1, LocksDiffer DEF LockInv, HookQueued, WorkerQueued
  <2>2. LockInv'
    BY <1>1 DEF LockInv, WorkerQueued, HookQueued
  <2> QED BY <2>1, <2>2, LocksDiffer DEF HookQueued
<1>2. CASE \E l \in WorkerStates \ Waiting :
              pc.worker \notin Waiting /\ Goto("worker", l) /\ UNCHANGED lock
  BY <1>2, WorkerStays, LocksDiffer DEF HookQueued
<1>3. CASE \E l \in WorkerStates \cap Waiting :
              pc.worker \notin Waiting /\ Goto("worker", l) /\ Acquire("worker")
  BY <1>3, WorkerAcquires, LocksDiffer DEF HookQueued
<1>4. CASE \E l \in WorkerStates \ Waiting :
              Holds("worker") /\ Goto("worker", l) /\ Release
  BY <1>4, WorkerReleases, LocksDiffer DEF HookQueued
<1>5. CASE LogTrace
  BY <1>1, <1>5 DEF LogTrace
<1>6. CASE BufferRow
  BY <1>1, <1>6 DEF BufferRow
<1>7. CASE CallStatement
  BY <1>3, <1>7 DEF CallStatement
<1>8. CASE CallRollback
  BY <1>3, <1>8 DEF CallRollback
<1>9. CASE Raise
  BY <1>4, <1>9 DEF Raise
<1>10. CASE Statement
  BY <1>4, <1>10 DEF Statement
<1>11. CASE RollbackChunk
  BY <1>4, <1>11 DEF RollbackChunk
<1>12. CASE CallCommit
  BY <1>2, <1>12 DEF CallCommit, Returns
<1>13. CASE CommitFlush
  BY <1>2, <1>3, <1>13 DEF CommitFlush
<1>14. CASE FlushRow
  BY <1>4, <1>14 DEF FlushRow
<1>15. CASE CommitLogs
  BY <1>3, <1>15 DEF CommitLogs
<1>16. CASE InsertLogs
  BY <1>4, <1>16 DEF InsertLogs
<1>17. CASE CommitLocked
  BY <1>4, <1>17 DEF CommitLocked, Returns
<1>18. CASE WorkerAborts
  BY <1>2, <1>3, <1>18 DEF WorkerAborts, CallAbort
<1>19. CASE AbortLocked("worker")
  BY <1>4, <1>19 DEF AbortLocked
<1> QED BY <1>5, <1>6, <1>7, <1>8, <1>9, <1>10, <1>11, <1>12, <1>13, <1>14, <1>15,
           <1>16, <1>17, <1>18, <1>19 DEF Worker

LEMMA HookLock ==
  ASSUME LockInv, Hook
  PROVE  /\ LockInv' /\ pc'.worker = pc.worker
         /\ HookQueued' => lock' = IF lock = <<>> THEN <<"hook">> ELSE <<"worker", "hook">>
<1>1. CASE HookAborts
  <2>1. CASE finalized
    <3>1. pc' = [pc EXCEPT !.hook = "done"] /\ UNCHANGED lock /\ pc.hook = "idle"
      BY <1>1, <2>1 DEF HookAborts, CallAbort, Goto
    <3> QED BY <3>1 DEF LockInv, WorkerQueued, HookQueued
  <2>2. CASE ~finalized
    <3>1. pc' = [pc EXCEPT !.hook = "abort"] /\ Acquire("hook") /\ pc.hook = "idle"
      BY <1>1, <2>2 DEF HookAborts, CallAbort, Goto
    <3>2. \/ lock = <<>> /\ lock' = <<"hook">>
          \/ lock = <<"worker">> /\ lock' = <<"worker", "hook">>
      BY <3>1, AcquireHook DEF LockInv
    <3> QED BY <3>1, <3>2, LocksDiffer DEF LockInv, WorkerQueued, HookQueued, Locks
  <2> QED BY <2>1, <2>2
<1>2. CASE AbortLocked("hook")
  <2>1. pc' = [pc EXCEPT !.hook = "done"] /\ Holds("hook") /\ Release
    BY <1>2 DEF AbortLocked, Goto
  <2>2. \/ lock = <<"hook">> /\ lock' = <<>>
        \/ lock = <<"hook", "worker">> /\ lock' = <<"worker">>
    BY <2>1, ReleaseHook DEF LockInv
  <2> QED BY <2>1, <2>2, LocksDiffer DEF LockInv, WorkerQueued, HookQueued, Locks
<1> QED BY <1>1, <1>2 DEF Hook

-----------------------------------------------------------------------------
(* The counters, and the numbers of the rows and traces.                    *)

Numbered == IsFiniteSet(issued) /\ issued = 1..Cardinality(issued)

LEMMA FreshIsNew ==
  ASSUME Numbered
  PROVE  /\ Fresh \in Nat \ {0} /\ Fresh \notin issued
         /\ issued' = issued \cup {Fresh} => Numbered'
<1>1. Cardinality(issued) \in Nat
  BY FS_CardinalityType DEF Numbered
<1>2. Fresh \in Nat \ {0} /\ Fresh \notin issued
  BY <1>1 DEF Numbered, Fresh
<1>3. ASSUME issued' = issued \cup {Fresh} PROVE Numbered'
  <2>1. IsFiniteSet(issued') /\ Cardinality(issued') = Cardinality(issued) + 1
    BY <1>2, <1>3, FS_AddElement DEF Numbered
  <2>2. issued' = 1..(Cardinality(issued) + 1)
    BY <1>1, <1>3 DEF Numbered, Fresh
  <2> QED BY <2>1, <2>2 DEF Numbered
<1> QED BY <1>2, <1>3

\* Each opening registers the transaction once, and each chunk opens it again.
CountInv ==
  /\ {begun, finalized, stray} \subseteq BOOLEAN
  /\ registered \in Nat /\ chunks \in 0..MaxChunks
  /\ registered <= 2 * chunks + (IF begun THEN 1 ELSE 0)
  /\ released = IF finalized THEN 1 ELSE 0
  /\ pc.worker = "chunk" => chunks < MaxChunks
  /\ pc.worker = "done" => finalized
  /\ finalized /\ ~stray => registered = 0
  /\ buffered \in Modes
  /\ result \in {"none", "returned", "raised"}
  /\ Numbered /\ issued \subseteq Items
  /\ pc.worker = "op" => Fresh \in Items

\* What a step may do to the counters, by its kind.
LEMMA CountKept ==
  ASSUME CountInv, UNCHANGED <<buffered, state, issued, chunks, stray>>,
         pc'.worker = "chunk" => chunks < MaxChunks,
         pc'.worker = "done" => finalized,
         pc'.worker = "op" => Fresh \in Items,
         result' \in {"none", "returned", "raised"}
  PROVE  CountInv'
  BY DEF CountInv, state, Numbered, Fresh

LEMMA CountWrite ==
  ASSUME CountInv, NEW rows, Write(rows), UNCHANGED <<buffered, finalized, released, chunks>>,
         pc'.worker \notin {"chunk", "done", "op"}, UNCHANGED result,
         Numbered' /\ issued' \subseteq Items
  PROVE  CountInv'
<1>1. CASE finalized
  BY <1>1 DEF CountInv, Write
<1>2. CASE ~finalized
  <2>1. begun' = TRUE /\ registered' = (IF begun THEN registered ELSE registered + 1) /\ stray' = stray
    BY <1>2 DEF Write
  <2>2. registered' \in Nat /\ registered' <= 2 * chunks + 1
    BY <2>1, TransactionAssumption DEF CountInv
  <2> QED BY <1>2, <2>1, <2>2 DEF CountInv
<1> QED BY <1>1, <1>2

LEMMA CountFinalize ==
  ASSUME CountInv, ~finalized, Finalize, UNCHANGED <<buffered, begun, issued, chunks, stray>>,
         pc'.worker = "chunk" => chunks < MaxChunks,
         pc'.worker = "op" => Fresh \in Items,
         result' \in {"none", "returned", "raised"}
  PROVE  CountInv'
  BY TransactionAssumption DEF CountInv, Finalize, Deregister, Numbered, Fresh

LEMMA WorkerCounts ==
  ASSUME LockInv, CountInv, Worker
  PROVE  CountInv'
<1> USE DEF state
<1>0. /\ \A l \in WorkerStates : Goto("worker", l) => pc'.worker = l
      /\ UNCHANGED buffered
      /\ CountInv => result \in {"none", "returned", "raised"}
  BY DEF LockInv, Goto, Worker, CountInv
<1> USE DEF WorkerStates
<1>1. CASE LogTrace \/ BufferRow
  <2>1. /\ issued' = issued \cup {Fresh} /\ Fresh \in Items
        /\ UNCHANGED <<pc, begun, registered, finalized, released, chunks, stray, result>>
        /\ pc.worker = "run"
    BY <1>1 DEF LogTrace, BufferRow
  <2>2. Numbered' /\ issued' \subseteq Items
    BY <2>1, FreshIsNew DEF CountInv
  <2> QED BY <1>0, <2>1, <2>2 DEF CountInv
<1>2. CASE CallStatement \/ CallRollback
  BY <1>0, <1>2, CountKept DEF CallStatement, CallRollback
<1>3. CASE Raise
  <2>1. pc'.worker = "failed"
    BY <1>0, <1>3 DEF Raise
  <2>2. begun' \in {begun, TRUE} /\ UNCHANGED <<registered, chunks>>
    BY <1>3 DEF Raise
  <2>3. begun' \in BOOLEAN /\ registered <= 2 * chunks + (IF begun' THEN 1 ELSE 0)
    <3>1. CASE begun' = begun
      BY <2>2, <3>1 DEF CountInv
    <3>2. CASE begun' = TRUE
      <4>1. registered <= 2 * chunks + 1
        BY TransactionAssumption DEF CountInv
      <4> QED BY <3>2, <4>1
    <3> QED BY <2>2, <3>1, <3>2
  <2>4. Numbered' /\ UNCHANGED <<issued, finalized, released, stray, result>>
    BY <1>3 DEF Raise, CountInv, Numbered
  <2> QED BY <1>0, <2>1, <2>2, <2>3, <2>4 DEF CountInv
<1>4. CASE Statement
  <2>1. Numbered' /\ issued' \subseteq Items
    BY <1>4, FreshIsNew DEF Statement, CountInv
  <2>2. pc'.worker = "run"
    BY <1>0, <1>4 DEF Statement
  <2> QED BY <1>0, <1>4, <2>1, <2>2, CountWrite DEF Statement
<1>5. CASE RollbackChunk
  <2>1. pc'.worker = "run" /\ pc.worker = "chunk"
    BY <1>0, <1>5 DEF RollbackChunk
  <2> QED BY <1>0, <1>5, <2>1, TransactionAssumption DEF RollbackChunk, CountInv, Numbered, Fresh
<1>6. CASE CallCommit
  BY <1>0, <1>6, CountKept DEF CallCommit, Returns
<1>7. CASE CommitFlush
  BY <1>0, <1>7, CountKept DEF CommitFlush
<1>8. CASE FlushRow
  <2>1. pc'.worker = "committing" /\ Numbered' /\ issued' \subseteq Items /\ UNCHANGED <<result, chunks>>
    BY <1>0, <1>8 DEF FlushRow, CountInv, Numbered
  <2>2. CASE pending = {}
    BY <1>0, <1>8, <2>1, <2>2, CountKept DEF FlushRow
  <2>3. CASE pending # {}
    BY <1>0, <1>8, <2>1, <2>3, CountWrite DEF FlushRow
  <2> QED BY <2>2, <2>3
<1>9. CASE CommitLogs
  BY <1>0, <1>9, CountKept DEF CommitLogs
<1>10. CASE InsertLogs
  <2>1. pc'.worker = "wantCommit" /\ Numbered' /\ issued' \subseteq Items
    BY <1>0, <1>10 DEF InsertLogs, CountInv, Numbered
  <2> QED BY <1>0, <1>10, <2>1, CountWrite DEF InsertLogs
<1>11. CASE CommitLocked
  <2>1. pc'.worker \in {"done", "failed"} /\ result' \in {"none", "returned", "raised"}
    BY <1>0, <1>11 DEF CommitLocked, Returns, CountInv
  <2>2. CASE finalized
    BY <1>0, <1>11, <2>1, <2>2, CountKept DEF CommitLocked, AlreadyFinalized
  <2>3. CASE ~finalized
    BY <1>0, <1>11, <2>1, <2>3, CountFinalize DEF CommitLocked, AlreadyFinalized
  <2> QED BY <2>2, <2>3
<1>12. CASE WorkerAborts
  BY <1>0, <1>12, CountKept DEF WorkerAborts, CallAbort
<1>13. CASE AbortLocked("worker")
  <2>1. pc'.worker = "done" /\ result' = "raised"
    BY <1>0, <1>13 DEF AbortLocked
  <2>2. CASE finalized
    BY <1>0, <1>13, <2>1, <2>2, CountKept DEF AbortLocked, AlreadyFinalized
  <2>3. CASE ~finalized
    BY <1>0, <1>13, <2>1, <2>3, CountFinalize DEF AbortLocked, AlreadyFinalized
  <2> QED BY <2>2, <2>3
<1> QED BY <1>1, <1>2, <1>3, <1>4, <1>5, <1>6, <1>7, <1>8, <1>9, <1>10, <1>11, <1>12,
           <1>13 DEF Worker

LEMMA HookCounts ==
  ASSUME LockInv, CountInv, Hook
  PROVE  CountInv'
<1>1. pc'.worker = pc.worker /\ UNCHANGED <<buffered, issued, chunks, stray, begun, result>>
  BY HookLock DEF Hook, HookAborts, AbortLocked, CallAbort, state
<1>2. /\ pc'.worker = "chunk" => chunks < MaxChunks
      /\ pc'.worker = "done" => finalized
      /\ pc'.worker = "op" => Fresh \in Items
      /\ result' \in {"none", "returned", "raised"}
  BY <1>1 DEF CountInv
<1>3. CASE HookAborts
  BY <1>1, <1>2, <1>3, CountKept DEF HookAborts, state
<1>4. CASE AbortLocked("hook")
  <2>1. CASE finalized
    BY <1>1, <1>2, <1>4, <2>1, CountKept DEF AbortLocked, AlreadyFinalized, state
  <2>2. CASE ~finalized
    BY <1>1, <1>2, <1>4, <2>2, CountFinalize DEF AbortLocked, AlreadyFinalized
  <2> QED BY <2>1, <2>2
<1> QED BY <1>3, <1>4 DEF Hook

-----------------------------------------------------------------------------
(* The rows.                                                                *)

\* The hook clears the buffers before it waits for the lock.  Unless the
\* worker's commit is already under way, no commit comes before its abort.
Overtaken == HookQueued /\ ~(lock = <<"worker", "hook">> /\ pc.worker = "commit")

Unfinished == ~stray /\ ~finalized

RowsInv ==
  /\ pending \cup logs \cup traces \cup staged \cup durable \cup partial \subseteq issued
  /\ logs \cap (pending \cup staged \cup durable) = {}
  /\ pc.worker \in {"wantCommit", "logs", "commit"} => pending \subseteq traces
  /\ Unfinished => durable = partial
  /\ Unfinished /\ ~Overtaken /\ pc.worker # "abort" =>
       issued \ (logs \cup traces) = (pending \cup staged \cup durable) \ traces
  /\ finalized /\ ~stray =>
       \/ durable = partial
       \/ /\ pc.worker \in {"failed", "abort", "done"}
          /\ durable \ traces = issued \ (logs \cup traces)

LEMMA StagedKept ==
  ASSUME RowsInv, UNCHANGED <<finalized, stray, data, issued>>,
         ~Overtaken' => ~Overtaken,
         pc'.worker \in {"wantCommit", "logs", "commit"} => pending \subseteq traces,
         pc.worker \in {"failed", "abort", "done"} => pc'.worker \in {"failed", "abort", "done"},
         pc.worker = "abort" => pc'.worker = "abort" \/ finalized
  PROVE  RowsInv'
<1>1. UNCHANGED <<pending, logs, traces, staged, durable, partial>>
  BY DEF data
<1> QED BY <1>1 DEF RowsInv, Unfinished

LEMMA WorkerRows ==
  ASSUME LockInv, CountInv, RowsInv, Worker
  PROVE  RowsInv'
<1> USE DEF WorkerStates
<1>0. /\ \A l \in WorkerStates : Goto("worker", l) => pc'.worker = l
      /\ ~Overtaken' => ~Overtaken
      /\ Numbered
  BY WorkerLock DEF LockInv, CountInv, Goto, Overtaken
<1>f. Fresh \notin issued
  BY <1>0, FreshIsNew
<1>1. CASE LogTrace
  <2>1. /\ logs' = logs \cup {Fresh} /\ issued' = issued \cup {Fresh}
        /\ UNCHANGED <<pc, pending, traces, staged, durable, partial, stray, finalized>>
        /\ pc.worker = "run"
    BY <1>1 DEF LogTrace, state
  <2> QED BY <1>0, <1>f, <2>1 DEF RowsInv, Unfinished
<1>2. CASE BufferRow
  <2>1. /\ pending' = pending \cup {Fresh} /\ issued' = issued \cup {Fresh}
        /\ UNCHANGED <<pc, logs, traces, staged, durable, partial, stray, finalized>>
        /\ pc.worker = "run"
    BY <1>2 DEF BufferRow, state
  <2> QED BY <1>0, <1>f, <2>1 DEF RowsInv, Unfinished
<1>3. CASE CallStatement \/ CallRollback
  BY <1>0, <1>3, StagedKept DEF CallStatement, CallRollback, state
<1>4. CASE Raise
  BY <1>0, <1>4, StagedKept DEF Raise
<1>5. CASE Statement
  <2>1. /\ pending' = {} /\ issued' = issued \cup {Fresh}
        /\ UNCHANGED <<finalized, logs, traces, partial>>
        /\ pc.worker = "op" /\ pc'.worker = "run"
    BY <1>0, <1>5 DEF Statement
  <2>2. CASE finalized
    <3>1. stray' /\ durable' = durable \cup pending \cup {Fresh} /\ UNCHANGED staged
      BY <1>5, <2>2 DEF Statement, Write
    <3> QED BY <1>f, <2>1, <3>1 DEF RowsInv, Unfinished
  <2>3. CASE ~finalized
    <3>1. staged' = staged \cup pending \cup {Fresh} /\ UNCHANGED <<stray, durable>>
      BY <1>5, <2>3 DEF Statement, Write
    <3> QED BY <1>0, <1>f, <2>1, <2>3, <3>1 DEF RowsInv, Unfinished
  <2> QED BY <2>2, <2>3
<1>6. CASE RollbackChunk
  <2>1. PICK flushed \in {{}, pending} :
          /\ pending' = pending \ flushed
          /\ durable' = durable \cup staged \cup flushed
          /\ partial' = partial \cup staged \cup flushed
    BY <1>6 DEF RollbackChunk
  <2>2. /\ staged' = {} /\ stray' = (stray \/ finalized)
        /\ UNCHANGED <<finalized, logs, traces, issued>>
        /\ pc.worker = "chunk" /\ pc'.worker = "run"
    BY <1>0, <1>6 DEF RollbackChunk
  <2>3. pending' \cup staged' \cup durable' = pending \cup staged \cup durable
    BY <2>1, <2>2
  <2>4. /\ pending' \cup logs' \cup traces' \cup staged' \cup durable' \cup partial' \subseteq issued'
        /\ logs' \cap (pending' \cup staged' \cup durable') = {}
    BY <2>1, <2>2, <2>3 DEF RowsInv
  <2>5. Unfinished' => Unfinished /\ durable' = partial'
    BY <2>1, <2>2 DEF RowsInv, Unfinished
  <2>6. ~(finalized' /\ ~stray')
    BY <2>2
  <2> QED BY <1>0, <2>2, <2>3, <2>4, <2>5, <2>6 DEF RowsInv
<1>7. CASE CallCommit
  BY <1>0, <1>7, StagedKept DEF CallCommit, Returns, state
<1>8. CASE CommitFlush
  BY <1>0, <1>8, StagedKept DEF CommitFlush, state
<1>9. CASE FlushRow
  <2>1. /\ UNCHANGED <<finalized, logs, traces, partial, issued>>
        /\ pc'.worker = "committing" /\ pc.worker = "flush"
    BY <1>0, <1>9 DEF FlushRow
  <2>2. CASE pending = {}
    BY <1>0, <1>9, <2>1, <2>2, StagedKept DEF FlushRow, data
  <2>3. CASE pending # {}
    <3>1. PICK r \in pending : Write({r}) /\ pending' = pending \ {r}
      BY <1>9, <2>3 DEF FlushRow
    <3>2. CASE finalized
      <4>1. stray' /\ durable' = durable \cup {r} /\ UNCHANGED staged
        BY <3>1, <3>2 DEF Write
      <4> QED BY <2>1, <3>1, <4>1 DEF RowsInv, Unfinished
    <3>3. CASE ~finalized
      <4>1. staged' = staged \cup {r} /\ UNCHANGED <<stray, durable>>
        BY <3>1, <3>3 DEF Write
      <4>2. pending' \cup staged' \cup durable' = pending \cup staged \cup durable
        BY <3>1, <4>1
      <4> QED BY <1>0, <2>1, <3>1, <3>3, <4>1, <4>2 DEF RowsInv, Unfinished
    <3> QED BY <3>2, <3>3
  <2> QED BY <2>2, <2>3
<1>10. CASE CommitLogs
  <2>1. /\ UNCHANGED <<finalized, stray, staged, durable, partial, issued>>
        /\ pc.worker = "wantCommit"
    BY <1>10 DEF CommitLogs, state
  <2>2. CASE UNCHANGED <<pending, logs, traces>>
    <3>1. pc'.worker \in {"logs", "commit"}
      BY <1>0, <1>10 DEF CommitLogs
    <3> QED BY <1>0, <2>1, <2>2, <3>1, StagedKept DEF data, RowsInv
  <2>3. CASE pending' = pending \cup logs /\ logs' = {} /\ traces' = traces \cup logs
    <3>1. pc'.worker \in {"logs", "commit"}
      BY <1>0, <1>10 DEF CommitLogs
    <3>2. pending' \subseteq traces'
      BY <2>1, <2>3 DEF RowsInv
    <3>3. issued' \ (logs' \cup traces') = issued \ (logs \cup traces)
      BY <2>1, <2>3
    <3>4. (pending' \cup staged' \cup durable') \ traces' = (pending \cup staged \cup durable) \ traces
      BY <2>1, <2>3 DEF RowsInv
    <3>5. pending' \cup logs' \cup traces' \cup staged' \cup durable' \cup partial' \subseteq issued'
      BY <2>1, <2>3 DEF RowsInv
    <3> QED BY <1>0, <2>1, <2>3, <3>1, <3>2, <3>3, <3>4, <3>5 DEF RowsInv, Unfinished
  <2> QED BY <1>10, <2>2, <2>3 DEF CommitLogs
<1>11. CASE InsertLogs
  <2>1. /\ logs' = {} /\ traces' = traces \cup logs
        /\ UNCHANGED <<finalized, pending, partial, issued>>
        /\ pc.worker = "logs" /\ pc'.worker = "wantCommit"
    BY <1>0, <1>11 DEF InsertLogs
  <2>2. issued' \ (logs' \cup traces') = issued \ (logs \cup traces)
    BY <2>1
  <2>3. CASE finalized
    <3>1. stray' /\ durable' = durable \cup logs /\ UNCHANGED staged
      BY <1>11, <2>3 DEF InsertLogs, Write
    <3> QED BY <2>1, <3>1 DEF RowsInv, Unfinished
  <2>4. CASE ~finalized
    <3>1. staged' = staged \cup logs /\ UNCHANGED <<stray, durable>>
      BY <1>11, <2>4 DEF InsertLogs, Write
    <3>2. (pending' \cup staged' \cup durable') \ traces' = (pending \cup staged \cup durable) \ traces
      BY <2>1, <3>1 DEF RowsInv
    <3> QED BY <1>0, <2>1, <2>2, <2>4, <3>1, <3>2 DEF RowsInv, Unfinished
  <2> QED BY <2>3, <2>4
<1>12. CASE CommitLocked
  <2>1. /\ UNCHANGED <<pending, logs, traces, partial, issued, stray>>
        /\ pc.worker = "commit" /\ pc'.worker \in {"done", "failed"}
        /\ Holds("worker") /\ Release
    BY <1>0, <1>12 DEF CommitLocked, Returns
  <2>2. CASE finalized
    BY <1>0, <1>12, <2>1, <2>2, StagedKept DEF CommitLocked, AlreadyFinalized, data
  <2>3. CASE ~finalized
    <3>1. finalized' /\ staged' = {} /\ durable' \in {durable, durable \cup staged}
      BY <1>12, <2>3 DEF CommitLocked, AlreadyFinalized, Finalize
    <3>2. ~Overtaken
      BY <2>1, ReleaseWorker, LocksDiffer DEF LockInv, Overtaken, HookQueued
    <3>3. CASE durable' = durable
      BY <2>1, <2>3, <3>1, <3>3 DEF RowsInv, Unfinished
    <3>4. CASE durable' = durable \cup staged
      <4>1. ~stray => durable' \ traces = issued \ (logs \cup traces)
        BY <2>1, <2>3, <3>2, <3>4 DEF RowsInv, Unfinished
      <4> QED BY <2>1, <2>3, <3>1, <3>4, <4>1 DEF RowsInv, Unfinished
    <3> QED BY <3>1, <3>3, <3>4
  <2> QED BY <2>2, <2>3
<1>13. CASE WorkerAborts
  <2>1. /\ UNCHANGED <<finalized, stray, logs, traces, staged, durable, partial, issued>>
        /\ pc.worker = "failed" /\ pc'.worker \in {"abort", "done"}
    BY <1>0, <1>13 DEF WorkerAborts, CallAbort, state
  <2>2. CASE finalized
    BY <1>0, <1>13, <2>1, <2>2, StagedKept DEF WorkerAborts, CallAbort, data
  <2>3. CASE ~finalized
    <3>1. pc'.worker = "abort" /\ pending' = {}
      BY <1>0, <1>13, <2>1, <2>3 DEF WorkerAborts, CallAbort, Cleared
    <3> QED BY <2>1, <2>3, <3>1 DEF RowsInv, Unfinished
  <2> QED BY <2>2, <2>3
<1>14. CASE AbortLocked("worker")
  <2>1. /\ UNCHANGED <<pending, logs, traces, durable, partial, issued, stray>>
        /\ pc.worker = "abort" /\ pc'.worker = "done"
    BY <1>0, <1>14 DEF AbortLocked
  <2>2. CASE finalized
    BY <1>0, <1>14, <2>1, <2>2, StagedKept DEF AbortLocked, AlreadyFinalized, data
  <2>3. CASE ~finalized
    <3>1. finalized' /\ staged' = {}
      BY <1>14, <2>3 DEF AbortLocked, AlreadyFinalized, Finalize
    <3> QED BY <2>1, <2>3, <3>1 DEF RowsInv, Unfinished
  <2> QED BY <2>2, <2>3
<1> QED BY <1>1, <1>2, <1>3, <1>4, <1>5, <1>6, <1>7, <1>8, <1>9, <1>10, <1>11, <1>12,
           <1>13, <1>14 DEF Worker

LEMMA HookRows ==
  ASSUME LockInv, CountInv, RowsInv, Hook
  PROVE  RowsInv'
<1>1. /\ pc'.worker = pc.worker
      /\ HookQueued' => lock' = IF lock = <<>> THEN <<"hook">> ELSE <<"worker", "hook">>
  BY HookLock
<1>2. UNCHANGED <<stray, logs, traces, durable, partial, issued>>
  BY DEF Hook, HookAborts, AbortLocked, state
<1>3. CASE HookAborts
  <2>1. UNCHANGED <<finalized, staged>>
    BY <1>3 DEF HookAborts, state
  <2>2. CASE finalized
    BY <1>1, <1>2, <1>3, <2>1, <2>2 DEF HookAborts, CallAbort, RowsInv, Unfinished
  <2>3. CASE ~finalized
    <3>1. Acquire("hook") /\ pc.hook = "idle" /\ pending' \in Cleared
      BY <1>3, <2>3 DEF HookAborts, CallAbort
    <3>2. pending' \subseteq pending /\ (pc.worker = "commit" => pending' = {})
      BY <3>1 DEF Cleared
    <3>3. ~Overtaken
      BY <3>1 DEF LockInv, Overtaken
    <3>4. ~Overtaken' => pc.worker = "commit"
      <4>1. lock' \in {<<"hook">>, <<"worker", "hook">>}
        BY <3>1, AcquireHook DEF LockInv
      <4> QED BY <1>1, <4>1 DEF Overtaken, HookQueued
    <3> QED BY <1>1, <1>2, <2>1, <2>3, <3>2, <3>3, <3>4 DEF RowsInv, Unfinished
  <2> QED BY <2>2, <2>3
<1>4. CASE AbortLocked("hook")
  <2>1. UNCHANGED pending
    BY <1>4 DEF AbortLocked
  <2>2. CASE finalized
    BY <1>1, <1>2, <1>4, <2>1, <2>2 DEF AbortLocked, AlreadyFinalized, RowsInv, Unfinished
  <2>3. CASE ~finalized
    <3>1. finalized' /\ staged' = {}
      BY <1>4, <2>3 DEF AbortLocked, AlreadyFinalized, Finalize
    <3> QED BY <1>1, <1>2, <2>1, <2>3, <3>1 DEF RowsInv, Unfinished
  <2> QED BY <2>2, <2>3
<1> QED BY <1>3, <1>4 DEF Hook

-----------------------------------------------------------------------------
(* The traces of a reversible block.                                        *)

\* Until the exit hook comes in between, only the worker gives the client back,
\* so no statement of it strays, and what it has inserted is in the database's
\* transaction until that commits.
TracesInv ==
  ~buffered /\ pc.hook = "idle" =>
    /\ finalized => pc.worker \in {"failed", "abort", "done"}
    /\ ~finalized => traces \subseteq staged \cup durable
    /\ pc.worker = "commit" => logs = {}
    /\ result = "returned" => pc.worker = "done" /\ logs = {} /\ traces \subseteq durable

LEMMA WorkerTraces ==
  ASSUME LockInv, TracesInv, Worker
  PROVE  TracesInv'
<1> USE DEF WorkerStates, state, data
<1> SUFFICES ASSUME ~buffered', pc'.hook = "idle"
             PROVE  /\ finalized' => pc'.worker \in {"failed", "abort", "done"}
                    /\ ~finalized' => traces' \subseteq staged' \cup durable'
                    /\ pc'.worker = "commit" => logs' = {}
                    /\ result' = "returned" =>
                         pc'.worker = "done" /\ logs' = {} /\ traces' \subseteq durable'
  BY DEF TracesInv
<1>0. /\ \A l \in WorkerStates : Goto("worker", l) => pc'.worker = l /\ pc'.hook = pc.hook
      /\ UNCHANGED buffered
  BY DEF LockInv, Goto, Worker
<1>h. pc.hook = "idle"
  BY <1>0 DEF Worker, LogTrace, BufferRow, CallStatement, CallRollback, Raise, Statement, RollbackChunk,
              CallCommit, Returns, CommitFlush, FlushRow, CommitLogs, InsertLogs, CommitLocked,
              WorkerAborts, CallAbort, AbortLocked
<1>i. /\ finalized => pc.worker \in {"failed", "abort", "done"}
      /\ ~finalized => traces \subseteq staged \cup durable
      /\ pc.worker = "commit" => logs = {}
      /\ result = "returned" => pc.worker = "done" /\ logs = {} /\ traces \subseteq durable
  BY <1>0, <1>h DEF TracesInv
<1>w. ASSUME NEW rows, Write(rows), ~finalized
      PROVE  staged' = staged \cup rows /\ UNCHANGED durable
  BY <1>w DEF Write
<1>1. CASE LogTrace \/ BufferRow
  BY <1>0, <1>i, <1>1 DEF LogTrace, BufferRow
<1>2. CASE CallStatement \/ CallRollback
  BY <1>0, <1>i, <1>2 DEF CallStatement, CallRollback
<1>3. CASE Raise
  BY <1>0, <1>i, <1>3 DEF Raise
<1>4. CASE Statement
  BY <1>0, <1>i, <1>w, <1>4 DEF Statement
<1>5. CASE RollbackChunk
  BY <1>0, <1>i, <1>5 DEF RollbackChunk
<1>6. CASE CallCommit
  BY <1>0, <1>i, <1>6 DEF CallCommit
<1>7. CASE CommitFlush
  BY <1>0, <1>i, <1>7 DEF CommitFlush
<1>8. CASE FlushRow
  <2>1. /\ pc.worker = "flush" /\ pc'.worker = "committing" /\ ~finalized
        /\ UNCHANGED <<finalized, logs, traces, result>>
    BY <1>0, <1>i, <1>8 DEF FlushRow
  <2>2. staged \subseteq staged' /\ durable \subseteq durable'
    BY <1>8, <1>w, <2>1 DEF FlushRow
  <2> QED BY <1>i, <2>1, <2>2
<1>9. CASE CommitLogs
  <2>1. /\ pc.worker = "wantCommit" /\ pc'.worker \in {"logs", "commit"}
        /\ UNCHANGED <<finalized, traces, staged, durable, result>>
        /\ pc'.worker = "commit" => logs' = {}
    BY <1>0, <1>i, <1>9 DEF CommitLogs, BuffersInserts
  <2> QED BY <1>i, <2>1
<1>10. CASE InsertLogs
  <2>1. /\ pc.worker = "logs" /\ pc'.worker = "wantCommit" /\ ~finalized
        /\ UNCHANGED <<finalized, result>>
        /\ logs' = {} /\ traces' = traces \cup logs
    BY <1>0, <1>i, <1>10 DEF InsertLogs
  <2>2. staged' = staged \cup logs /\ UNCHANGED durable
    BY <1>10, <1>w, <2>1 DEF InsertLogs
  <2> QED BY <1>i, <2>1, <2>2
<1>11. CASE CommitLocked
  <2>1. pc.worker = "commit" /\ ~finalized /\ logs' = {} /\ UNCHANGED traces /\ finalized'
    BY <1>i, <1>11 DEF CommitLocked, AlreadyFinalized, Finalize
  <2>2. \/ pc'.worker = "done" /\ durable' = durable \cup staged
        \/ pc'.worker = "failed" /\ UNCHANGED result
    BY <1>0, <1>11, <2>1 DEF CommitLocked, AlreadyFinalized, Returns
  <2> QED BY <1>i, <2>1, <2>2
<1>12. CASE WorkerAborts
  BY <1>0, <1>i, <1>12 DEF WorkerAborts, CallAbort
<1>13. CASE AbortLocked("worker")
  BY <1>0, <1>i, <1>13 DEF AbortLocked, AlreadyFinalized, Finalize
<1> QED BY <1>1, <1>2, <1>3, <1>4, <1>5, <1>6, <1>7, <1>8, <1>9, <1>10, <1>11, <1>12,
           <1>13 DEF Worker

\* The hook does not come back to where it started.
LEMMA HookTraces ==
  ASSUME LockInv, Hook
  PROVE  TracesInv'
<1>1. pc'.hook # "idle"
  BY DEF LockInv, Hook, HookAborts, CallAbort, AbortLocked, Goto
<1> QED BY <1>1 DEF TracesInv

-----------------------------------------------------------------------------
TransactionInv == LockInv /\ CountInv /\ RowsInv /\ TracesInv

LEMMA TransactionInit == Init => TransactionInv
<1> SUFFICES ASSUME Init PROVE TransactionInv
  OBVIOUS
<1>1. LockInv
  BY LocksDiffer DEF Init, LockInv, WorkerStates, Locks, Waiting, WorkerQueued, HookQueued
<1>2. CountInv
  <2>1. Numbered
    BY FS_EmptySet DEF Init, Numbered
  <2>2. pc.worker = "run" /\ begun = FALSE /\ finalized = FALSE /\ stray = FALSE
    BY DEF Init
  <2>3. {begun, finalized, stray} \subseteq BOOLEAN
    BY <2>2
  <2>4. /\ registered \in Nat /\ chunks \in 0..MaxChunks /\ released = 0
        /\ registered <= 2 * chunks /\ issued \subseteq Items
    BY TransactionAssumption DEF Init
  <2> QED BY <2>1, <2>2, <2>3, <2>4 DEF Init, CountInv
<1>3. RowsInv
  BY DEF Init, RowsInv, Unfinished
<1>4. TracesInv
  BY DEF Init, TracesInv
<1> QED BY <1>1, <1>2, <1>3, <1>4 DEF TransactionInv

LEMMA TransactionStep == TransactionInv /\ [Next]_vars => TransactionInv'
<1> SUFFICES ASSUME TransactionInv, [Next]_vars PROVE TransactionInv'
  OBVIOUS
<1>1. CASE Worker
  BY <1>1, WorkerLock, WorkerCounts, WorkerRows, WorkerTraces DEF TransactionInv
<1>2. CASE Hook
  BY <1>2, HookLock, HookCounts, HookRows, HookTraces DEF TransactionInv
<1>3. CASE UNCHANGED vars
  <2>1. LockInv'
    BY <1>3 DEF TransactionInv, LockInv, WorkerQueued, HookQueued, vars
  <2>2. CountInv'
    BY <1>3 DEF TransactionInv, CountInv, Numbered, Fresh, vars
  <2>3. RowsInv'
    BY <1>3 DEF TransactionInv, RowsInv, Unfinished, Overtaken, HookQueued, vars
  <2>4. TracesInv'
    BY <1>3 DEF TransactionInv, TracesInv, vars
  <2> QED BY <2>1, <2>2, <2>3, <2>4 DEF TransactionInv
<1> QED BY <1>1, <1>2, <1>3 DEF Next

LEMMA TransactionInvariant == Spec => []TransactionInv
  BY TransactionInit, TransactionStep, PTL DEF Spec

LEMMA TransactionTypes == TransactionInv => TypeOK
<1> SUFFICES ASSUME TransactionInv PROVE TypeOK
  OBVIOUS
<1>1. \A s \in {pending, logs, traces, staged, durable, partial, issued} : s \subseteq Items
  BY DEF TransactionInv, RowsInv, CountInv
<1>2. registered \in 0..(2 * MaxChunks + 1) /\ released \in 0..2
  BY TransactionAssumption DEF TransactionInv, CountInv
<1> QED BY <1>1, <1>2 DEF TypeOK, TransactionInv, LockInv, CountInv, Locks

\* Types, with the order of the lock's queue and the number of registrations
\* bounded by the rollback chunks.
THEOREM TransactionTypeCorrect == Spec => []TypeOK
  BY TransactionInvariant, TransactionTypes, PTL

\* database.ts:483: commit() and abort() give the client back once between
\* them, however often statements fail and whenever the exit hook comes.
THEOREM ClientReleasedOnce == Spec => []ReleasedOnce
<1>1. TransactionInv => ReleasedOnce
  BY DEF TransactionInv, CountInv, ReleasedOnce
<1> QED BY <1>1, TransactionInvariant, PTL

\* database.ts:1266: however many chunks registered it, a transaction that gave
\* its client back is out of the sweep's reach.
THEOREM RegistryCleaned == Spec => []RegistryIsClean
<1>1. TransactionInv => RegistryIsClean
  BY DEF TransactionInv, CountInv, RegistryIsClean
<1> QED BY <1>1, TransactionInvariant, PTL

\* commit(), abort() and rollbackReversibleBlocks(): the rows of a transaction
\* are committed together, or only those of the chunks that committed.
THEOREM RowsCommitTogether == Spec => []RowsAllOrNothing
<1>1. TransactionInv => RowsAllOrNothing
  BY DEF TransactionInv, CountInv, RowsInv, RowsAllOrNothing
<1> QED BY <1>1, TransactionInvariant, PTL

\* database.ts:1200: the traces of a reversible block are inserted before its
\* commit takes the lock, and the block's rows are then committed with them,
\* unless the exit hook comes in between.
THEOREM TracesCommitAtHead == Spec => []TracesAreKeptAtHead
<1>1. TransactionInv => TracesAreKeptAtHead
  BY DEF TransactionInv, TracesInv, TracesAreKeptAtHead
<1> QED BY <1>1, TransactionInvariant, PTL

-----------------------------------------------------------------------------
(* The jobs.  A job whose batch was begun since the reader fell behind has    *)
(* not come to its next one: it is in that batch, or has ended.               *)

JobsInv ==
  /\ late \in [J!Jobs -> Nat] /\ phase \in [J!Jobs -> {"idle", "probe", "connect", "batch"}]
  /\ deferred \in BOOLEAN
  /\ \A j \in J!Jobs :
       late[j] # 0 => late[j] = 1 /\ behind = "high" /\ phase[j] \in {"batch", "idle"}

-----------------------------------------------------------------------------
(* The life of the reader.                                                  *)

\* A process that is not there holds nothing.
Gone ==
  /\ pod \in {"down", "starting"} => worker = "none"
  /\ worker \notin {"running", "closing"} =>
       /\ dsQueue = <<>> /\ shipClient = "idle" /\ running = 0 /\ open = {}
       /\ ~stopped

\* The blocks on their way, in the order in which they were sent: those in the
\* queue after the one in process(), which is after the current one, and all
\* of them before the one that is being prepared.
Carries == shipClient \in {"prepare", "waiting"}
BlocksInOrder ==
  R!Alive =>
    /\ current <= ship.taken /\ running <= ship.taken
    /\ Carries => current < ship.taken /\ running < ship.taken
    /\ running # 0 => current < running
    /\ \A i \in 1..Len(dsQueue) :
         /\ current < dsQueue[i] /\ running < dsQueue[i] /\ dsQueue[i] <= ship.taken
         /\ Carries => dsQueue[i] < ship.taken
         /\ \A k \in 1..Len(dsQueue) : i < k => dsQueue[i] < dsQueue[k]

\* The open transaction holds the blocks after the checkpoint, up to the
\* current one, until a block fails and the queue stops.
OpenIsGroup ==
  /\ R!Alive /\ ~stopped => position <= current /\ open = (position + 1)..current
  /\ stopped => running = 0

ReaderTypes ==
  /\ position \in Nat /\ current \in Nat /\ running \in Nat /\ dsQueue \in Seq(Nat)
  /\ ship.taken \in Nat

ReaderInv ==
  /\ committed = 1..position
  /\ ReaderTypes /\ Gone /\ BlocksInOrder /\ OpenIsGroup

-----------------------------------------------------------------------------
(* The change of the contract to version 2.                                  *)

Did(n) == chain[n].did
Writes(n) == Did(n) \in V!NewTables
Written == IF reach > snapshot THEN reach ELSE snapshot

LedgerType == [version : Nat, mutable : Data \cup {V!Null}, deleted : Nat]
RowType == [mutable : Data \cup {V!Null}, deleted : Nat]
BlockType == [did : V!Events, left : LedgerType]

\* The chain: what a block left follows from what it did; the new tables are of
\* version 2, and a template that was deleted stays as it was left.
LedgerFits(h) ==
  /\ V!Ledger(h).version >= 2 <=> \E m \in 1..h : Did(m) = "flip"
  /\ V!Ledger(h).version >= 1
  /\ V!Ledger(h).mutable # V!Null => V!Ledger(h).version >= 2
  /\ V!Ledger(h).deleted # V!Live =>
       /\ \E d \in 1..h : V!Ledger(h).deleted = d /\ Did(d) = "delete"
       /\ V!Ledger(h).mutable = V!Null
  /\ \A d \in 1..h : Did(d) = "delete" => V!Ledger(h).deleted = d
  /\ \A a \in 0..h : (\A m \in (a + 1)..h : ~Writes(m)) => V!Ledger(a).mutable = V!Ledger(h).mutable

BlockFits(n) ==
  /\ V!Allowed(V!Ledger(n - 1), Did(n))
  /\ chain[n].left = V!Obey(V!Ledger(n - 1), n, Did(n))

ChainInv ==
  /\ chain \in Seq(BlockType)
  /\ \A h \in 0..Len(chain) : LedgerFits(h)
  /\ \A n \in 1..Len(chain) : BlockFits(n)

VersionTypes ==
  /\ software \in 1..2 /\ status \in {"stopped", "running", "refused"}
  /\ indexed \in 0..reach /\ reach \in 0..Len(chain) /\ snapshot \in 0..Len(chain)
  /\ row \in RowType
  /\ marker \in 0..Len(chain)
  /\ repair \in [step : {"none", "templates2", "templates", "marker"}, from : 0..Len(chain)]
  /\ blind \in SUBSET {n \in 1..reach : Writes(n)}

\* Before the change the filler writes none of it; while the command runs, the
\* reader is stopped, no further than the head block it has noted.
Stages ==
  /\ software = 1 =>
       /\ marker = V!Unset /\ repair.step = "none" /\ snapshot = 0
       /\ row = [mutable |-> V!Null, deleted |-> V!Live]
  /\ repair.step # "none" => status # "running" /\ reach <= repair.from

\* A reader of version 2 without a marker has not come to the change.
BeforeFlip ==
  software = 2 /\ status = "running" /\ ~excused /\ marker = V!Unset =>
    \A m \in 1..indexed : Did(m) # "flip"

\* The data are those of the position, unless a write was missed before it, or
\* is after it and was read already.
Ahead == \E m \in (indexed + 1)..Written : Writes(m)
DataIsFound ==
  /\ row.mutable = V!Ledger(indexed).mutable \/ Ahead \/ blind \cap 1..indexed # {}
  /\ repair.step \in {"templates", "marker"} => row.mutable = V!Ledger(indexed).mutable \/ Ahead

\* So is the deletion.
DeletionIsFound ==
  /\ row.deleted # V!Live =>
       \E d \in 1..Written :
         /\ Did(d) = "delete"
         /\ d <= indexed =>
              /\ row.mutable = V!Null
              /\ row.deleted = d \/ row.deleted \in d..snapshot
  /\ row.deleted = V!Live =>
       \A d \in 1..indexed : Did(d) = "delete" => d \in blind /\ repair.step # "marker"

VersionInv ==
  /\ ChainInv /\ VersionTypes /\ Stages /\ BeforeFlip /\ DataIsFound /\ DeletionIsFound
  /\ MarkerMeansComplete

-----------------------------------------------------------------------------
(* The jobs.                                                                *)

LEMMA JobsStart ==
  ASSUME J!Init
  PROVE  JobsInv
<1>1. /\ late = [j \in J!Jobs |-> 0] /\ phase = [j \in J!Jobs |-> "idle"]
      /\ deferred = FALSE
  BY DEF J!Init
<1>2. \A j \in J!Jobs : late[j] = 0
  BY <1>1
<1>3. late \in [J!Jobs -> Nat] /\ phase \in [J!Jobs -> {"idle", "probe", "connect", "batch"}]
  BY <1>1
<1> QED BY <1>1, <1>2, <1>3 DEF JobsInv

\* Jobs that end are idle; the others go on.
LEMMA EndedJobs ==
  ASSUME JobsInv, NEW js, J!Ends(js)
  PROVE  /\ phase' \in [J!Jobs -> {"idle", "probe", "connect", "batch"}]
         /\ \A j \in J!Jobs : phase'[j] = IF j \in js THEN "idle" ELSE phase[j]
BY DEF J!Ends, JobsInv

\* A reader that is behind closes the gate.
LEMMA GateIsClosed ==
  ASSUME behind = "high", deferred \in BOOLEAN
  PROVE  J!Gate(deferred) = TRUE
BY DEF J!Gate

LEMMA GateIsBoolean == J!Gate(deferred) \in BOOLEAN
BY DEF J!Gate

LEMMA PulseInv ==
  ASSUME JobsInv, J!Pulse
  PROVE  JobsInv'
<1> DEFINE started == {J!Chosen(lane) : lane \in {l \in J!Lanes : ~J!Busy(l) /\ J!Waiting(l) # <<>>}}
<1>1. /\ deferred' = IF started = {} THEN deferred ELSE J!Gate(deferred)
      /\ UNCHANGED <<late, behind>>
      /\ IF deferred' THEN J!Ends(started)
         ELSE phase' = [j \in J!Jobs |-> IF j \in started THEN "probe" ELSE phase[j]]
  BY DEF J!Pulse
<1> HIDE DEF started
<1>2. deferred' \in BOOLEAN
  BY <1>1, GateIsBoolean DEF JobsInv
<1>3. CASE deferred'
  BY <1>1, <1>2, <1>3, EndedJobs DEF JobsInv
<1>4. CASE ~deferred'
  <2>1. phase' = [j \in J!Jobs |-> IF j \in started THEN "probe" ELSE phase[j]]
    BY <1>1, <1>4
  <2>2. started = {} \/ behind # "high"
    BY <1>1, <1>4, GateIsClosed DEF JobsInv
  <2>3. \A j \in J!Jobs : late[j] # 0 => j \notin started
    BY <2>2 DEF JobsInv
  <2> QED BY <1>1, <1>2, <2>1, <2>3 DEF JobsInv
<1> QED BY <1>3, <1>4

LEMMA ProbeInv ==
  ASSUME JobsInv, NEW j \in J!Jobs, J!Probe(j)
  PROVE  JobsInv'
<1>1. UNCHANGED <<late, behind, deferred>> /\ phase[j] = "probe"
  BY DEF J!Probe
<1>2. CASE J!Ends({j})
  BY <1>1, <1>2, EndedJobs DEF JobsInv
<1>3. CASE phase' = [phase EXCEPT ![j] = "connect"]
  BY <1>1, <1>3 DEF JobsInv
<1> QED BY <1>2, <1>3 DEF J!Probe

LEMMA BeginBatchInv ==
  ASSUME JobsInv, NEW j \in J!Jobs, J!BeginBatch(j)
  PROVE  JobsInv'
<1>1. /\ phase[j] = "connect" /\ phase' = [phase EXCEPT ![j] = "batch"]
      /\ late' = IF behind = "high" THEN [late EXCEPT ![j] = @ + 1] ELSE late
      /\ UNCHANGED <<behind, deferred>>
  BY DEF J!BeginBatch
<1>2. late[j] = 0
  BY <1>1 DEF JobsInv
<1> QED BY <1>1, <1>2 DEF JobsInv

LEMMA EndBatchInv ==
  ASSUME JobsInv, NEW j \in J!Jobs, J!EndBatch(j)
  PROVE  JobsInv'
<1> DEFINE consumed == IF work[j] < BatchRows THEN work[j] ELSE BatchRows
<1>1. /\ UNCHANGED <<late, behind>> /\ phase[j] = "batch"
      /\ deferred' = IF consumed > 0 /\ budgetLeft[j] > 0 THEN J!Gate(deferred) ELSE deferred
      /\ \/ J!Stops(j, consumed) /\ J!Ends({j})
         \/ ~J!Stops(j, consumed) /\ phase' = [phase EXCEPT ![j] = "connect"]
  BY DEF J!EndBatch
<1> HIDE DEF consumed
<1>2. deferred' \in BOOLEAN
  BY <1>1, GateIsBoolean DEF JobsInv
<1>3. CASE J!Ends({j})
  BY <1>1, <1>2, <1>3, EndedJobs DEF JobsInv
<1>4. CASE ~J!Stops(j, consumed) /\ phase' = [phase EXCEPT ![j] = "connect"]
  <2>1. behind # "high"
    BY <1>4, GateIsClosed DEF J!Stops, JobsInv
  <2> QED BY <1>1, <1>2, <1>4, <2>1 DEF JobsInv
<1> QED BY <1>1, <1>3, <1>4

LEMMA FailBatchInv ==
  ASSUME JobsInv, NEW j \in J!Jobs, J!FailBatch(j)
  PROVE  JobsInv'
<1>1. UNCHANGED <<late, behind, deferred>> /\ J!Ends({j})
  BY DEF J!FailBatch
<1> QED BY <1>1, EndedJobs DEF JobsInv

LEMMA ReaderOfJobsInv ==
  ASSUME JobsInv, NEW b, J!Reader(b)
  PROVE  JobsInv'
<1>1. /\ behind # b /\ behind' = b /\ UNCHANGED <<phase, deferred>>
      /\ late' = IF b = "high" THEN late ELSE [j \in J!Jobs |-> 0]
  BY DEF J!Reader
<1> QED BY <1>1 DEF JobsInv

LEMMA JobsStep ==
  ASSUME JobsInv, [J!Next]_jobs
  PROVE  JobsInv'
<1>1. CASE UNCHANGED jobs
  BY <1>1 DEF jobs, JobsInv
<1>2. CASE J!Tick
  BY <1>2 DEF J!Tick, JobsInv
<1>3. ASSUME NEW j \in J!Jobs, J!Arrive(j) PROVE JobsInv'
  BY <1>3 DEF J!Arrive, JobsInv
<1> QED BY <1>1, <1>2, <1>3, PulseInv, ProbeInv, BeginBatchInv, EndBatchInv, FailBatchInv,
           ReaderOfJobsInv DEF J!Next

-----------------------------------------------------------------------------
(* A step of the process is one of each part, or leaves it alone.            *)

LEMMA StepOfPart ==
  ASSUME [ProcessNext]_all
  PROVE  [J!Next]_jobs /\ [R!Next]_reader /\ [V!Next]_version /\ [M!Next]_schema
BY DEF ProcessNext, all

\* While the reader is behind, a drain begins at most the batch it had decided
\* on before, for any number of jobs, lanes, pooled jobs and batches
\* (filler.ts, atomicmarket/index.ts: the maintenance gate).
THEOREM BehindReaderIsServed == ProcessSpec => []ReaderReclaimsPriority
<1>1. ProcessInit => JobsInv
  BY JobsStart DEF ProcessInit
<1>2. JobsInv /\ [ProcessNext]_all => JobsInv'
  BY StepOfPart, JobsStep
<1>3. JobsInv => ReaderReclaimsPriority
  BY DEF JobsInv, ReaderReclaimsPriority, J!ReaderReclaimsPriority
<1> QED BY <1>1, <1>2, <1>3, PTL DEF ProcessSpec

-----------------------------------------------------------------------------
(* The life of the reader.                                                  *)

LEMMA ReaderStarts ==
  ASSUME R!Init
  PROVE  ReaderInv
<1>1. /\ pod = "down" /\ worker = "none" /\ shipClient = "idle" /\ dsQueue = <<>>
      /\ running = 0 /\ stopped = FALSE /\ current = 0 /\ committed = {} /\ position = 0
      /\ open = {}
  BY DEF R!Init
<1>2. ship.taken = 0
  BY DEF R!Init, R!Socket
<1>3. committed = 1..position
  BY <1>1
<1>4. ReaderTypes
  BY <1>1, <1>2 DEF ReaderTypes
<1>5. ~R!Alive
  BY <1>1 DEF R!Alive
<1>6. Gone /\ BlocksInOrder /\ OpenIsGroup
  BY <1>1, <1>5 DEF Gone, BlocksInOrder, OpenIsGroup
<1> QED BY <1>3, <1>4, <1>6 DEF ReaderInv

\* The process is gone, and what it held.
LEMMA LostInv ==
  ASSUME ReaderInv, R!Lost, worker' = "none"
  PROVE  ReaderInv'
<1>1. /\ dsQueue' = <<>> /\ shipClient' = "idle" /\ running' = 0 /\ stopped' = FALSE
      /\ open' = {} /\ UNCHANGED <<ship, current, committed, position>>
  BY DEF R!Lost
<1>2. ~R!Alive'
  BY DEF R!Alive
<1>3. Gone' /\ BlocksInOrder' /\ OpenIsGroup'
  BY <1>1, <1>2 DEF Gone, BlocksInOrder, OpenIsGroup
<1>4. ReaderTypes' /\ committed' = 1..position'
  BY <1>1 DEF ReaderInv, ReaderTypes
<1> QED BY <1>3, <1>4 DEF ReaderInv

\* What the primary does to itself.
LEMMA PrimaryInv ==
  ASSUME ReaderInv, R!Boot \/ R!StartWorker \/ R!StartupFails \/ R!Sigterm
  PROVE  ReaderInv'
<1>1. /\ UNCHANGED <<ship, shipClient, dsQueue, running, stopped, current, open, committed, position>>
      /\ \/ worker' = worker /\ (pod' \in {"down", "starting"} => pod \in {"down", "starting"})
         \/ worker' = "starting" /\ pod = "starting" /\ pod' = "up"
  BY DEF R!Boot, R!StartWorker, R!StartupFails, R!Sigterm, R!pipeline
<1>2. worker' = worker \/ (worker = "none" /\ worker' = "starting")
  BY <1>1 DEF ReaderInv, Gone
<1>3. R!Alive' = R!Alive
  BY <1>2 DEF R!Alive
<1>4. Gone'
  BY <1>1, <1>2 DEF ReaderInv, Gone
<1>5. BlocksInOrder' /\ OpenIsGroup'
  BY <1>1, <1>3 DEF ReaderInv, BlocksInOrder, OpenIsGroup, Carries
<1>6. ReaderTypes' /\ committed' = 1..position'
  BY <1>1 DEF ReaderInv, ReaderTypes
<1> QED BY <1>4, <1>5, <1>6 DEF ReaderInv

LEMMA EndsInv ==
  ASSUME ReaderInv, R!WorkerEnds \/ R!PrimaryExits
  PROVE  ReaderInv'
BY LostInv DEF R!WorkerEnds, R!PrimaryExits

LEMMA StartReaderInv ==
  ASSUME ReaderInv, R!StartReader
  PROVE  ReaderInv'
<1>1. /\ worker = "starting" /\ worker' = "running" /\ current' = position
      /\ ship'.taken = position
      /\ UNCHANGED <<pod, shipClient, dsQueue, running, stopped, open, committed, position>>
  BY DEF R!StartReader, R!Socket
<1>2. dsQueue = <<>> /\ shipClient = "idle" /\ running = 0 /\ open = {} /\ ~stopped
  BY <1>1 DEF ReaderInv, Gone
<1>3. ReaderTypes' /\ committed' = 1..position'
  BY <1>1 DEF ReaderInv, ReaderTypes
<1>4. Gone'
  BY <1>1 DEF ReaderInv, Gone
<1>5. BlocksInOrder' /\ OpenIsGroup'
  BY <1>1, <1>2, <1>3 DEF ReaderTypes, BlocksInOrder, OpenIsGroup, Carries
<1> QED BY <1>3, <1>4, <1>5 DEF ReaderInv

\* What leaves the blocks and the open transaction alone.
LEMMA QueueKept ==
  ASSUME ReaderInv, worker' = worker \/ (worker = "running" /\ worker' \in {"running", "closing"}),
         UNCHANGED <<pod, shipClient, dsQueue, running, stopped, current, open, committed, position>>,
         ship'.taken = ship.taken
  PROVE  ReaderInv'
<1>1. Gone'
  BY DEF ReaderInv, Gone
<1>2. R!Alive' => R!Alive
  BY DEF R!Alive
<1>3. BlocksInOrder' /\ OpenIsGroup'
  BY <1>2 DEF ReaderInv, BlocksInOrder, OpenIsGroup, Carries
<1>4. ReaderTypes' /\ committed' = 1..position'
  BY DEF ReaderInv, ReaderTypes
<1> QED BY <1>1, <1>3, <1>4 DEF ReaderInv

LEMMA WatchInv ==
  ASSUME ReaderInv, R!Watch
  PROVE  ReaderInv'
<1>1. /\ worker = "running" /\ worker' \in {"running", "closing"} /\ UNCHANGED <<pod, R!pipeline>>
  BY DEF R!Watch, R!GiveUp
<1> QED BY <1>1, QueueKept DEF R!pipeline

LEMMA SendInv ==
  ASSUME ReaderInv, R!Send \/ R!FallSilent
  PROVE  ReaderInv'
<1>1. UNCHANGED <<pod, worker, shipClient, dsQueue, running, stopped, current, open, committed, position>>
  BY DEF R!Send, R!FallSilent
<1>2. CASE ship' = [ship EXCEPT !.sent = @ + 1]
  BY <1>1, <1>2, QueueKept
<1>3. CASE ship' = [ship EXCEPT !.silent = TRUE]
  BY <1>1, <1>3, QueueKept
<1> QED BY <1>2, <1>3 DEF R!Send, R!FallSilent

LEMMA TakeInv ==
  ASSUME ReaderInv, R!Take
  PROVE  ReaderInv'
<1>1. /\ R!Alive /\ shipClient = "idle" /\ shipClient' \in {"prepare", "waiting"}
      /\ UNCHANGED <<pod, worker, dsQueue, running, stopped, current, open, committed, position>>
  BY DEF R!Take
<1>2. ship'.taken = ship.taken + 1
  BY DEF R!Take
<1>3. ReaderTypes' /\ committed' = 1..position'
  BY <1>1, <1>2 DEF ReaderInv, ReaderTypes
<1>4. Gone' /\ OpenIsGroup'
  BY <1>1 DEF ReaderInv, Gone, OpenIsGroup, R!Alive
<1>5. BlocksInOrder'
  <2>1. \A i \in 1..Len(dsQueue) : dsQueue[i] \in Nat
    BY DEF ReaderInv, ReaderTypes
  <2> QED BY <1>1, <1>2, <2>1 DEF ReaderInv, ReaderTypes, BlocksInOrder, R!Alive
<1> QED BY <1>3, <1>4, <1>5 DEF ReaderInv

LEMMA PrepareInv ==
  ASSUME ReaderInv, R!Prepare
  PROVE  ReaderInv'
<1>1. /\ R!Alive /\ shipClient = "prepare" /\ shipClient' = "idle"
      /\ dsQueue' = Append(dsQueue, ship.taken)
      /\ UNCHANGED <<pod, worker, running, stopped, current, open, committed, position>>
  BY DEF R!Prepare
<1>2. ship'.taken = ship.taken
  BY DEF R!Prepare
<1>3. ReaderTypes' /\ committed' = 1..position'
  BY <1>1, <1>2 DEF ReaderInv, ReaderTypes
<1>4. Gone' /\ OpenIsGroup'
  BY <1>1 DEF ReaderInv, Gone, OpenIsGroup, R!Alive
<1>5. BlocksInOrder'
  <2>1. /\ Len(dsQueue') = Len(dsQueue) + 1 /\ dsQueue'[Len(dsQueue) + 1] = ship.taken
        /\ \A i \in 1..Len(dsQueue) : dsQueue'[i] = dsQueue[i] /\ dsQueue[i] \in Nat
        /\ Len(dsQueue) \in Nat
    BY <1>1 DEF ReaderInv, ReaderTypes
  <2>2. /\ current < ship.taken /\ running < ship.taken /\ (running # 0 => current < running)
        /\ \A i \in 1..Len(dsQueue) :
             /\ current < dsQueue[i] /\ running < dsQueue[i] /\ dsQueue[i] < ship.taken
             /\ \A k \in 1..Len(dsQueue) : i < k => dsQueue[i] < dsQueue[k]
    BY <1>1 DEF ReaderInv, BlocksInOrder, Carries
  <2>3. \A i \in 1..Len(dsQueue') : i \in 1..Len(dsQueue) \/ i = Len(dsQueue) + 1
    BY <2>1
  <2> QED BY <1>1, <1>2, <2>1, <2>2, <2>3 DEF ReaderInv, ReaderTypes, BlocksInOrder, Carries
<1> QED BY <1>3, <1>4, <1>5 DEF ReaderInv

LEMMA PrepareFailsInv ==
  ASSUME ReaderInv, R!PrepareFails
  PROVE  ReaderInv'
<1>1. /\ R!Alive /\ shipClient' = "failed"
      /\ UNCHANGED <<pod, worker, ship, dsQueue, running, stopped, current, open, committed, position>>
  BY DEF R!PrepareFails
<1> QED BY <1>1 DEF ReaderInv, ReaderTypes, Gone, OpenIsGroup, BlocksInOrder, Carries, R!Alive

LEMMA BeginProcessInv ==
  ASSUME ReaderInv, R!BeginProcess
  PROVE  ReaderInv'
<1>1. /\ R!Alive /\ running = 0 /\ dsQueue # <<>> /\ ~stopped
      /\ running' = Head(dsQueue) /\ dsQueue' = Tail(dsQueue)
      /\ UNCHANGED <<pod, worker, ship, shipClient, stopped, current, open, committed, position>>
  BY DEF R!BeginProcess
<1>2. /\ Len(dsQueue) \in Nat /\ Len(dsQueue) >= 1 /\ Len(dsQueue') = Len(dsQueue) - 1
      /\ running' = dsQueue[1]
      /\ \A i \in 1..Len(dsQueue) : dsQueue[i] \in Nat
      /\ \A i \in 1..Len(dsQueue') : dsQueue'[i] = dsQueue[i + 1]
  BY <1>1 DEF ReaderInv, ReaderTypes
<1>3. ReaderTypes' /\ committed' = 1..position'
  BY <1>1, <1>2 DEF ReaderInv, ReaderTypes
<1>4. Gone' /\ OpenIsGroup'
  BY <1>1 DEF ReaderInv, Gone, OpenIsGroup, R!Alive
<1>5. BlocksInOrder'
  <2>1. \A i \in 1..Len(dsQueue') : i + 1 \in 1..Len(dsQueue) /\ 1 < i + 1
    BY <1>2
  <2>2. 1 \in 1..Len(dsQueue)
    BY <1>2
  <2>3. /\ current <= ship.taken /\ (Carries => current < ship.taken)
        /\ \A i \in 1..Len(dsQueue) :
             /\ current < dsQueue[i] /\ dsQueue[i] <= ship.taken
             /\ Carries => dsQueue[i] < ship.taken
             /\ \A k \in 1..Len(dsQueue) : i < k => dsQueue[i] < dsQueue[k]
    BY <1>1 DEF ReaderInv, BlocksInOrder
  <2>4. /\ current' <= ship'.taken /\ running' <= ship'.taken
        /\ Carries' => current' < ship'.taken /\ running' < ship'.taken
        /\ current' < running'
    BY <1>1, <1>2, <2>2, <2>3 DEF Carries
  <2>5. ASSUME NEW i \in 1..Len(dsQueue')
        PROVE  /\ current' < dsQueue'[i] /\ running' < dsQueue'[i] /\ dsQueue'[i] <= ship'.taken
               /\ Carries' => dsQueue'[i] < ship'.taken
    BY <1>1, <1>2, <2>1, <2>2, <2>3 DEF Carries
  <2>6. ASSUME NEW i \in 1..Len(dsQueue'), NEW k \in 1..Len(dsQueue'), i < k
        PROVE  dsQueue'[i] < dsQueue'[k]
    <3>1. i + 1 < k + 1
      BY <2>6
    <3> QED BY <1>2, <2>1, <2>3, <3>1
  <2> QED BY <2>4, <2>5, <2>6 DEF BlocksInOrder
<1> QED BY <1>3, <1>4, <1>5 DEF ReaderInv

\* The block in process() is the one after the current one.
LEMMA ProcessInv ==
  ASSUME ReaderInv, R!Process
  PROVE  ReaderInv'
<1>1. /\ R!Alive /\ running # 0 /\ running <= current + 1 /\ running' = 0 /\ current' = running
      /\ UNCHANGED <<pod, worker, ship, dsQueue, stopped>>
      /\ shipClient' = R!Released(slots).client
  BY DEF R!Process
<1>2. shipClient' \in {shipClient, "prepare"} /\ (shipClient' = "prepare" => shipClient \in {"prepare", "waiting"})
  BY <1>1 DEF R!Released
<1>3. running = current + 1 /\ ~stopped /\ position <= current /\ open = (position + 1)..current
  BY <1>1 DEF ReaderInv, ReaderTypes, BlocksInOrder, OpenIsGroup
<1>4. CASE committed' = committed \cup open \cup {running} /\ open' = {} /\ position' = running
  <2>1. committed' = 1..position'
    BY <1>3, <1>4 DEF ReaderInv, ReaderTypes
  <2>2. position' = current' /\ open' = (position' + 1)..current'
    BY <1>1, <1>4 DEF ReaderInv, ReaderTypes
  <2>3. OpenIsGroup'
    BY <1>1, <2>2 DEF ReaderInv, ReaderTypes, OpenIsGroup
  <2> QED BY <1>1, <1>2, <1>4, <2>1, <2>3 DEF ReaderInv, ReaderTypes, Gone, BlocksInOrder, Carries, R!Alive
<1>5. CASE open' = open \cup {running} /\ UNCHANGED <<committed, position>>
  <2>1. open' = (position' + 1)..current'
    BY <1>1, <1>3, <1>5 DEF ReaderInv, ReaderTypes
  <2>2. OpenIsGroup'
    BY <1>1, <1>3, <1>5, <2>1 DEF ReaderInv, ReaderTypes, OpenIsGroup
  <2> QED BY <1>1, <1>2, <1>5, <2>2 DEF ReaderInv, ReaderTypes, Gone, BlocksInOrder, Carries, R!Alive
<1> QED BY <1>4, <1>5 DEF R!Process

LEMMA ProcessFailsInv ==
  ASSUME ReaderInv, R!ProcessFails
  PROVE  ReaderInv'
<1>1. /\ R!Alive /\ running # 0 /\ running' = 0 /\ open' = {} /\ current' \in {current, running}
      /\ shipClient' = R!Released(slots).client /\ dsQueue' = <<>> /\ stopped' = TRUE
      /\ UNCHANGED <<pod, worker, ship, committed, position>>
  BY DEF R!ProcessFails, R!Paused
<1>2. shipClient' \in {shipClient, "prepare"} /\ (shipClient' = "prepare" => shipClient \in {"prepare", "waiting"})
  BY <1>1 DEF R!Released
<1>3. ReaderTypes' /\ committed' = 1..position'
  BY <1>1 DEF ReaderInv, ReaderTypes
<1>4. Gone' /\ OpenIsGroup'
  BY <1>1 DEF ReaderInv, Gone, OpenIsGroup, R!Alive
<1>5. BlocksInOrder'
  <2>1. Len(dsQueue') = 0 /\ (Carries' => Carries)
    BY <1>1, <1>2 DEF Carries
  <2> QED BY <1>1, <2>1 DEF ReaderInv, ReaderTypes, BlocksInOrder, Carries
<1> QED BY <1>3, <1>4, <1>5 DEF ReaderInv

LEMMA ReaderStep ==
  ASSUME ReaderInv, [R!Next]_reader
  PROVE  ReaderInv'
<1>1. CASE UNCHANGED reader
  BY <1>1, QueueKept DEF reader
<1>2. CASE R!Next
  BY <1>2, PrimaryInv, EndsInv, StartReaderInv, WatchInv, SendInv, TakeInv, PrepareInv,
     PrepareFailsInv, BeginProcessInv, ProcessInv, ProcessFailsInv DEF R!Next
<1> QED BY <1>1, <1>2

\* What is committed is every block up to the checkpoint, whatever fails, dies
\* or falls silent, for any window, queue, group and chain: a block that is
\* processed is the one after the current one, since the queue keeps the order
\* of the chain and holds nothing back, and after a failure it stays stopped
\* until the worker is replaced (receiver.ts: consume, process).
THEOREM NoBlockIsSkipped == ProcessSpec => []NothingIsSkipped
<1>1. ProcessInit => ReaderInv
  BY ReaderStarts DEF ProcessInit
<1>2. ReaderInv /\ [ProcessNext]_all => ReaderInv'
  BY StepOfPart, ReaderStep
<1>3. ReaderInv => NothingIsSkipped
  BY DEF ReaderInv, NothingIsSkipped, R!NothingIsSkipped
<1> QED BY <1>1, <1>2, <1>3, PTL DEF ProcessSpec

-----------------------------------------------------------------------------
(* The schema.                                                              *)

\* What a handler's scripts are in a database of a version.
ScriptsOf(d, upTo) == \A h \in Handlers : d.ran[h] \in {M!NoTables, M!AllUpTo(upTo)}
TablesAre(d, hs) == \A h \in Handlers : d.ran[h] # M!NoTables => h \in hs

\* A handler has tables only if it is configured, and all scripts up to the
\* version: this is what setup() and the loop over the versions rely on.
DbInv ==
  /\ image \in Nat /\ config \subseteq Handlers
  /\ db \in [version : Int, ran : [Handlers -> Seq(Int)]]
  /\ -1 <= db.version /\ db.version <= image
  /\ ScriptsOf(db, db.version) /\ TablesAre(db, config)
  /\ built \subseteq Int \X Handlers /\ \A d \in built : d[1] <= db.version

AllTables == \A h \in config : db.ran[h] # M!NoTables

\* The open transaction: which handlers it has been through.
MigInv ==
  /\ mig \in [at : {"stopped", "base", "begin", "setup", "database", "scripts", "deferred", "done"},
              version : Int, todo : SUBSET Handlers,
              work : [version : Int, ran : [Handlers -> Seq(Int)]]]
  /\ mig.at \notin {"stopped", "base"} => db.version >= 0
  /\ mig.at = "setup" =>
       /\ mig.version = db.version /\ mig.work.version = db.version
       /\ ScriptsOf(mig.work, db.version) /\ TablesAre(mig.work, config)
       /\ mig.todo \subseteq config /\ \A h \in config \ mig.todo : mig.work.ran[h] # M!NoTables
  /\ mig.at \in {"database", "scripts"} => mig.version = db.version + 1 /\ mig.version <= image
  /\ mig.at \in {"database", "scripts", "deferred", "done"} => AllTables
  /\ mig.at = "scripts" =>
       /\ mig.work.version = mig.version /\ mig.todo \subseteq config
       /\ \A h \in Handlers :
            mig.work.ran[h] = IF h \in config \ mig.todo THEN M!AllUpTo(mig.version) ELSE db.ran[h]
  /\ mig.at = "deferred" => mig.version = db.version
  /\ mig.at = "done" => db.version = image

SchemaInv == DbInv /\ MigInv

\* The scripts of a version, one more, and those that setup() starts with.
LEMMA AllUpToIsSeq ==
  ASSUME NEW n \in Nat \cup {-1}
  PROVE  M!AllUpTo(n) \in Seq(Int) /\ Len(M!AllUpTo(n)) = n + 1
BY DEF M!AllUpTo

LEMMA OneMoreScript ==
  ASSUME NEW n \in Nat
  PROVE  Append(M!AllUpTo(n), n + 1) = M!AllUpTo(n + 1)
BY DEF M!AllUpTo

LEMMA NoScripts == M!AllUpTo(-1) = M!NoTables
BY DEF M!AllUpTo, M!NoTables

LEMMA ScriptsOfNewTables ==
  ASSUME NEW n \in Nat
  PROVE  <<0>> \o [v \in 1..n |-> v] = M!AllUpTo(n)
BY DEF M!AllUpTo

LEMMA ScriptsAreNotNone ==
  ASSUME NEW n \in Nat
  PROVE  M!AllUpTo(n) # M!NoTables
BY AllUpToIsSeq DEF M!NoTables

LEMMA SchemaStarts ==
  ASSUME M!Init
  PROVE  SchemaInv
<1>1. DbInv
  BY NoScripts DEF M!Init, M!NoBase, M!NoTables, DbInv, ScriptsOf, TablesAre
<1>2. MigInv
  BY DEF M!Init, M!Stopped, M!NoBase, M!NoTables, MigInv
<1> QED BY <1>1, <1>2 DEF SchemaInv

\* What every step before the open transaction leaves alone.
LEMMA DbKept ==
  ASSUME DbInv, UNCHANGED <<db, built, image, config>>
  PROVE  DbInv'
BY DEF DbInv, ScriptsOf, TablesAre, M!AllUpTo, M!NoTables

LEMMA BootInv ==
  ASSUME SchemaInv, M!Boot
  PROVE  SchemaInv'
<1>1. DbInv'
  <2>1. image' \in Nat /\ image <= image'
    BY NewestAssumption DEF SchemaInv, DbInv, M!Boot
  <2>2. config \subseteq config' /\ config' \subseteq Handlers
    BY DEF M!Boot
  <2> QED BY <2>1, <2>2 DEF SchemaInv, DbInv, M!Boot, ScriptsOf, TablesAre, M!AllUpTo, M!NoTables
<1>2. MigInv'
  <2>1. mig' = [at |-> "base", version |-> 0, todo |-> {}, work |-> M!NoBase]
    BY DEF M!Boot, M!Stopped
  <2>2. M!NoBase \in [version : Int, ran : [Handlers -> Seq(Int)]]
    BY DEF M!NoBase, M!NoTables
  <2> QED BY <2>1, <2>2 DEF MigInv
<1> QED BY <1>1, <1>2 DEF SchemaInv

LEMMA InitBaseTablesInv ==
  ASSUME SchemaInv, M!InitBaseTables
  PROVE  SchemaInv'
<1>1. CASE db.version = -1
  <2>1. \A h \in Handlers : db.ran[h] = M!NoTables
    BY <1>1, NoScripts DEF SchemaInv, DbInv, ScriptsOf
  <2>2. db' = [db EXCEPT !.version = 0] /\ mig' = [mig EXCEPT !.at = "begin"]
    BY <1>1 DEF M!InitBaseTables
  <2>3. DbInv'
    <3>1. db' \in [version : Int, ran : [Handlers -> Seq(Int)]] /\ db'.version = 0 /\ db'.ran = db.ran
      BY <2>2 DEF SchemaInv, DbInv
    <3>2. image' = image /\ config' = config /\ built' = built
      BY DEF M!InitBaseTables
    <3>3. \A d \in built : d[1] <= 0
      BY <1>1 DEF SchemaInv, DbInv
    <3> QED BY <2>1, <3>1, <3>2, <3>3 DEF SchemaInv, DbInv, ScriptsOf, TablesAre
  <2>4. mig' = [at |-> "begin", version |-> mig.version, todo |-> mig.todo, work |-> mig.work]
    BY <2>2 DEF SchemaInv, MigInv
  <2>5. db'.version = 0
    BY <2>2 DEF SchemaInv, DbInv
  <2>6. MigInv'
    BY <2>4, <2>5 DEF SchemaInv, MigInv
  <2> QED BY <2>3, <2>6 DEF SchemaInv
<1>2. CASE db.version # -1
  <2>1. UNCHANGED <<db, built, image, config>> /\ mig' = [mig EXCEPT !.at = "begin"] /\ db.version >= 0
    BY <1>2 DEF SchemaInv, DbInv, M!InitBaseTables
  <2>2. MigInv'
    BY <2>1 DEF SchemaInv, MigInv
  <2> QED BY <2>1, <2>2, DbKept DEF SchemaInv
<1> QED BY <1>1, <1>2

LEMMA BeginInv ==
  ASSUME SchemaInv, M!Begin
  PROVE  SchemaInv'
<1>1. mig' = [at |-> "setup", version |-> db.version, todo |-> config, work |-> db]
  BY DEF M!Begin, M!Step
<1>2. UNCHANGED <<db, built, image, config>>
  BY DEF M!Begin
<1>3. MigInv'
  BY <1>1, <1>2 DEF SchemaInv, DbInv, MigInv, M!Begin, ScriptsOf, TablesAre, M!AllUpTo, M!NoTables
<1> QED BY <1>2, <1>3, DbKept DEF SchemaInv

\* One handler more in the open transaction.
LEMMA RanHandler ==
  ASSUME MigInv, NEW h \in mig.todo, NEW scripts \in Seq(Int), mig' = M!Ran(h, scripts)
  PROVE  /\ mig' \in [at : {"stopped", "base", "begin", "setup", "database", "scripts", "deferred", "done"},
                       version : Int, todo : SUBSET Handlers,
                       work : [version : Int, ran : [Handlers -> Seq(Int)]]]
         /\ mig'.at = mig.at /\ mig'.version = mig.version /\ mig'.todo = mig.todo \ {h}
         /\ mig'.work.version = mig.work.version
         /\ \A g \in Handlers : mig'.work.ran[g] = IF g = h THEN scripts ELSE mig.work.ran[g]
BY DEF MigInv, M!Ran

LEMMA SetUpInv ==
  ASSUME SchemaInv, M!SetUp
  PROVE  SchemaInv'
<1>1. PICK h \in mig.todo :
        mig' = M!Ran(h, IF M!Scripts(h) = M!NoTables THEN <<0>> \o M!PastVersions(mig.version) ELSE M!Scripts(h))
  BY DEF M!SetUp
<1>2. UNCHANGED <<db, built, image, config>>
  BY DEF M!SetUp
<1>3. /\ mig.at = "setup" /\ mig.version = db.version /\ mig.work.version = db.version
      /\ db.version \in Nat /\ db.version <= image
  BY DEF SchemaInv, DbInv, MigInv, M!SetUp
<1>4. <<0>> \o M!PastVersions(mig.version) = M!AllUpTo(db.version)
  BY <1>3, ScriptsOfNewTables DEF M!PastVersions
<1>5. M!AllUpTo(db.version) \in Seq(Int) /\ M!AllUpTo(db.version) # M!NoTables
  BY <1>3, AllUpToIsSeq, ScriptsAreNotNone
<1>6. h \in Handlers /\ h \in config /\ mig.todo \subseteq config
  BY <1>3 DEF SchemaInv, MigInv
<1>7. mig' = M!Ran(h, M!AllUpTo(db.version))
  BY <1>1, <1>3, <1>4, <1>6 DEF SchemaInv, MigInv, ScriptsOf, M!Scripts
<1>8. /\ mig' \in [at : {"stopped", "base", "begin", "setup", "database", "scripts", "deferred", "done"},
                    version : Int, todo : SUBSET Handlers,
                    work : [version : Int, ran : [Handlers -> Seq(Int)]]]
      /\ mig'.at = "setup" /\ mig'.version = db.version /\ mig'.todo = mig.todo \ {h}
      /\ mig'.work.version = db.version
      /\ \A g \in Handlers : mig'.work.ran[g] = IF g = h THEN M!AllUpTo(db.version) ELSE mig.work.ran[g]
  BY <1>3, <1>5, <1>7, RanHandler DEF SchemaInv
<1>9. ScriptsOf(mig'.work, db.version) /\ TablesAre(mig'.work, config)
  BY <1>3, <1>6, <1>8 DEF SchemaInv, MigInv, ScriptsOf, TablesAre
<1>10. \A g \in config \ mig'.todo : mig'.work.ran[g] # M!NoTables
  BY <1>3, <1>5, <1>6, <1>8 DEF SchemaInv, DbInv, MigInv
<1>11. MigInv'
  BY <1>2, <1>3, <1>6, <1>8, <1>9, <1>10 DEF MigInv, ScriptsOf, TablesAre, M!AllUpTo, M!NoTables
<1> QED BY <1>2, <1>11, DbKept DEF SchemaInv

\* The process goes on to the next version, or ends.
LEMMA OnwardInv ==
  ASSUME image \in Nat, config \subseteq Handlers, UNCHANGED <<image, config>>, mig' = M!Onward,
         db'.version \in Nat, mig.version = db'.version, db'.version <= image,
         \A h \in config : db'.ran[h] # M!NoTables
  PROVE  MigInv'
<1>1. M!NoBase \in [version : Int, ran : [Handlers -> Seq(Int)]]
  BY DEF M!NoBase, M!NoTables
<1>2. CASE mig.version < image
  <2>1. mig' = [at |-> "database", version |-> mig.version + 1, todo |-> config, work |-> M!NoBase]
    BY <1>2 DEF M!Onward, M!Step
  <2> QED BY <1>1, <1>2, <2>1 DEF MigInv, AllTables, M!NoTables
<1>3. CASE ~(mig.version < image)
  <2>1. mig' = [at |-> "done", version |-> 0, todo |-> {}, work |-> M!NoBase]
    BY <1>3 DEF M!Onward, M!Stopped
  <2> QED BY <1>1, <1>3, <2>1 DEF MigInv, AllTables, M!NoTables
<1> QED BY <1>2, <1>3

LEMMA CommitSetUpInv ==
  ASSUME SchemaInv, M!CommitSetUp
  PROVE  SchemaInv'
<1>1. /\ mig.at = "setup" /\ mig.todo = {} /\ db' = mig.work /\ mig' = M!Onward
      /\ UNCHANGED <<built, image, config>>
  BY DEF M!CommitSetUp
<1>2. /\ mig.version = db.version /\ db'.version = db.version /\ db.version \in Nat
      /\ db.version <= image /\ \A h \in config : db'.ran[h] # M!NoTables
  BY <1>1 DEF SchemaInv, DbInv, MigInv
<1>3. DbInv'
  BY <1>1, <1>2 DEF SchemaInv, DbInv, MigInv, ScriptsOf, TablesAre, M!AllUpTo, M!NoTables
<1>4. MigInv'
  BY <1>1, <1>2, OnwardInv DEF SchemaInv, DbInv
<1> QED BY <1>3, <1>4 DEF SchemaInv

LEMMA BeginVersionInv ==
  ASSUME SchemaInv, M!BeginVersion
  PROVE  SchemaInv'
<1>1. /\ mig' = [at |-> "scripts", version |-> mig.version, todo |-> config,
                work |-> [db EXCEPT !.version = mig.version]]
      /\ UNCHANGED <<db, built, image, config>> /\ mig.at = "database"
  BY DEF M!BeginVersion, M!Step
<1>2. /\ [db EXCEPT !.version = mig.version] \in [version : Int, ran : [Handlers -> Seq(Int)]]
      /\ [db EXCEPT !.version = mig.version].version = mig.version
      /\ [db EXCEPT !.version = mig.version].ran = db.ran
  BY DEF SchemaInv, DbInv, MigInv
<1>3. MigInv'
  BY <1>1, <1>2 DEF SchemaInv, DbInv, MigInv, AllTables
<1> QED BY <1>1, <1>3, DbKept DEF SchemaInv

LEMMA RunScriptInv ==
  ASSUME SchemaInv, M!RunScript
  PROVE  SchemaInv'
<1>1. PICK h \in mig.todo : mig' = M!Ran(h, Append(M!Scripts(h), mig.version))
  BY DEF M!RunScript
<1>2. UNCHANGED <<db, built, image, config>> /\ mig.at = "scripts"
  BY DEF M!RunScript
<1>3. /\ mig.version = db.version + 1 /\ mig.work.version = mig.version /\ mig.version <= image
      /\ db.version \in Nat /\ AllTables /\ mig.todo \subseteq config
  BY <1>2 DEF SchemaInv, DbInv, MigInv
<1>4. h \in Handlers /\ h \in config
  BY <1>3 DEF SchemaInv, DbInv
<1>5. M!Scripts(h) = M!AllUpTo(db.version)
  BY <1>2, <1>3, <1>4 DEF SchemaInv, DbInv, MigInv, ScriptsOf, M!Scripts, AllTables
<1>6. mig' = M!Ran(h, M!AllUpTo(mig.version))
  BY <1>1, <1>3, <1>5, OneMoreScript
<1>7. M!AllUpTo(mig.version) \in Seq(Int)
  BY <1>3, AllUpToIsSeq
<1>8. /\ mig' \in [at : {"stopped", "base", "begin", "setup", "database", "scripts", "deferred", "done"},
                    version : Int, todo : SUBSET Handlers,
                    work : [version : Int, ran : [Handlers -> Seq(Int)]]]
      /\ mig'.at = "scripts" /\ mig'.version = mig.version /\ mig'.todo = mig.todo \ {h}
      /\ mig'.work.version = mig.version
      /\ \A g \in Handlers : mig'.work.ran[g] = IF g = h THEN M!AllUpTo(mig.version) ELSE mig.work.ran[g]
  BY <1>2, <1>3, <1>6, <1>7, RanHandler DEF SchemaInv
<1>9. \A g \in Handlers :
        mig'.work.ran[g] = IF g \in config \ mig'.todo THEN M!AllUpTo(mig.version) ELSE db.ran[g]
  BY <1>2, <1>4, <1>8 DEF SchemaInv, MigInv
<1>10. MigInv'
  BY <1>2, <1>3, <1>8, <1>9 DEF MigInv, AllTables, M!AllUpTo, M!NoTables
<1> QED BY <1>2, <1>10, DbKept DEF SchemaInv

LEMMA CommitVersionInv ==
  ASSUME SchemaInv, M!CommitVersion
  PROVE  SchemaInv'
<1>1. /\ mig.at = "scripts" /\ mig.todo = {} /\ db' = mig.work
      /\ UNCHANGED <<built, image, config>>
  BY DEF M!CommitVersion
<1>2. /\ mig.version = db.version + 1 /\ db'.version = mig.version /\ mig.version <= image
      /\ db.version \in Nat /\ mig.version \in Nat
  BY <1>1 DEF SchemaInv, DbInv, MigInv
<1>3. \A h \in Handlers : db'.ran[h] = IF h \in config THEN M!AllUpTo(mig.version) ELSE M!NoTables
  BY <1>1 DEF SchemaInv, DbInv, MigInv, TablesAre
<1>4. \A h \in config : db'.ran[h] # M!NoTables
  BY <1>2, <1>3, ScriptsAreNotNone DEF SchemaInv, DbInv
<1>5. DbInv'
  <2>1. db' \in [version : Int, ran : [Handlers -> Seq(Int)]]
    BY <1>1 DEF SchemaInv, MigInv
  <2>2. ScriptsOf(db', db'.version) /\ TablesAre(db', config)
    BY <1>2, <1>3 DEF ScriptsOf, TablesAre
  <2>3. \A d \in built : d[1] <= db'.version
    BY <1>2 DEF SchemaInv, DbInv
  <2> QED BY <1>1, <1>2, <2>1, <2>2, <2>3 DEF SchemaInv, DbInv, ScriptsOf, TablesAre, M!AllUpTo, M!NoTables
<1>6. CASE mig' = M!Onward
  <2>1. MigInv'
    BY <1>1, <1>2, <1>4, <1>6, OnwardInv DEF SchemaInv, DbInv
  <2> QED BY <1>5, <2>1 DEF SchemaInv
<1>7. CASE mig' = M!Step("deferred", mig.version, M!NoBase)
  <2>1. M!NoBase \in [version : Int, ran : [Handlers -> Seq(Int)]]
    BY DEF M!NoBase, M!NoTables
  <2>2. mig' = [at |-> "deferred", version |-> mig.version, todo |-> config, work |-> M!NoBase]
    BY <1>7 DEF M!Step
  <2>3. MigInv'
    BY <1>1, <1>2, <1>4, <2>1, <2>2 DEF SchemaInv, DbInv, MigInv, AllTables, M!NoTables
  <2> QED BY <1>5, <2>3 DEF SchemaInv
<1>8. mig' = M!Onward \/ mig' = M!Step("deferred", mig.version, M!NoBase)
  BY DEF M!CommitVersion
<1> QED BY <1>5, <1>6, <1>7, <1>8 DEF SchemaInv

LEMMA RunDeferredInv ==
  ASSUME SchemaInv, M!RunDeferred
  PROVE  SchemaInv'
<1>1. PICK h \in mig.todo :
        built' = built \cup {<<mig.version, h>>} /\ mig' = [mig EXCEPT !.todo = @ \ {h}]
  BY DEF M!RunDeferred
<1>2. UNCHANGED <<db, image, config>> /\ mig.at = "deferred" /\ mig.version = db.version
  BY DEF M!RunDeferred, SchemaInv, MigInv
<1>3. DbInv'
  BY <1>1, <1>2 DEF SchemaInv, DbInv, MigInv, ScriptsOf, TablesAre, M!AllUpTo, M!NoTables
<1>4. MigInv'
  BY <1>1, <1>2 DEF SchemaInv, MigInv, AllTables, M!NoTables
<1> QED BY <1>3, <1>4 DEF SchemaInv

LEMMA DeferredRanInv ==
  ASSUME SchemaInv, M!DeferredRan
  PROVE  SchemaInv'
<1>1. UNCHANGED <<db, built, image, config>> /\ mig' = M!Onward /\ mig.at = "deferred"
  BY DEF M!DeferredRan
<1>2. MigInv'
  BY <1>1, OnwardInv DEF SchemaInv, DbInv, MigInv, AllTables
<1> QED BY <1>1, <1>2, DbKept DEF SchemaInv

LEMMA FailInv ==
  ASSUME SchemaInv, M!Fail
  PROVE  SchemaInv'
<1>1. /\ mig' = [at |-> "stopped", version |-> 0, todo |-> {}, work |-> M!NoBase]
      /\ UNCHANGED <<db, built, image, config>>
  BY DEF M!Fail, M!Stopped
<1>2. M!NoBase \in [version : Int, ran : [Handlers -> Seq(Int)]]
  BY DEF M!NoBase, M!NoTables
<1>3. MigInv'
  BY <1>1, <1>2 DEF MigInv
<1> QED BY <1>1, <1>3, DbKept DEF SchemaInv

LEMMA SchemaStep ==
  ASSUME SchemaInv, [M!Next]_schema
  PROVE  SchemaInv'
<1>1. CASE UNCHANGED schema
  <2>1. UNCHANGED <<db, built, image, config, mig>>
    BY <1>1 DEF schema
  <2>2. MigInv'
    BY <2>1 DEF SchemaInv, MigInv, ScriptsOf, TablesAre, AllTables, M!AllUpTo, M!NoTables
  <2> QED BY <2>1, <2>2, DbKept DEF SchemaInv
<1>2. CASE M!Next
  BY <1>2, BootInv, InitBaseTablesInv, BeginInv, SetUpInv, CommitSetUpInv, BeginVersionInv, RunScriptInv,
     CommitVersionInv, RunDeferredInv, DeferredRanInv, FailInv DEF M!Next
<1> QED BY <1>1, <1>2

\* Whatever fails between two starts of any number, the version in dbinfo is
\* the one up to which the scripts of every handler with tables have run, and
\* the readers start with all their tables at the version of the image
\* (runMigrations).
THEOREM ReadersStartOnTheirSchema == ProcessSpec => []VersionMeansMigrated
<1>1. ProcessInit => SchemaInv
  BY SchemaStarts DEF ProcessInit
<1>2. SchemaInv /\ [ProcessNext]_all => SchemaInv'
  BY StepOfPart, SchemaStep
<1>3. SchemaInv => VersionMeansMigrated
  BY DEF SchemaInv, DbInv, MigInv, ScriptsOf, AllTables, VersionMeansMigrated, M!VersionMeansMigrated
<1> QED BY <1>1, <1>2, <1>3, PTL DEF ProcessSpec

-----------------------------------------------------------------------------
(* The chain of the change to version 2.                                     *)

LEMMA ObeyIs ==
  ASSUME NEW l \in LedgerType, NEW n \in Nat, NEW e \in V!Events
  PROVE  /\ V!Obey(l, n, e) \in LedgerType
         /\ V!Obey(l, n, e).version = IF e \in {"flip", "bump"} THEN l.version + 1 ELSE l.version
         /\ V!Obey(l, n, e).mutable = IF e \in Data THEN e
                                      ELSE IF e \in {"clear", "delete"} THEN V!Null ELSE l.mutable
         /\ V!Obey(l, n, e).deleted = IF e = "delete" THEN n ELSE l.deleted
<1>1. e \in Data => e \notin {"flip", "bump", "touch", "clear", "delete"}
  BY VersionAssumption DEF V!VersionInstance
<1>2. CASE e \in {"flip", "bump"}
  BY <1>1, <1>2 DEF V!Obey, LedgerType
<1>3. CASE e \in Data
  BY <1>1, <1>3 DEF V!Obey, LedgerType
<1>4. CASE e = "clear"
  BY <1>1, <1>4 DEF V!Obey, LedgerType
<1>5. CASE e = "delete"
  BY <1>1, <1>5 DEF V!Obey, LedgerType
<1>6. CASE e = "touch"
  BY <1>1, <1>6 DEF V!Obey, LedgerType
<1> QED BY <1>2, <1>3, <1>4, <1>5, <1>6 DEF V!Events

LEMMA TemplatesIs ==
  ASSUME NEW r \in RowType, NEW n \in Nat, NEW e \in V!Events
  PROVE  /\ V!Templates(r, n, e) \in RowType
         /\ V!Templates(r, n, e).mutable = IF e \in Data THEN e
                                           ELSE IF e \in {"clear", "delete"} THEN V!Null ELSE r.mutable
         /\ V!Templates(r, n, e).deleted = IF e = "delete" THEN n
                                           ELSE IF e = "touch" THEN V!Live ELSE r.deleted
<1>1. e \in Data => e \notin {"flip", "bump", "touch", "clear", "delete"}
  BY VersionAssumption DEF V!VersionInstance
<1>2. CASE e \in {"flip", "bump"}
  BY <1>1, <1>2 DEF V!Templates, RowType
<1>3. CASE e \in Data
  BY <1>1, <1>3 DEF V!Templates, RowType
<1>4. CASE e = "clear"
  BY <1>1, <1>4 DEF V!Templates, RowType
<1>5. CASE e = "delete"
  BY <1>1, <1>5 DEF V!Templates, RowType
<1>6. CASE e = "touch"
  BY <1>1, <1>6 DEF V!Templates, V!Live, RowType
<1> QED BY <1>2, <1>3, <1>4, <1>5, <1>6 DEF V!Events

\* What a block may do to the contract.
LEMMA AllowedIs ==
  ASSUME NEW l \in LedgerType, NEW e \in V!Events, V!Allowed(l, e)
  PROVE  /\ e = "flip" => l.version = 1
         /\ e = "bump" => l.version = 2
         /\ e = "touch" => l.deleted = V!Live
         /\ e = "clear" => l.mutable # V!Null
         /\ e \in Data \cup {"delete"} => l.version > 1 /\ l.deleted = V!Live
<1>1. e \in Data => e \notin {"flip", "bump", "touch", "clear", "delete"}
  BY VersionAssumption DEF V!VersionInstance
<1> QED BY <1>1 DEF V!Allowed, V!Events

LEMMA ChainTypes ==
  ASSUME chain \in Seq(BlockType)
  PROVE  /\ Len(chain) \in Nat
         /\ \A n \in 1..Len(chain) : /\ Did(n) \in V!Events
                                     /\ V!Ledger(n) = chain[n].left /\ V!Ledger(n) \in LedgerType
         /\ V!Ledger(0) = V!Genesis /\ V!Ledger(0) \in LedgerType
<1>1. Len(chain) \in Nat /\ \A n \in 1..Len(chain) : chain[n] \in BlockType
  OBVIOUS
<1>2. \A n \in 1..Len(chain) : chain[n].did \in V!Events /\ chain[n].left \in LedgerType
  BY <1>1 DEF BlockType
<1>3. V!Genesis \in LedgerType
  BY DEF V!Genesis, LedgerType, V!Live
<1> QED BY <1>1, <1>2, <1>3 DEF Did, V!Ledger

LEMMA ChainGrows ==
  ASSUME ChainInv, V!Mine
  PROVE  /\ ChainInv' /\ Len(chain') = Len(chain) + 1
         /\ \A n \in 1..Len(chain) : Did(n)' = Did(n)
         /\ \A h \in 0..Len(chain) : V!Ledger(h)' = V!Ledger(h)
<1>0. chain \in Seq(BlockType)
  BY DEF ChainInv
<1>n. PICK N \in Nat : N = Len(chain)
  BY <1>0
<1> DEFINE l == V!Ledger(N)
<1>1. PICK e \in V!Events :
        /\ V!Allowed(l, e)
        /\ chain' = Append(chain, [did |-> e, left |-> V!Obey(l, N + 1, e)])
  BY <1>n DEF V!Mine, V!Served
<1>2. l \in LedgerType
  <2>1. N = 0 \/ N \in 1..N
    BY <1>n, <1>0
  <2> QED BY <1>n, <1>0, <2>1, ChainTypes
<1> DEFINE l1 == V!Obey(l, N + 1, e)
<1>3. /\ l1 \in LedgerType
      /\ l1.version = IF e \in {"flip", "bump"} THEN l.version + 1 ELSE l.version
      /\ l1.mutable = IF e \in Data THEN e ELSE IF e \in {"clear", "delete"} THEN V!Null ELSE l.mutable
      /\ l1.deleted = IF e = "delete" THEN N + 1 ELSE l.deleted
  BY <1>n, <1>0, <1>2, ObeyIs
<1>4. /\ Len(chain') = N + 1 /\ chain'[N + 1] = [did |-> e, left |-> l1]
      /\ \A n \in 1..N : chain'[n] = chain[n]
  BY <1>n, <1>0, <1>1
<1>5. chain' \in Seq(BlockType)
  <2>1. [did |-> e, left |-> l1] \in BlockType
    BY <1>3 DEF BlockType
  <2> HIDE DEF l1
  <2> QED BY <1>n, <1>0, <1>1, <2>1 DEF l1
<1>6. /\ Did(N + 1)' = e /\ V!Ledger(N + 1)' = l1
      /\ \A n \in 1..N : Did(n)' = Did(n)
      /\ \A h \in 0..N : V!Ledger(h)' = V!Ledger(h)
  <2> HIDE DEF l1
  <2>1. N + 1 # 0 /\ N + 1 \in Nat /\ \A h \in 0..N : h = 0 \/ h \in 1..N
    BY <1>n, <1>0
  <2>2. Did(N + 1)' = e /\ V!Ledger(N + 1)' = l1
    BY <1>4, <2>1 DEF Did, V!Ledger
  <2> QED BY <1>4, <2>1, <2>2 DEF Did, V!Ledger
<1> HIDE DEF l1, l
<1>7. V!Ledger(N)' = l
  BY <1>6 DEF l
<1>8. /\ e = "flip" => l.version = 1
      /\ e = "bump" => l.version = 2
      /\ e = "clear" => l.mutable # V!Null
      /\ e \in Data \cup {"delete"} => l.version > 1 /\ l.deleted = V!Live
  BY <1>1, <1>2, AllowedIs DEF l
<1>9. e \in Data => e \notin {"flip", "bump", "touch", "clear", "delete"}
  BY VersionAssumption DEF V!VersionInstance
<1>10. /\ l.version >= 2 <=> \E m \in 1..N : Did(m) = "flip"
       /\ l.version >= 1 /\ l.version \in Nat
       /\ l.mutable # V!Null => l.version >= 2
       /\ l.deleted # V!Live =>
            (\E d \in 1..N : l.deleted = d /\ Did(d) = "delete") /\ l.mutable = V!Null
       /\ \A d \in 1..N : Did(d) = "delete" => l.deleted = d
       /\ \A a \in 0..N : (\A m \in (a + 1)..N : ~Writes(m)) => V!Ledger(a).mutable = l.mutable
  <2>1. LedgerFits(N) /\ l.version \in Nat
    BY <1>n, <1>2 DEF ChainInv, LedgerType
  <2> QED BY <2>1 DEF LedgerFits, l
<1>11. \A m \in 1..(N + 1) : Did(m)' = IF m \in 1..N THEN Did(m) ELSE e
  BY <1>6
<1>12. \A m \in 1..N : Writes(m)' = Writes(m)
  BY <1>6 DEF Writes
<1>13. Writes(N + 1)' = (e \in V!NewTables)
  BY <1>6 DEF Writes
<1>14. l1.version >= 2 <=> \E m \in 1..(N + 1) : Did(m)' = "flip"
  <2>1. (\E m \in 1..(N + 1) : Did(m)' = "flip") <=> (e = "flip" \/ \E m \in 1..N : Did(m) = "flip")
    BY <1>11
  <2>2. l1.version >= 2 <=> (e = "flip" \/ l.version >= 2)
    BY <1>3, <1>8, <1>10
  <2> QED BY <1>10, <2>1, <2>2
<1>15. l1.version >= 1
  BY <1>3, <1>10
<1>16. l1.mutable # V!Null => l1.version >= 2
  BY <1>3, <1>8, <1>9, <1>10
<1>17. l1.deleted # V!Live =>
         (\E d \in 1..(N + 1) : l1.deleted = d /\ Did(d)' = "delete") /\ l1.mutable = V!Null
  <2>1. CASE e = "delete"
    <3>1. l1.deleted = N + 1 /\ l1.mutable = V!Null
      BY <1>3, <1>9, <2>1
    <3> QED BY <1>6, <2>1, <3>1
  <2>2. CASE e # "delete" /\ l.deleted # V!Live
    <3>1. PICK d \in 1..N : l.deleted = d /\ Did(d) = "delete"
      BY <1>10, <2>2
    <3>2. l.mutable = V!Null /\ e \notin Data
      BY <1>8, <1>10, <2>2
    <3>3. l1.deleted = d /\ l1.mutable = V!Null
      BY <1>3, <2>2, <3>1, <3>2
    <3> QED BY <1>6, <3>1, <3>3
  <2> QED BY <1>3, <2>1, <2>2
<1>18. \A d \in 1..(N + 1) : Did(d)' = "delete" => l1.deleted = d
  <2> SUFFICES ASSUME NEW d \in 1..(N + 1), Did(d)' = "delete" PROVE l1.deleted = d
    OBVIOUS
  <2>1. CASE d \in 1..N
    <3>1. l.deleted = d /\ l.deleted # V!Live
      BY <1>10, <1>11, <2>1 DEF V!Live
    <3> QED BY <1>3, <1>8, <3>1
  <2>2. CASE d = N + 1
    BY <1>3, <1>11, <2>2
  <2> QED BY <2>1, <2>2
<1>19. \A a \in 0..(N + 1) : (\A m \in (a + 1)..(N + 1) : ~Writes(m)') => V!Ledger(a)'.mutable = l1.mutable
  <2> SUFFICES ASSUME NEW a \in 0..(N + 1), \A m \in (a + 1)..(N + 1) : ~Writes(m)'
               PROVE  V!Ledger(a)'.mutable = l1.mutable
    OBVIOUS
  <2>1. CASE a = N + 1
    BY <1>6, <2>1
  <2>2. CASE a \in 0..N
    <3>1. ~Writes(N + 1)'
      BY <2>2
    <3>2. \A m \in (a + 1)..N : ~Writes(m)
      BY <1>12, <2>2
    <3>3. V!Ledger(a).mutable = l.mutable
      BY <1>10, <2>2, <3>2
    <3>4. l1.mutable = l.mutable
      BY <1>3, <1>13, <3>1 DEF V!NewTables
    <3> QED BY <1>6, <2>2, <3>3, <3>4
  <2> QED BY <2>1, <2>2
<1>20. \A h \in 1..(N + 1) : h = N + 1 \/ (h \in 1..N /\ h - 1 \in 0..N)
  OBVIOUS
<1>21. ASSUME NEW h \in 0..N
       PROVE  LedgerFits(h)'
  <2>1. \A m \in 1..h : Did(m)' = Did(m)
    BY <1>6
  <2>2. \A a \in 0..h : \A m \in (a + 1)..h : Writes(m)' = Writes(m)
    BY <1>12
  <2>3. LedgerFits(h) /\ \A a \in 0..h : V!Ledger(a)' = V!Ledger(a)
    BY <1>n, <1>6 DEF ChainInv
  <2> QED BY <2>1, <2>2, <2>3 DEF LedgerFits
<1>22. LedgerFits(N + 1)'
  <2>1. V!Ledger(N + 1)' = l1
    BY <1>6
  <2> QED BY <2>1, <1>14, <1>15, <1>16, <1>17, <1>18, <1>19 DEF LedgerFits
<1>23. ASSUME NEW n \in 1..(N + 1)
       PROVE  BlockFits(n)'
  <2>1. CASE n = N + 1
    <3>1. V!Ledger(n - 1)' = l /\ Did(n)' = e /\ chain'[n].left = l1
      BY <1>4, <1>6, <1>7, <2>1
    <3> QED BY <1>1, <2>1, <3>1 DEF l, l1, BlockFits
  <2>2. CASE n \in 1..N
    <3>1. V!Ledger(n - 1)' = V!Ledger(n - 1) /\ Did(n)' = Did(n) /\ chain'[n] = chain[n]
      BY <1>4, <1>6, <2>2
    <3>2. BlockFits(n)
      BY <1>n, <2>2 DEF ChainInv
    <3> QED BY <3>1, <3>2 DEF BlockFits
  <2> QED BY <2>1, <2>2
<1>24. ChainInv'
  BY <1>4, <1>5, <1>21, <1>22, <1>23 DEF ChainInv
<1> QED BY <1>n, <1>4, <1>6, <1>24


LEMMA LedgerStep ==
  ASSUME ChainInv, NEW n \in 1..Len(chain)
  PROVE  /\ Did(n) \in V!Events
         /\ V!Ledger(n - 1) \in LedgerType /\ V!Ledger(n) \in LedgerType
         /\ V!Ledger(n).mutable = IF Did(n) \in Data THEN Did(n)
                                  ELSE IF Did(n) \in {"clear", "delete"} THEN V!Null
                                  ELSE V!Ledger(n - 1).mutable
         /\ V!Ledger(n).deleted = IF Did(n) = "delete" THEN n ELSE V!Ledger(n - 1).deleted
<1>1. BlockFits(n) /\ chain \in Seq(BlockType)
  BY DEF ChainInv
<1>2. /\ Len(chain) \in Nat /\ V!Ledger(0) \in LedgerType
      /\ \A k \in 1..Len(chain) : /\ Did(k) \in V!Events /\ V!Ledger(k) = chain[k].left
                                  /\ V!Ledger(k) \in LedgerType
  BY <1>1, ChainTypes
<1>3. n \in Nat /\ (n - 1 = 0 \/ n - 1 \in 1..Len(chain))
  BY <1>2
<1>4. V!Ledger(n - 1) \in LedgerType
  BY <1>2, <1>3
<1>5. V!Ledger(n) = V!Obey(V!Ledger(n - 1), n, Did(n))
  BY <1>1, <1>2 DEF BlockFits
<1> DEFINE l == V!Ledger(n - 1)
<1>6. l \in LedgerType /\ V!Ledger(n) = V!Obey(l, n, Did(n))
  BY <1>4, <1>5
<1> HIDE DEF l
<1>7. /\ V!Ledger(n).mutable = IF Did(n) \in Data THEN Did(n)
                               ELSE IF Did(n) \in {"clear", "delete"} THEN V!Null ELSE l.mutable
      /\ V!Ledger(n).deleted = IF Did(n) = "delete" THEN n ELSE l.deleted
  BY <1>2, <1>3, <1>6, ObeyIs
<1> QED BY <1>2, <1>6, <1>7 DEF l

\* A block that writes to the tables of version 2 comes after the change.
LEMMA WritesFollowFlip ==
  ASSUME ChainInv, NEW n \in 1..Len(chain), Writes(n)
  PROVE  \E m \in 1..(n - 1) : Did(m) = "flip"
<1>1. Len(chain) \in Nat /\ n - 1 \in 0..Len(chain)
  BY DEF ChainInv
<1>2. BlockFits(n) /\ LedgerFits(n - 1)
  BY <1>1 DEF ChainInv
<1>3. Did(n) \in V!Events /\ V!Ledger(n - 1) \in LedgerType
  BY LedgerStep
<1>4. Did(n) = "clear" \/ Did(n) \in Data \cup {"delete"}
  BY DEF Writes, V!NewTables
<1>5. V!Ledger(n - 1).version \in Nat
  BY <1>3 DEF LedgerType
<1>6. V!Ledger(n - 1).version >= 2
  BY <1>2, <1>3, <1>4, <1>5, AllowedIs DEF BlockFits, LedgerFits
<1> QED BY <1>2, <1>6 DEF LedgerFits

\* A template that was deleted stays as it was left.
LEMMA DeletedStays ==
  ASSUME ChainInv, NEW d \in 1..Len(chain), Did(d) = "delete"
  PROVE  /\ Writes(d)
         /\ \A h \in d..Len(chain) : V!Ledger(h).deleted = d /\ V!Ledger(h).mutable = V!Null
         /\ \A n \in (d + 1)..Len(chain) : ~Writes(n) /\ Did(n) # "touch"
<1>1. Len(chain) \in Nat
  BY DEF ChainInv
<1>2. Writes(d)
  BY DEF Writes, V!NewTables
<1>3. ASSUME NEW h \in d..Len(chain)
      PROVE  V!Ledger(h).deleted = d /\ V!Ledger(h).mutable = V!Null /\ d # V!Live
  <2>1. h \in 0..Len(chain) /\ d \in 1..h /\ d # V!Live
    BY <1>1 DEF V!Live
  <2>2. LedgerFits(h)
    BY <2>1 DEF ChainInv
  <2> QED BY <2>1, <2>2 DEF LedgerFits
<1>4. ASSUME NEW n \in (d + 1)..Len(chain)
      PROVE  ~Writes(n) /\ Did(n) # "touch"
  <2>1. n \in 1..Len(chain) /\ n - 1 \in d..Len(chain)
    BY <1>1
  <2>2. V!Ledger(n - 1).deleted # V!Live /\ V!Ledger(n - 1).mutable = V!Null
    BY <1>3, <2>1
  <2>3. BlockFits(n)
    BY <2>1 DEF ChainInv
  <2>4. Did(n) \in V!Events /\ V!Ledger(n - 1) \in LedgerType
    BY <2>1, LedgerStep
  <2> QED BY <2>2, <2>3, <2>4, AllowedIs DEF BlockFits, Writes, V!NewTables
<1> QED BY <1>2, <1>3, <1>4

\* Data that differ were written to in between.
LEMMA DataBetween ==
  ASSUME ChainInv, NEW a \in 0..Len(chain), NEW b \in 0..Len(chain), a <= b
  PROVE  V!Ledger(a).mutable = V!Ledger(b).mutable \/ \E m \in (a + 1)..b : Writes(m)
<1>1. LedgerFits(b) /\ a \in 0..b
  BY DEF ChainInv
<1> QED BY <1>1 DEF LedgerFits

-----------------------------------------------------------------------------
(* The steps of the change to version 2.                                     *)

LEMMA VersionStarts ==
  ASSUME V!Init
  PROVE  VersionInv
<1>1. /\ chain = <<>> /\ software \in 1..2 /\ status = "stopped" /\ indexed = 0
      /\ row = [mutable |-> V!Null, deleted |-> V!Live] /\ marker = V!Unset
      /\ repair = [step |-> "none", from |-> 0]
      /\ blind = {} /\ reach = 0 /\ snapshot = 0 /\ excused = FALSE
  BY VersionAssumption DEF V!Init, V!VersionInstance
<1>2. Len(chain) = 0 /\ chain \in Seq(BlockType)
  BY <1>1
<1>3. V!Ledger(0) = [version |-> 1, mutable |-> V!Null, deleted |-> V!Live]
  BY DEF V!Ledger, V!Genesis
<1>4. LedgerFits(0)
  <2>1. /\ V!Ledger(0).version = 1 /\ V!Ledger(0).mutable = V!Null /\ V!Ledger(0).deleted = V!Live
        /\ 1..0 = {} /\ 0..0 = {0}
    BY <1>3
  <2> QED BY <2>1 DEF LedgerFits
<1>5. ChainInv
  BY <1>2, <1>4 DEF ChainInv
<1>6. VersionTypes
  <2>1. /\ row \in RowType
        /\ repair \in [step : {"none", "templates2", "templates", "marker"}, from : 0..Len(chain)]
    BY <1>1, <1>2 DEF V!Live, RowType
  <2>2. blind \in SUBSET {n \in 1..reach : Writes(n)}
    BY <1>1
  <2> QED BY <1>1, <1>2, <2>1, <2>2 DEF VersionTypes, V!Unset
<1>7. Stages /\ BeforeFlip
  BY <1>1 DEF Stages, BeforeFlip
<1>8. DataIsFound /\ DeletionIsFound
  BY <1>1, <1>3 DEF DataIsFound, DeletionIsFound
<1>9. MarkerMeansComplete
  BY <1>1 DEF MarkerMeansComplete, V!MarkerMeansComplete
<1> QED BY <1>5, <1>6, <1>7, <1>8, <1>9 DEF VersionInv

LEMMA VersionFacts ==
  ASSUME VersionInv
  PROVE  /\ Len(chain) \in Nat /\ indexed \in Nat /\ reach \in Nat /\ snapshot \in Nat
         /\ indexed <= reach /\ reach <= Len(chain) /\ snapshot <= Len(chain)
         /\ Written \in Nat /\ indexed <= Written /\ Written <= Len(chain)
         /\ reach <= Written /\ snapshot <= Written
         /\ repair.from \in Nat /\ repair.from <= Len(chain)
         /\ \A n \in blind : n \in 1..reach /\ Writes(n)
<1>1. Len(chain) \in Nat
  BY DEF VersionInv, ChainInv
<1>2. /\ indexed \in 0..reach /\ reach \in 0..Len(chain) /\ snapshot \in 0..Len(chain)
      /\ repair.from \in 0..Len(chain) /\ blind \in SUBSET {n \in 1..reach : Writes(n)}
  BY DEF VersionInv, VersionTypes
<1> QED BY <1>1, <1>2 DEF Written

\* The rows, and what they stand for, are left alone.
LEMMA RowsKept ==
  ASSUME VersionInv, UNCHANGED <<chain, indexed, row, blind, reach, snapshot>>,
         repair'.step \in {"none", "templates2", repair.step}
  PROVE  ChainInv' /\ DataIsFound' /\ DeletionIsFound'
<1>1. ChainInv'
  BY DEF VersionInv, ChainInv, LedgerFits, BlockFits, V!Ledger, Did, Writes
<1>2. Ahead' = Ahead /\ V!Ledger(indexed)' = V!Ledger(indexed)
  BY DEF Ahead, Written, Writes, Did, V!Ledger
<1>3. DataIsFound'
  BY <1>2 DEF VersionInv, DataIsFound
<1>4. DeletionIsFound'
  BY DEF VersionInv, DeletionIsFound, Written, Did
<1> QED BY <1>1, <1>3, <1>4

LEMMA MineInv ==
  ASSUME VersionInv, V!Mine
  PROVE  VersionInv'
<1>1. UNCHANGED <<software, status, indexed, row, marker, repair, blind, reach, snapshot, excused>>
  BY DEF V!Mine
<1>2. /\ ChainInv' /\ Len(chain') = Len(chain) + 1
      /\ \A n \in 1..Len(chain) : Did(n)' = Did(n)
      /\ \A h \in 0..Len(chain) : V!Ledger(h)' = V!Ledger(h)
  BY ChainGrows DEF VersionInv
<1>3. /\ Len(chain) \in Nat /\ indexed \in 0..Len(chain) /\ Written \in 0..Len(chain)
      /\ reach \in 0..Len(chain) /\ Written' = Written
  BY <1>1, VersionFacts DEF Written
<1>4. \A n \in 1..Len(chain) : Writes(n)' = Writes(n)
  BY <1>2 DEF Writes
<1>5. VersionTypes'
  <2>1. \A n \in 1..reach : Writes(n)' = Writes(n)
    BY <1>3, <1>4
  <2>2. 0..Len(chain) \subseteq 0..Len(chain')
    BY <1>2, <1>3
  <2> QED BY <1>1, <2>1, <2>2 DEF VersionInv, VersionTypes
<1>6. Stages'
  BY <1>1 DEF VersionInv, Stages
<1>7. BeforeFlip'
  BY <1>1, <1>2, <1>3 DEF VersionInv, BeforeFlip
<1>8. Ahead' = Ahead
  BY <1>1, <1>3, <1>4 DEF Ahead
<1>9. V!Ledger(indexed)' = V!Ledger(indexed)
  <2>1. PICK i \in 0..Len(chain) : i = indexed
    BY <1>3
  <2> QED BY <1>1, <1>2, <2>1 DEF V!Ledger
<1>10. DataIsFound'
  BY <1>1, <1>8, <1>9 DEF VersionInv, DataIsFound
<1>11. DeletionIsFound'
  BY <1>1, <1>2, <1>3 DEF VersionInv, DeletionIsFound
<1>12. MarkerMeansComplete'
  BY <1>1 DEF VersionInv, MarkerMeansComplete, V!MarkerMeansComplete
<1> QED BY <1>2, <1>5, <1>6, <1>7, <1>10, <1>11, <1>12 DEF VersionInv

LEMMA StartInv ==
  ASSUME VersionInv, V!Start
  PROVE  VersionInv'
<1>1. PICK acceptGap \in BOOLEAN, answers \in BOOLEAN :
        LET decision == IF software = 1 \/ ~answers THEN "proceed"
                        ELSE V!Decision(V!Served.version, acceptGap)
        IN  /\ status' = IF decision = "block" THEN "refused" ELSE "running"
            /\ marker' = IF decision = "write-marker" THEN indexed ELSE marker
            /\ excused' = (excused \/ decision = "write-marker" \/ (software = 2 /\ ~answers))
  BY DEF V!Start
<1>2. /\ status # "running" /\ repair.step = "none"
      /\ UNCHANGED <<chain, software, indexed, row, repair, blind, reach, snapshot>>
  BY DEF V!Start
<1> DEFINE decision == IF software = 1 \/ ~answers THEN "proceed"
                       ELSE V!Decision(V!Served.version, acceptGap)
<1>3. decision \in {"proceed", "write-marker", "block"} /\ (software = 1 => decision = "proceed")
  BY DEF V!Decision
<1>4. /\ status' \in {"running", "refused"}
      /\ marker' = IF decision = "write-marker" THEN indexed ELSE marker
      /\ ~excused' => ~excused /\ decision # "write-marker" /\ (software = 2 => answers)
  BY <1>1, <1>3
<1>5. software = 2 /\ answers /\ decision = "proceed" =>
        V!Served.version < 2 \/ indexed = 0 \/ marker # V!Unset
  BY DEF V!Decision
<1>6. (software = 2 /\ ~excused' /\ status' = "running") =>
        answers /\ decision = "proceed"
  BY <1>1, <1>3, <1>4
<1> HIDE DEF decision
<1>7. ChainInv' /\ DataIsFound' /\ DeletionIsFound'
  BY <1>2, RowsKept
<1>8. VersionTypes'
  <2>1. marker' \in 0..Len(chain)
    BY <1>4, VersionFacts DEF VersionInv, VersionTypes
  <2> QED BY <1>2, <1>4, <2>1 DEF VersionInv, VersionTypes, Writes, Did
<1>9. Stages'
  BY <1>2, <1>3, <1>4 DEF VersionInv, Stages
<1>10. BeforeFlip'
  <2> SUFFICES ASSUME software = 2, status' = "running", ~excused', marker' = V!Unset
               PROVE  \A m \in 1..indexed : Did(m) # "flip"
    BY <1>2 DEF BeforeFlip, Did
  <2>1. V!Served.version < 2 \/ indexed = 0
    BY <1>4, <1>5, <1>6
  <2>2. CASE V!Served.version < 2
    <3>1. /\ LedgerFits(Len(chain)) /\ Len(chain) \in Nat /\ indexed <= Len(chain)
          /\ V!Served.version \in Nat /\ indexed \in Nat
      <4>1. Len(chain) \in Nat /\ Len(chain) \in 0..Len(chain) /\ chain \in Seq(BlockType)
        BY VersionFacts DEF VersionInv, ChainInv
      <4>2. V!Served \in LedgerType
        BY <4>1, ChainTypes DEF V!Served
      <4> QED BY <4>1, <4>2, VersionFacts DEF VersionInv, ChainInv, LedgerType
    <3>2. ~(\E m \in 1..Len(chain) : Did(m) = "flip")
      BY <2>2, <3>1 DEF LedgerFits, V!Served
    <3> QED BY <3>1, <3>2
  <2>3. CASE indexed = 0
    BY <2>3
  <2> QED BY <2>1, <2>2, <2>3
<1>11. MarkerMeansComplete'
  BY <1>2, <1>4 DEF VersionInv, MarkerMeansComplete, V!MarkerMeansComplete
<1> QED BY <1>7, <1>8, <1>9, <1>10, <1>11 DEF VersionInv

\* The filler stops or is replaced, or the command begins or gives up.
LEMMA StopInv ==
  ASSUME VersionInv, V!Stop \/ V!Upgrade \/ V!Reconcile \/ V!ReconcileFails
  PROVE  VersionInv'
<1>1. UNCHANGED <<chain, indexed, row, marker, blind, reach, snapshot, excused>>
  BY DEF V!Stop, V!Upgrade, V!Reconcile, V!ReconcileFails
<1>2. \/ repair' = repair /\ status' = "stopped" /\ software' = software /\ status = "running"
      \/ repair' = repair /\ status' = status /\ status # "running" /\ software' = 2
      \/ /\ repair' = [step |-> "templates2", from |-> Len(chain)]
         /\ status' = status /\ status # "running" /\ software' = software /\ software = 2
      \/ /\ repair' = [repair EXCEPT !.step = "none"] /\ repair.step # "none"
         /\ status' = status /\ software' = software
  BY DEF V!Stop, V!Upgrade, V!Reconcile, V!ReconcileFails
<1>3. repair \in [step : {"none", "templates2", "templates", "marker"}, from : 0..Len(chain)]
  BY DEF VersionInv, VersionTypes
<1>4. Len(chain) \in Nat /\ reach <= Len(chain)
  BY VersionFacts
<1>5. /\ repair'.step \in {"none", "templates2", repair.step}
      /\ repair' \in [step : {"none", "templates2", "templates", "marker"}, from : 0..Len(chain)]
      /\ repair'.step # "none" => repair' = repair \/ (repair'.from = Len(chain) /\ status # "running" /\ software = 2)
  BY <1>2, <1>3, <1>4
<1>6. ChainInv' /\ DataIsFound' /\ DeletionIsFound'
  BY <1>1, <1>5, RowsKept
<1>7. VersionTypes'
  <2>1. software' \in 1..2 /\ status' \in {"stopped", "running", "refused"}
    BY <1>2 DEF VersionInv, VersionTypes
  <2> QED BY <1>1, <1>5, <2>1 DEF VersionInv, VersionTypes, Writes, Did
<1>8. Stages'
  <2>1. repair'.step # "none" => status' # "running" /\ reach' <= repair'.from
    BY <1>1, <1>2, <1>3, <1>4 DEF VersionInv, Stages
  <2>2. software' = 1 => software = 1 /\ repair'.step = "none"
    BY <1>2, <1>3 DEF VersionInv, Stages
  <2> QED BY <1>1, <2>1, <2>2 DEF VersionInv, Stages
<1>9. BeforeFlip'
  <2>1. status' = "running" => status = "running" /\ software' = software
    BY <1>2
  <2> QED BY <1>1, <2>1 DEF VersionInv, BeforeFlip, Did
<1>10. MarkerMeansComplete'
  BY <1>1 DEF VersionInv, MarkerMeansComplete, V!MarkerMeansComplete
<1> QED BY <1>6, <1>7, <1>8, <1>9, <1>10 DEF VersionInv

\* The next block of the chain.
LEMMA ProcessFacts ==
  ASSUME VersionInv, V!Process
  PROVE  /\ indexed + 1 \in 1..Len(chain) /\ indexed' = indexed + 1 /\ status = "running"
         /\ reach' \in 0..Len(chain) /\ reach <= reach' /\ indexed' <= reach'
         /\ reach' = reach \/ (reach' = indexed + 1 /\ reach = indexed)
         /\ Written' \in Nat /\ indexed' <= Written' /\ Written <= Written'
         /\ UNCHANGED <<chain, software, status, repair, snapshot, excused>>
         /\ ChainInv' /\ repair.step = "none"
<1>1. /\ status = "running" /\ indexed + 1 <= Len(chain) /\ indexed' = indexed + 1
      /\ reach' = IF indexed + 1 > reach THEN indexed + 1 ELSE reach
      /\ UNCHANGED <<chain, software, status, repair, snapshot, excused>>
  BY DEF V!Process
<1>2. ChainInv'
  BY <1>1 DEF VersionInv, ChainInv, LedgerFits, BlockFits, V!Ledger, Did, Writes
<1>3. repair.step = "none"
  BY <1>1 DEF VersionInv, Stages
<1> QED BY <1>1, <1>2, <1>3, VersionFacts DEF Written

LEMMA BlindProcessInv ==
  ASSUME VersionInv, V!Process, software = 1
  PROVE  VersionInv'
<1> DEFINE n == indexed + 1
<1>1. /\ n \in 1..Len(chain) /\ indexed' = n /\ status = "running"
      /\ reach' \in 0..Len(chain) /\ reach <= reach' /\ n <= reach'
      /\ Written' \in Nat /\ n <= Written' /\ Written <= Written'
      /\ UNCHANGED <<chain, software, status, repair, snapshot, excused>>
      /\ ChainInv' /\ repair.step = "none"
  BY ProcessFacts
<1>2. /\ blind' = IF Writes(n) THEN blind \cup {n} ELSE blind
      /\ UNCHANGED <<row, marker>>
  BY DEF V!Process, Writes, Did
<1>3. /\ marker = V!Unset /\ row = [mutable |-> V!Null, deleted |-> V!Live]
  BY DEF VersionInv, Stages
<1>4. \A m : Writes(m)' = Writes(m) /\ Did(m)' = Did(m)
  BY <1>1 DEF Writes, Did
<1>5. \A h : V!Ledger(h)' = V!Ledger(h)
  BY <1>1 DEF V!Ledger
<1>6. VersionTypes'
  BY <1>1, <1>2, <1>4, VersionFacts DEF VersionInv, VersionTypes
<1>7. Stages' /\ BeforeFlip' /\ MarkerMeansComplete'
  BY <1>1, <1>2, <1>3 DEF VersionInv, Stages, BeforeFlip, MarkerMeansComplete, V!MarkerMeansComplete
<1>8. DataIsFound'
  <2>1. CASE Writes(n)
    <3>1. n \in blind' \cap 1..indexed'
      BY <1>1, <1>2, <2>1
    <3> QED BY <1>1, <3>1 DEF DataIsFound
  <2>2. CASE ~Writes(n)
    <3>1. V!Ledger(n).mutable = V!Ledger(indexed).mutable
      <4>1. n - 1 = indexed /\ Did(n) \notin Data \cup {"clear", "delete"}
        BY <2>2, VersionFacts DEF Writes, V!NewTables
      <4> QED BY <1>1, <4>1, LedgerStep DEF VersionInv
    <3>2. Ahead => Ahead'
      <4> SUFFICES ASSUME NEW m \in (indexed + 1)..Written, Writes(m)
                   PROVE  \E k \in (n + 1)..Written' : Writes(k)
        BY <1>1, <1>4 DEF Ahead
      <4>1. m # n /\ m \in (n + 1)..Written'
        BY <1>1, <2>2, VersionFacts
      <4> QED BY <4>1
    <3>3. blind \cap 1..indexed # {} => blind' \cap 1..indexed' # {}
      BY <1>1, <1>2, VersionFacts
    <3>4. row.mutable = V!Ledger(indexed).mutable \/ Ahead \/ blind \cap 1..indexed # {}
      BY DEF VersionInv, DataIsFound
    <3>5. V!Ledger(indexed)'.mutable = V!Ledger(n).mutable
      BY <1>1 DEF V!Ledger
    <3> QED BY <1>1, <1>2, <3>1, <3>2, <3>3, <3>4, <3>5 DEF DataIsFound
  <2> QED BY <2>1, <2>2
<1>9. DeletionIsFound'
  <2> SUFFICES ASSUME NEW d \in 1..n, Did(d) = "delete"
               PROVE  d \in blind'
    BY <1>1, <1>2, <1>3, <1>4 DEF DeletionIsFound, V!Live
  <2>1. CASE d = n
    <3>1. Writes(n)
      BY <2>1 DEF Writes, V!NewTables
    <3> QED BY <1>2, <2>1, <3>1
  <2>2. CASE d \in 1..indexed
    BY <1>2, <1>3, <2>2 DEF VersionInv, DeletionIsFound
  <2> QED BY <2>1, <2>2, VersionFacts
<1> QED BY <1>1, <1>6, <1>7, <1>8, <1>9 DEF VersionInv

LEMMA ReadingProcessInv ==
  ASSUME VersionInv, V!Process, software = 2
  PROVE  VersionInv'
<1> DEFINE n == indexed + 1
<1>1. /\ n \in 1..Len(chain) /\ indexed' = n /\ status = "running"
      /\ reach' \in 0..Len(chain) /\ reach <= reach' /\ n <= reach'
      /\ Written' \in Nat /\ n <= Written' /\ Written <= Written'
      /\ UNCHANGED <<chain, software, status, repair, snapshot, excused>>
      /\ ChainInv' /\ repair.step = "none"
  BY ProcessFacts
<1>2. /\ row' = V!Templates(row, n, Did(n)) /\ blind' = blind \ {n}
      /\ marker' = V!TokenConfigs(marker, n, Did(n))
  BY DEF V!Process, Did
<1>3. /\ n \in Nat /\ n # 0 /\ indexed \in Nat /\ n - 1 = indexed
      /\ \A m \in blind : m \in 1..reach /\ Writes(m)
  BY VersionFacts
<1>4. (\A m : Writes(m)' = Writes(m) /\ Did(m)' = Did(m)) /\ \A h : V!Ledger(h)' = V!Ledger(h)
  BY <1>1 DEF Writes, Did, V!Ledger
<1>5. /\ Did(n) \in V!Events
      /\ V!Ledger(n).mutable = IF Did(n) \in Data THEN Did(n)
                               ELSE IF Did(n) \in {"clear", "delete"} THEN V!Null
                               ELSE V!Ledger(indexed).mutable
  BY <1>1, <1>3, LedgerStep DEF VersionInv
<1>6. row \in RowType
  BY DEF VersionInv, VersionTypes
<1>7. /\ row' \in RowType
      /\ row'.mutable = IF Did(n) \in Data THEN Did(n)
                        ELSE IF Did(n) \in {"clear", "delete"} THEN V!Null ELSE row.mutable
      /\ row'.deleted = IF Did(n) = "delete" THEN n ELSE IF Did(n) = "touch" THEN V!Live ELSE row.deleted
  <2> DEFINE e == Did(n)
             r == row
  <2>1. row' = V!Templates(r, n, e) /\ e \in V!Events /\ r \in RowType
    BY <1>2, <1>5, <1>6
  <2> HIDE DEF n, e, r
  <2>2. /\ V!Templates(r, n, e) \in RowType
        /\ V!Templates(r, n, e).mutable = IF e \in Data THEN e
                                          ELSE IF e \in {"clear", "delete"} THEN V!Null ELSE r.mutable
        /\ V!Templates(r, n, e).deleted = IF e = "delete" THEN n
                                          ELSE IF e = "touch" THEN V!Live ELSE r.deleted
    BY <1>3, <2>1, TemplatesIs
  <2> QED BY <2>1, <2>2 DEF e, r
<1> HIDE DEF n
<1>8. marker' = marker \/ (marker = V!Unset /\ marker' = n /\ Did(n) \in {"flip", "bump"})
  BY <1>2 DEF V!TokenConfigs
<1>9. VersionTypes'
  BY <1>1, <1>2, <1>3, <1>4, <1>7, <1>8 DEF VersionInv, VersionTypes
<1>10. Stages'
  BY <1>1 DEF Stages
<1>11. BeforeFlip'
  <2> SUFFICES ASSUME ~excused, marker' = V!Unset, NEW m \in 1..n
               PROVE  Did(m) # "flip"
    BY <1>1, <1>4 DEF BeforeFlip
  <2>1. marker = V!Unset /\ Did(n) # "flip"
    BY <1>2, <1>3, <1>8 DEF V!TokenConfigs, V!Unset
  <2>2. m = n \/ m \in 1..indexed
    BY <1>3 DEF n
  <2> QED BY <1>1, <2>1, <2>2 DEF VersionInv, BeforeFlip
<1>12. MarkerMeansComplete'
  <2> SUFFICES ASSUME marker' # V!Unset, ~excused, NEW m \in blind, m \in 1..n, m # n
               PROVE  FALSE
    BY <1>1, <1>2 DEF MarkerMeansComplete, V!MarkerMeansComplete
  <2>1. m \in 1..indexed
    BY <1>3 DEF n
  <2>2. marker = V!Unset
    BY <2>1 DEF VersionInv, MarkerMeansComplete, V!MarkerMeansComplete
  <2>3. \A k \in 1..indexed : Did(k) # "flip"
    BY <1>1, <2>2 DEF VersionInv, BeforeFlip
  <2>4. \E k \in 1..(m - 1) : Did(k) = "flip"
    BY <1>3, VersionFacts, WritesFollowFlip DEF VersionInv
  <2> QED BY <1>3, <2>1, <2>3, <2>4
<1>13. DataIsFound'
  <2>1. CASE Did(n) \in Data \cup {"clear", "delete"}
    <3>1. row'.mutable = V!Ledger(indexed)'.mutable
      BY <1>1, <1>4, <1>5, <1>7, <2>1 DEF V!Ledger
    <3> QED BY <1>1, <3>1 DEF DataIsFound
  <2>2. CASE Did(n) \notin Data \cup {"clear", "delete"}
    <3>1. row'.mutable = row.mutable /\ V!Ledger(n).mutable = V!Ledger(indexed).mutable /\ ~Writes(n)
      BY <1>5, <1>7, <2>2 DEF Writes, V!NewTables
    <3>2. Ahead => Ahead'
      <4> SUFFICES ASSUME NEW m \in (indexed + 1)..Written, Writes(m)
                   PROVE  \E k \in (n + 1)..Written' : Writes(k)
        BY <1>1, <1>4 DEF Ahead
      <4>1. m # n /\ m \in (n + 1)..Written'
        BY <1>1, <3>1, VersionFacts DEF n
      <4> QED BY <4>1
    <3>3. blind \cap 1..indexed # {} => blind' \cap 1..indexed' # {}
      BY <1>1, <1>2, <1>3 DEF n
    <3>4. row.mutable = V!Ledger(indexed).mutable \/ Ahead \/ blind \cap 1..indexed # {}
      BY DEF VersionInv, DataIsFound
    <3>5. V!Ledger(indexed)'.mutable = V!Ledger(n).mutable
      BY <1>1 DEF V!Ledger
    <3> QED BY <1>1, <3>1, <3>2, <3>3, <3>4, <3>5 DEF DataIsFound
  <2> QED BY <2>1, <2>2
<1>14. ASSUME row'.deleted # V!Live
       PROVE  \E d \in 1..Written' :
                /\ Did(d) = "delete"
                /\ d <= n => row'.mutable = V!Null /\ (row'.deleted = d \/ row'.deleted \in d..snapshot)
  <2>1. CASE Did(n) = "delete"
    <3>1. row'.mutable = V!Null /\ row'.deleted = n
      BY <1>7, <2>1, VersionAssumption DEF V!VersionInstance
    <3>2. n \in 1..Written'
      BY <1>1, <1>3
    <3> QED BY <2>1, <3>1, <3>2
  <2>2. CASE Did(n) # "delete"
    <3>1. row'.deleted = row.deleted /\ row.deleted # V!Live
      BY <1>7, <1>14, <2>2
    <3>2. PICK d \in 1..Written :
            /\ Did(d) = "delete"
            /\ d <= indexed => row.mutable = V!Null /\ (row.deleted = d \/ row.deleted \in d..snapshot)
      BY <3>1 DEF VersionInv, DeletionIsFound
    <3>3. d \in 1..Written' /\ d \in 1..Len(chain)
      BY <1>1, VersionFacts
    <3>4. d <= n => d <= indexed /\ row'.mutable = row.mutable
      <4> SUFFICES ASSUME d <= n PROVE d <= indexed /\ row'.mutable = row.mutable
        OBVIOUS
      <4>1. d # n
        BY <2>2, <3>2
      <4>2. d <= indexed /\ n \in (d + 1)..Len(chain)
        BY <1>1, <1>3, <3>3, <4>1 DEF n
      <4>3. ~Writes(n)
        BY <3>2, <3>3, <4>2, DeletedStays DEF VersionInv
      <4> QED BY <1>7, <4>2, <4>3 DEF Writes, V!NewTables
    <3> QED BY <3>1, <3>2, <3>3, <3>4
  <2> QED BY <2>1, <2>2
<1>15. ASSUME row'.deleted = V!Live, NEW d \in 1..n, Did(d) = "delete"
       PROVE  d \in blind'
  <2>1. d # n
    BY <1>3, <1>7, <1>15 DEF V!Live
  <2>2. d \in 1..indexed /\ d \in 1..Len(chain) /\ n \in (d + 1)..Len(chain)
    BY <1>1, <1>3, <2>1, VersionFacts DEF n
  <2>3. Did(n) # "touch"
    BY <1>15, <2>2, DeletedStays DEF VersionInv
  <2>4. row.deleted = V!Live
    BY <1>3, <1>7, <1>15, <2>3 DEF V!Live
  <2>5. d \in blind
    BY <1>15, <2>2, <2>4 DEF VersionInv, DeletionIsFound
  <2> QED BY <1>2, <2>1, <2>5
<1>16. DeletionIsFound'
  BY <1>1, <1>4, <1>14, <1>15 DEF DeletionIsFound
<1> QED BY <1>1, <1>9, <1>10, <1>11, <1>12, <1>13, <1>16 DEF VersionInv

-----------------------------------------------------------------------------
(* The ways out of a refusal.                                               *)

LEMMA RewindInv ==
  ASSUME VersionInv, V!Rewind
  PROVE  VersionInv'
<1>1. /\ status = "refused" /\ repair.step = "none"
      /\ UNCHANGED <<chain, software, status, row, marker, repair, blind, reach, snapshot, excused>>
  BY DEF V!Rewind
<1>2. PICK n \in 0..(indexed - 1) : indexed' = n
  BY DEF V!Rewind
<1>3. (\A m : Writes(m)' = Writes(m) /\ Did(m)' = Did(m)) /\ \A h : V!Ledger(h)' = V!Ledger(h)
  BY <1>1 DEF Writes, Did, V!Ledger
<1>4. n \in Nat /\ n < indexed /\ n \in 0..Len(chain) /\ indexed \in 0..Len(chain) /\ Written' = Written
  BY <1>1, <1>2, VersionFacts DEF Written
<1>5. ChainInv'
  BY <1>1, <1>3 DEF VersionInv, ChainInv, LedgerFits, BlockFits
<1>6. VersionTypes'
  <2>1. indexed' \in 0..reach
    BY <1>2, VersionFacts
  <2> QED BY <1>1, <1>3, <2>1 DEF VersionInv, VersionTypes
<1>7. Stages' /\ BeforeFlip'
  BY <1>1 DEF VersionInv, Stages, BeforeFlip
<1>8. MarkerMeansComplete'
  <2>1. 1..n \subseteq 1..indexed
    BY <1>4
  <2> QED BY <1>1, <1>2, <2>1 DEF VersionInv, MarkerMeansComplete, V!MarkerMeansComplete
<1>9. DataIsFound'
  <2>1. CASE \E m \in (n + 1)..indexed : Writes(m)
    <3>1. \E m \in (n + 1)..Written : Writes(m)
      BY <1>4, <2>1, VersionFacts
    <3>2. Ahead'
      BY <1>2, <1>3, <1>4, <3>1 DEF Ahead
    <3> QED BY <3>2 DEF DataIsFound
  <2>2. CASE \A m \in (n + 1)..indexed : ~Writes(m)
    <3>1. V!Ledger(n).mutable = V!Ledger(indexed).mutable
      BY <1>4, <2>2, DataBetween DEF VersionInv
    <3>2. Ahead => Ahead'
      BY <1>2, <1>3, <1>4, VersionFacts DEF Ahead
    <3>3. ASSUME NEW m \in blind \cap 1..indexed PROVE m \in blind' \cap 1..indexed'
      BY <1>1, <1>2, <1>4, <2>2, VersionFacts
    <3>4. row.mutable = V!Ledger(indexed).mutable \/ Ahead \/ blind \cap 1..indexed # {}
      BY DEF VersionInv, DataIsFound
    <3>5. V!Ledger(indexed)'.mutable = V!Ledger(n).mutable
      BY <1>1, <1>2 DEF V!Ledger
    <3> QED BY <1>1, <3>1, <3>2, <3>3, <3>4, <3>5 DEF DataIsFound
  <2> QED BY <2>1, <2>2
<1>10. DeletionIsFound'
  <2>1. \A d \in 1..n : d \in 1..indexed
    BY <1>4
  <2>2. \A d \in 1..Written : d <= n => d <= indexed
    BY <1>4, VersionFacts
  <2> QED BY <1>1, <1>2, <1>3, <1>4, <2>1, <2>2 DEF VersionInv, DeletionIsFound
<1> QED BY <1>5, <1>6, <1>7, <1>8, <1>9, <1>10 DEF VersionInv

\* A walk has read the rows of a head block that is not before the position.
LEMMA WalkedIs ==
  ASSUME VersionInv, NEW h \in repair.from..Len(chain), repair.step # "none", V!Walked(h)
  PROVE  /\ h \in 0..Len(chain) /\ indexed <= h /\ indexed <= repair.from /\ repair.from <= h
         /\ snapshot' \in 0..Len(chain) /\ snapshot <= snapshot' /\ h <= snapshot'
         /\ Written <= Written' /\ h <= Written' /\ Written' \in Nat
         /\ status # "running" /\ software = 2
         /\ UNCHANGED <<chain, software, status, indexed, marker, blind, reach, excused>>
<1>1. /\ snapshot' = IF h > snapshot THEN h ELSE snapshot
      /\ UNCHANGED <<chain, software, status, indexed, marker, blind, reach, excused>>
  BY DEF V!Walked
<1>2. status # "running" /\ reach <= repair.from /\ software # 1
  BY DEF VersionInv, Stages
<1>3. software = 2
  BY <1>2 DEF VersionInv, VersionTypes
<1> QED BY <1>1, <1>2, <1>3, VersionFacts DEF Written

\* What a step of the command keeps but for the rows and its own stage.
LEMMA WalkKept ==
  ASSUME VersionInv, NEW h \in repair.from..Len(chain), repair.step # "none", V!Walked(h),
         row' \in RowType, NEW step \in {"templates", "marker"}, repair' = [repair EXCEPT !.step = step]
  PROVE  /\ ChainInv' /\ VersionTypes' /\ Stages' /\ BeforeFlip' /\ MarkerMeansComplete'
         /\ repair'.step = step
         /\ Ahead => Ahead'
<1>1. /\ snapshot' \in 0..Len(chain) /\ Written <= Written' /\ Written' \in Nat
      /\ status # "running" /\ software = 2
      /\ UNCHANGED <<chain, software, status, indexed, marker, blind, reach, excused>>
  BY WalkedIs
<1>2. repair \in [step : {"none", "templates2", "templates", "marker"}, from : 0..Len(chain)]
  BY DEF VersionInv, VersionTypes
<1>3. /\ repair' \in [step : {"none", "templates2", "templates", "marker"}, from : 0..Len(chain)]
      /\ repair'.step = step /\ repair'.from = repair.from
  BY <1>2
<1>4. ChainInv'
  BY <1>1 DEF VersionInv, ChainInv, LedgerFits, BlockFits, V!Ledger, Did, Writes
<1>5. VersionTypes'
  BY <1>1, <1>3 DEF VersionInv, VersionTypes, Writes, Did
<1>6. Stages' /\ BeforeFlip'
  BY <1>1, <1>3 DEF VersionInv, Stages, BeforeFlip
<1>7. MarkerMeansComplete'
  BY <1>1 DEF VersionInv, MarkerMeansComplete, V!MarkerMeansComplete
<1>8. Ahead => Ahead'
  BY <1>1, VersionFacts DEF Ahead, Writes, Did
<1> QED BY <1>3, <1>4, <1>5, <1>6, <1>7, <1>8

LEMMA SeedInv ==
  ASSUME VersionInv, V!SeedTemplates2
  PROVE  VersionInv'
<1>1. PICK h \in repair.from..Len(chain) :
        /\ row' = IF row.deleted # V!Live THEN row ELSE [row EXCEPT !.mutable = V!Ledger(h).mutable]
        /\ V!Walked(h)
  BY DEF V!SeedTemplates2
<1>2. repair.step = "templates2" /\ repair' = [repair EXCEPT !.step = "templates"]
  BY DEF V!SeedTemplates2
<1>3. /\ h \in 0..Len(chain) /\ indexed <= h /\ snapshot <= snapshot' /\ snapshot' \in 0..Len(chain)
      /\ Written <= Written' /\ h <= Written' /\ Written' \in Nat
      /\ UNCHANGED <<chain, indexed, blind>>
  BY <1>1, <1>2, WalkedIs
<1>4. row \in RowType
  BY DEF VersionInv, VersionTypes
<1>5. V!Ledger(h) \in LedgerType
  <2>1. h = 0 \/ h \in 1..Len(chain)
    BY <1>3, VersionFacts
  <2> QED BY <2>1, ChainTypes DEF VersionInv, ChainInv
<1>6. row' \in RowType /\ row'.deleted = row.deleted /\ (row.deleted = V!Live => row'.mutable = V!Ledger(h).mutable)
  BY <1>1, <1>4, <1>5 DEF RowType, LedgerType
<1>7. /\ ChainInv' /\ VersionTypes' /\ Stages' /\ BeforeFlip' /\ MarkerMeansComplete'
      /\ repair'.step = "templates" /\ (Ahead => Ahead')
  BY <1>1, <1>2, <1>6, WalkKept
<1>8. V!Ledger(indexed)' = V!Ledger(indexed) /\ \A m : Did(m)' = Did(m) /\ Writes(m)' = Writes(m)
  BY <1>3 DEF V!Ledger, Did, Writes
<1>9. row'.mutable = V!Ledger(indexed).mutable \/ Ahead'
  <2>1. CASE row.deleted = V!Live
    <3>1. V!Ledger(indexed).mutable = V!Ledger(h).mutable \/ \E m \in (indexed + 1)..h : Writes(m)
      <4>1. ChainInv /\ indexed \in 0..Len(chain)
        BY VersionFacts DEF VersionInv
      <4> QED BY <1>3, <4>1, DataBetween
    <3>2. (\E m \in (indexed + 1)..h : Writes(m)) => Ahead'
      BY <1>3, <1>8, VersionFacts DEF Ahead
    <3> QED BY <1>6, <2>1, <3>1, <3>2
  <2>2. CASE row.deleted # V!Live
    <3>1. PICK d \in 1..Written : Did(d) = "delete" /\ (d <= indexed => row.mutable = V!Null)
      BY <2>2 DEF VersionInv, DeletionIsFound
    <3>2. d \in 1..Len(chain)
      BY VersionFacts
    <3>3. CASE d <= indexed
      <4>1. V!Ledger(indexed).mutable = V!Null
        BY <3>1, <3>2, <3>3, VersionFacts, DeletedStays DEF VersionInv
      <4> QED BY <1>1, <2>2, <3>1, <3>3, <4>1
    <3>4. CASE ~(d <= indexed)
      <4>1. Writes(d)
        BY <3>1, <3>2, DeletedStays DEF VersionInv
      <4>2. d \in (indexed + 1)..Written'
        BY <1>3, <3>4, VersionFacts
      <4> QED BY <1>3, <1>8, <4>1, <4>2 DEF Ahead
    <3> QED BY <3>3, <3>4
  <2> QED BY <2>1, <2>2
<1>10. DataIsFound'
  BY <1>3, <1>8, <1>9 DEF DataIsFound
<1>11. DeletionIsFound'
  <2>1. CASE row.deleted = V!Live
    <3>1. \A d \in 1..indexed : Did(d) = "delete" => d \in blind
      BY <2>1 DEF VersionInv, DeletionIsFound
    <3> QED BY <1>3, <1>6, <1>7, <1>8, <2>1, <3>1 DEF DeletionIsFound
  <2>2. CASE row.deleted # V!Live
    <3>1. PICK d \in 1..Written :
            /\ Did(d) = "delete"
            /\ d <= indexed => row.mutable = V!Null /\ (row.deleted = d \/ row.deleted \in d..snapshot)
      BY <2>2 DEF VersionInv, DeletionIsFound
    <3>2. d \in 1..Written' /\ d..snapshot \subseteq d..snapshot'
      BY <1>3, VersionFacts
    <3> QED BY <1>1, <1>3, <1>8, <2>2, <3>1, <3>2 DEF DeletionIsFound
  <2> QED BY <2>1, <2>2
<1> QED BY <1>7, <1>10, <1>11 DEF VersionInv

LEMMA DiffInv ==
  ASSUME VersionInv, V!DiffTemplates
  PROVE  VersionInv'
<1>1. PICK h \in repair.from..Len(chain) : row' = V!MarkDeleted(row, h) /\ V!Walked(h)
  BY DEF V!DiffTemplates
<1>2. repair.step = "templates" /\ repair' = [repair EXCEPT !.step = "marker"]
  BY DEF V!DiffTemplates
<1>3. /\ h \in 0..Len(chain) /\ indexed <= h /\ snapshot <= snapshot' /\ snapshot' \in 0..Len(chain)
      /\ h <= snapshot' /\ indexed <= repair.from /\ repair.from <= h
      /\ Written <= Written' /\ h <= Written' /\ Written' \in Nat
      /\ UNCHANGED <<chain, indexed, blind>>
  BY <1>1, <1>2, WalkedIs
<1>4. row \in RowType /\ repair.from \in Nat
  BY VersionFacts DEF VersionInv, VersionTypes
<1>5. /\ row' \in RowType /\ row'.mutable = row.mutable
      /\ row'.deleted = IF row.deleted = V!Live /\ V!Ledger(h).deleted # V!Live THEN repair.from ELSE row.deleted
      /\ row.deleted # V!Live => row' = row
  BY <1>1, <1>4 DEF V!MarkDeleted, RowType
<1>6. /\ ChainInv' /\ VersionTypes' /\ Stages' /\ BeforeFlip' /\ MarkerMeansComplete'
      /\ repair'.step = "marker" /\ (Ahead => Ahead')
  BY <1>1, <1>2, <1>5, WalkKept
<1>7. V!Ledger(indexed)' = V!Ledger(indexed) /\ \A m : Did(m)' = Did(m) /\ Writes(m)' = Writes(m)
  BY <1>3 DEF V!Ledger, Did, Writes
<1>8. row.mutable = V!Ledger(indexed).mutable \/ Ahead
  BY <1>2 DEF VersionInv, DataIsFound
<1>9. DataIsFound'
  BY <1>3, <1>5, <1>6, <1>7, <1>8 DEF DataIsFound
<1>10. ASSUME row'.deleted # V!Live
       PROVE  \E d \in 1..Written' :
                /\ Did(d) = "delete"
                /\ d <= indexed => row'.mutable = V!Null /\ (row'.deleted = d \/ row'.deleted \in d..snapshot')
  <2>1. CASE row.deleted # V!Live
    <3>1. PICK d \in 1..Written :
            /\ Did(d) = "delete"
            /\ d <= indexed => row.mutable = V!Null /\ (row.deleted = d \/ row.deleted \in d..snapshot)
      BY <2>1 DEF VersionInv, DeletionIsFound
    <3>2. d \in 1..Written' /\ d..snapshot \subseteq d..snapshot'
      BY <1>3, VersionFacts
    <3> QED BY <1>5, <2>1, <3>1, <3>2
  <2>2. CASE row.deleted = V!Live
    <3>1. V!Ledger(h).deleted # V!Live /\ row'.deleted = repair.from
      BY <1>5, <1>10, <2>2
    <3>2. PICK d \in 1..h : Did(d) = "delete"
      BY <1>3, <3>1 DEF VersionInv, ChainInv, LedgerFits
    <3>3. d \in 1..Len(chain) /\ d \in 1..Written' /\ d \in Nat
      BY <1>3, VersionFacts
    <3>4. ASSUME d <= indexed
          PROVE  row.mutable = V!Null /\ repair.from \in d..snapshot'
      <4>1. \A m \in (d + 1)..Len(chain) : ~Writes(m)
        BY <3>2, <3>3, DeletedStays DEF VersionInv
      <4>2. \A m \in (indexed + 1)..Written : m \in (d + 1)..Len(chain)
        BY <3>3, <3>4, VersionFacts
      <4>3. ~Ahead
        BY <4>1, <4>2 DEF Ahead
      <4>4. V!Ledger(indexed).mutable = V!Null
        BY <3>2, <3>3, <3>4, VersionFacts, DeletedStays DEF VersionInv
      <4>5. repair.from \in d..snapshot'
        BY <1>3, <1>4, <3>3, <3>4, VersionFacts
      <4> QED BY <1>8, <4>3, <4>4, <4>5
    <3> QED BY <1>5, <3>1, <3>2, <3>3, <3>4
  <2> QED BY <2>1, <2>2
<1>11. ASSUME row'.deleted = V!Live, NEW d \in 1..indexed, Did(d) = "delete"
       PROVE  FALSE
  <2>1. d \in 1..Len(chain) /\ h \in d..Len(chain) /\ repair.from # V!Live /\ d # V!Live
    BY <1>3, <1>4, VersionFacts DEF V!Live
  <2>2. V!Ledger(h).deleted = d
    BY <1>11, <2>1, DeletedStays DEF VersionInv
  <2> QED BY <1>5, <1>11, <2>1, <2>2
<1>12. DeletionIsFound'
  BY <1>3, <1>7, <1>10, <1>11 DEF DeletionIsFound
<1> QED BY <1>6, <1>9, <1>12 DEF VersionInv

LEMMA WriteMarkerInv ==
  ASSUME VersionInv, V!WriteMarker
  PROVE  VersionInv'
<1>1. /\ repair.step = "marker" /\ marker' = repair.from /\ blind' = {}
      /\ repair' = [repair EXCEPT !.step = "none"]
      /\ UNCHANGED <<chain, software, status, indexed, row, reach, snapshot, excused>>
  BY DEF V!WriteMarker
<1>2. repair \in [step : {"none", "templates2", "templates", "marker"}, from : 0..Len(chain)]
  BY DEF VersionInv, VersionTypes
<1>3. /\ repair' \in [step : {"none", "templates2", "templates", "marker"}, from : 0..Len(chain)]
      /\ repair'.step = "none" /\ marker' \in 0..Len(chain)
  BY <1>1, <1>2
<1>4. ChainInv'
  BY <1>1 DEF VersionInv, ChainInv, LedgerFits, BlockFits, V!Ledger, Did, Writes
<1>5. VersionTypes'
  BY <1>1, <1>3 DEF VersionInv, VersionTypes, Writes, Did
<1>6. Stages' /\ BeforeFlip'
  BY <1>1, <1>3 DEF VersionInv, Stages, BeforeFlip
<1>7. MarkerMeansComplete'
  BY <1>1 DEF MarkerMeansComplete, V!MarkerMeansComplete
<1>8. V!Ledger(indexed)' = V!Ledger(indexed) /\ Ahead' = Ahead
  BY <1>1 DEF V!Ledger, Ahead, Written, Writes, Did
<1>9. DataIsFound'
  BY <1>1, <1>3, <1>8 DEF VersionInv, DataIsFound
<1>10. DeletionIsFound'
  BY <1>1, <1>3 DEF VersionInv, DeletionIsFound, Written, Did
<1> QED BY <1>4, <1>5, <1>6, <1>7, <1>9, <1>10 DEF VersionInv

LEMMA VersionStep ==
  ASSUME VersionInv, [V!Next]_version
  PROVE  VersionInv'
<1>1. CASE UNCHANGED version
  <2>1. UNCHANGED <<chain, software, status, indexed, row, marker, repair, blind, reach, snapshot, excused>>
    BY <1>1 DEF version
  <2>2. ChainInv' /\ DataIsFound' /\ DeletionIsFound'
    BY <2>1, RowsKept
  <2>3. VersionTypes' /\ Stages' /\ BeforeFlip' /\ MarkerMeansComplete'
    BY <2>1 DEF VersionInv, VersionTypes, Stages, BeforeFlip, MarkerMeansComplete,
       V!MarkerMeansComplete, Writes, Did
  <2> QED BY <2>2, <2>3 DEF VersionInv
<1>2. CASE V!Process
  <2>1. software = 1 \/ software = 2
    BY DEF VersionInv, VersionTypes
  <2> QED BY <1>2, <2>1, BlindProcessInv, ReadingProcessInv
<1>3. CASE V!Stop \/ V!Upgrade \/ V!Reconcile \/ V!ReconcileFails
  BY <1>3, StopInv
<1> QED BY <1>1, <1>2, <1>3, MineInv, StartInv, RewindInv, SeedInv, DiffInv, WriteMarkerInv DEF V!Next

\* The rows are those of the position: nothing is blind, and nothing ahead.
LEMMA InvHeals ==
  ASSUME VersionInv
  PROVE  RowsAreHealed
<1> DEFINE l == V!Ledger(indexed)
<1> SUFFICES ASSUME blind = {}, indexed = reach, indexed >= snapshot
             PROVE  /\ row.mutable = l.mutable
                    /\ row.deleted = l.deleted
                         \/ (l.deleted # V!Live /\ row.deleted \in l.deleted..snapshot)
  BY DEF RowsAreHealed, V!RowsAreHealed
<1>1. Written = indexed /\ indexed \in 0..Len(chain)
  BY VersionFacts DEF Written
<1>2. row.mutable = l.mutable
  <2>1. ~Ahead
    BY <1>1 DEF Ahead
  <2> QED BY <2>1 DEF VersionInv, DataIsFound
<1>3. CASE l.deleted = V!Live
  <2>1. \A d \in 1..indexed : Did(d) # "delete"
    BY <1>1, <1>3 DEF VersionInv, ChainInv, LedgerFits, V!Live
  <2>2. row.deleted = V!Live
    BY <1>1, <2>1 DEF VersionInv, DeletionIsFound
  <2> QED BY <1>2, <1>3, <2>2
<1>4. CASE l.deleted # V!Live
  <2>1. LedgerFits(indexed)
    BY <1>1 DEF VersionInv, ChainInv
  <2>2. PICK d \in 1..indexed : l.deleted = d /\ Did(d) = "delete"
    BY <1>4, <2>1 DEF LedgerFits
  <2>3. row.deleted # V!Live
    BY <2>2 DEF VersionInv, DeletionIsFound
  <2>4. PICK c \in 1..indexed : Did(c) = "delete" /\ (row.deleted = c \/ row.deleted \in c..snapshot)
    BY <1>1, <2>3 DEF VersionInv, DeletionIsFound
  <2>5. l.deleted = c
    BY <2>1, <2>4 DEF LedgerFits
  <2> QED BY <1>2, <1>4, <2>4, <2>5
<1> QED BY <1>3, <1>4

LEMMA VersionIsInvariant == ProcessSpec => []VersionInv
<1>1. ProcessInit => VersionInv
  BY VersionStarts DEF ProcessInit
<1>2. VersionInv /\ [ProcessNext]_all => VersionInv'
  BY StepOfPart, VersionStep
<1> QED BY <1>1, <1>2, PTL DEF ProcessSpec

\* For any chain, data, starts, upgrades, replays and reconciles: the marker is
\* there only when the tables of version 2 have been read up to the position,
\* since a reader without one has not come to the change, before which no block
\* writes to them (v2-guard.ts: evaluateV2Guard; processors/config.ts).
THEOREM MarkerIsProof == ProcessSpec => []MarkerMeansComplete
<1>1. VersionInv => MarkerMeansComplete
  BY DEF VersionInv
<1> QED BY <1>1, VersionIsInvariant, PTL

\* Once the reader is back where its rows have been, rows that have missed
\* nothing are those of the contract, after a replay over kept rows as after a
\* reconcile: what differs was missed before the position or was read ahead of
\* it (UPGRADING.md; reconcile.ts).
THEOREM ReplayHealsRows == ProcessSpec => []RowsAreHealed
<1>1. VersionInv => RowsAreHealed
  BY InvHeals
<1> QED BY <1>1, VersionIsInvariant, PTL
=============================================================================
