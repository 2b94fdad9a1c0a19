------------------------- MODULE ContractTransaction -------------------------
(***************************************************************************)
(* The life of one ContractDBTransaction (src/src/filler/database.ts): its  *)
(* lock, its registration for the shutdown sweep, its buffers and trace     *)
(* logs, and its end by commit() or abort().  Two callers share it: the     *)
(* block processor, which writes and then commits (or aborts, when anything *)
(* raised), and the exit hook, which aborts every registered transaction.   *)
(*                                                                          *)
(* Between two awaits a caller is not interrupted; a step ends where the    *)
(* code awaits the lock or the database.                                    *)
(***************************************************************************)
EXTENDS Integers, Sequences, FiniteSets

CONSTANTS
  Modes,        \* which transactions there are: buffered (TRUE) or not
  ExitHook,     \* the process may be told to stop
  Failures,     \* statements may fail
  MaxItems,     \* bound: rows written and traces logged
  MaxChunks     \* bound: commits of chunks of a fork rollback

ASSUME TransactionAssumption ==
  /\ Modes \subseteq BOOLEAN /\ Modes # {} /\ {ExitHook, Failures} \subseteq BOOLEAN
  /\ MaxItems \in Nat /\ MaxChunks \in Nat

Callers == {"worker", "hook"}
Items == 1..MaxItems

VARIABLES
  buffered,   \* an irreversible transaction: enableWriteBuffer() was called
  pc,         \* where each caller stands
  lock,       \* AwaitLock: its holder, then those waiting, first come first
  begun,      \* inTransaction
  registered, \* occurrences of the transaction in ContractDB.transactions
  finalized,
  released,   \* how often client.release() was called
  pending,    \* rows in writeBuffer
  logs,       \* actionLogs
  traces,     \* traces in writeBuffer, or written
  staged,     \* written in the open database transaction
  durable,    \* committed
  partial,    \* committed by a rollback chunk
  issued,     \* rows and traces the handlers have handed over
  chunks,     \* chunk commits so far (bound)
  stray,      \* a statement was sent through a client given back
  result      \* what commit() told the worker: none, returned, raised

state == <<begun, registered, finalized, released>>
data == <<pending, logs, traces, staged, durable, partial>>
vars == <<buffered, pc, lock, begun, registered, finalized, released, pending, logs,
          traces, staged, durable, partial, issued, chunks, stray, result>>

WorkerStates == {"run", "op", "chunk", "committing", "flush", "logs", "wantCommit", "commit",
                 "failed", "abort", "done"}

TypeOK ==
  /\ buffered \in Modes
  /\ pc \in [worker: WorkerStates, hook: {"idle", "abort", "done"}]
  /\ lock \in {<<>>, <<"worker">>, <<"hook">>, <<"worker", "hook">>, <<"hook", "worker">>}
  /\ {begun, finalized, stray} \subseteq BOOLEAN
  /\ registered \in 0..(2 * MaxChunks + 1) /\ released \in 0..2 /\ chunks \in 0..MaxChunks
  /\ \A s \in {pending, logs, traces, staged, durable, partial, issued} : s \subseteq Items
  /\ result \in {"none", "returned", "raised"}

Init ==
  /\ buffered \in Modes
  /\ pc = [worker |-> "run", hook |-> "idle"]
  /\ lock = <<>> /\ begun = FALSE /\ registered = 0
  /\ finalized = FALSE /\ released = 0
  /\ pending = {} /\ logs = {} /\ traces = {} /\ staged = {}
  /\ durable = {} /\ partial = {} /\ issued = {}
  /\ chunks = 0 /\ stray = FALSE /\ result = "none"

Goto(caller, label) == pc' = [pc EXCEPT ![caller] = label]
Holds(caller) == lock # <<>> /\ Head(lock) = caller
Acquire(caller) == lock' = Append(lock, caller)
\* (ReleaseUnlessFinalized: a faulty variant, gated on the wrong flag.)
ReleaseUnlessFinalized == lock' = IF finalized THEN lock ELSE Tail(lock)
Release == lock' = Tail(lock)

Fresh == 1 + Cardinality(issued)

-----------------------------------------------------------------------------
(* The handlers, one after the other.                                       *)

\* logTrace() only remembers the trace.
LogTrace ==
  /\ pc.worker = "run" /\ Fresh \in Items
  /\ logs' = logs \cup {Fresh} /\ issued' = issued \cup {Fresh}
  /\ UNCHANGED <<pc, lock, state, pending, traces, staged, durable, partial,
                 chunks, stray, result>>

\* insert() of a buffered transaction takes no lock.
BufferRow ==
  /\ buffered /\ pc.worker = "run" /\ Fresh \in Items
  /\ pending' = pending \cup {Fresh} /\ issued' = issued \cup {Fresh}
  /\ UNCHANGED <<pc, lock, state, logs, traces, staged, durable, partial,
                 chunks, stray, result>>

\* query(), update(), delete(), insertDirect(), and rollbackReversibleBlocks().
CallStatement ==
  /\ pc.worker = "run" /\ Fresh \in Items
  /\ Acquire("worker") /\ Goto("worker", "op")
  /\ UNCHANGED <<state, data, issued, chunks, stray, result>>

CallRollback ==
  /\ pc.worker = "run" /\ chunks < MaxChunks
  /\ Acquire("worker") /\ Goto("worker", "chunk")
  /\ UNCHANGED <<state, data, issued, chunks, stray, result>>

\* begin() registers the transaction each time it opens one.  Nothing but
\* commit() and abort() asks whether the client has been given back: then the
\* rows commit by themselves, whoever holds the client by now.
Write(rows) ==
  IF finalized
    THEN /\ stray' = TRUE /\ durable' = durable \cup rows
         /\ UNCHANGED <<begun, registered, staged>>
    ELSE /\ begun' = TRUE
         /\ registered' = IF begun THEN registered ELSE registered + 1
         /\ staged' = staged \cup rows
         /\ UNCHANGED <<stray, durable>>

\* A statement raises, that of begin() perhaps: the handler unwinds to
\* process(), which aborts.
Raise ==
  /\ Failures
  /\ Holds("worker") /\ pc.worker \in {"op", "chunk", "flush", "logs"}
  /\ begun' \in {begun, TRUE}
  /\ Goto("worker", "failed") /\ Release
  /\ UNCHANGED <<registered, finalized, released, data, issued, chunks, stray, result>>

\* The pending rows are flushed and the statement runs.
Statement ==
  /\ pc.worker = "op" /\ Holds("worker")
  /\ Write(pending \cup {Fresh})
  /\ pending' = {} /\ issued' = issued \cup {Fresh}
  /\ Goto("worker", "run") /\ Release
  /\ UNCHANGED <<finalized, released, logs, traces, partial, chunks, result>>

\* A chunk of the rollback: what is staged commits and begin() runs again.  An
\* undo entry that is not an insert flushes the buffers on the way.
RollbackChunk ==
  /\ pc.worker = "chunk" /\ Holds("worker")
  /\ \E flushed \in {{}, pending} :
        /\ pending' = pending \ flushed
        /\ durable' = durable \cup staged \cup flushed
        /\ partial' = partial \cup staged \cup flushed
  /\ staged' = {} /\ begun' = TRUE
  /\ registered' = registered + (IF begun THEN 1 ELSE 2)
  /\ stray' = (stray \/ finalized)
  /\ chunks' = chunks + 1
  /\ Goto("worker", "run") /\ Release
  /\ UNCHANGED <<finalized, released, logs, traces, issued, result>>

-----------------------------------------------------------------------------
(* commit() and abort().                                                    *)

Returns(outcome) == result' = outcome /\ Goto("worker", "done")

CallCommit ==
  /\ pc.worker = "run"
  /\ IF finalized THEN Returns("returned") ELSE Goto("worker", "committing") /\ UNCHANGED result
  /\ UNCHANGED <<lock, state, data, issued, chunks, stray>>

\* flushBuffers(true), one locked statement after the other.
\* (CommitUnflushed: a faulty variant that leaves the buffers as they are.)
CommitUnflushed ==
  /\ pc.worker = "committing" /\ Goto("worker", "wantCommit")
  /\ UNCHANGED <<lock, state, data, issued, chunks, stray, result>>
CommitFlush ==
  /\ pc.worker = "committing"
  /\ IF pending = {} THEN Goto("worker", "wantCommit") /\ UNCHANGED lock
                     ELSE Goto("worker", "flush") /\ Acquire("worker")
  /\ UNCHANGED <<state, data, issued, chunks, stray, result>>

FlushRow ==
  /\ pc.worker = "flush" /\ Holds("worker")
  /\ IF pending = {}
       THEN UNCHANGED <<begun, registered, pending, staged, stray, durable>>
       ELSE \E row \in pending : Write({row}) /\ pending' = pending \ {row}
  /\ Goto("worker", "committing") /\ Release
  /\ UNCHANGED <<finalized, released, logs, traces, partial, issued, chunks, result>>

\* The remembered traces are inserted: into the buffer of a buffered
\* transaction, which is not flushed again, or else into the table.
\* (BuffersAlways: a faulty variant.)
BuffersAlways == TRUE
BuffersInserts == buffered
CommitLogs ==
  /\ pc.worker = "wantCommit"
  /\ IF logs # {} /\ ~BuffersInserts
       THEN Goto("worker", "logs") /\ UNCHANGED <<pending, logs, traces>>
       ELSE /\ Goto("worker", "commit")
            /\ pending' = pending \cup logs /\ logs' = {} /\ traces' = traces \cup logs
  /\ Acquire("worker")
  /\ UNCHANGED <<state, staged, durable, partial, issued, chunks, stray, result>>

InsertLogs ==
  /\ pc.worker = "logs" /\ Holds("worker")
  /\ Write(logs)
  /\ logs' = {} /\ traces' = traces \cup logs
  /\ Goto("worker", "wantCommit") /\ Release
  /\ UNCHANGED <<finalized, released, pending, partial, issued, chunks, result>>

\* The client goes back to the pool and every registration is removed.
\* (DeregisterFirst: a faulty variant that removes one.)
DeregisterFirst(n) == IF n = 0 THEN 0 ELSE n - 1
Deregister(n) == 0
Finalize ==
  /\ finalized' = TRUE /\ released' = released + 1
  /\ registered' = Deregister(registered)

\* Re-checked once the lock is held: the other call may have been first.
\* (NeverFinalized: a faulty variant without the second check.)
NeverFinalized == FALSE
AlreadyFinalized == finalized

CommitLocked ==
  /\ pc.worker = "commit" /\ Holds("worker")
  /\ IF AlreadyFinalized
       THEN UNCHANGED <<begun, registered, finalized, released, staged, durable>> /\ Returns("returned")
       ELSE /\ Finalize
            /\ UNCHANGED begun
            /\ \/ durable' = durable \cup staged /\ Returns("returned")
               \/ \* the connection is lost; whether it committed is not known
                  /\ Failures /\ begun
                  /\ durable' \in {durable, durable \cup staged}
                  /\ Goto("worker", "failed") /\ UNCHANGED result
            /\ staged' = {}
  /\ Release
  /\ UNCHANGED <<pending, logs, traces, partial, issued, chunks, stray>>

\* abort() clears the buffers before it waits for the lock.  A flush under way
\* keeps the rows of the table it is at.
Cleared == IF pc.worker \in {"committing", "flush"} THEN SUBSET pending ELSE {{}}
CallAbort(caller) ==
  \/ /\ finalized /\ Goto(caller, "done")
     /\ result' = IF caller = "worker" THEN "raised" ELSE result
     /\ UNCHANGED <<lock, pending>>
  \/ /\ ~finalized /\ Goto(caller, "abort") /\ Acquire(caller)
     /\ pending' \in Cleared /\ UNCHANGED result

WorkerAborts ==
  /\ pc.worker = "failed" /\ CallAbort("worker")
  /\ UNCHANGED <<state, logs, traces, staged, durable, partial, issued, chunks, stray>>

\* The exit hook walks a copy of the registered transactions.
HookAborts ==
  /\ ExitHook /\ pc.hook = "idle" /\ registered > 0 /\ CallAbort("hook")
  /\ UNCHANGED <<state, logs, traces, staged, durable, partial, issued, chunks, stray>>

AbortLocked(caller) ==
  /\ pc[caller] = "abort" /\ Holds(caller)
  /\ IF AlreadyFinalized
       THEN UNCHANGED <<registered, finalized, released, staged>>
       ELSE Finalize /\ staged' = {}
  /\ Goto(caller, "done") /\ Release
  /\ result' = IF caller = "worker" THEN "raised" ELSE result
  /\ UNCHANGED <<begun, pending, logs, traces, durable, partial, issued, chunks, stray>>

-----------------------------------------------------------------------------
Worker ==
  /\ UNCHANGED buffered
  /\ \/ LogTrace \/ BufferRow \/ CallStatement \/ CallRollback
     \/ Raise \/ Statement \/ RollbackChunk
     \/ CallCommit \/ CommitFlush \/ FlushRow \/ CommitLogs \/ InsertLogs \/ CommitLocked
     \/ WorkerAborts \/ AbortLocked("worker")
Hook == UNCHANGED buffered /\ (HookAborts \/ AbortLocked("hook"))

Next == Worker \/ Hook

Spec == Init /\ [][Next]_vars

\* The event loop runs on, and the database answers or fails.
FairSpec == Spec /\ WF_vars(Worker) /\ WF_vars(AbortLocked("hook") /\ UNCHANGED buffered)

-----------------------------------------------------------------------------
(* What a transaction promises.                                             *)

\* database.ts:483: whichever of commit() and abort() completes first gives
\* the client back, and the other leaves it alone.
ReleasedOnce == released <= 1

\* database.ts:1266: a finalized transaction is out of the sweep's reach, also
\* after a rollback that registered it once per chunk.
RegistryIsClean == finalized /\ ~stray => registered = 0

\* Of the rows of a transaction either all are committed or none but those of
\* its rollback chunks, whichever way commit(), abort() and failures interleave.
RowsAllOrNothing ==
  pc.worker = "done" /\ ~stray =>
    durable \ traces \in {partial \ traces, issued \ (logs \cup traces)}

\* A trace logged while a reversible block is processed is committed with it.
\* (In a buffered transaction it enters the buffer after the last flush and is
\* dropped: the property does not hold there.)
TracesAreKeptAtHead ==
  ~buffered /\ result = "returned" /\ pc.hook = "idle" =>
    logs = {} /\ traces \subseteq durable

Settled == pc.worker = "done" /\ pc.hook # "abort" /\ lock = <<>>

\* database.ts:1189: no caller is left waiting for the lock.
LockIsNeverStranded == <>[]Settled
=============================================================================
