------------------------------ MODULE JobQueue ------------------------------
(***************************************************************************)
(* The periodic jobs of a reader process (src/filler/jobqueue.ts): the       *)
(* gated drains of derived tables that share one client of the database and  *)
(* give way to the block writer (src/filler/filler.ts,                       *)
(* src/filler/handlers/atomicmarket/index.ts).                               *)
(***************************************************************************)
EXTENDS Integers, Sequences, FiniteSets, SequencesExt

CONSTANTS
  LaneOf,      \* the jobs in the order they were added: the priority of each
  Pooled,      \* the jobs that use longRunningPool, which has one client
  Interval,    \* of a job, in pulses
  BatchRows,   \* rows a batch takes
  Budget,      \* pulses a drain may go on for
  MaxArrivals, \* bound: rows queued
  MaxFailures  \* bound: batches that fail

Jobs == DOMAIN LaneOf
Lanes == {LaneOf[j] : j \in Jobs}

VARIABLES
  countdown,  \* pulses until a job's nextRun
  ready,      \* the jobs past their nextRun, in the order of it
  phase,      \* of each job
  client,     \* the jobs that asked for the pool's client; the first one has it
  budgetLeft,
  work,       \* rows in the queue table each job drains
  behind,     \* reader.blocksUntilHead, against the two thresholds of the gate
  deferred,   \* maintenanceDeferred
  pulseDue, arrivals, failures,
  late        \* history: batches begun since the reader fell behind

jobVars == <<countdown, ready, phase, client, budgetLeft, work, behind, deferred,
             pulseDue, arrivals, failures, late>>

Init ==
  /\ countdown = [j \in Jobs |-> 0] /\ ready = [j \in Jobs |-> j]
  /\ phase = [j \in Jobs |-> "idle"] /\ client = <<>>
  /\ budgetLeft = [j \in Jobs |-> 0] /\ work = [j \in Jobs |-> 0]
  /\ behind = "low" /\ deferred = FALSE /\ pulseDue = FALSE
  /\ arrivals = 0 /\ failures = 0 /\ late = [j \in Jobs |-> 0]

\* The gate: on above the stop threshold, off below the resume threshold.
\* (SameThreshold: a faulty variant that never falls below the resume threshold.)
SameThreshold(was) == was \/ behind = "high"
Gate(was) == IF was THEN behind # "low" ELSE behind = "high"

Busy(lane) == \E j \in Jobs : LaneOf[j] = lane /\ phase[j] # "idle"

\* The job of a lane whose nextRun is the least.
\* (FirstAdded: a faulty variant that does not sort.)
Waiting(lane) == SelectSeq(ready, LAMBDA j : LaneOf[j] = lane)
FirstAdded(lane) == CHOOSE j \in ToSet(Waiting(lane)) : \A k \in ToSet(Waiting(lane)) : j <= k
Chosen(lane) == Head(Waiting(lane))

\* The job ends, in any way: its nextRun is an interval from now.
Ends(js) ==
  /\ phase' = [j \in Jobs |-> IF j \in js THEN "idle" ELSE phase[j]]
  /\ countdown' = [j \in Jobs |-> IF j \in js THEN Interval ELSE countdown[j]]

-----------------------------------------------------------------------------
\* setInterval.  (A job becomes due when its countdown ends.)
Tick ==
  /\ ~pulseDue /\ pulseDue' = TRUE
  /\ countdown' = [j \in Jobs |-> IF countdown[j] = 0 THEN 0 ELSE countdown[j] - 1]
  /\ budgetLeft' = [j \in Jobs |-> IF budgetLeft[j] = 0 THEN 0 ELSE budgetLeft[j] - 1]
  /\ ready' = ready \o SelectSeq([j \in Jobs |-> j], LAMBDA j : countdown[j] = 1)
  /\ UNCHANGED <<phase, client, work, behind, deferred, arrivals, failures, late>>

\* One job of each free lane is started, as far as its first await: the gate.
\* A deferred job has ended; the others ask whether there is work.
Pulse ==
  /\ pulseDue /\ pulseDue' = FALSE
  /\ LET started == {Chosen(lane) : lane \in {l \in Lanes : ~Busy(l) /\ Waiting(l) # <<>>}}
     IN /\ ready' = SelectSeq(ready, LAMBDA j : j \notin started)
        /\ deferred' = IF started = {} THEN deferred ELSE Gate(deferred)
        /\ IF deferred' THEN Ends(started) /\ UNCHANGED client
           ELSE /\ phase' = [j \in Jobs |-> IF j \in started THEN "probe" ELSE phase[j]]
                /\ client' = client \o SetToSortSeq(started \cap Pooled, LAMBDA j, k : LaneOf[j] < LaneOf[k])
                /\ UNCHANGED countdown
  /\ UNCHANGED <<budgetLeft, work, behind, arrivals, failures, late>>

HasClient(j) == j \in Pooled => Head(client) = j
Rest(j) == IF j \in Pooled THEN Tail(client) ELSE client
Again(j) == IF j \in Pooled THEN Append(Rest(j), j) ELSE client

\* The EXISTS probe: nothing queued, or the drain asks for the client.
Probe(j) ==
  /\ phase[j] = "probe" /\ HasClient(j)
  /\ IF work[j] = 0 THEN Ends({j}) /\ client' = Rest(j) /\ UNCHANGED budgetLeft
     ELSE /\ phase' = [phase EXCEPT ![j] = "connect"] /\ client' = Again(j)
          /\ budgetLeft' = [budgetLeft EXCEPT ![j] = Budget] /\ UNCHANGED countdown
  /\ UNCHANGED <<ready, work, behind, deferred, pulseDue, arrivals, failures, late>>

BeginBatch(j) ==
  /\ phase[j] = "connect" /\ HasClient(j)
  /\ phase' = [phase EXCEPT ![j] = "batch"]
  /\ late' = IF behind = "high" THEN [late EXCEPT ![j] = @ + 1] ELSE late
  /\ UNCHANGED <<countdown, ready, client, budgetLeft, work, behind, deferred, pulseDue,
                 arrivals, failures>>

\* The batch commits.  The drain goes on while rows are consumed, the budget
\* lasts and the reader keeps up.
\* (NeverYields: a faulty variant that asks the gate at its start only.)
NeverYields(j, consumed) == consumed = 0 \/ budgetLeft[j] = 0
Stops(j, consumed) == consumed = 0 \/ budgetLeft[j] = 0 \/ Gate(deferred)

EndBatch(j) ==
  /\ phase[j] = "batch"
  /\ LET consumed == IF work[j] < BatchRows THEN work[j] ELSE BatchRows
     IN /\ work' = [work EXCEPT ![j] = @ - consumed]
        \* && asks the gate last, and only if the drain would go on
        /\ deferred' = IF consumed > 0 /\ budgetLeft[j] > 0 THEN Gate(deferred) ELSE deferred
        /\ IF Stops(j, consumed) THEN Ends({j}) /\ client' = Rest(j)
           ELSE /\ phase' = [phase EXCEPT ![j] = "connect"] /\ client' = Again(j)
                /\ UNCHANGED countdown
  /\ UNCHANGED <<ready, budgetLeft, behind, pulseDue, arrivals, failures, late>>

\* ROLLBACK; the queue reports the error and the job is due again later.
FailBatch(j) ==
  /\ phase[j] = "batch" /\ failures < MaxFailures /\ failures' = failures + 1
  /\ Ends({j}) /\ client' = Rest(j)
  /\ UNCHANGED <<ready, budgetLeft, work, behind, deferred, pulseDue, arrivals, late>>

\* The block writer queues work, falls behind and catches up.
Arrive(j) ==
  /\ arrivals < MaxArrivals /\ arrivals' = arrivals + 1
  /\ work' = [work EXCEPT ![j] = @ + 1]
  /\ UNCHANGED <<countdown, ready, phase, client, budgetLeft, behind, deferred, pulseDue, failures, late>>

Reader(b) ==
  /\ behind # b /\ behind' = b
  /\ late' = IF b = "high" THEN late ELSE [j \in Jobs |-> 0]
  /\ UNCHANGED <<countdown, ready, phase, client, budgetLeft, work, deferred, pulseDue,
                 arrivals, failures>>

Next ==
  \/ Tick \/ Pulse
  \/ \E j \in Jobs : Probe(j) \/ BeginBatch(j) \/ EndBatch(j) \/ FailBatch(j) \/ Arrive(j)
  \/ \E b \in {"low", "mid", "high"} : Reader(b)

\* Timers fire and statements end (statement_timeout).
Fairness ==
  /\ WF_jobVars(Tick) /\ WF_jobVars(Pulse)
  /\ \A j \in Jobs : /\ WF_jobVars(Probe(j)) /\ WF_jobVars(BeginBatch(j))
                     /\ WF_jobVars(EndBatch(j) \/ FailBatch(j))

Spec == Init /\ [][Next]_jobVars /\ Fairness

-----------------------------------------------------------------------------
\* While the reader is behind, a drain begins at most the batch it had decided
\* on before (filler.ts:103, atomicmarket/index.ts:277).
ReaderReclaimsPriority == \A j \in Jobs : late[j] <= 1

\* Once the reader keeps up, every queue is emptied: no lane, no client and no
\* gate starves a job for good (jobqueue.ts:45, filler.ts:116).
QueuesAreDrained == <>[](behind = "low") => <>[](\A j \in Jobs : work[j] = 0)
=============================================================================
