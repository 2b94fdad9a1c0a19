--------------------------- MODULE MCFillerProcess ---------------------------
(***************************************************************************)
(* TLC instances of what a reader process is made of: its transactions, its  *)
(* jobs, its life under the primary process, its own version across that of  *)
(* the contract, and the schema it starts on.  They share no state, so a     *)
(* behaviour is one of them: part chooses which.                            *)
(***************************************************************************)
EXTENDS ContractTransaction

CONSTANTS
  LaneOf, Pooled, Interval, BatchRows, Budget, MaxArrivals, MaxFailures,
  MaxBlock, Prefetches, Confirmations, Slots, GroupBlocks, StallLimits, MaxFaults,
  Data, Installed, MaxHeight, MaxStarts, MaxRepairs,
  Handlers, Newest, Deferred, MaxBoots

VARIABLES
  part,
  countdown, ready, phase, poolClient, budgetLeft, work, behind, deferred, pulseDue, arrivals,
  failures, late,
  pod, worker, message, ship, shipClient, slots, dsQueue, running, stopped, current, open,
  committed, position, watch, faults,
  chain, software, status, indexed, row, marker, repair, blind, reach, snapshot, excused, starts,
  repairs,
  db, built, image, config, mig, boots

transaction == vars
jobs == <<countdown, ready, phase, poolClient, budgetLeft, work, behind, deferred, pulseDue,
          arrivals, failures, late>>
reader == <<pod, worker, message, ship, shipClient, slots, dsQueue, running, stopped, current,
            open, committed, position, watch, faults>>
version == <<chain, software, status, indexed, row, marker, repair, blind, reach, snapshot,
             excused, starts, repairs>>
schema == <<db, built, image, config, mig, boots>>
all == <<part, transaction, jobs, reader, version, schema>>

J == INSTANCE JobQueue WITH client <- poolClient
R == INSTANCE ReaderProcess WITH client <- shipClient
V == INSTANCE V2Continuity WITH position <- indexed
M == INSTANCE Migrations
ASSUME VersionAssumption == V!VersionInstance
ASSUME NewestAssumption == Newest \in Nat

\* Four jobs, two of them on the pool's one client and one in a lane of its own.
FourJobs == <<1, 1, 1, 2>>

ProcessInit ==
  /\ part \in {"transaction", "jobs", "reader", "version", "schema"}
  /\ Init /\ J!Init /\ R!Init /\ V!Init /\ M!Init
  /\ part # "transaction" => buffered = (CHOOSE b \in Modes : TRUE)
  /\ part # "reader" => ship.prefetch = 1 /\ ship.confirm = 1
  /\ part # "version" => software = (CHOOSE v \in Installed : TRUE)

ProcessNext ==
  /\ UNCHANGED part
  /\ \/ part = "transaction" /\ Next /\ UNCHANGED <<jobs, reader, version, schema>>
     \/ part = "jobs" /\ J!Next /\ UNCHANGED <<transaction, reader, version, schema>>
     \/ part = "reader" /\ R!Next /\ UNCHANGED <<transaction, jobs, version, schema>>
     \/ part = "version" /\ V!Next /\ UNCHANGED <<transaction, jobs, reader, schema>>
     \/ part = "schema" /\ M!Next /\ UNCHANGED <<transaction, jobs, reader, version>>

\* The fairness of each part, where it is the one that runs.
Runs(p) == part = p
ProcessFairness ==
  /\ WF_vars(Runs("transaction") /\ Worker)
  /\ WF_vars(Runs("transaction") /\ AbortLocked("hook") /\ UNCHANGED buffered)
  /\ WF_jobs(Runs("jobs") /\ J!Tick) /\ WF_jobs(Runs("jobs") /\ J!Pulse)
  /\ \A j \in J!Jobs : /\ WF_jobs(Runs("jobs") /\ J!Probe(j))
                     /\ WF_jobs(Runs("jobs") /\ J!BeginBatch(j))
                     /\ WF_jobs(Runs("jobs") /\ (J!EndBatch(j) \/ J!FailBatch(j)))
  /\ WF_reader(Runs("reader") /\ R!Boot) /\ WF_reader(Runs("reader") /\ R!StartWorker)
  /\ WF_reader(Runs("reader") /\ R!PrimaryExits) /\ WF_reader(Runs("reader") /\ R!Closes)
  /\ WF_reader(Runs("reader") /\ R!StartReader) /\ WF_reader(Runs("reader") /\ R!Watch)
  /\ WF_reader(Runs("reader") /\ R!Flows) /\ WF_reader(Runs("reader") /\ R!Skipped)

ProcessSpec == ProcessInit /\ [][ProcessNext]_all /\ ProcessFairness

\* JobQueue: a reader that is behind is given way to.
ReaderReclaimsPriority == J!ReaderReclaimsPriority

\* JobQueue: every queue is emptied.
QueuesAreDrained == J!QueuesAreDrained

\* ReaderProcess: no block is passed over.
NothingIsSkipped == R!NothingIsSkipped

\* ReaderProcess: the reader gets to the end of the chain.
EveryBlockIsProcessed == <>(part = "reader" => R!AtEnd)

\* ContractTransaction: nobody waits for the lock for ever.
LockIsReleased == <>[](part = "transaction" => Settled)

\* V2Continuity: the marker, and the rows that a replay or a reconcile heals.
MarkerMeansComplete == V!MarkerMeansComplete
RowsAreHealed == V!RowsAreHealed

\* Migrations: the version of the database says which scripts have run.
VersionMeansMigrated == M!VersionMeansMigrated
=============================================================================
