---------------------------- MODULE ReaderProcess ----------------------------
(***************************************************************************)
(* The life of a reader: the primary process that starts and replaces it     *)
(* (src/bin/filler.ts), its watchdog (src/filler/filler.ts), and the          *)
(* block queue between the SHIP client and the block writer                 *)
(* (src/filler/receiver.ts, src/utils/semaphore.ts).                         *)
(***************************************************************************)
EXTENDS Integers, Sequences, FiniteSets

CONSTANTS
  MaxBlock,      \* bound: length of the chain, without forks
  Prefetches,    \* configured ship_prefetch_blocks
  Confirmations, \* configured ship_min_block_confirmation
  Slots,         \* ship_ds_queue_size
  GroupBlocks,   \* db_group_blocks
  StallLimits,   \* intervals without a block until the watchdog gives up
  MaxFaults      \* bound: things that go wrong

VARIABLES
  pod,        \* the primary: "down", "starting", "up", "stopping" (after SIGTERM)
  worker,     \* "none", "starting", "running", "closing" (stopFiller was called)
  message,    \* 'failure' was sent to the primary
  ship,       \* the socket: window, blocks sent, acknowledged, taken; silent
  client,     \* what the client does with the block it took
  slots,      \* Semaphore.counter
  dsQueue,    \* blocks prepared for process()
  running,    \* the block in process(), 0 if none
  stopped,    \* queueStopped; the queue is paused
  current,    \* currentBlock
  open,       \* blocks applied in the open transaction
  committed,  \* blocks applied in the database
  position,   \* contract_readers.block_num
  watch,      \* the watchdog: lastBlockNum, intervals since, the limit in force
  faults      \* bound

pipeline == <<ship, client, slots, dsQueue, running, stopped, current, open, committed, position>>
readerVars == <<pod, worker, message, pipeline, watch, faults>>

Maximum(a, b) == IF a > b THEN a ELSE b

\* The constructor lowers a confirmation count the window would never reach.
\* (AsConfigured: a faulty variant without that guard.)
AsConfigured(prefetch, confirm) == confirm
Confirmation(prefetch, confirm) ==
  IF prefetch < confirm THEN Maximum(1, prefetch \div 2) ELSE confirm

Socket(prefetch, confirm, from) ==
  [prefetch |-> prefetch, confirm |-> confirm, sent |-> from, acked |-> from, taken |-> from,
   done |-> 0, silent |-> FALSE]

Init ==
  /\ pod = "down" /\ worker = "none" /\ message = FALSE
  /\ \E p \in Prefetches, c \in Confirmations : ship = Socket(p, Confirmation(p, c), 0)
  /\ client = "idle" /\ slots = 0 /\ dsQueue = <<>> /\ running = 0 /\ stopped = FALSE
  /\ current = 0 /\ open = {} /\ committed = {} /\ position = 0
  /\ watch = [seen |-> -1, stale |-> 0, limit |-> 1] /\ faults = 0

Fault == faults < MaxFaults /\ faults' = faults + 1

-----------------------------------------------------------------------------
(* The primary.                                                             *)

Boot ==
  /\ pod = "down" /\ pod' = "starting" /\ message' = FALSE
  /\ UNCHANGED <<worker, pipeline, watch, faults>>

\* connect, the chain id, the migrations; then one worker is forked.
StartWorker ==
  /\ pod = "starting" /\ pod' = "up" /\ worker' = "starting"
  /\ UNCHANGED <<message, pipeline, watch, faults>>

StartupFails ==
  /\ pod = "starting" /\ Fault /\ pod' = "down"
  /\ UNCHANGED <<worker, message, pipeline, watch>>

\* What a process takes with it when it ends; the database rolls back.
Lost ==
  /\ open' = {} /\ running' = 0 /\ dsQueue' = <<>> /\ client' = "idle"
  /\ slots' = 0 /\ stopped' = FALSE
  /\ UNCHANGED <<ship, current, committed, position>>

\* The worker ends, on a failure, on SIGTERM or by an uncaught error, which
\* sends no message.
WorkerEnds ==
  /\ worker' = "none" /\ Lost /\ UNCHANGED <<pod, message, watch>>
  /\ \/ worker = "closing" /\ UNCHANGED faults
     \/ worker # "none" /\ pod = "stopping" /\ UNCHANGED faults
     \/ worker \in {"starting", "running"} /\ Fault

\* The primary exits on the message, or on the exit of a worker it did not ask
\* for; the orchestrator kills one that is shutting down.
\* (OnMessage: a faulty variant without the listener for the exit.)
OnMessage == message
Noticed == message \/ (worker = "none" /\ pod = "up")

PrimaryExits ==
  /\ pod \in {"up", "stopping"} /\ (Noticed \/ pod = "stopping")
  /\ pod' = "down" /\ worker' = "none" /\ Lost /\ UNCHANGED <<message, watch, faults>>

Sigterm ==
  /\ pod = "up" /\ Fault /\ pod' = "stopping"
  /\ UNCHANGED <<worker, message, pipeline, watch>>

-----------------------------------------------------------------------------
(* The worker: startFiller, startProcessing, the watchdog.                  *)

StartReader ==
  /\ worker = "starting" /\ worker' = "running"
  /\ current' = position
  /\ ship' = Socket(ship.prefetch, ship.confirm, position)
  /\ \E l \in StallLimits : watch' = [seen |-> -1, stale |-> 0, limit |-> l]
  /\ UNCHANGED <<pod, message, client, slots, dsQueue, running, stopped, open, committed,
                 position, faults>>

CanSend == ~ship.silent /\ ship.sent < MaxBlock /\ ship.sent - ship.acked < ship.prefetch
Stuck ==
  /\ ~CanSend /\ running = 0 /\ (dsQueue = <<>> \/ stopped)
  /\ client # "prepare" /\ (client = "idle" => ship.taken = ship.sent)

\* The interval.  A block that takes longer than the limit counts as a fault.
GiveUp == worker' = "closing" /\ message' = TRUE /\ UNCHANGED watch

Watch ==
  /\ worker = "running" /\ UNCHANGED <<pod, pipeline>>
  /\ \/ stopped /\ GiveUp /\ UNCHANGED faults
     \/ /\ ~stopped /\ watch.seen = -1
        /\ watch' = [watch EXCEPT !.seen = current] /\ UNCHANGED <<worker, message, faults>>
     \/ /\ ~stopped /\ watch.seen \notin {-1, current}
        /\ \E l \in StallLimits : watch' = [seen |-> current, stale |-> 0, limit |-> l]
        /\ UNCHANGED <<worker, message, faults>>
     \/ /\ ~stopped /\ watch.seen = current /\ watch.stale < watch.limit
        /\ watch' = [watch EXCEPT !.stale = @ + 1] /\ UNCHANGED <<worker, message, faults>>
     \/ /\ ~stopped /\ watch.seen = current /\ watch.stale = watch.limit
        /\ GiveUp /\ (IF Stuck THEN UNCHANGED faults ELSE Fault)

-----------------------------------------------------------------------------
(* The queue.                                                               *)

Alive == worker \in {"running", "closing"}

\* SHIP sends as far as the window lets it.
Send ==
  /\ worker = "running" /\ CanSend /\ ship' = [ship EXCEPT !.sent = @ + 1]
  /\ UNCHANGED <<pod, worker, message, client, slots, dsQueue, running, stopped, current, open,
                 committed, position, watch, faults>>

\* The socket is half open: no close, no blocks.
FallSilent ==
  /\ worker = "running" /\ ~ship.silent /\ Fault /\ ship' = [ship EXCEPT !.silent = TRUE]
  /\ UNCHANGED <<pod, worker, message, client, slots, dsQueue, running, stopped, current, open,
                 committed, position, watch>>

\* consume() takes a slot, or waits for one.
Take ==
  /\ Alive /\ client = "idle" /\ ship.taken < ship.sent
  /\ ship' = [ship EXCEPT !.taken = @ + 1]
  /\ IF slots < Slots THEN client' = "prepare" /\ slots' = slots + 1
     ELSE client' = "waiting" /\ UNCHANGED slots
  /\ UNCHANGED <<pod, worker, message, dsQueue, running, stopped, current, open, committed,
                 position, watch, faults>>

\* consume() returns when the block is queued; enough of them are acknowledged.
Prepare ==
  /\ Alive /\ client = "prepare" /\ client' = "idle"
  /\ dsQueue' = Append(dsQueue, ship.taken)
  /\ ship' = IF ship.done + 1 >= ship.confirm
             THEN [ship EXCEPT !.acked = @ + ship.done + 1, !.done = 0]
             ELSE [ship EXCEPT !.done = @ + 1]
  /\ UNCHANGED <<pod, worker, message, slots, running, stopped, current, open, committed,
                 position, watch, faults>>

\* release() lets the waiting call in.
Released(n) == IF client = "waiting" /\ n - 1 < Slots THEN [slots |-> n, client |-> "prepare"]
               ELSE [slots |-> n - 1, client |-> client]

\* The block cannot be decoded: consume() gives its slot back and throws, and the
\* client takes no other block.
PrepareFails ==
  /\ Alive /\ client = "prepare" /\ Fault /\ client' = "failed" /\ slots' = slots - 1
  /\ UNCHANGED <<pod, worker, message, ship, dsQueue, running, stopped, current, open, committed,
                 position, watch>>

BeginProcess ==
  /\ Alive /\ running = 0 /\ dsQueue # <<>> /\ ~stopped
  /\ running' = Head(dsQueue) /\ dsQueue' = Tail(dsQueue)
  /\ UNCHANGED <<pod, worker, message, ship, client, slots, stopped, current, open, committed,
                 position, watch, faults>>

GroupIsFull(b) == Cardinality(open \cup {b}) >= IF b = MaxBlock THEN 1 ELSE GroupBlocks

\* process() applies the block and commits a full group.
Process ==
  /\ Alive /\ running # 0 /\ running <= current + 1 /\ running' = 0 /\ current' = running
  /\ IF GroupIsFull(running)
     THEN /\ committed' = committed \cup open \cup {running} /\ open' = {}
          /\ position' = running
     ELSE open' = open \cup {running} /\ UNCHANGED <<committed, position>>
  /\ LET r == Released(slots) IN slots' = r.slots /\ client' = r.client
  /\ UNCHANGED <<pod, worker, message, ship, dsQueue, stopped, watch, faults>>

\* The catch of consume(): release, purge, clear, pause.  The call that was let
\* in goes on; the counter is zero whatever still holds a slot.
\* (Cleared: a faulty variant that does not pause.)
Cleared == UNCHANGED stopped
Paused == stopped' = TRUE

ProcessFails ==
  /\ Alive /\ running # 0 /\ running' = 0 /\ open' = {}
  /\ \/ running > current + 1 /\ UNCHANGED <<current, faults>>   \* 'Skipped a block'
     \/ running <= current + 1 /\ Fault
        /\ current' \in IF GroupIsFull(running) THEN {current, running} ELSE {current}
  /\ client' = Released(slots).client /\ slots' = 0 /\ dsQueue' = <<>> /\ Paused
  /\ UNCHANGED <<pod, worker, message, ship, committed, position, watch>>

-----------------------------------------------------------------------------
Next ==
  \/ Boot \/ StartWorker \/ StartupFails \/ WorkerEnds \/ PrimaryExits \/ Sigterm
  \/ StartReader \/ Watch
  \/ Send \/ FallSilent \/ Take \/ Prepare \/ PrepareFails \/ BeginProcess \/ Process \/ ProcessFails

Closes == worker = "closing" /\ WorkerEnds
Flows == Send \/ Take \/ Prepare \/ BeginProcess \/ Process
Skipped == running > current + 1 /\ ProcessFails

\* Timers and messages between processes arrive, the orchestrator restarts what
\* ended, and what is in flight goes on; nothing need go wrong.
Fairness ==
  /\ WF_readerVars(Boot) /\ WF_readerVars(StartWorker) /\ WF_readerVars(PrimaryExits)
  /\ WF_readerVars(Closes)
  /\ WF_readerVars(StartReader) /\ WF_readerVars(Watch)
  /\ WF_readerVars(Flows) /\ WF_readerVars(Skipped)

Spec == Init /\ [][Next]_readerVars /\ Fairness

-----------------------------------------------------------------------------
\* What is committed is every block up to the checkpoint: a failed block, whose
\* number is already in currentBlock when its commit fails, is not passed over
\* by the blocks prepared behind it (receiver.ts:254, receiver.ts:275).
NothingIsSkipped == committed = 1..position

\* Whatever dies, wedges or falls silent, and however small the window, the
\* reader gets to the end of the chain (receiver.ts:103, filler.ts:199,
\* bin/filler.ts:99).
AtEnd == position = MaxBlock
EveryBlockIsProcessed == <>AtEnd
=============================================================================
