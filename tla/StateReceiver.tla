--------------------------- MODULE StateReceiver ----------------------------
(***************************************************************************)
(* The block pipeline of one reader: StateReceiver.process() with the       *)
(* operation queue of DataProcessor and the ContractDBTransaction it writes *)
(* through (src/src/filler/receiver.ts, processor.ts, database.ts), the     *)
(* chain and the state-history node (SHIP) that feed it, and the crashes    *)
(* and restarts of its process.                                             *)
(*                                                                          *)
(* The block a step works on, the transaction it writes into and every      *)
(* await inside process() between two durable effects are separate steps:   *)
(* the process may crash, and the chain may move, between any two of them.  *)
(***************************************************************************)
EXTENDS ContractTables

CONSTANTS
  DbGroupBlocks,    \* readers.config db_group_blocks
  MaxReversibleWindow,  \* StateReceiver.MAX_REVERSIBLE_WINDOW (1000)
  RollbackChunk,    \* CHUNK_SIZE of rollbackReversibleBlocks (100)
  PruneEvery,       \* process() prunes the fork tables every 12th block
  UpdateEvery,      \* catch-up rewrites the position after 500 blocks
  IrreversibleOnly, \* readers.config irreversible_only
  \* the environment
  FaultyShip,       \* a SHIP restored from another snapshot answers a start
                    \* request with any block
  CrashInRollback,  \* the process may crash between two commits of a rollback
  \* bounds
  MaxHeight, MaxLag, MaxForks, MaxCrashes

ASSUME ReceiverAssumption ==
  /\ DbGroupBlocks \in Nat \ {0}
  /\ MaxReversibleWindow \in Nat
  /\ RollbackChunk \in Nat \ {0}
  /\ PruneEvery \in Nat \ {0}
  /\ UpdateEvery \in Nat
  /\ {IrreversibleOnly, FaultyShip, CrashInRollback} \subseteq BOOLEAN
  /\ {MaxHeight, MaxLag, MaxForks, MaxCrashes} \subseteq Nat

\* "Upper bound on how far below the checkpoint a genuine fork can reach."
ASSUME WindowAssumption == MaxLag <= MaxReversibleWindow

VARIABLES
  chain,      \* the active branch as SHIP serves it: chain[n] is block n
  lib,        \* its last irreversible block number
  forks,      \* branch switches so far (bound)
  pg,         \* what Postgres has committed for this reader
  tx,         \* the same as seen by the open transaction (= pg if none is)
  buf,        \* write and update buffers of an irreversible transaction
  begun,      \* ContractDBTransaction.inTransaction
  pc,         \* where process() stands
  mode,       \* processor.getState()
  current,    \* currentBlock
  floor,      \* lastIrreversibleBlock
  collected,  \* collectedBlocks
  lastUpdate, \* lastBlockUpdate
  queue,      \* DataProcessor.liveQueue, as the writes its jobs will issue
  blk,        \* the SHIP response being processed
  next,       \* the block SHIP sends next
  undone,     \* rollback entries executed since the last chunk commit
  crashes     \* crashes so far (bound)

chainVars == <<chain, lib, forks>>
txVars == <<tx, buf, begun>>
memVars == <<mode, current, floor, collected, lastUpdate, queue>>
vars == <<chain, lib, forks, pg, tx, buf, begun, pc, mode, current, floor,
          collected, lastUpdate, queue, blk, next, undone, crashes>>

(***************************************************************************)
(* The tables of a reader: contract rows, reversible_queries,               *)
(* reversible_blocks (a block id stands for the whole branch up to the      *)
(* block, as a hash does) and contract_readers.block_num.  The last two     *)
(* fields are history: the blocks whose writes the rows hold, and the block *)
(* a rollback that has committed a chunk is heading for (0 if none).        *)
(***************************************************************************)
Tables == [rows: Contents, log: SUBSET Entry,
           blocks: SUBSET [num: Nat \ {0}, id: Seq(Block)],
           position: Nat, idx: Seq(Block), rewinding: Nat]

NoBlk == [branch |-> <<>>, lib |-> 0, until |-> 0]
Num == Len(blk.branch)
Reversible == Num > blk.lib
Low(a, b) == IF a < b THEN a ELSE b
High(a, b) == IF a > b THEN a ELSE b

TypeOK ==
  /\ chain \in Seq(Block) /\ lib \in 0..Len(chain) /\ forks \in Nat
  /\ pg \in Tables /\ tx \in Tables
  /\ buf \in Buffers /\ begun \in BOOLEAN
  /\ pc \in {"down", "idle", "undo", "execute", "dead"}
  /\ mode \in {"CATCHUP", "HEAD"}
  /\ current \in Nat /\ floor \in Nat /\ lastUpdate \in Nat /\ crashes \in Nat
  /\ next \in Nat \ {0}
  /\ collected \in 0..DbGroupBlocks /\ undone \in 0..RollbackChunk
  /\ queue \in Seq(Op)
  /\ blk \in [branch: Seq(Block), lib: Nat, until: Nat]

Init ==
  /\ chain = <<>> /\ lib = 0 /\ forks = 0
  /\ pg = [rows |-> Empty, log |-> {}, blocks |-> {}, position |-> 0,
           idx |-> <<>>, rewinding |-> 0]
  /\ tx = pg /\ buf = NoBuffers /\ begun = FALSE
  /\ pc = "down" /\ mode = "CATCHUP"
  /\ current = 0 /\ floor = 0 /\ collected = 0 /\ lastUpdate = 0
  /\ queue = <<>> /\ blk = NoBlk /\ next = 1 /\ undone = 0 /\ crashes = 0

-----------------------------------------------------------------------------
(* The chain, as the state-history node follows it.                         *)

OnBranch(id, c) == Len(id) <= Len(c) /\ SubSeq(c, 1, Len(id)) = id

Extend ==
  /\ Len(chain) < MaxHeight /\ Len(chain) - lib < MaxLag
  /\ \E b \in BlocksOver(StateAfter(chain, Len(chain))) :
        chain' = Append(chain, b)
  /\ UNCHANGED <<lib, forks, pg, txVars, pc, memVars, blk, next, undone, crashes>>

AdvanceLib ==
  /\ lib < Len(chain)
  /\ lib' = lib + 1
  /\ UNCHANGED <<chain, forks, pg, txVars, pc, memVars, blk, next, undone, crashes>>

\* A switch to a branch that leaves the current one at block f: an open
\* session is served the new block f next.
Fork ==
  /\ forks < MaxForks
  /\ \E f \in (lib + 1)..Len(chain) :
     \E b \in BlocksOver(StateAfter(chain, f - 1)) \ {chain[f]} :
        /\ chain' = Append(SubSeq(chain, 1, f - 1), b)
        /\ next' = Low(next, f)
  /\ forks' = forks + 1
  /\ UNCHANGED <<lib, pg, txVars, pc, memVars, blk, undone, crashes>>

\* The newest block SHIP serves; resp.head for the reader's purposes.
Served == IF IrreversibleOnly THEN lib ELSE Len(chain)

\* A start request is answered with the lowest of its have_positions that is
\* not on the node's branch, or else with its start_block_num.
FirstServed(blocks, start) ==
  LET asked == {b.num : b \in {p \in blocks : p.num < start /\ ~OnBranch(p.id, chain)}}
               \cup {start}
  IN  {n \in asked : \A m \in asked : n <= m}

-----------------------------------------------------------------------------
(* Process start and stop.                                                  *)

Forget(tables) ==
  /\ tx' = tables /\ buf' = NoBuffers /\ begun' = FALSE
  /\ mode' = "CATCHUP" /\ collected' = 0 /\ queue' = <<>>
  /\ blk' = NoBlk /\ undone' = 0

\* The fork guard is armed from the checkpoint, and the undo log below it is
\* dropped.
\* (UnarmedFloor: a faulty variant, the guard before it was armed at start.)
UnarmedFloor == 0
ArmedFloor == High(0, pg.position - MaxReversibleWindow)

StartBlock == pg.position + 1

Start ==
  /\ pc = "down"
  /\ floor' = ArmedFloor
  /\ pg' = [pg EXCEPT !.log = {e \in @ : e.block >= ArmedFloor},
                      !.blocks = {b \in @ : b.num >= ArmedFloor}]
  /\ current' = pg.position /\ lastUpdate' = pg.position
  /\ next' \in IF FaultyShip THEN 1..(pg.position + 2)
               ELSE FirstServed(pg'.blocks, StartBlock)
  /\ pc' = "idle"
  /\ Forget(pg')
  /\ UNCHANGED <<chainVars, crashes>>

\* Back to nothing but the database; the transaction, if any, rolls back.
Stopped ==
  /\ Forget(pg)
  /\ current' = 0 /\ floor' = 0 /\ lastUpdate' = 0 /\ next' = 1
  /\ UNCHANGED <<chainVars, pg>>

Crash ==
  /\ pc \notin {"down", "dead"} /\ crashes < MaxCrashes
  /\ CrashInRollback \/ pg.rewinding = 0
  /\ pc' = "down" /\ crashes' = crashes + 1
  /\ Stopped

\* process() throws: abort(), then consume() clears and pauses the queue for
\* good.  Nothing of the receiver is read again.
Die == pc' = "dead" /\ Stopped /\ UNCHANGED crashes

\* The watchdog of startFiller sees queueStopped and exits the process.
WatchdogExit ==
  /\ pc = "dead" /\ pc' = "down"
  /\ UNCHANGED <<chainVars, pg, txVars, memVars, blk, next, undone, crashes>>

-----------------------------------------------------------------------------
(* process(): one SHIP response.                                            *)

\* A node restored from a snapshot reports the irreversible block of then.
Responses ==
  {[branch |-> SubSeq(chain, 1, next), lib |-> l, until |-> Served - next] :
     l \in IF FaultyShip THEN {k \in 0..lib : next - k <= MaxLag} ELSE {lib}}

Receiving == pc = "idle" /\ next <= Served

NearHead(r) == Len(r.branch) > r.lib \/ r.until < 2 * DbGroupBlocks

SkippedBlock ==
  /\ Receiving /\ next > current + 1
  /\ Die

RefusedFork ==
  /\ Receiving /\ next <= current /\ next < floor
  /\ Die

\* Every few reversible blocks the bookkeeping of irreversible ones is pruned.
\* (PrunedUpToParent: a faulty variant, everything below the block goes.)
PrunedUpToParent(r) ==
  IF Len(r.branch) > r.lib /\ Len(r.branch) % PruneEvery = 0 THEN Len(r.branch) - 1 ELSE 0
PrunedUpTo(r) ==
  IF Len(r.branch) > r.lib /\ Len(r.branch) % PruneEvery = 0 THEN r.lib ELSE 0

\* The rest of process() once a fork, if any, is undone in the tables t: the
\* writes of the block are queued, its id is recorded if it can still be
\* reversed, and the transaction is executed when the group is complete.
Collect(r, t, commitSize) ==
  LET n == Len(r.branch)
      block == r.branch[n]
      rev == n > r.lib
  IN  /\ tx' = [t EXCEPT
           !.idx = IF n <= Len(@) /\ @[n] = block THEN @
                   ELSE Append(SubSeq(@, 1, n - 1), block),
           !.blocks = {b \in @ \cup (IF rev THEN {[num |-> n, id |-> r.branch]} ELSE {})
                         : b.num > PrunedUpTo(r)},
           !.log = {e \in (IF rev THEN RecordLogged(@, n) ELSE @) : e.block > PrunedUpTo(r)}]
      /\ queue' = queue \o block.ops
      /\ mode' = IF NearHead(r) THEN "HEAD" ELSE mode
      /\ current' = n
      /\ floor' = High(floor, r.lib)
      /\ collected' = collected + 1
      /\ pc' = IF collected + 1 >= commitSize THEN "execute" ELSE "idle"
      /\ blk' = IF collected + 1 >= commitSize THEN r ELSE NoBlk

NextBlock ==
  /\ Receiving /\ next = current + 1
  /\ \E r \in Responses :
        /\ Collect(r, tx, IF NearHead(r) THEN 1 ELSE DbGroupBlocks)
        /\ begun' = (next > r.lib)
  /\ next' = next + 1
  /\ UNCHANGED <<chainVars, pg, buf, lastUpdate, undone, crashes>>

\* num <= currentBlock: rollbackReversibleBlocks begins.
DetectFork ==
  /\ Receiving /\ floor <= next /\ next <= current
  /\ blk' \in Responses
  /\ pc' = "undo" /\ undone' = 0 /\ begun' = TRUE
  /\ next' = next + 1
  /\ UNCHANGED <<chainVars, pg, tx, buf, memVars, crashes>>

\* One entry is executed on the tables t; that of a block record deletes it.
AfterUndo(t, e) ==
  [t EXCEPT !.log = @ \ {e}, !.rows = Undone(e, @),
            !.blocks = {b \in @ : ~(e.key = BlockRecord /\ b.num = e.block)}]

\* An undo entry of an irreversible transaction: an INSERT goes to the write
\* buffer, anything else flushes the buffers and runs.
UndoBuffered(e) ==
  IF e.kind = "insert"
    THEN /\ buf' = BufferInsert(buf, "insert", e.key, e.old)
         /\ tx' = [tx EXCEPT !.log = @ \ {e}]
    ELSE /\ buf' = NoBuffers
         /\ tx' = AfterUndo([tx EXCEPT !.rows = Flushed(@, buf)], e)

UndoDirect(e) == tx' = AfterUndo(tx, e) /\ UNCHANGED buf

UndoFails(e) ==
  IF Reversible THEN e.kind = "insert" /\ tx.rows[e.key] # NoRow
                ELSE e.kind # "insert" /\ FlushConflicts(tx.rows, buf)

ChunkFull == undone >= RollbackChunk

UndoOne ==
  /\ pc = "undo" /\ ~ChunkFull /\ From(tx.log, Num) # {}
  /\ \E e \in From(tx.log, Num) :
        /\ IsLast(e, From(tx.log, Num))
        /\ IF UndoFails(e) THEN Die
           ELSE /\ IF Reversible THEN UndoDirect(e) ELSE UndoBuffered(e)
                /\ undone' = undone + 1
                /\ UNCHANGED <<chainVars, pg, begun, pc, memVars, blk, next, crashes>>

\* A chunk commits what it has executed so far, and a new transaction begins.
CommitChunk ==
  /\ pc = "undo" /\ undone > 0
  /\ ChunkFull \/ From(tx.log, Num) = {}
  /\ pg' = [tx EXCEPT !.rewinding = Num]
  /\ tx' = pg'
  /\ undone' = 0
  /\ UNCHANGED <<chainVars, buf, begun, pc, memVars, blk, next, crashes>>

\* The entries are gone: forget the orphaned blocks, step the position back
\* and go on with the block that replaces them, which commits at once.
FinishRollback ==
  /\ pc = "undo" /\ undone = 0 /\ From(tx.log, Num) = {}
  /\ Collect(blk, [tx EXCEPT !.blocks = {b \in @ : b.num < Num},
                             !.position = Num - 1,
                             !.idx = SubSeq(@, 1, Num - 1)], 1)
  /\ UNCHANGED <<chainVars, pg, buf, begun, lastUpdate, next, undone, crashes>>

-----------------------------------------------------------------------------
(* executeHeadQueue() and commit().                                         *)

Executing == pc = "execute" /\ queue # <<>>

\* A reversible transaction writes at once, and logs how to undo it under
\* the number of the block the transaction was opened for.
ExecuteDirect ==
  /\ Executing /\ Reversible
  /\ LET op == Head(queue)
     IN  IF Conflicts(op, tx.rows) THEN Die
         ELSE /\ tx' = [tx EXCEPT !.rows = Applied(op, @),
                                  !.log = Logged(@, op, tx.rows, Num)]
              /\ queue' = Tail(queue)
              /\ UNCHANGED <<chainVars, pg, buf, begun, pc, mode, current, floor,
                             collected, lastUpdate, blk, next, undone, crashes>>

BufferedWrite(b, op) ==
  IF op.kind = "update"
    THEN BufferUpdate(b, op.key, op.post[op.key])
    ELSE BufferInsert(b, IF op.kind = "insert" THEN "insert" ELSE "upsert",
                      op.key, op.post[op.key])

\* Writes that reach the database at once: a delete, and the query with which
\* a handler that inserts without a conflict clause reads the table first.
Statements == {"insert", "delete"}

\* An irreversible one buffers inserts and updates by primary key without
\* opening a transaction; a statement flushes the buffers and opens it.
ExecuteBuffered ==
  /\ Executing /\ ~Reversible
  /\ LET op == Head(queue)
     IN  \/ /\ op.kind \notin Statements
            /\ buf' = BufferedWrite(buf, op)
            /\ queue' = Tail(queue)
            /\ UNCHANGED <<chainVars, pg, tx, begun, pc, mode, current, floor,
                           collected, lastUpdate, blk, next, undone, crashes>>
         \/ /\ op.kind \in Statements /\ ~FlushConflicts(tx.rows, buf)
            /\ LET rows == Flushed(tx.rows, buf)
               IN  IF op.kind = "delete"
                     THEN /\ tx' = [tx EXCEPT !.rows = Applied(op, rows)]
                          /\ buf' = NoBuffers
                     ELSE /\ tx' = [tx EXCEPT !.rows = rows]
                          /\ buf' = BufferedWrite(NoBuffers, op)
            /\ begun' = TRUE
            /\ queue' = Tail(queue)
            /\ UNCHANGED <<chainVars, pg, pc, mode, current, floor,
                           collected, lastUpdate, blk, next, undone, crashes>>
         \/ /\ op.kind \in Statements /\ FlushConflicts(tx.rows, buf)
            /\ Die

\* The position moves with the data only if the transaction has already sent
\* a statement, the block is reversible, the reader is at head, or it has not
\* been written for a while.
\* (Two faulty variants: only the last condition; all but the first.)
MovesPositionSometimes == Num - lastUpdate > UpdateEvery
MovesPositionAtHead == Reversible \/ mode = "HEAD" \/ Num - lastUpdate > UpdateEvery
MovesPosition ==
  begun \/ Reversible \/ mode = "HEAD" \/ Num - lastUpdate > UpdateEvery

Commit ==
  /\ pc = "execute" /\ queue = <<>>
  /\ IF FlushConflicts(tx.rows, buf) THEN Die
     ELSE /\ pg' = [tx EXCEPT !.rows = Flushed(@, buf), !.rewinding = 0,
                              !.position = IF MovesPosition THEN Num ELSE @]
          /\ tx' = pg' /\ buf' = NoBuffers /\ begun' = FALSE
          /\ lastUpdate' = IF MovesPosition THEN Num ELSE lastUpdate
          /\ collected' = 0 /\ pc' = "idle" /\ blk' = NoBlk
          /\ UNCHANGED <<chainVars, mode, current, floor, queue, next, undone, crashes>>

-----------------------------------------------------------------------------
Process ==
  \/ SkippedBlock \/ RefusedFork \/ NextBlock
  \/ DetectFork \/ UndoOne \/ CommitChunk \/ FinishRollback
  \/ ExecuteDirect \/ ExecuteBuffered \/ Commit

Next ==
  \/ Extend \/ AdvanceLib \/ Fork
  \/ Start \/ Crash \/ WatchdogExit
  \/ Process

Spec == Init /\ [][Next]_vars

\* The event loop runs on and the supervisor restarts the process.
FairSpec == Spec /\ WF_vars(Process) /\ WF_vars(Start) /\ WF_vars(WatchdogExit)

-----------------------------------------------------------------------------
(* What the pipeline promises.                                              *)

\* The committed rows are those of the chain at a block the reader has
\* indexed: at its position, or, after a catch-up commit that left the
\* position behind, row by row at a block between the position and the last
\* one committed.  (A rollback that has committed a chunk is in between.)
RowsMatchPosition ==
  pg.rewinding = 0 =>
    \A k \in Key : \E n \in pg.position..Len(pg.idx) :
      pg.rows[k] = StateAfter(pg.idx, n)[k]

\* Undoing the logged entries from a recorded block on gives back exactly the
\* rows that block found, as long as the block can still leave the chain.
UndoLogIsExact ==
  pg.rewinding = 0 =>
    \A b \in pg.blocks :
      b.num > lib \/ ~OnBranch(b.id, chain) =>
        Before(pg.rows, pg.log, b.num) = StateAfter(pg.idx, b.num - 1)

\* Of the blocks the checkpoint covers, those that have left the chain are not
\* passed over by the block a restarted reader would be served first.
CoversOrphans ==
  \A n \in 1..Len(pg.idx) :
    n <= pg.position /\ ~OnBranch(SubSeq(pg.idx, 1, n), chain) =>
      \A m \in FirstServed(pg.blocks, pg.position + 1) : m <= n

OrphansAreServed == pg.rewinding = 0 => CoversOrphans

\* A reader that has processed everything SHIP has to offer holds the rows of
\* the active branch, and nothing of an orphaned one.
CaughtUpIsExact ==
  pc = "idle" /\ current = Served /\ next = Served + 1 /\ collected = 0 =>
    pg.rows = StateAfter(chain, Served)

\* startProcessing arms the fork guard: whatever SHIP serves, no commit moves
\* the checkpoint back by more than the reversible window.
BoundedRewind ==
  [][pg'.position >= pg.position - MaxReversibleWindow - 1]_pg

\* database.ts, rollbackReversibleBlocks: "chunking doesn't add a new window":
\* also between two commits of a rollback a restart finds the fork.
ChunksAddNoWindow == CoversOrphans

\* database.ts, WriteBuffer.add: duplicates are impossible in catch-up.
NoDuplicateInsert == ~(pc = "execute" /\ queue = <<>> /\ FlushConflicts(tx.rows, buf))

\* Once chain and processes calm down the reader indexes all that is served.
CatchesUp == <>[](pg.position = Served /\ pg.rows = StateAfter(chain, Served))
=============================================================================
