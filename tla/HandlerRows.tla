------------------------------ MODULE HandlerRows ------------------------------
(***************************************************************************)
(* A contract, the handler that keeps its tables, and the reader between    *)
(* them: blocks of contract actions arrive in groups or one by one, forks   *)
(* replace the reversible ones, the process restarts, and every block is    *)
(* turned into jobs that are executed by priority                           *)
(* (src/src/filler/processor.ts, src/src/filler/receiver.ts process()).     *)
(*                                                                          *)
(* Chunking, crashes and the undo log are those of StateReceiver and        *)
(* ContractTransaction: here a group is one step, and a rollback puts back  *)
(* the tables that the first orphan found.                                  *)
(***************************************************************************)
EXTENDS Integers, FiniteSets, Sequences, SequencesExt, FiniteSetsExt

CONSTANTS
  \* the contract
  Actions,             \* what may be sent to it
  Genesis,             \* what it holds at first
  Past,                \* the irreversible chains a behaviour may start from
  Allowed(_, _, _),    \* whether the ledger l takes action a in block n
  Obey(_, _, _),       \* the ledger after it
  \* its handler
  NoRows,              \* the tables, and the process's memory, at first
  Seed(_, _),          \* what a first start or an import puts there of the ledger
  Jobs(_, _, _, _),    \* the jobs of a block that leads from one ledger to another
  Begin(_, _),         \* the tables at the start of a transaction, buffered or not
  Run(_, _),           \* the tables after a job
  Commit(_),           \* and after the commit listeners and the flush
  RolledBack(_, _),    \* the tables of a rollback, beside the memory of the tables now
  Loaded(_),           \* the tables, and a memory read from them at start-up
  Says(_, _),          \* whether the tables are right
  \* the reader
  DbGroupBlocks,       \* readers.config db_group_blocks
  \* bounds
  MaxHeight, MaxActions, MaxPerBlock, MaxForks

VARIABLES
  chain,     \* the blocks that the tables hold: a sequence of actions each
  lib,       \* the last irreversible one
  rows,      \* the tables of the contract's handler
  undo,      \* the undo log, as the tables that each reversible block found
  forks      \* bound

vars == <<chain, lib, rows, undo, forks>>

-----------------------------------------------------------------------------
(* Ledgers.                                                                 *)

AfterBlock(l, n, block) == FoldLeft(LAMBDA m, a : Obey(m, n, a), l, block)

\* What the contract holds after the blocks of c.
Ledger(c) ==
  FoldLeft(LAMBDA l, n : AfterBlock(l, n, c[n]), Genesis, [n \in 1..Len(c) |-> n])

\* The blocks the contract may produce at height n, of up to `most` actions.
RECURSIVE BlocksFrom(_, _, _)
BlocksFrom(l, n, most) ==
  {<<>>} \cup
  (IF most = 0 THEN {}
   ELSE UNION {{<<a>> \o b : b \in BlocksFrom(Obey(l, n, a), n, most - 1)} :
                 a \in {x \in Actions : Allowed(l, n, x)}})

-----------------------------------------------------------------------------
(* The reader.  What it is sent is the active branch, block by block.       *)

\* executeHeadQueue(): by priority, and in the order of arrival within one.
Sorted(jobs) ==
  LET levels == SetToSortSeq({jobs[i].priority : i \in DOMAIN jobs}, <)
  IN  FlattenSeq([k \in DOMAIN levels |->
                    SelectSeq(jobs, LAMBDA j : j.priority = levels[k])])

\* The jobs of the blocks of c from height n on, and the tables r after them.
Queue(c, n) ==
  LET before == Ledger(SubSeq(c, 1, n - 1))
      step(q, k) == LET after == AfterBlock(q.ledger, k, c[k])
                    IN  [ledger |-> after, jobs |-> q.jobs \o Jobs(q.ledger, after, k, c[k])]
  IN  FoldLeft(step, [ledger |-> before, jobs |-> <<>>],
               [i \in 1..(Len(c) - n + 1) |-> n + i - 1]).jobs

\* One transaction.  A group collects its writes (enableWriteBuffer()).
Executed(r, buffered, c, n) ==
  Commit(FoldLeft(Run, Begin(r, buffered), Sorted(Queue(c, n))))

PastLength == Len(CHOOSE c \in Past : TRUE)

Extensions(c) ==
  {Append(c, b) : b \in
     BlocksFrom(Ledger(c), Len(c) + 1,
                LET left == MaxActions - Len(FlattenSeq(SubSeq(c, PastLength + 1, Len(c))))
                IN  IF left < MaxPerBlock THEN left ELSE MaxPerBlock)}

Init ==
  /\ chain \in Past /\ lib = Len(chain) /\ rows = Executed(Seed(NoRows, Ledger(chain)), TRUE, chain, 1)
  /\ undo = <<>> /\ forks = 0

\* The next block of the group that is being collected, and the end of it.
\* Irreversible blocks are executed in groups of up to db_group_blocks.
RECURSIVE Groups(_, _)
Groups(c, k) ==
  IF k = 0 THEN {c} ELSE {c} \cup UNION {Groups(d, k - 1) : d \in Extensions(c)}

ProcessGroup ==
  /\ lib = Len(chain)
  /\ \E c \in Groups(chain, DbGroupBlocks) \ {chain} :
       /\ Len(c) <= MaxHeight
       /\ chain' = c /\ lib' = Len(c)
       /\ rows' = Executed(rows, TRUE, c, Len(chain) + 1)
  /\ UNCHANGED <<undo, forks>>

ProcessReversible ==
  /\ Len(chain) < MaxHeight
  /\ \E c \in Extensions(chain) :
       /\ chain' = c /\ rows' = Executed(rows, FALSE, c, Len(c))
       /\ undo' = [n \in {m \in DOMAIN undo : lib < m} \cup {Len(c)} |->
                     IF n = Len(c) THEN rows ELSE undo[n]]
  /\ UNCHANGED <<lib, forks>>

\* rollbackReversibleBlocks(), and the block that replaces the first orphan.
ProcessFork ==
  /\ forks < MaxForks /\ forks' = forks + 1
  /\ \E n \in (lib + 1)..Len(chain) :
       \E c \in Extensions(SubSeq(chain, 1, n - 1)) :
         /\ c[n] # chain[n]
         /\ chain' = c /\ rows' = Executed(RolledBack(undo[n], rows), FALSE, c, n)
         /\ undo' = [m \in {k \in DOMAIN undo : lib < k /\ k <= n} |-> undo[m]]
  /\ UNCHANGED lib

\* The irreversible block advances; clearForkDatabase().
AdvanceLib ==
  /\ lib < Len(chain) /\ lib' = lib + 1
  /\ undo' = [m \in {k \in DOMAIN undo : lib' < k} |-> undo[m]]
  /\ UNCHANGED <<chain, rows, forks>>

\* The process is started again: init() reads what it remembers from the tables.
Restart == Loaded(rows) # rows /\ rows' = Loaded(rows) /\ UNCHANGED <<chain, lib, undo, forks>>

Next == ProcessGroup \/ ProcessReversible \/ ProcessFork \/ AdvanceLib \/ Restart

Spec == Init /\ [][Next]_vars

-----------------------------------------------------------------------------
TypeOK ==
  /\ chain \in Seq(Seq(Actions)) /\ Len(chain) <= MaxHeight
  /\ lib \in 0..Len(chain)
  /\ DOMAIN undo \subseteq (lib + 1)..Len(chain)
  /\ forks \in 0..MaxForks

\* The tables say what the contract holds, in whatever groups its actions
\* came, and whichever blocks were rolled back in between.
RowsFollowContract == Says(Ledger(chain), rows)
=============================================================================
