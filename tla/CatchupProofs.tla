---------------------------- MODULE CatchupProofs ----------------------------
(***************************************************************************)
(* The rows of a reader that works in groups, in the composed specification  *)
(* the run catchup checks: what StateReceiverProofs shows of a reader is an   *)
(* invariant of the parts that are one, for any size of the groups and any   *)
(* reversible window, as long as finality lags by less than two groups.      *)
(***************************************************************************)
EXTENDS MCCatchup, TLAPS

\* The runs the theorems are about: no crash between the chunks of a rollback,
\* no value written both by replace and by update, and no reversible block that
\* joins a group (StateReceiverProofs).
SoundCatchup ==
  /\ ~CrashInRollback
  /\ ~({"replace", "update"} \subseteq OpKinds)
  /\ GroupLag < 2 * GroupBlocks /\ MaxLag < 2 * GroupBlocks

GroupedParts == {"offers", "alone", "grouped"}

-----------------------------------------------------------------------------
(* The assumptions of the receiver hold of its instances. *)

GroupedTables ==
  /\ NoRow \notin Val /\ Grouped!BlockRecord \notin Key
  /\ {"insert", "update", "delete"} \subseteq Grouped!AllKinds
  /\ MaxOps \in {1, 2}
GroupedSizes ==
  /\ GroupBlocks \in Nat \ {0} /\ GroupWindow \in Nat /\ RollbackChunk \in Nat \ {0}
  /\ PruneEvery \in Nat \ {0} /\ UpdateEvery \in Nat
  /\ {IrreversibleOnly, FALSE, CrashInRollback} \subseteq BOOLEAN
  /\ {GroupHeight, GroupLag, MaxForks, MaxCrashes} \subseteq Nat
GroupedWindow == GroupLag <= GroupWindow

LEMMA GroupedAssumed == GroupedTables /\ GroupedSizes /\ GroupedWindow
BY TablesAssumption, ReceiverAssumption, CatchupAssumption
   DEF GroupedTables, GroupedSizes, GroupedWindow, Grouped!BlockRecord, BlockRecord,
       Grouped!AllKinds, AllKinds

LaggingTables ==
  /\ NoRow \notin OneVal /\ Lagging!BlockRecord \notin Key
  /\ OpKinds \subseteq Lagging!AllKinds
  /\ MaxOps \in {1, 2}
LaggingSizes ==
  /\ GroupBlocks \in Nat \ {0} /\ GroupWindow \in Nat /\ RollbackChunk \in Nat \ {0}
  /\ PruneEvery \in Nat \ {0} /\ UpdateEvery \in Nat
  /\ {IrreversibleOnly, FALSE, CrashInRollback} \subseteq BOOLEAN
  /\ {LongHeight, MaxLag, MaxForks, MaxCrashes} \subseteq Nat
LaggingWindow == MaxLag <= GroupWindow

LEMMA LaggingAssumed == LaggingTables /\ LaggingSizes /\ LaggingWindow
<1>1. NoRow \notin OneVal
  BY TablesAssumption, CatchupAssumption DEF OneVal
<1> QED BY <1>1, TablesAssumption, ReceiverAssumption, CatchupAssumption
   DEF LaggingTables, LaggingSizes, LaggingWindow, Lagging!BlockRecord, BlockRecord,
       Lagging!AllKinds, AllKinds

-----------------------------------------------------------------------------
(* Groups of buffered blocks. *)

GroupedInv ==
  Grouped!TypeInv /\ Grouped!WindowInv /\ Grouped!GroupInv /\ Grouped!RowsInv

LEMMA GroupedSound ==
  ASSUME SoundCatchup
  PROVE  Grouped!Honest /\ Grouped!SeparateGroups
BY DEF SoundCatchup, Grouped!Honest, Grouped!SeparateGroups

LEMMA GroupedInit == Grouped!Init => GroupedInv
<1> SUFFICES ASSUME Grouped!Init PROVE GroupedInv
  OBVIOUS
<1>1. Grouped!TypeInv
  BY GroupedAssumed, Grouped!TypeInit
     DEF Grouped!TypeInit, GroupedTables, GroupedSizes, GroupedWindow
<1>2. Grouped!WindowInv
  BY GroupedAssumed, Grouped!WindowInit
     DEF Grouped!WindowInit, GroupedTables, GroupedSizes, GroupedWindow
<1>3. Grouped!RowsInv
  BY GroupedAssumed, Grouped!RowsInit
     DEF Grouped!RowsInit, GroupedTables, GroupedSizes, GroupedWindow
<1>4. Grouped!GroupInv
  BY DEF Grouped!Init, Grouped!GroupInv, Grouped!Overlap
<1> QED BY <1>1, <1>2, <1>3, <1>4 DEF GroupedInv

LEMMA GroupedStep ==
  ASSUME SoundCatchup, GroupedInv, [Grouped!Next]_(Grouped!vars)
  PROVE  GroupedInv'
<1>0. /\ Grouped!TypeInv /\ Grouped!WindowInv /\ Grouped!GroupInv /\ Grouped!RowsInv
      /\ Grouped!Honest /\ Grouped!SeparateGroups
  BY GroupedSound DEF GroupedInv
<1>1. Grouped!TypeInv'
  BY <1>0, GroupedAssumed, Grouped!TypeStep
     DEF Grouped!TypeStep, GroupedTables, GroupedSizes, GroupedWindow
<1>2. Grouped!WindowInv'
  BY <1>0, GroupedAssumed, Grouped!WindowStep
     DEF Grouped!WindowStep, GroupedTables, GroupedSizes, GroupedWindow
<1>3. Grouped!GroupInv'
  BY <1>0, GroupedAssumed, Grouped!GroupStep
     DEF Grouped!GroupStep, GroupedTables, GroupedSizes, GroupedWindow
<1>4. ~Grouped!Overlap'
  BY <1>3 DEF Grouped!GroupInv
<1>5. Grouped!RowsInv'
  BY <1>0, <1>1, <1>4, GroupedAssumed, Grouped!RowsStep
     DEF Grouped!RowsStep, GroupedTables, GroupedSizes, GroupedWindow
<1> QED BY <1>1, <1>2, <1>3, <1>5 DEF GroupedInv

LEMMA GroupedRows == GroupedInv => RowsMatchPosition /\ NoDuplicateInsert
<1> SUFFICES ASSUME GroupedInv PROVE RowsMatchPosition /\ NoDuplicateInsert
  OBVIOUS
<1>1. Grouped!RowsMatchPosition
  BY DEF GroupedInv, Grouped!RowsInv, Grouped!PgInv, Grouped!Durable, Grouped!RowsMatchPosition
<1>2. Grouped!NoDuplicateInsert
  BY DEF GroupedInv, Grouped!RowsInv, Grouped!BufInv, Grouped!FlushConflicts,
         Grouped!NoDuplicateInsert
<1>3. RowsMatchPosition
  BY <1>1 DEF Grouped!RowsMatchPosition, RowsMatchPosition, Grouped!StateAfter, StateAfter,
              Grouped!Empty, Empty
<1>4. NoDuplicateInsert
  BY <1>2 DEF Grouped!NoDuplicateInsert, NoDuplicateInsert, FlushConflicts, Grouped!FlushConflicts
<1> QED BY <1>3, <1>4

-----------------------------------------------------------------------------
(* Groups of blocks of one content. *)

LaggingInv ==
  Lagging!TypeInv /\ Lagging!WindowInv /\ Lagging!GroupInv /\ Lagging!RowsInv

LEMMA LaggingSound ==
  ASSUME SoundCatchup
  PROVE  Lagging!Honest /\ Lagging!SeparateGroups
BY DEF SoundCatchup, Lagging!Honest, Lagging!SeparateGroups

LEMMA LaggingInit == Lagging!Init => LaggingInv
<1> SUFFICES ASSUME Lagging!Init PROVE LaggingInv
  OBVIOUS
<1>1. Lagging!TypeInv
  BY LaggingAssumed, Lagging!TypeInit
     DEF Lagging!TypeInit, LaggingTables, LaggingSizes, LaggingWindow
<1>2. Lagging!WindowInv
  BY LaggingAssumed, Lagging!WindowInit
     DEF Lagging!WindowInit, LaggingTables, LaggingSizes, LaggingWindow
<1>3. Lagging!RowsInv
  BY LaggingAssumed, Lagging!RowsInit
     DEF Lagging!RowsInit, LaggingTables, LaggingSizes, LaggingWindow
<1>4. Lagging!GroupInv
  BY DEF Lagging!Init, Lagging!GroupInv, Lagging!Overlap
<1> QED BY <1>1, <1>2, <1>3, <1>4 DEF LaggingInv

LEMMA LaggingStep ==
  ASSUME SoundCatchup, LaggingInv, [Lagging!Next]_(Lagging!vars)
  PROVE  LaggingInv'
<1>0. /\ Lagging!TypeInv /\ Lagging!WindowInv /\ Lagging!GroupInv /\ Lagging!RowsInv
      /\ Lagging!Honest /\ Lagging!SeparateGroups
  BY LaggingSound DEF LaggingInv
<1>1. Lagging!TypeInv'
  BY <1>0, LaggingAssumed, Lagging!TypeStep
     DEF Lagging!TypeStep, LaggingTables, LaggingSizes, LaggingWindow
<1>2. Lagging!WindowInv'
  BY <1>0, LaggingAssumed, Lagging!WindowStep
     DEF Lagging!WindowStep, LaggingTables, LaggingSizes, LaggingWindow
<1>3. Lagging!GroupInv'
  BY <1>0, LaggingAssumed, Lagging!GroupStep
     DEF Lagging!GroupStep, LaggingTables, LaggingSizes, LaggingWindow
<1>4. ~Lagging!Overlap'
  BY <1>3 DEF Lagging!GroupInv
<1>5. Lagging!RowsInv'
  BY <1>0, <1>1, <1>4, LaggingAssumed, Lagging!RowsStep
     DEF Lagging!RowsStep, LaggingTables, LaggingSizes, LaggingWindow
<1> QED BY <1>1, <1>2, <1>3, <1>5 DEF LaggingInv

LEMMA LaggingRows == LaggingInv => RowsMatchPosition /\ NoDuplicateInsert
<1> SUFFICES ASSUME LaggingInv PROVE RowsMatchPosition /\ NoDuplicateInsert
  OBVIOUS
<1>1. Lagging!RowsMatchPosition
  BY DEF LaggingInv, Lagging!RowsInv, Lagging!PgInv, Lagging!Durable, Lagging!RowsMatchPosition
<1>2. Lagging!NoDuplicateInsert
  BY DEF LaggingInv, Lagging!RowsInv, Lagging!BufInv, Lagging!FlushConflicts,
         Lagging!NoDuplicateInsert
<1>3. RowsMatchPosition
  BY <1>1 DEF Lagging!RowsMatchPosition, RowsMatchPosition, Lagging!StateAfter, StateAfter,
              Lagging!Empty, Empty
<1>4. NoDuplicateInsert
  BY <1>2 DEF Lagging!NoDuplicateInsert, NoDuplicateInsert, FlushConflicts, Lagging!FlushConflicts
<1> QED BY <1>3, <1>4

-----------------------------------------------------------------------------
(* The composed specification. *)

LEMMA ReceiverInit == Init => Grouped!Init /\ Lagging!Init
BY DEF Init, Grouped!Init, Lagging!Init, NoBlk, Grouped!NoBlk, Lagging!NoBlk,
       NoBuffers, Grouped!NoBuffers, Lagging!NoBuffers, Empty, Grouped!Empty, Lagging!Empty

\* What is inductive for a part is an invariant while it runs.
CatchupInv ==
  /\ part \in {"offers", "alone", "grouped", "lagging", "faulty"}
  /\ part \in GroupedParts => GroupedInv
  /\ part = "lagging" => LaggingInv

LEMMA CatchupInvariant ==
  ASSUME SoundCatchup
  PROVE  CatchupSpec => []CatchupInv
<1>1. CatchupInit => CatchupInv
  BY ReceiverInit, GroupedInit, LaggingInit DEF CatchupInit, CatchupInv
<1>2. ASSUME CatchupInv, [CatchupNext]_<<part, offers, receiver>>
      PROVE  CatchupInv'
  <2>1. UNCHANGED part
    BY <1>2 DEF CatchupNext
  <2>2. ASSUME part \in GroupedParts PROVE GroupedInv'
    <3>1. Grouped!Next \/ UNCHANGED receiver
      BY <1>2, <2>2 DEF CatchupNext, GroupedParts
    <3>2. [Grouped!Next]_(Grouped!vars)
      BY <3>1 DEF receiver, vars, Grouped!vars
    <3> QED BY <1>2, <2>2, <3>2, GroupedStep DEF CatchupInv
  <2>3. ASSUME part = "lagging" PROVE LaggingInv'
    <3>1. Lagging!Next \/ UNCHANGED receiver
      BY <1>2, <2>3 DEF CatchupNext
    <3>2. [Lagging!Next]_(Lagging!vars)
      BY <3>1 DEF receiver, vars, Lagging!vars
    <3> QED BY <1>2, <2>3, <3>2, LaggingStep DEF CatchupInv
  <2> QED BY <1>2, <2>1, <2>2, <2>3 DEF CatchupInv
<1> QED BY <1>1, <1>2, PTL DEF CatchupSpec

\* Whatever is committed between two blocks, in groups and over crashes and
\* their replays, are the rows of the chain the reader has indexed, row by row
\* at a block between its position and the last one (database.ts, receiver.ts).
THEOREM GroupsHoldTheChain ==
  ASSUME SoundCatchup
  PROVE  CatchupSpec => []RowsMatchIndexed
<1>1. CatchupInv => RowsMatchIndexed
  BY GroupedRows, LaggingRows DEF CatchupInv, GroupedParts, RowsMatchIndexed
<1> QED BY <1>1, CatchupInvariant, PTL

\* The inserts a group has buffered meet no row when they are flushed, also
\* when the group is one of a replay (database.ts, WriteBuffer.add).
THEOREM GroupFlushesMeetNoRow ==
  ASSUME SoundCatchup
  PROVE  CatchupSpec => []FlushMeetsNoRow
<1>1. CatchupInv => FlushMeetsNoRow
  BY GroupedRows, LaggingRows DEF CatchupInv, GroupedParts, FlushMeetsNoRow
<1> QED BY <1>1, CatchupInvariant, PTL
=============================================================================
