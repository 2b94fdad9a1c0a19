------------------------------ MODULE MCCatchup ------------------------------
(***************************************************************************)
(* TLC instances of what a reader does on its way to the head: OfferBatches, *)
(* and StateReceiver in groups of blocks and under a state-history node that *)
(* was restored from an old snapshot.  They share no state, so a behaviour  *)
(* is one of them: part chooses which.                                      *)
(***************************************************************************)
EXTENDS StateReceiver, TLC

CONSTANTS
  Users, Assets, Offers, Nobody, MaxBacked,          \* of OfferBatches
  GroupBlocks, GroupWindow,                          \* of a reader in groups: db_group_blocks,
  GroupLag, GroupHeight,                             \* the reversible window, and its bounds
  LongHeight                                         \* bound: blocks of one content

ASSUME CatchupAssumption ==
  /\ Val # {}
  /\ GroupBlocks \in Nat \ {0}
  /\ {GroupWindow, GroupLag, GroupHeight, LongHeight} \subseteq Nat
  /\ GroupLag <= GroupWindow /\ MaxLag <= GroupWindow

VARIABLES part, ledger, pending, tables, position, read, phase, replays

receiver == vars
offers == <<ledger, pending, tables, position, read, phase, replays>>

OneVal == {CHOOSE v \in Val : TRUE}
OneAsset == {CHOOSE a \in Assets : TRUE}

\* Groups of up to three blocks, with two assets and two offers.
Couple == INSTANCE OfferBatches WITH
  DbGroupBlocks <- 3, MaxBlocks <- 5, MaxCrashes <- 1,
  rows <- tables, mode <- phase, crashes <- replays

\* One asset that goes back and forth, over more blocks.
Alone == INSTANCE OfferBatches WITH
  Assets <- OneAsset, DbGroupBlocks <- 3, MaxBlocks <- 7, MaxCrashes <- 1,
  rows <- tables, mode <- phase, crashes <- replays

\* In groups of buffered blocks, with a position that lags behind the rows, to
\* the head, over a crash with its replay.  (The receiver comes with its
\* theorems here, for CatchupProofs to cite.)
Grouped == INSTANCE StateReceiverProofs WITH
  OpKinds <- {"insert", "update", "delete"}, DbGroupBlocks <- GroupBlocks,
  MaxReversibleWindow <- GroupWindow, FaultyShip <- FALSE, MaxHeight <- GroupHeight,
  MaxLag <- GroupLag

\* The same over more blocks, of one content.
Lagging == INSTANCE StateReceiverProofs WITH
  DbGroupBlocks <- GroupBlocks, MaxReversibleWindow <- GroupWindow, FaultyShip <- FALSE,
  MaxHeight <- LongHeight, Val <- OneVal

\* Blocks of one content, from a node that answers a start request with any
\* block and an old irreversible one.
Faulty == INSTANCE StateReceiver WITH Val <- OneVal

CatchupInit ==
  /\ part \in {"offers", "alone", "grouped", "lagging", "faulty"}
  /\ IF part = "alone" THEN Alone!Init ELSE Couple!Init
  /\ Init

CatchupNext ==
  /\ UNCHANGED part
  /\ \/ part = "offers" /\ Couple!Next /\ UNCHANGED receiver
     \/ part = "alone" /\ Alone!Next /\ UNCHANGED receiver
     \/ part = "grouped" /\ Grouped!Next /\ UNCHANGED offers
     \/ part = "lagging" /\ Lagging!Next /\ UNCHANGED offers
     \/ part = "faulty" /\ Faulty!Next /\ UNCHANGED offers

CatchupSpec == CatchupInit /\ [][CatchupNext]_<<part, offers, receiver>>

\* Users, assets, offers and rows are only ever compared.
Symmetry ==
  Permutations(Users) \cup Permutations(Assets) \cup Permutations(Offers)
    \cup Permutations(Val) \cup Permutations(Key)

-----------------------------------------------------------------------------
\* OfferBatches: offers, assets and what is told of an offer.
OpenOffersAreJudged == IF part = "alone" THEN Alone!OpenOffersAreJudged ELSE Couple!OpenOffersAreJudged
RowsFollowLedger == IF part = "alone" THEN Alone!RowsFollowLedger ELSE Couple!RowsFollowLedger
InvalidationIsNews == Couple!InvalidationIsNews

\* StateReceiver, of groups and replays: the rows are those of a block the
\* reader has indexed, and no insert of a flush meets a row.
RowsMatchIndexed == part # "faulty" => RowsMatchPosition
FlushMeetsNoRow == part # "faulty" => NoDuplicateInsert
=============================================================================
