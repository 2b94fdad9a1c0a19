----------------------------- MODULE MarketConfig -----------------------------
(***************************************************************************)
(* The AtomicMarket configuration that the reader keeps twice, as a row and *)
(* in memory, and the sales that are recorded by it                         *)
(* (src/src/filler/handlers/atomicmarket/processors/{config,sales}.ts,      *)
(* legacy-bundles.ts, and init() of index.ts).                              *)
(*                                                                          *)
(* Version 2 of the contract turns the purchase of a sale of several assets *)
(* into a cancel.  The reader tells the two apart by the version it has     *)
(* seen and by the marker, the block it saw the version change in.          *)
(*                                                                          *)
(* Reading blocks, undoing them and the checkpoint are those of             *)
(* StateReceiver, a commit at a time.                                       *)
(***************************************************************************)
EXTENDS Integers, FiniteSets, Sequences, SequencesExt

CONSTANTS
  Sales, Tokens,
  DbGroupBlocks,   \* readers.config db_group_blocks
  SeedAtHead,      \* the row is created while the node is ahead of the reader
  \* bounds
  MaxHeight, MaxActions,  \* blocks, and actions on the active branch
  MaxLag,
  MaxFaults         \* branch switches and crashes together

VARIABLES
  chain,     \* the active branch, a sequence of actions per block
  lib,       \* its last irreversible block
  rows,      \* the committed tables
  undo,      \* the undo log, as the tables that each reversible block found
  idx,       \* history: the blocks whose writes the tables hold
  position,  \* contract_readers.block_num
  read,      \* the last block the running process has committed
  mem,       \* AtomicMarketHandler.config and v2MarkerBlock
  faults     \* branch switches and crashes so far (bound)

vars == <<chain, lib, rows, undo, idx, position, read, mem, faults>>

Unset == 0       \* a marker that is null
Versions == 1..2

SaleStates == {"WAITING", "LISTED", "CANCELED", "SOLD"}
NoSale == [state |-> "none"]

\* offer: the sale has an offer_id; bundle: that offer holds several assets.
Rows == [version: Versions, marker: 0..MaxHeight, tokens: SUBSET Tokens,
         sales: [Sales -> [state: SaleStates, offer: BOOLEAN, bundle: BOOLEAN] \cup {NoSale}]]

Actions == [name: {"setversion"}] \cup [name: {"addconftoken"}, token: Tokens]
           \cup [name: {"lognewsale"}, sale: Sales, bundle: BOOLEAN]
           \cup [name: {"logsalestart", "cancelsale", "purchasesale"}, sale: Sales]

TypeOK ==
  /\ chain \in Seq(Seq(Actions)) /\ idx \in Seq(Seq(Actions))
  /\ lib \in 0..Len(chain) /\ faults \in 0..MaxFaults
  /\ rows \in Rows
  /\ DOMAIN undo \subseteq 1..MaxHeight /\ \A n \in DOMAIN undo : undo[n] \in Rows
  /\ position \in 0..Len(idx) /\ read \in position..Len(idx)
  /\ mem \in [version: Versions, marker: 0..MaxHeight, tokens: SUBSET Tokens]

\* What a sequence leaves of b, one element after the other.
Through(op(_, _), b, s) ==
  LET after[i \in 0..Len(s)] == IF i = 0 THEN b ELSE op(after[i - 1], s[i])
  IN  after[Len(s)]

-----------------------------------------------------------------------------
(* The contract (external); a block carries up to two of its actions.       *)

Genesis == [version |-> 1, flip |-> Unset, tokens |-> {},
            sales |-> [s \in Sales |-> [state |-> "none", bundle |-> FALSE, at |-> 0]]]

Allowed(l, a) ==
  CASE a.name = "setversion" -> l.version = 1
    [] a.name = "addconftoken" -> a.token \notin l.tokens
    [] a.name = "lognewsale" -> l.sales[a.sale].state = "none" /\ (a.bundle => l.version = 1)
    [] a.name = "logsalestart" -> l.sales[a.sale].state = "WAITING"
    [] a.name = "cancelsale" -> l.sales[a.sale].state \in {"WAITING", "LISTED"}
    [] a.name = "purchasesale" ->
         \/ l.sales[a.sale].state = "LISTED"
         \/ l.sales[a.sale].state = "WAITING" /\ l.version = 2 /\ l.sales[a.sale].bundle

\* at: the block that settled or dissolved the sale.
Obey(n, l, a) ==
  CASE a.name = "setversion" -> [l EXCEPT !.version = 2, !.flip = n]
    [] a.name = "addconftoken" -> [l EXCEPT !.tokens = @ \cup {a.token}]
    [] a.name = "lognewsale" ->
         [l EXCEPT !.sales[a.sale] = [state |-> "WAITING", bundle |-> a.bundle, at |-> 0]]
    [] a.name = "logsalestart" -> [l EXCEPT !.sales[a.sale].state = "LISTED"]
    [] a.name = "cancelsale" -> [l EXCEPT !.sales[a.sale].state = "CANCELED"]
    [] a.name = "purchasesale" ->
         LET sale == l.sales[a.sale]
         IN  [l EXCEPT !.sales[a.sale] =
                [state |-> IF l.version = 2 /\ sale.bundle THEN "CANCELED" ELSE "SOLD",
                 bundle |-> sale.bundle, at |-> n]]

AfterBlock(l, n, block) == Through(LAMBDA m, a : Obey(n, m, a), l, block)

Ledger(c) ==
  Through(LAMBDA l, n : AfterBlock(l, n, c[n]), Genesis, [n \in 1..Len(c) |-> n])

Blocks(l, n) ==
  {b \in UNION {[1..k -> Actions] : k \in 0..2} :
     \A i \in 1..Len(b) : Allowed(AfterBlock(l, n, SubSeq(b, 1, i - 1)), b[i])}

\* A block at height n, on top of the blocks below.
Mined(n) ==
  \E b \in Blocks(Ledger(SubSeq(chain, 1, n - 1)), n) :
    /\ n <= Len(chain) => b # chain[n]
    /\ chain' = Append(SubSeq(chain, 1, n - 1), b)
    /\ Len(FlattenSeq(chain')) <= MaxActions

Extend ==
  /\ Len(chain) < MaxHeight /\ Len(chain) - lib < MaxLag
  /\ Len(chain) - read < DbGroupBlocks
  /\ Mined(Len(chain) + 1)
  /\ UNCHANGED <<lib, rows, undo, idx, position, read, mem, faults>>

AdvanceLib ==
  /\ lib < Len(chain) /\ lib' = lib + 1
  /\ UNCHANGED <<chain, rows, undo, idx, position, read, mem, faults>>

\* A branch switch above what the reader has seen is nothing to it.
Fork ==
  /\ faults < MaxFaults /\ faults' = faults + 1
  /\ \E n \in (lib + 1)..Len(chain) : n <= read /\ Mined(n)
  /\ UNCHANGED <<lib, rows, undo, idx, position, read, mem>>

-----------------------------------------------------------------------------
(* What the process knows.                                                  *)

\* init() reads the row and the tokens.
Loaded(r) == [version |-> r.version, marker |-> r.marker, tokens |-> r.tokens]

\* onFork() reads the row of atomicmarket_config again after a rollback.
\* (KeptOverFork: a faulty variant, the listener is missing.)
KeptOverFork(r, m) == m
Reread(r, m) == [m EXCEPT !.version = r.version, !.marker = r.marker]

NoRows(v, ts) == [version |-> v, marker |-> Unset, tokens |-> ts,
                  sales |-> [s \in Sales |-> NoSale]]

\* The row is created from the node's current config, without a marker.
Init ==
  /\ chain = <<>> /\ lib = 0
  /\ rows \in {NoRows(1, {})} \cup (IF SeedAtHead THEN {NoRows(2, Tokens)} ELSE {})
  /\ mem = Loaded(rows)
  /\ undo = <<>> /\ idx = <<>> /\ position = 0 /\ read = 0 /\ faults = 0

-----------------------------------------------------------------------------
(* The handlers, on the tables and the memory of an open transaction; begun *)
(* once a statement was sent, failed once an insert met its own row.        *)

Opened(r, m) == [rows |-> r, mem |-> m, begun |-> FALSE, failed |-> FALSE]

\* The table delta of a block that leaves the config c.  Tokens are compared
\* by their number; the marker is set once, and read back otherwise.
\* (Two faulty variants: a later delta moves the marker; the marker is
\* the first block of the new rules.)
MarkerAfter(marker, n) == IF marker = Unset THEN n + 1 ELSE marker
NewestMarker(marker, n) == n
FirstMarker(marker, n) == IF marker = Unset THEN n ELSE marker

ConfigDelta(b, n, c) ==
  LET added == IF Cardinality(b.mem.tokens) = Cardinality(c.tokens) THEN {}
               ELSE c.tokens \ b.mem.tokens
      v2 == c.version >= 2
      marker == FirstMarker(b.rows.marker, n)
  IN  [rows |-> [version |-> IF b.mem.version # c.version THEN c.version ELSE b.rows.version,
                 marker |-> IF v2 THEN marker ELSE b.rows.marker,
                 tokens |-> b.rows.tokens \cup added, sales |-> b.rows.sales],
       mem |-> [version |-> c.version, marker |-> IF v2 THEN marker ELSE b.mem.marker,
                tokens |-> c.tokens],
       begun |-> b.begun \/ v2,
       failed |-> b.failed \/ added \cap b.rows.tokens # {}]

\* The marker itself is the last block recorded by the old rules.
\* (DissolvesFromMarker: a faulty variant, the first of the new ones.)
DissolvesFromMarker(m, n) == m.version >= 2 /\ m.marker # Unset /\ n >= m.marker
Dissolves(m, n) == m.version >= 2 /\ m.marker # Unset /\ n > m.marker

LogNewSale(b, a) ==
  [b EXCEPT !.rows.sales[a.sale] = [state |-> "WAITING", offer |-> FALSE, bundle |-> a.bundle]]

LogSaleStart(b, a) ==
  [b EXCEPT !.rows.sales[a.sale] =
     [state |-> "LISTED", offer |-> TRUE, bundle |-> b.rows.sales[a.sale].bundle]]

CancelSale(b, a) == [b EXCEPT !.rows.sales[a.sale].state = "CANCELED"]

PurchaseSale(b, n, a) ==
  LET sale == b.rows.sales[a.sale]
      dissolved == Dissolves(b.mem, n) /\ (sale.offer => sale.bundle)
  IN  [b EXCEPT
         !.begun = TRUE,
         !.rows.sales[a.sale] =
            [sale EXCEPT !.state = IF @ # "SOLD" /\ dissolved THEN "CANCELED" ELSE "SOLD"]]

\* The jobs of a group in the order of AtomicMarketUpdatePriority: TABLE_CONFIG,
\* ACTION_CREATE_SALE, ACTION_UPDATE_SALE.
ConfigActions == {"setversion", "addconftoken"}

RunConfig(b, n) ==
  IF \E i \in DOMAIN chain[n] : chain[n][i].name \in ConfigActions
    THEN ConfigDelta(b, n, Ledger(SubSeq(chain, 1, n))) ELSE b

Create(b, a) == IF a.name = "lognewsale" THEN LogNewSale(b, a) ELSE b

RunCreate(b, n) == Through(Create, b, chain[n])

Update(b, n, a) ==
  CASE a.name = "logsalestart" -> LogSaleStart(b, a)
    [] a.name = "cancelsale" -> CancelSale(b, a)
    [] a.name = "purchasesale" -> PurchaseSale(b, n, a)
    [] OTHER -> b

RunUpdate(b, n) == Through(LAMBDA c, a : Update(c, n, a), b, chain[n])

Executed(b, first, last) ==
  LET group == [i \in 1..(last - first + 1) |-> first + i - 1]
  IN  Through(RunUpdate, Through(RunCreate, Through(RunConfig, b, group), group), group)

-----------------------------------------------------------------------------
(* The reader.                                                              *)

\* The next block SHIP serves: the first one that is not on the active branch.
Agrees(n) == n <= Len(chain) /\ SubSeq(idx, 1, n) = SubSeq(chain, 1, n)
NextBlock ==
  IF Agrees(read) THEN read + 1
  ELSE CHOOSE n \in 1..read : Agrees(n - 1) /\ ~Agrees(n)

Restarted == read' = position /\ mem' = Loaded(rows) /\ UNCHANGED <<rows, undo, idx, position>>

\* The blocks first..last are executed and committed, on the tables r and with
\* the memory m; u is the undo log of what stays.
Committed(r, m, u, first, last, keepsPosition) ==
  LET b == Executed(Opened(r, m), first, last)
  IN  IF b.failed THEN Restarted
      ELSE /\ rows' = b.rows /\ mem' = b.mem /\ undo' = u
           /\ read' = last
           /\ idx' = IF last <= Len(idx) /\ first > read THEN idx ELSE SubSeq(chain, 1, last)
           /\ position' \in {last} \cup
                            (IF keepsPosition /\ ~b.begun THEN {position} ELSE {})

\* Irreversible blocks are executed in groups.
ProcessGroup ==
  /\ NextBlock = read + 1
  /\ \E k \in 1..DbGroupBlocks :
       /\ read + k <= lib
       /\ Committed(rows, mem, undo, read + 1, read + k, TRUE)
  /\ UNCHANGED <<chain, lib, faults>>

Logged(r, n) ==
  [i \in {m \in DOMAIN undo : lib < m /\ m < n} \cup {n} |-> IF i = n THEN r ELSE undo[i]]

ProcessReversible ==
  /\ NextBlock = read + 1 /\ lib < NextBlock /\ NextBlock <= Len(chain)
  /\ Committed(rows, mem, Logged(rows, NextBlock), NextBlock, NextBlock, FALSE)
  /\ UNCHANGED <<chain, lib, faults>>

\* rollbackReversibleBlocks() and notifyFork(), and the block that replaces
\* the first orphan.
ProcessFork ==
  /\ NextBlock <= read /\ NextBlock <= Len(chain)
  /\ LET n == NextBlock
     IN  Committed(undo[n], Reread(undo[n], mem), Logged(undo[n], n), n, n, FALSE)
  /\ UNCHANGED <<chain, lib, faults>>

Crash ==
  /\ faults < MaxFaults /\ faults' = faults + 1
  /\ Restarted
  /\ UNCHANGED <<chain, lib>>

Next ==
  \/ Extend \/ AdvanceLib \/ Fork
  \/ ProcessGroup \/ ProcessReversible \/ ProcessFork \/ Crash

Spec == Init /\ [][Next]_vars

-----------------------------------------------------------------------------
(* What the tables promise, whenever no committed block is being replayed.  *)

Indexed == Ledger(idx)
UpToDate == read = Len(idx)

\* A purchase that the contract settled is never recorded as a cancel, however
\* the flip falls into a group, is orphaned or is met with a config seeded
\* from a later block.
SettlementsAreKept ==
  UpToDate => \A s \in Sales :
    Indexed.sales[s].state = "SOLD" => rows.sales[s].state = "SOLD"

\* A sale the contract dissolved or cancelled after the block of the flip is
\* not recorded as sold: its memory of the marker holds over forks, restarts
\* and later config deltas.
BundlesAreDissolved ==
  UpToDate => \A s \in Sales :
    Indexed.sales[s].state = "CANCELED" /\ ~(Indexed.sales[s].at \in {Indexed.flip} \ {Unset})
      => rows.sales[s].state = "CANCELED"

\* The marker is the block of the flip on the indexed branch, in the row and in
\* memory.
MarkerIsFlip ==
  UpToDate => rows.marker = Indexed.flip /\ mem.marker = rows.marker

\* config.ts: "Re-read the row here so the in-memory copy follows the rollback
\* the way it follows a delta": the tokens of the branch have their rows.
TokensFollowChain == UpToDate => Indexed.tokens \subseteq rows.tokens
=============================================================================
