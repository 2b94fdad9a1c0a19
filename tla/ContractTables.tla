--------------------------- MODULE ContractTables ---------------------------
(***************************************************************************)
(* The rows the filler keeps in Postgres, the write operations a handler    *)
(* issues through ContractDBTransaction, the entry each of them leaves in   *)
(* the reversible_queries table and what undoing that entry does, and the   *)
(* write and update buffers of a transaction that is not reversible         *)
(* (src/src/filler/database.ts).  A table row is one value per primary key; *)
(* which columns it has is not told apart.  Pure operators, no variables.   *)
(***************************************************************************)
EXTENDS Integers, Sequences, FiniteSets

CONSTANTS
  Key,          \* primary keys, over all tables
  Val,          \* contents of a row
  NoRow,        \* the row does not exist
  OpKinds,      \* the ContractDBTransaction methods the handlers use
  MaxOps        \* bound: writes of one block

AllKinds == {"insert", "upsert", "replace", "update", "delete"}

\* The key of the undo entries that belong to the reversible_blocks table.
BlockRecord == "reversible_blocks"

ASSUME TablesAssumption ==
  /\ NoRow \notin Val
  /\ BlockRecord \notin Key
  /\ OpKinds \subseteq AllKinds
  /\ MaxOps \in {1, 2}

Row == Val \cup {NoRow}
Contents == [Key -> Row]
Empty == [k \in Key |-> NoRow]

(***************************************************************************)
(* A write is the method, its primary key and the contents of the tables    *)
(* the chain's own state prescribes after it; the value written is          *)
(* post[key].  "insert" is insert(.., onConflict 'error'), "upsert" is      *)
(* insert(.., 'update').                                                    *)
(***************************************************************************)
Op == [kind: AllKinds, key: Key, post: Contents]
Block == [ops: Seq(Op), rows: Contents]

\* What a handler may issue for a chain whose tables hold c.
LegalOps(c) ==
  {[kind |-> m, key |-> k, post |-> [c EXCEPT ![k] = v]] :
     m \in OpKinds \cap {"insert", "upsert", "replace"}, v \in Val,
     k \in {j \in Key : c[j] = NoRow}}
  \cup
  {[kind |-> m, key |-> k, post |-> [c EXCEPT ![k] = v]] :
     m \in OpKinds \cap {"replace", "update"}, v \in Val,
     k \in {j \in Key : c[j] # NoRow}}
  \cup
  {[kind |-> m, key |-> k, post |-> [c EXCEPT ![k] = NoRow]] :
     m \in OpKinds \cap {"delete"}, k \in {j \in Key : c[j] # NoRow}}

BlocksOver(c) ==
  {[ops |-> <<>>, rows |-> c]}
  \cup {[ops |-> <<o>>, rows |-> o.post] : o \in LegalOps(c)}
  \cup (IF MaxOps = 1 THEN {}
        ELSE UNION {{[ops |-> <<o, p>>, rows |-> p.post] : p \in LegalOps(o.post)}
                      : o \in LegalOps(c)})

StateAfter(blocks, n) == IF n = 0 THEN Empty ELSE blocks[n].rows

-----------------------------------------------------------------------------
(* Direct writes of a reversible transaction, and their undo log.           *)

\* An update of a missing row affects no row; every other write takes.
Applied(op, rows) ==
  IF op.kind = "update" /\ rows[op.key] = NoRow
    THEN rows
    ELSE [rows EXCEPT ![op.key] = op.post[op.key]]

\* A plain INSERT of an existing primary key raises.
Conflicts(op, rows) == op.kind = "insert" /\ rows[op.key] # NoRow

UndoKind(op, old) ==
  CASE op.kind = "delete"                          -> "insert"
    [] op.kind \in {"insert", "upsert"}            -> "delete"
    [] op.kind = "replace" /\ old = NoRow          -> "delete"
    [] OTHER                                       -> "update"

\* A faulty variant of IsLogged: a deleted row is not saved.
LogsNoDelete(op, old) ==
  op.kind # "delete" /\ old # op.post[op.key]
\* INSERT logs every row it returns; UPDATE only rows whose value changes;
\* DELETE only rows it found.
IsLogged(op, old) ==
  \/ op.kind \in {"insert", "upsert"}
  \/ op.kind = "replace" /\ old # op.post[op.key]
  \/ op.kind = "update" /\ old # NoRow /\ old # op.post[op.key]
  \/ op.kind = "delete" /\ old # NoRow

Entry == [id: Nat \ {0}, block: Nat \ {0}, kind: {"insert", "update", "delete"},
          key: Key \cup {BlockRecord}, old: Row]

\* Of a bigserial id only the order within a block is ever read: an entry's
\* rank among those of its block stands for it.
FreshId(log, block) == 1 + Cardinality({e \in log : e.block = block})

\* The insert of a block into reversible_blocks is itself logged.
RecordLogged(log, block) ==
  log \cup {[id |-> FreshId(log, block), block |-> block, key |-> BlockRecord,
            kind |-> "delete", old |-> NoRow]}

Logged(log, op, rows, block) ==
  IF IsLogged(op, rows[op.key])
    THEN log \cup {[id |-> FreshId(log, block), block |-> block, key |-> op.key,
                    kind |-> UndoKind(op, rows[op.key]), old |-> rows[op.key]]}
    ELSE log

\* ORDER BY block_num DESC, id DESC.
UndoneBefore(d, e) == d.block > e.block \/ (d.block = e.block /\ d.id > e.id)
IsLast(e, log) == \A d \in log \ {e} : UndoneBefore(e, d)
From(log, n) == {e \in log : e.block >= n}

\* The effect of one entry on the rows, run as a plain statement.
Undone(e, rows) ==
  IF e.key = BlockRecord \/ (e.kind = "update" /\ rows[e.key] = NoRow)
    THEN rows
    ELSE [rows EXCEPT ![e.key] = IF e.kind = "delete" THEN NoRow ELSE e.old]

\* The contents the log promises to restore when every block >= n is undone:
\* of the entries of a key the one undone last decides.
Before(rows, log, n) ==
  [k \in Key |->
     LET mine == {e \in From(log, n) : e.key = k}
     IN  IF mine = {} THEN rows[k]
         ELSE LET first == CHOOSE e \in mine : \A d \in mine \ {e} : UndoneBefore(d, e)
              IN  IF first.kind = "delete" THEN NoRow ELSE first.old]

-----------------------------------------------------------------------------
(* The WriteBuffer and the UpdateBuffer of an irreversible transaction:     *)
(* pending inserts (all flushed first), then pending updates.               *)
(* A replace and a later update of one row would be flushed in that order   *)
(* too, an update and a later replace in the wrong one: the handlers that   *)
(* use both methods on a table (collections, schemas, delphioracle) set     *)
(* different columns with them, so the runs with buffers leave replace out. *)

Buffers == [ins: [Key -> [kind: {"none", "insert", "upsert"}, val: Row]],
            upd: [Key -> Row]]
NoBuffers == [ins |-> [k \in Key |-> [kind |-> "none", val |-> NoRow]],
              upd |-> Empty]

BufferInsert(b, kind, k, v) == [b EXCEPT !.ins[k] = [kind |-> kind, val |-> v]]
BufferUpdate(b, k, v) == [b EXCEPT !.upd[k] = v]

FlushConflicts(rows, b) ==
  \E k \in Key : b.ins[k].kind = "insert" /\ rows[k] # NoRow

\* A faulty variant of Flushed: the buffered inserts are dropped.
FlushedUpdates(rows, b) ==
  [k \in Key |-> IF b.upd[k] = NoRow \/ rows[k] = NoRow THEN rows[k] ELSE b.upd[k]]
Flushed(rows, b) ==
  [k \in Key |->
     LET inserted == IF b.ins[k].kind = "none" THEN rows[k] ELSE b.ins[k].val
     IN  IF b.upd[k] = NoRow \/ inserted = NoRow THEN inserted ELSE b.upd[k]]
=============================================================================
