------------------------------ MODULE AuthorSwaps ------------------------------
(***************************************************************************)
(* Changes of a collection's author, and what the log of them says          *)
(* (src/src/filler/handlers/atomicassets/processors/{logs,collections}.ts), *)
(* as tables of HandlerRows.                                                *)
(*                                                                          *)
(* The log handlers of a group run before any of its table deltas, so they  *)
(* complete what the tables say by what they remember of the group, and the *)
(* entry of a creation waits for the delta that carries its date.           *)
(***************************************************************************)
EXTENDS Integers, FiniteSets, Sequences, SequencesExt

CONSTANTS Owner, Accounts

Nobody == "null"
NoDate == 0
NoSwap == [new |-> Nobody, date |-> NoDate]

Actions == [name: {"createauswap"}, new: Accounts] \cup [name: {"acceptauswap", "rejectauswap"}]

-----------------------------------------------------------------------------
(* The contract (external), for one collection.  The date is set by the     *)
(* block; log is what there is to say of every action, by its number; fleeting *)
(* is whether a swap was born and resolved in one block.                    *)

Genesis == [author |-> Owner, swap |-> NoSwap, count |-> 0, log |-> {}, fleeting |-> FALSE]

Allowed(l, n, a) ==
  IF a.name = "createauswap" THEN l.swap = NoSwap /\ a.new # l.author ELSE l.swap # NoSwap

Obey(l, n, a) ==
  LET k == l.count + 1
      resolved == [seq |-> k, name |-> a.name, new |-> l.swap.new, prior |-> l.author]
  IN  CASE a.name = "createauswap" ->
             [l EXCEPT !.swap = [new |-> a.new, date |-> n], !.count = k,
                       !.log = @ \cup {[seq |-> k, name |-> a.name, new |-> a.new, date |-> n]}]
        [] OTHER ->
             [l EXCEPT !.author = IF a.name = "acceptauswap" THEN l.swap.new ELSE @,
                       !.swap = NoSwap, !.count = k, !.log = @ \cup {resolved},
                       !.fleeting = @ \/ l.swap.date = n]

Past == {<< <<>> >>} \cup {<< <<[name |-> "createauswap", new |-> x]>> >> : x \in Accounts}

-----------------------------------------------------------------------------
(* The jobs of a block.  SHIP sends the row that a swap left behind, or the *)
(* one it removed; nothing of a swap that came and went within the block.   *)

\* (LogsLast: a faulty variant, the logs after the tables.)
LogsLast == 100
Logs == 0
TableCollections == 20

Jobs(before, after, n, block) ==
  LET changed == before.swap # after.swap
      present == after.swap # NoSwap
  IN  [k \in DOMAIN block |->
         [priority |-> Logs, name |-> block[k].name, call |-> block[k], block |-> n,
          seq |-> before.count + k]]
      \o (IF before.author = after.author THEN <<>>
          ELSE <<[priority |-> TableCollections, name |-> "collections",
                  author |-> after.author]>>)
      \o (IF ~changed THEN <<>>
          ELSE <<[priority |-> TableCollections, name |-> "authorswaps", block |-> n,
                  present |-> present,
                  value |-> IF present THEN after.swap ELSE before.swap]>>)

-----------------------------------------------------------------------------
(* The tables and the log, and AuswapBatchState.                            *)

NoBatch == [pending |-> Nobody, override |-> Nobody, deferred |-> <<>>]
NoRows == [author |-> Owner, new |-> Nobody, date |-> NoDate, log |-> {}, batch |-> NoBatch]

CreateAuSwap(r, j) ==
  [r EXCEPT !.batch.pending = j.call.new,
            !.batch.deferred = Append(@, [seq |-> j.seq, new |-> j.call.new, block |-> j.block])]

\* buildSwapResolutionMetadata(): the group's own memory first, then the row.
\* (RowOnly: a faulty variant.)
RowOnly(memory, column) == column
Preferred(memory, column) == IF memory # Nobody THEN memory ELSE column

Resolve(r, j) ==
  LET new == Preferred(r.batch.pending, r.new)
      entry == [seq |-> j.seq, name |-> j.name, new |-> new,
                prior |-> Preferred(r.batch.override, r.author)]
  IN  [r EXCEPT !.log = @ \cup {entry}, !.batch.pending = Nobody,
                !.batch.override = IF j.name = "acceptauswap" /\ new # Nobody THEN new ELSE @]

Created(entry, date) ==
  [seq |-> entry.seq, name |-> "createauswap", new |-> entry.new, date |-> date]

\* The delta completes the latest creation it can belong to.
\* (AnyBlock: a faulty variant, one of a later block too.)
AnyBlock(entry, j) == entry.new = j.value.new
Fits(entry, j) == entry.new = j.value.new /\ entry.block <= j.block

AuthorSwapsDelta(r, j) ==
  LET i == SelectLastInSeq(r.batch.deferred, LAMBDA e : Fits(e, j))
      row == [r EXCEPT !.new = IF j.present THEN j.value.new ELSE Nobody,
                       !.date = IF j.present THEN j.value.date ELSE NoDate]
  IN  IF i = 0 THEN row
      ELSE [row EXCEPT !.batch.deferred = RemoveAt(@, i),
                       !.log = @ \cup {Created(r.batch.deferred[i], j.value.date)}]

Seed(r, l) == r
Begin(r, buffered) == r

Run(r, j) ==
  CASE j.name = "createauswap" -> CreateAuSwap(r, j)
    [] j.name = "collections" -> [r EXCEPT !.author = j.author]
    [] j.name = "authorswaps" -> AuthorSwapsDelta(r, j)
    [] OTHER -> Resolve(r, j)

\* onCommit: what never met its delta is logged without a date.
Commit(r) ==
  [r EXCEPT !.log = @ \cup {Created(e, NoDate) : e \in ToSet(r.batch.deferred)},
            !.batch = NoBatch]

Loaded(r) == r
RolledBack(old, now) == old

-----------------------------------------------------------------------------
Dated(x) == x.name = "createauswap"
Undated(log) == {IF Dated(x) THEN [x EXCEPT !.date = NoDate] ELSE x : x \in log}

\* The row is the contract's, and every action has one entry that names the
\* right authors; and the right date, unless some swap came and went unseen.
Says(l, r) ==
  /\ r.author = l.author /\ r.new = l.swap.new /\ r.date = l.swap.date
  /\ Undated(r.log) = Undated(l.log) /\ Cardinality(r.log) = l.count
  /\ l.fleeting \/ r.log = l.log
=============================================================================
