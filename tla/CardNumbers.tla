------------------------------ MODULE CardNumbers ------------------------------
(***************************************************************************)
(* The cards of a simpleassets contract, their mint numbers, and the links  *)
(* from the assets that a bridge mints for them                             *)
(* (src/src/filler/handlers/simpleassets/processors/{assets,bridge}.ts and  *)
(* snapshot-import.ts), as tables of HandlerRows.                           *)
(*                                                                          *)
(* A chain starts with the blocks up to the snapshot.  The snapshot is      *)
(* loaded first, and the reader goes through those blocks all the same: a   *)
(* replayed action must not count a card again nor undo what came after it. *)
(***************************************************************************)
EXTENDS Integers, FiniteSets, Sequences, SequencesExt, FiniteSetsExt

CONSTANTS Cards, Groups, Owners   \* Cards: asset ids

Nobody == "null"
Unnumbered == 0
Missing == -1    \* a link to a card that is not stored

Actions ==
  [name: {"createlog"}, card: Cards, group: Groups, owner: Owners]
  \cup [name: {"transfer"}, card: Cards, from: Owners, to: Owners]
  \cup [name: {"burnlog", "logmint"}, card: Cards]

-----------------------------------------------------------------------------
(* The contract (external).  Ids grow from block to block; within one, the  *)
(* creations may be logged in any order.                                    *)

None == [known |-> FALSE]
Genesis == [cards |-> [c \in Cards |-> None], linked |-> {}, sent |-> {}, count |-> 0]

Known(l) == {c \in Cards : l.cards[c].known}

Allowed(l, n, a) ==
  LET x == l.cards[a.card]
  IN  CASE a.name = "createlog" ->
             ~x.known /\ \A c \in Known(l) : l.cards[c].minted < n => c < a.card
        [] a.name = "transfer" -> x.known /\ x.owner = a.from /\ a.to # a.from
        [] a.name = "burnlog" -> x.known /\ x.owner # Nobody
        [] OTHER -> x.known /\ a.card \notin l.linked

Obey(l, n, a) ==
  LET k == l.count + 1
      put(x) == [l EXCEPT !.count = k, !.cards[a.card] = x]
  IN  CASE a.name = "createlog" ->
             put([known |-> TRUE, group |-> a.group, owner |-> a.owner, minted |-> n, at |-> n])
        [] a.name = "transfer" ->
             [put([l.cards[a.card] EXCEPT !.owner = a.to, !.at = n])
                EXCEPT !.sent = @ \cup {[seq |-> k, card |-> a.card, to |-> a.to]}]
        [] a.name = "burnlog" -> put([l.cards[a.card] EXCEPT !.owner = Nobody, !.at = n])
        [] OTHER -> [l EXCEPT !.count = k, !.linked = @ \cup {a.card}]

Before(l, c, d) ==
  \/ l.cards[c].minted < l.cards[d].minted
  \/ l.cards[c].minted = l.cards[d].minted /\ c <= d

\* The number of a card: its place among the cards of its group.
NumberOf(l, d) ==
  Cardinality({c \in Known(l) : l.cards[c].group = l.cards[d].group /\ Before(l, c, d)})

\* Two blocks, of which the snapshot was taken after the second.
Past ==
  LET new(c, g, o) == [name |-> "createlog", card |-> c, group |-> g, owner |-> o]
      send(c, o, p) == [name |-> "transfer", card |-> c, from |-> o, to |-> p]
      first == Min(Cards)
      o == CHOOSE x \in Owners : TRUE
      p == CHOOSE x \in Owners : x # o
      g == CHOOSE x \in Groups : TRUE
  IN  {<< <<>>, <<>> >>,
       << <<new(first, g, o)>>, <<>> >>,
       << <<new(first, g, o), send(first, o, p)>>, <<send(first, p, o)>> >>,
       << <<new(first, g, o)>>, <<send(first, o, p), send(first, p, o)>> >>}
Baseline == 2

-----------------------------------------------------------------------------
\* SimpleAssetsUpdatePriority.
Priority(name) ==
  CASE name = "createlog" -> 50 [] name = "flush" -> 51
    [] name = "logmint" -> 70 [] OTHER -> 60

\* flush stands for the listener of the end of the mint priority.
Jobs(before, after, n, block) ==
  LET traces == [k \in DOMAIN block |->
                   [priority |-> Priority(block[k].name), name |-> block[k].name, call |-> block[k],
                    block |-> n, seq |-> before.count + k]]
      mints == SelectSeq(block, LAMBDA a : a.name = "createlog")
  IN  traces \o IF mints = <<>> THEN <<>>
                ELSE <<[priority |-> Priority("flush"), name |-> "flush"]>>

-----------------------------------------------------------------------------
(* The tables.  pending is pendingCreates.                                  *)

NoRow == [known |-> FALSE]
NoRows == [cards |-> [c \in Cards |-> NoRow], totals |-> [g \in Groups |-> 0],
           links |-> [c \in Cards |-> Missing], pending |-> <<>>, sent |-> {},
           baseline |-> 0]

\* runSnapshotImport(): seed rows are as of the snapshot block.
Seed(r, l) ==
  [r EXCEPT !.baseline = Baseline,
            !.cards = [c \in Cards |->
               IF ~l.cards[c].known THEN NoRow
               ELSE [known |-> TRUE, group |-> l.cards[c].group, owner |-> l.cards[c].owner,
                     number |-> NumberOf(l, c), minted |-> l.cards[c].minted,
                     at |-> Baseline]],
            !.totals = [g \in Groups |-> Cardinality({c \in Known(l) : l.cards[c].group = g})]]

CreateLog(r, j) == [r EXCEPT !.pending = Append(@, [call |-> j.call, block |-> j.block])]

\* compareCreates().  (ByArrival: a faulty variant.)
ByArrival(a, b) == TRUE
CreatedBefore(a, b) == a.block < b.block \/ (a.block = b.block /\ a.call.card <= b.call.card)

\* flushCreates(): a stored card is neither counted nor written again.
\* (Recounts: a faulty variant.)
Recounts(r) == r.pending
NewCreates(r) == SelectSeq(r.pending, LAMBDA p : ~r.cards[p.call.card].known)

\* assignMintNumbers(), on top of the totals.
FlushCreates(r) ==
  LET new == ToSet(NewCreates(r))
      counted(g) == {p \in new : p.call.group = g /\ p.block > r.baseline}
      number(p) == IF p.block > r.baseline
                     THEN r.totals[p.call.group]
                            + Cardinality({q \in counted(p.call.group) : CreatedBefore(q, p)})
                     ELSE Unnumbered
      row(p) == [known |-> TRUE, group |-> p.call.group, owner |-> p.call.owner,
                 number |-> number(p), minted |-> p.block, at |-> p.block]
  IN  [r EXCEPT !.pending = <<>>,
                !.cards = [c \in Cards |-> IF \E p \in new : p.call.card = c
                                             THEN row(CHOOSE p \in new : p.call.card = c) ELSE @[c]],
                !.totals = [g \in Groups |-> @[g] + Cardinality(counted(g))]]

\* updateAssetGuarded().
Guarded(row, n) == row.known /\ row.at <= n

Transfer(r, j) ==
  LET x == r.cards[j.call.card]
  IN  [r EXCEPT !.cards[j.call.card] =
                  IF Guarded(x, j.block) /\ x.owner = j.call.from
                    THEN [x EXCEPT !.owner = j.call.to, !.at = j.block] ELSE x,
                !.sent = @ \cup {[seq |-> j.seq, card |-> j.call.card, to |-> j.call.to]}]

BurnLog(r, j) ==
  LET x == r.cards[j.call.card]
  IN  [r EXCEPT !.cards[j.call.card] =
                  IF Guarded(x, j.block) THEN [x EXCEPT !.owner = Nobody, !.at = j.block] ELSE x]

\* The bridge's own mint: the link keeps the number of that moment.
LogMint(r, j) ==
  LET c == j.call.card
  IN  [r EXCEPT !.links[c] = IF @ # Missing THEN @
                             ELSE IF r.cards[c].known THEN r.cards[c].number ELSE Unnumbered]

Begin(r, buffered) == r

Run(r, j) ==
  CASE j.name = "createlog" -> CreateLog(r, j)
    [] j.name = "flush" -> FlushCreates(r)
    [] j.name = "transfer" -> Transfer(r, j)
    [] j.name = "burnlog" -> BurnLog(r, j)
    [] OTHER -> LogMint(r, j)

Commit(r) == r
Loaded(r) == [r EXCEPT !.pending = <<>>]
RolledBack(old, now) == old

-----------------------------------------------------------------------------
Says(l, r) ==
  /\ \A c \in Cards :
       LET x == l.cards[c] IN
       IF ~x.known THEN r.cards[c] = NoRow
       ELSE /\ r.cards[c].owner = x.owner /\ r.cards[c].minted = x.minted
            /\ r.cards[c].number = NumberOf(l, c)
            /\ r.cards[c].at = IF x.at <= Baseline THEN Baseline ELSE x.at
  /\ \A g \in Groups : r.totals[g] = Cardinality({c \in Known(l) : l.cards[c].group = g})
  /\ \A c \in Cards : r.links[c] = IF c \in l.linked THEN NumberOf(l, c) ELSE Missing
  /\ r.sent = l.sent
=============================================================================
