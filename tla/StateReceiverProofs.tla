------------------------ MODULE StateReceiverProofs -------------------------
(***************************************************************************)
(* The block pipeline of StateReceiver, for every value of its constants.   *)
(*                                                                          *)
(* First what the undo log of reversible_queries is good for (a log that    *)
(* restores some contents still does after a logged write, after its last   *)
(* entry is undone and after what is below it is pruned), what a flush of   *)
(* the write buffers makes of the rows, the type invariant, with the bounds *)
(* it puts on a commit group and on a rollback chunk, and the bound on how  *)
(* far a commit moves the checkpoint back.                                  *)
(*                                                                          *)
(* Then the rows of the reader: over forks, rollbacks in chunks, groups of  *)
(* blocks, crashes and replays, what is committed are the rows of the chain *)
(* the reader has indexed, the undo log gives back what a block found, and  *)
(* a restart finds the fork.  Left out of this part, by the hypotheses      *)
(* Honest and ~Overlap of the theorems, is what is known to break them: a   *)
(* state-history node that answers with anything, a crash between two       *)
(* chunks of a rollback, and a reversible block that shares its transaction *)
(* with a group of irreversible ones (receiver.ts:294); and a value written *)
(* both by replace and by update, which no handler does (collections,       *)
(* schemas and delphioracle pairs are written by both, with different       *)
(* columns).                                                                *)
(***************************************************************************)
EXTENDS StateReceiver, FiniteSetTheorems, TLAPS

-----------------------------------------------------------------------------
(* Numbers.                                                                 *)

LEMMA LeastNat ==
  ASSUME NEW S \in SUBSET Nat, S # {}
  PROVE  \E m \in S : \A k \in S : m <= k
<1> DEFINE R == OpToRel(<, Nat)
<1>1. IsWellFoundedOn(R, Nat)
  BY NatLessThanWellFounded
<1>2. PICK x \in S : \A y \in S : ~ (<<y, x>> \in R)
  BY <1>1, WFMin
<1>3. \A y \in S : <<y, x>> \in R <=> y < x
  BY DEF OpToRel
<1>4. \A y \in S : ~ (y < x)
  BY <1>2, <1>3, Zenon
<1> HIDE DEF R
<1> QED BY <1>4

\* Induction, for a set: what holds of 0 and is handed on holds up to n.
LEMMA NatInduct ==
  ASSUME NEW n \in Nat, NEW S, 0 \in S, \A i \in 0..(n - 1) : i \in S => i + 1 \in S
  PROVE  \A i \in 0..n : i \in S
<1> SUFFICES ASSUME \E i \in 0..n : i \notin S PROVE FALSE
  OBVIOUS
<1> DEFINE out == {i \in 0..n : i \notin S}
<1>1. out \in SUBSET Nat /\ out # {}
  OBVIOUS
<1>2. PICK m \in out : \A k \in out : m <= k
  BY <1>1, LeastNat
<1>3. m \in 0..n /\ m \notin S /\ m # 0
  BY <1>2
<1>4. m - 1 \in 0..(n - 1) /\ m - 1 \in 0..n
  BY <1>3
<1>5. m - 1 \in S
  BY <1>2, <1>3, <1>4
<1>6. (m - 1) + 1 \in S
  BY <1>4, <1>5
<1> QED BY <1>3, <1>6

-----------------------------------------------------------------------------
(* The order in which entries are undone.                                   *)

LEMMA UndoOrder ==
  ASSUME NEW c \in Entry, NEW d \in Entry, NEW e \in Entry
  PROVE  /\ ~UndoneBefore(d, d)
         /\ ~(UndoneBefore(d, e) /\ UndoneBefore(e, d))
         /\ UndoneBefore(c, d) /\ UndoneBefore(d, e) => UndoneBefore(c, e)
  BY DEF UndoneBefore, Entry

\* bigserial ids: entries are told apart, and a new one comes after those of
\* its block.
Ordered(log) ==
  /\ \A e \in log : e.id <= Cardinality({d \in log : d.block = e.block})
  /\ \A d, e \in log : d.block = e.block /\ d.id = e.id => d = e

Total(S) == \A d, e \in S : d # e => UndoneBefore(d, e) \/ UndoneBefore(e, d)

LEMMA OrderedIsTotal ==
  ASSUME NEW log \in SUBSET Entry, Ordered(log)
  PROVE  Total(log) /\ \A n : Total(From(log, n))
<1>1. ASSUME NEW d \in log, NEW e \in log, d # e
      PROVE  UndoneBefore(d, e) \/ UndoneBefore(e, d)
  <2>1. d.block \in Nat /\ e.block \in Nat /\ d.id \in Nat /\ e.id \in Nat
    BY DEF Entry
  <2>2. d.block = e.block => d.id # e.id
    BY <1>1 DEF Ordered
  <2> QED BY <2>1, <2>2 DEF UndoneBefore
<1> QED BY <1>1 DEF Total, From

\* A new entry, with the next number of its block.
LEMMA OrderedGrows ==
  ASSUME NEW log \in SUBSET Entry, IsFiniteSet(log), Ordered(log),
         NEW e \in Entry, e.id = FreshId(log, e.block)
  PROVE  /\ e \notin log /\ Ordered(log \cup {e})
         /\ \A d \in log : d.block <= e.block => UndoneBefore(e, d)
<1> DEFINE of(l, n) == {d \in l : d.block = n}
<1>1. \A n : IsFiniteSet(of(log, n)) /\ Cardinality(of(log, n)) \in Nat
  BY FS_Subset, FS_CardinalityType
<1>2. e.id = 1 + Cardinality(of(log, e.block))
  BY DEF FreshId
<1>3. \A d \in log : d.block = e.block => d.id < e.id
  <2>1. ASSUME NEW d \in log, d.block = e.block PROVE d.id < e.id
    <3>1. d.id <= Cardinality(of(log, e.block))
      BY <2>1 DEF Ordered
    <3>2. d.id \in Nat
      BY DEF Entry
    <3> HIDE DEF of
    <3> QED BY <1>1, <1>2, <3>1, <3>2
  <2> QED BY <2>1
<1>4. e \notin log
  BY <1>3 DEF Entry
<1>5. of(log \cup {e}, e.block) = of(log, e.block) \cup {e} /\ e \notin of(log, e.block)
  BY <1>4
<1>6. Cardinality(of(log \cup {e}, e.block)) = Cardinality(of(log, e.block)) + 1
  <2> DEFINE B == of(log, e.block)
  <2>1. IsFiniteSet(B) /\ e \notin B
    BY <1>1, <1>5
  <2> HIDE DEF B
  <2>2. Cardinality(B \cup {e}) = Cardinality(B) + 1
    BY <2>1, FS_AddElement
  <2> QED BY <1>5, <2>2 DEF B
<1>7. ASSUME NEW d \in log \cup {e}
      PROVE  d.id <= Cardinality(of(log \cup {e}, d.block))
  <2>1. CASE d.block = e.block
    <3>1. d.id <= e.id
      BY <1>3, <2>1 DEF Entry
    <3> QED BY <1>1, <1>2, <1>6, <2>1, <3>1
  <2>2. CASE d.block # e.block
    <3>1. of(log \cup {e}, d.block) = of(log, d.block) /\ d \in log
      BY <2>2
    <3> QED BY <3>1 DEF Ordered
  <2> QED BY <2>1, <2>2
<1>8. ASSUME NEW c \in log \cup {e}, NEW d \in log \cup {e}, c.block = d.block, c.id = d.id
      PROVE  c = d
  <2>1. CASE c \in log /\ d \in log
    BY <1>8, <2>1 DEF Ordered
  <2>2. CASE c = e \/ d = e
    BY <1>3, <1>8, <2>2 DEF Entry
  <2> QED BY <2>1, <2>2
<1>9. ASSUME NEW d \in log, d.block <= e.block PROVE UndoneBefore(e, d)
  BY <1>3, <1>9 DEF UndoneBefore, Entry
<1> QED BY <1>4, <1>7, <1>8, <1>9 DEF Ordered

\* The last entry goes.
LEMMA OrderedShrinks ==
  ASSUME NEW log \in SUBSET Entry, IsFiniteSet(log), Ordered(log),
         NEW e \in log, \A d \in log \ {e} : d.block = e.block => UndoneBefore(e, d)
  PROVE  Ordered(log \ {e})
<1> DEFINE of(l, n) == {d \in l : d.block = n}
<1>1. \A n : IsFiniteSet(of(log, n)) /\ Cardinality(of(log, n)) \in Nat
  BY FS_Subset, FS_CardinalityType
<1>2. of(log \ {e}, e.block) = of(log, e.block) \ {e} /\ e \in of(log, e.block)
  OBVIOUS
<1>3. Cardinality(of(log \ {e}, e.block)) = Cardinality(of(log, e.block)) - 1
  <2> DEFINE B == of(log, e.block)
  <2>1. IsFiniteSet(B) /\ e \in B
    BY <1>1, <1>2
  <2> HIDE DEF B
  <2>2. Cardinality(B \ {e}) = Cardinality(B) - 1
    BY <2>1, FS_RemoveElement
  <2> QED BY <1>2, <2>2 DEF B
<1>4. ASSUME NEW d \in log \ {e}
      PROVE  d.id <= Cardinality(of(log \ {e}, d.block))
  <2>1. CASE d.block = e.block
    <3>1. d.id < e.id /\ e.id <= Cardinality(of(log, e.block))
      BY <2>1 DEF UndoneBefore, Entry, Ordered
    <3>2. d.id \in Nat /\ e.id \in Nat
      BY DEF Entry
    <3> HIDE DEF of
    <3>3. d.id <= Cardinality(of(log, e.block)) - 1 /\ Cardinality(of(log, e.block)) \in Nat
      BY <1>1, <3>1, <3>2
    <3> QED BY <1>3, <2>1, <3>3
  <2>2. CASE d.block # e.block
    <3>1. of(log \ {e}, d.block) = of(log, d.block)
      BY <2>2
    <3> QED BY <3>1 DEF Ordered
  <2> QED BY <2>1, <2>2
<1> QED BY <1>4 DEF Ordered

\* Pruning takes whole blocks.
LEMMA OrderedPruned ==
  ASSUME NEW log \in SUBSET Entry, Ordered(log), NEW kept \in SUBSET log,
         \A d, e \in log : d.block = e.block /\ d \in kept => e \in kept
  PROVE  Ordered(kept)
<1>1. ASSUME NEW e \in kept
      PROVE  {d \in kept : d.block = e.block} = {d \in log : d.block = e.block}
  OBVIOUS
<1> QED BY <1>1 DEF Ordered

-----------------------------------------------------------------------------
(* What a set of entries restores.                                          *)

\* The row an entry brings back.
Old(e) == IF e.kind = "delete" THEN NoRow ELSE e.old

FirstOf(e, S) == \A d \in S : d.key = e.key /\ d # e => UndoneBefore(d, e)
LastOf(e, S) == \A d \in S : d.key = e.key /\ d # e => UndoneBefore(e, d)
NextOf(d, e, S) ==
  /\ d.key = e.key /\ UndoneBefore(d, e)
  /\ ~\E x \in S : x.key = e.key /\ UndoneBefore(d, x) /\ UndoneBefore(x, e)

\* Undone one by one the entries S take rows back to old: the first entry of a
\* key holds its old row, an insert is undone where there is a row and a delete
\* where there is none.
Restores(rows, S, old) ==
  /\ \A k \in Key : (\A e \in S : e.key # k) => rows[k] = old[k]
  /\ \A e \in S : e.key \in Key /\ FirstOf(e, S) => Old(e) = old[e.key]
  /\ \A e \in S : e.key \in Key /\ LastOf(e, S) => (e.kind = "insert" <=> rows[e.key] = NoRow)
  /\ \A d, e \in S : e.key \in Key /\ NextOf(d, e, S) => (e.kind = "insert" <=> Old(d) = NoRow)

LEMMA RestoresNothing ==
  ASSUME NEW rows \in Contents, NEW old \in Contents
  PROVE  Restores(rows, {}, old) <=> rows = old
<1>1. Restores(rows, {}, old) <=> \A k \in Key : rows[k] = old[k]
  BY DEF Restores
<1> QED BY <1>1 DEF Contents

\* Undoing the last entry.
LEMMA UndoneRow ==
  ASSUME NEW S \in SUBSET Entry, NEW e \in S, LastOf(e, S),
         NEW rows \in Contents, NEW old \in Contents, Restores(rows, S, old)
  PROVE  /\ e.key = BlockRecord => Undone(e, rows) = rows
         /\ e.key \in Key => /\ Undone(e, rows) = [rows EXCEPT ![e.key] = Old(e)]
                             /\ e.kind = "insert" <=> rows[e.key] = NoRow
<1>1. CASE e.key \in Key
  <2>1. e.kind = "insert" <=> rows[e.key] = NoRow
    BY <1>1 DEF Restores
  <2>2. e.key # BlockRecord
    BY <1>1, TablesAssumption
  <2> QED BY <2>1, <2>2 DEF Undone, Old
<1>2. CASE e.key \notin Key
  BY <1>2 DEF Undone
<1> QED BY <1>1, <1>2

LEMMA RestoresUndone ==
  ASSUME NEW S \in SUBSET Entry, Total(S), NEW e \in S,
         \A d \in S \ {e} : UndoneBefore(e, d),
         NEW rows \in Contents, NEW old \in Contents, Restores(rows, S, old)
  PROVE  Restores(Undone(e, rows), S \ {e}, old)
<1> DEFINE new == Undone(e, rows)
           T == S \ {e}
<1>1. LastOf(e, S)
  BY DEF LastOf
<1>2. \A k \in Key : new[k] = IF e.key = k THEN Old(e) ELSE rows[k]
  <2>1. CASE e.key \in Key
    <3>1. new = [rows EXCEPT ![e.key] = Old(e)]
      BY <1>1, <2>1, UndoneRow
    <3> QED BY <2>1, <3>1 DEF Contents
  <2>2. CASE e.key = BlockRecord
    <3>1. new = rows
      BY <1>1, <2>2, UndoneRow
    <3> QED BY <2>2, <3>1, TablesAssumption
  <2> QED BY <2>1, <2>2 DEF Entry
<1> HIDE DEF new
<1>3. \A d \in T : ~UndoneBefore(d, e) /\ d \in Entry
  BY UndoOrder
<1>4. ASSUME NEW k \in Key, \A d \in T : d.key # k PROVE new[k] = old[k]
  <2>1. CASE e.key = k
    <3>1. FirstOf(e, S)
      BY <1>4, <2>1 DEF FirstOf
    <3> QED BY <1>2, <2>1, <3>1 DEF Restores
  <2>2. CASE e.key # k
    BY <1>2, <1>4, <2>2 DEF Restores
  <2> QED BY <2>1, <2>2
<1>5. ASSUME NEW d \in T, d.key \in Key, FirstOf(d, T) PROVE Old(d) = old[d.key]
  <2>1. FirstOf(d, S)
    BY <1>5 DEF FirstOf
  <2> QED BY <1>5, <2>1 DEF Restores
<1>6. ASSUME NEW d \in T, d.key \in Key, LastOf(d, T)
      PROVE  d.kind = "insert" <=> new[d.key] = NoRow
  <2>1. CASE e.key = d.key
    <3>1. ASSUME NEW x \in S, x.key = d.key, UndoneBefore(e, x), UndoneBefore(x, d)
          PROVE  FALSE
      <4>1. x # e /\ x # d /\ x \in Entry /\ d \in Entry
        BY <3>1, UndoOrder
      <4>2. UndoneBefore(d, x)
        BY <1>6, <3>1, <4>1 DEF LastOf
      <4> QED BY <3>1, <4>1, <4>2, UndoOrder
    <3>2. NextOf(e, d, S)
      BY <2>1, <3>1 DEF NextOf
    <3>3. d.kind = "insert" <=> Old(e) = NoRow
      BY <1>6, <3>2 DEF Restores
    <3> QED BY <1>2, <1>6, <2>1, <3>3
  <2>2. CASE e.key # d.key
    <3>1. LastOf(d, S)
      BY <1>6, <2>2 DEF LastOf
    <3> QED BY <1>2, <1>6, <2>2, <3>1 DEF Restores
  <2> QED BY <2>1, <2>2
<1>7. ASSUME NEW c \in T, NEW d \in T, d.key \in Key, NextOf(c, d, T)
      PROVE  d.kind = "insert" <=> Old(c) = NoRow
  <2>1. NextOf(c, d, S)
    BY <1>3, <1>7 DEF NextOf
  <2> QED BY <1>7, <2>1 DEF Restores
<1> HIDE DEF T
<1>8. Restores(new, T, old)
  BY <1>4, <1>5, <1>6, <1>7 DEF Restores
<1> QED BY <1>8 DEF new, T

\* A write, with the entry it logs.
LEMMA RestoresWritten ==
  ASSUME NEW S \in SUBSET Entry, Total(S), NEW e \in Entry, e \notin S,
         \A d \in S : UndoneBefore(e, d),
         NEW rows \in Contents, NEW old \in Contents, Restores(rows, S, old),
         NEW v, e.key \in Key, Old(e) = rows[e.key], e.kind = "insert" <=> v = NoRow
  PROVE  Restores([rows EXCEPT ![e.key] = v], S \cup {e}, old)
<1> DEFINE new == [rows EXCEPT ![e.key] = v]
           T == S \cup {e}
<1>1. \A k \in Key : new[k] = IF e.key = k THEN v ELSE rows[k]
  BY DEF Contents
<1> HIDE DEF new
<1>2. \A d \in S : ~UndoneBefore(d, e) /\ d \in Entry
  BY UndoOrder
<1>3. ASSUME NEW k \in Key, \A d \in T : d.key # k PROVE new[k] = old[k]
  BY <1>1, <1>3 DEF Restores
<1>4. ASSUME NEW d \in T, d.key \in Key, FirstOf(d, T) PROVE Old(d) = old[d.key]
  <2>1. CASE d = e
    <3>1. \A x \in S : x.key # e.key
      BY <1>2, <1>4, <2>1 DEF FirstOf
    <3> QED BY <2>1, <3>1 DEF Restores
  <2>2. CASE d \in S
    <3>1. FirstOf(d, S)
      BY <1>4 DEF FirstOf
    <3> QED BY <1>4, <2>2, <3>1 DEF Restores
  <2> QED BY <2>1, <2>2
<1>5. ASSUME NEW d \in T, d.key \in Key, LastOf(d, T)
      PROVE  d.kind = "insert" <=> new[d.key] = NoRow
  <2>1. CASE d = e
    BY <1>1, <2>1
  <2>2. CASE d \in S
    <3>1. LastOf(d, S) /\ d.key # e.key
      BY <1>2, <1>5, <2>2 DEF LastOf
    <3> QED BY <1>1, <1>5, <2>2, <3>1 DEF Restores
  <2> QED BY <2>1, <2>2
<1>6. ASSUME NEW c \in T, NEW d \in T, d.key \in Key, NextOf(c, d, T)
      PROVE  d.kind = "insert" <=> Old(c) = NoRow
  <2>1. CASE c \in S /\ d \in S
    <3>1. NextOf(c, d, S)
      BY <1>6 DEF NextOf
    <3> QED BY <1>6, <2>1, <3>1 DEF Restores
  <2>2. CASE c = e /\ d \in S
    <3>1. ASSUME NEW x \in S, x.key = d.key, x # d PROVE UndoneBefore(d, x)
      <4>1. ~UndoneBefore(x, d)
        BY <1>6, <2>2, <3>1 DEF NextOf
      <4> QED BY <2>2, <3>1, <4>1 DEF Total
    <3>2. LastOf(d, S)
      BY <3>1 DEF LastOf
    <3>3. d.kind = "insert" <=> rows[d.key] = NoRow
      BY <1>6, <2>2, <3>2 DEF Restores
    <3> QED BY <1>6, <2>2, <3>3 DEF NextOf
  <2>3. CASE d = e
    BY <1>2, <1>6, <2>3, UndoOrder DEF NextOf
  <2> QED BY <2>1, <2>2, <2>3
<1> HIDE DEF T
<1>7. Restores(new, T, old)
  BY <1>3, <1>4, <1>5, <1>6 DEF Restores
<1> QED BY <1>7 DEF new, T

\* The record of a block is no row.
LEMMA RestoresRecorded ==
  ASSUME NEW S \in SUBSET Entry, NEW e \in Entry, e.key = BlockRecord,
         NEW rows, NEW old, Restores(rows, S, old)
  PROVE  Restores(rows, S \cup {e}, old)
<1> DEFINE T == S \cup {e}
<1>0. \A d \in T : d.key \in Key => d \in S /\ d.key # e.key
  BY TablesAssumption
<1>1. \A k \in Key : (\A d \in T : d.key # k) => rows[k] = old[k]
  BY DEF Restores
<1>2. ASSUME NEW d \in T, d.key \in Key, FirstOf(d, T) PROVE Old(d) = old[d.key]
  <2>1. FirstOf(d, S)
    BY <1>2 DEF FirstOf
  <2> QED BY <1>0, <1>2, <2>1 DEF Restores
<1>3. ASSUME NEW d \in T, d.key \in Key, LastOf(d, T)
      PROVE  d.kind = "insert" <=> rows[d.key] = NoRow
  <2>1. LastOf(d, S)
    BY <1>3 DEF LastOf
  <2> QED BY <1>0, <1>3, <2>1 DEF Restores
<1>4. ASSUME NEW c \in T, NEW d \in T, d.key \in Key, NextOf(c, d, T)
      PROVE  d.kind = "insert" <=> Old(c) = NoRow
  <2>1. NextOf(c, d, S) /\ c.key \in Key
    BY <1>4 DEF NextOf
  <2> QED BY <1>0, <1>4, <2>1 DEF Restores
<1> HIDE DEF T
<1>5. Restores(rows, T, old)
  BY <1>1, <1>2, <1>3, <1>4 DEF Restores
<1> QED BY <1>5 DEF T

\* Entries not touched by what was pruned restore what they did.
LEMMA FromOfPart ==
  ASSUME NEW log, NEW n, NEW kept \in SUBSET log, \A e \in From(log, n) : e \in kept
  PROVE  From(kept, n) = From(log, n)
  BY DEF From

-----------------------------------------------------------------------------
(* The first entry of a key, and what the log promises.                     *)

LEMMA FirstExists ==
  ASSUME NEW S \in SUBSET Entry, S # {}, Total(S)
  PROVE  \E e \in S : \A d \in S \ {e} : UndoneBefore(d, e)
<1> DEFINE blocks == {e.block : e \in S}
<1>1. blocks \in SUBSET Nat /\ blocks # {}
  BY DEF Entry
<1>2. PICK b \in blocks : \A c \in blocks : b <= c
  BY <1>1, LeastNat
<1> DEFINE ids == {e.id : e \in {d \in S : d.block = b}}
<1>3. ids \in SUBSET Nat /\ ids # {}
  BY <1>2 DEF Entry
<1>4. PICK i \in ids : \A j \in ids : i <= j
  BY <1>3, LeastNat
<1>5. PICK e \in S : e.block = b /\ e.id = i
  BY <1>4
<1>6. ASSUME NEW d \in S, d # e PROVE UndoneBefore(d, e)
  <2>1. UndoneBefore(d, e) \/ UndoneBefore(e, d)
    BY <1>6 DEF Total
  <2>2. e.block <= d.block /\ (d.block = b => e.id <= d.id)
    BY <1>2, <1>4, <1>5
  <2>3. {d.block, e.block, d.id, e.id} \subseteq Nat
    BY DEF Entry
  <2> QED BY <1>5, <2>1, <2>2, <2>3 DEF UndoneBefore
<1> QED BY <1>6

\* database.ts, rollbackReversibleBlocks: undoing all blocks from n on gives
\* back what the log restores.
LEMMA BeforeIsOld ==
  ASSUME NEW log \in SUBSET Entry, Ordered(log), NEW n,
         NEW rows \in Contents, NEW old \in Contents, Restores(rows, From(log, n), old)
  PROVE  Before(rows, log, n) = old
<1> SUFFICES ASSUME NEW k \in Key PROVE Before(rows, log, n)[k] = old[k]
  BY DEF Before, Contents
<1> DEFINE mine == {e \in From(log, n) : e.key = k}
           first == CHOOSE e \in mine : \A d \in mine \ {e} : UndoneBefore(d, e)
<1>1. Before(rows, log, n)[k] = IF mine = {} THEN rows[k]
                                ELSE IF first.kind = "delete" THEN NoRow ELSE first.old
  BY DEF Before
<1>2. CASE mine = {}
  <2>1. \A e \in From(log, n) : e.key # k
    BY <1>2
  <2> HIDE DEF mine
  <2> QED BY <1>1, <1>2, <2>1 DEF Restores
<1>3. CASE mine # {}
  <2>1. mine \in SUBSET Entry /\ Total(mine)
    BY OrderedIsTotal DEF From, Total
  <2> HIDE DEF mine
  <2>2. \E e \in mine : \A d \in mine \ {e} : UndoneBefore(d, e)
    BY <1>3, <2>1, FirstExists
  <2>3. first \in mine /\ \A d \in mine \ {first} : UndoneBefore(d, first)
    BY <2>2
  <2> HIDE DEF first
  <2>4. first \in From(log, n) /\ first.key = k /\ FirstOf(first, From(log, n))
    BY <2>3 DEF mine, FirstOf
  <2>5. Old(first) = old[k]
    BY <2>4 DEF Restores
  <2> QED BY <1>1, <1>3, <2>5 DEF Old
<1> QED BY <1>2, <1>3

-----------------------------------------------------------------------------
(* Writes.                                                                  *)

\* What a handler may write to a chain's contents c.
LEMMA LegalOp ==
  ASSUME NEW c \in Contents, NEW op \in LegalOps(c)
  PROVE  /\ op \in Op /\ op.kind \in OpKinds /\ op.post \in Contents
         /\ op.post = [c EXCEPT ![op.key] = op.post[op.key]]
         /\ op.kind \in {"insert", "upsert"} => c[op.key] = NoRow
         /\ op.kind \in {"update", "delete"} => c[op.key] # NoRow
         /\ op.post[op.key] = NoRow <=> op.kind = "delete"
<1>1. \E k \in Key : \E v \in Row :
        /\ op.kind \in OpKinds /\ op.key = k /\ op.post = [c EXCEPT ![k] = v]
        /\ op = [kind |-> op.kind, key |-> op.key, post |-> op.post]
        /\ op.kind \in {"insert", "upsert"} => c[k] = NoRow
        /\ op.kind \in {"update", "delete"} => c[k] # NoRow
        /\ v = NoRow <=> op.kind = "delete"
  BY TablesAssumption DEF LegalOps, Row
<1>2. PICK k \in Key, v \in Row :
        /\ op.kind \in OpKinds /\ op.key = k /\ op.post = [c EXCEPT ![k] = v]
        /\ op = [kind |-> op.kind, key |-> op.key, post |-> op.post]
        /\ op.kind \in {"insert", "upsert"} => c[k] = NoRow
        /\ op.kind \in {"update", "delete"} => c[k] # NoRow
        /\ v = NoRow <=> op.kind = "delete"
  BY <1>1
<1>3. op.post \in Contents /\ op.post[k] = v
  BY <1>2 DEF Contents
<1>4. op \in Op
  BY <1>2, <1>3, TablesAssumption DEF Op
<1> QED BY <1>2, <1>3, <1>4

\* A write to rows that are those of the chain takes as the chain means it.
LEMMA AppliedLegal ==
  ASSUME NEW c \in Contents, NEW op \in LegalOps(c)
  PROVE  Applied(op, c) = op.post /\ ~Conflicts(op, c)
<1>1. op.post = [c EXCEPT ![op.key] = op.post[op.key]]
  BY LegalOp
<1>2. op.kind = "update" => c[op.key] # NoRow
  BY LegalOp
<1>3. op.kind = "insert" => c[op.key] = NoRow
  BY LegalOp
<1> QED BY <1>1, <1>2, <1>3 DEF Applied, Conflicts

\* database.ts, insert(), update() and delete() of a reversible transaction:
\* what the log restored before a write of the block it restores after it.
LEMMA LoggedRestores ==
  ASSUME NEW log \in SUBSET Entry, IsFiniteSet(log), Ordered(log),
         NEW block \in Nat \ {0}, \A e \in log : e.block <= block,
         NEW c \in Contents, NEW op \in LegalOps(c)
  PROVE  /\ Ordered(Logged(log, op, c, block))
         /\ \A e \in Logged(log, op, c, block) : e.block <= block
         /\ \A n \in 0..block, old \in Contents :
              Restores(c, From(log, n), old) =>
                Restores(op.post, From(Logged(log, op, c, block), n), old)
<1>0. /\ op \in Op /\ op.post \in Contents /\ op.key \in Key /\ c[op.key] \in Row
      /\ op.post = [c EXCEPT ![op.key] = op.post[op.key]]
      /\ op.kind \in {"insert", "upsert"} => c[op.key] = NoRow
      /\ op.kind \in {"update", "delete"} => c[op.key] # NoRow
      /\ op.post[op.key] = NoRow <=> op.kind = "delete"
  BY LegalOp DEF Op, Contents
<1>1. CASE ~IsLogged(op, c[op.key])
  <2>1. op.post[op.key] = c[op.key]
    BY <1>0, <1>1 DEF IsLogged, Op, AllKinds
  <2>2. op.post = c
    BY <1>0, <2>1 DEF Contents
  <2>3. Logged(log, op, c, block) = log
    BY <1>1 DEF Logged
  <2> QED BY <2>2, <2>3
<1>2. CASE IsLogged(op, c[op.key])
  <2> DEFINE e == [id |-> FreshId(log, block), block |-> block, key |-> op.key,
                   kind |-> UndoKind(op, c[op.key]), old |-> c[op.key]]
  <2>1. Logged(log, op, c, block) = log \cup {e}
    BY <1>2 DEF Logged
  <2>2. e \in Entry
    <3>1. FreshId(log, block) \in Nat \ {0}
      <4>1. IsFiniteSet({d \in log : d.block = block})
        BY FS_Subset
      <4> QED BY <4>1, FS_CardinalityType DEF FreshId
    <3>2. UndoKind(op, c[op.key]) \in {"insert", "update", "delete"}
      BY DEF UndoKind
    <3> QED BY <1>0, <3>1, <3>2 DEF Entry
  <2>3. /\ e.id = FreshId(log, e.block) /\ e.block = block /\ e.key = op.key
        /\ Old(e) = c[op.key]
        /\ e.kind = "insert" <=> op.post[op.key] = NoRow
    BY <1>0 DEF UndoKind, Old
  <2> HIDE DEF e
  <2>4. /\ e \notin log /\ Ordered(log \cup {e})
        /\ \A d \in log : UndoneBefore(e, d)
    BY <2>2, <2>3, OrderedGrows
  <2>5. ASSUME NEW n \in 0..block, NEW old \in Contents, Restores(c, From(log, n), old)
        PROVE  Restores(op.post, From(log \cup {e}, n), old)
    <3> DEFINE S == From(log, n)
    <3>1. From(log \cup {e}, n) = S \cup {e}
      BY <2>3 DEF From
    <3>2. S \in SUBSET Entry /\ Total(S) /\ e \notin S /\ \A d \in S : UndoneBefore(e, d)
      BY <2>4, OrderedIsTotal DEF From
    <3>3. Restores(c, S, old)
      BY <2>5
    <3> HIDE DEF S
    <3>4. Restores([c EXCEPT ![e.key] = op.post[op.key]], S \cup {e}, old)
      BY <1>0, <2>2, <2>3, <3>2, <3>3, RestoresWritten
    <3> QED BY <1>0, <2>3, <3>1, <3>4
  <2> QED BY <2>1, <2>3, <2>4, <2>5
<1> QED BY <1>1, <1>2

\* The insert into reversible_blocks is logged too.
LEMMA RecordRestores ==
  ASSUME NEW log \in SUBSET Entry, IsFiniteSet(log), Ordered(log),
         NEW block \in Nat \ {0}, \A e \in log : e.block <= block
  PROVE  /\ Ordered(RecordLogged(log, block))
         /\ \A e \in RecordLogged(log, block) : e.block <= block
         /\ \A n \in 0..block : \A rows, old :
              Restores(rows, From(log, n), old) =>
                Restores(rows, From(RecordLogged(log, block), n), old)
<1> DEFINE e == [id |-> FreshId(log, block), block |-> block, key |-> BlockRecord,
                 kind |-> "delete", old |-> NoRow]
<1>1. RecordLogged(log, block) = log \cup {e}
  BY DEF RecordLogged
<1>2. e \in Entry
  <2>1. IsFiniteSet({d \in log : d.block = block})
    BY FS_Subset
  <2> QED BY <2>1, FS_CardinalityType DEF FreshId, Entry, Row
<1>3. e.id = FreshId(log, e.block) /\ e.block = block /\ e.key = BlockRecord
  OBVIOUS
<1> HIDE DEF e
<1>4. Ordered(log \cup {e})
  BY <1>2, <1>3, OrderedGrows
<1>5. ASSUME NEW n \in 0..block, NEW rows, NEW old, Restores(rows, From(log, n), old)
      PROVE  Restores(rows, From(log \cup {e}, n), old)
  <2> DEFINE S == From(log, n)
  <2>1. From(log \cup {e}, n) = S \cup {e} /\ S \in SUBSET Entry
    BY <1>3 DEF From
  <2>2. Restores(rows, S, old)
    BY <1>5
  <2> HIDE DEF S
  <2>3. Restores(rows, S \cup {e}, old)
    BY <1>2, <1>3, <2>1, <2>2, RestoresRecorded
  <2> QED BY <2>1, <2>3
<1> QED BY <1>1, <1>3, <1>4, <1>5

-----------------------------------------------------------------------------
(* Runs of writes.                                                          *)

\* The contents after the first i of the writes q, which start from c.
After(q, c, i) == IF i = 0 THEN c ELSE q[i].post
End(q, c) == After(q, c, Len(q))
Legal(q, c) == \A i \in 1..Len(q) : q[i] \in LegalOps(After(q, c, i - 1))

LEMMA AfterType ==
  ASSUME NEW q \in Seq(Op), NEW c \in Contents, NEW i \in 0..Len(q)
  PROVE  After(q, c, i) \in Contents
<1>1. i # 0 => q[i] \in Op
  OBVIOUS
<1> QED BY <1>1 DEF After, Op

LEMMA LegalNothing ==
  ASSUME NEW c
  PROVE  Legal(<<>>, c) /\ End(<<>>, c) = c
  BY DEF Legal, End, After

LEMMA LegalHead ==
  ASSUME NEW q \in Seq(Op), q # <<>>, NEW c \in Contents, Legal(q, c)
  PROVE  /\ Head(q) \in LegalOps(c) /\ Head(q).post \in Contents /\ Tail(q) \in Seq(Op)
         /\ Legal(Tail(q), Head(q).post) /\ End(Tail(q), Head(q).post) = End(q, c)
<1>1. /\ Len(q) \in Nat \ {0} /\ Head(q) = q[1] /\ Tail(q) \in Seq(Op)
      /\ Len(Tail(q)) = Len(q) - 1
      /\ \A i \in 1..(Len(q) - 1) : Tail(q)[i] = q[i + 1]
  OBVIOUS
<1>2. q[1] \in LegalOps(c)
  BY <1>1 DEF Legal, After
<1>3. ASSUME NEW i \in 0..(Len(q) - 1)
      PROVE  After(Tail(q), Head(q).post, i) = After(q, c, i + 1)
  BY <1>1, <1>3 DEF After
<1>4. ASSUME NEW i \in 1..Len(Tail(q))
      PROVE  Tail(q)[i] \in LegalOps(After(Tail(q), Head(q).post, i - 1))
  <2>1. i + 1 \in 1..Len(q) /\ i - 1 \in 0..(Len(q) - 1) /\ (i - 1) + 1 = i /\ (i + 1) - 1 = i
    BY <1>1
  <2>2. q[i + 1] \in LegalOps(After(q, c, (i + 1) - 1))
    BY <2>1 DEF Legal
  <2>3. After(Tail(q), Head(q).post, i - 1) = After(q, c, (i - 1) + 1)
    BY <1>3, <2>1
  <2>4. Tail(q)[i] = q[i + 1]
    BY <1>1, <2>1
  <2> QED BY <2>1, <2>2, <2>3, <2>4
<1>5. End(Tail(q), Head(q).post) = End(q, c)
  <2>1. Len(q) - 1 \in 0..(Len(q) - 1) /\ (Len(q) - 1) + 1 = Len(q)
    BY <1>1
  <2> QED BY <1>1, <1>3, <2>1 DEF End
<1>6. Head(q).post \in Contents
  BY <1>1, <1>2, LegalOp
<1> QED BY <1>1, <1>2, <1>4, <1>5, <1>6 DEF Legal

LEMMA LegalConcat ==
  ASSUME NEW p \in Seq(Op), NEW q \in Seq(Op), NEW c \in Contents,
         Legal(p, c), Legal(q, End(p, c))
  PROVE  Legal(p \o q, c) /\ End(p \o q, c) = End(q, End(p, c))
<1> DEFINE m == Len(p)
           n == Len(q)
           r == p \o q
<1>1. /\ m \in Nat /\ n \in Nat /\ r \in Seq(Op) /\ Len(r) = m + n
      /\ \A i \in 1..m : r[i] = p[i]
      /\ \A i \in 1..n : r[m + i] = q[i]
  OBVIOUS
<1> HIDE DEF r
<1>2. \A i \in 0..m : After(r, c, i) = After(p, c, i)
  BY <1>1 DEF After
<1>3. ASSUME NEW i \in 0..n PROVE After(r, c, m + i) = After(q, End(p, c), i)
  <2>1. CASE i = 0
    <3>1. m + i = m /\ m \in 0..m
      BY <1>1, <2>1
    <3>2. After(r, c, m) = After(p, c, m)
      BY <1>2, <3>1
    <3> QED BY <2>1, <3>1, <3>2 DEF End, After
  <2>2. CASE i # 0
    BY <1>1, <2>2 DEF After
  <2> QED BY <2>1, <2>2
<1>4. ASSUME NEW i \in 1..(m + n) PROVE r[i] \in LegalOps(After(r, c, i - 1))
  <2>1. CASE i <= m
    <3>1. i \in 1..m /\ i - 1 \in 0..m
      BY <1>1, <2>1
    <3> QED BY <1>1, <1>2, <3>1 DEF Legal
  <2>2. CASE i > m
    <3>1. i - m \in 1..n /\ (i - m) - 1 \in 0..n /\ m + (i - m) = i
          /\ m + ((i - m) - 1) = i - 1
      BY <1>1, <2>2
    <3>2. r[i] = q[i - m]
      BY <1>1, <3>1
    <3>3. After(r, c, i - 1) = After(q, End(p, c), (i - m) - 1)
      BY <1>3, <3>1
    <3>4. q[i - m] \in LegalOps(After(q, End(p, c), (i - m) - 1))
      BY <3>1 DEF Legal
    <3> QED BY <3>2, <3>3, <3>4
  <2> QED BY <1>1, <2>1, <2>2
<1>5. End(r, c) = End(q, End(p, c))
  <2>1. n \in 0..n
    BY <1>1
  <2> QED BY <1>1, <1>3, <2>1 DEF End
<1>6. Legal(r, c)
  BY <1>1, <1>4 DEF Legal
<1> QED BY <1>5, <1>6 DEF r

\* A row no write touches stays, and one no write deletes does not vanish.
LEMMA LegalRow ==
  ASSUME NEW q \in Seq(Op), NEW c \in Contents, Legal(q, c), NEW k \in Key
  PROVE  /\ (\A i \in 1..Len(q) : q[i].key # k) => End(q, c)[k] = c[k]
         /\ (\A i \in 1..Len(q) : q[i].kind # "delete") /\ c[k] # NoRow => End(q, c)[k] # NoRow
<1>0. Len(q) \in Nat
  OBVIOUS
<1>1. ASSUME NEW i \in 0..(Len(q) - 1)
      PROVE  /\ q[i + 1].key # k => After(q, c, i + 1)[k] = After(q, c, i)[k]
             /\ q[i + 1].kind # "delete" /\ After(q, c, i)[k] # NoRow => After(q, c, i + 1)[k] # NoRow
  <2> DEFINE d == After(q, c, i)
             op == q[i + 1]
  <2>1. i + 1 \in 1..Len(q) /\ i \in 0..Len(q) /\ (i + 1) - 1 = i
    BY <1>0
  <2>2. d \in Contents /\ op \in LegalOps(d) /\ After(q, c, i + 1) = op.post
    BY <2>1, AfterType DEF Legal, After
  <2> HIDE DEF d, op
  <2>3. /\ op.post = [d EXCEPT ![op.key] = op.post[op.key]]
        /\ op.post[op.key] = NoRow <=> op.kind = "delete"
    BY <2>2, LegalOp
  <2>4. op.post[k] = IF op.key = k THEN op.post[op.key] ELSE d[k]
    BY <2>2, <2>3 DEF Contents
  <2>5. /\ op.key # k => op.post[k] = d[k]
        /\ op.kind # "delete" /\ d[k] # NoRow => op.post[k] # NoRow
    BY <2>3, <2>4
  <2> QED BY <2>2, <2>5 DEF d, op
<1>2. ASSUME \A i \in 1..Len(q) : q[i].key # k
      PROVE  End(q, c)[k] = c[k]
  <2> DEFINE T == {i \in 0..Len(q) : After(q, c, i)[k] = c[k]}
  <2>1. 0 \in T
    BY <1>0 DEF After
  <2>2. ASSUME NEW i \in 0..(Len(q) - 1), i \in T PROVE i + 1 \in T
    <3>1. i + 1 \in 1..Len(q) /\ i + 1 \in 0..Len(q)
      BY <1>0
    <3>2. After(q, c, i + 1)[k] = After(q, c, i)[k]
      BY <1>1, <1>2, <3>1
    <3> QED BY <2>2, <3>1, <3>2
  <2> HIDE DEF T
  <2>3. \A i \in 0..Len(q) : i \in T
    BY <1>0, <2>1, <2>2, NatInduct
  <2> QED BY <1>0, <2>3 DEF T, End
<1>3. ASSUME \A i \in 1..Len(q) : q[i].kind # "delete", c[k] # NoRow
      PROVE  End(q, c)[k] # NoRow
  <2> DEFINE T == {i \in 0..Len(q) : After(q, c, i)[k] # NoRow}
  <2>1. 0 \in T
    BY <1>0, <1>3 DEF After
  <2>2. ASSUME NEW i \in 0..(Len(q) - 1), i \in T PROVE i + 1 \in T
    <3>1. i + 1 \in 1..Len(q) /\ i + 1 \in 0..Len(q)
      BY <1>0
    <3>2. After(q, c, i + 1)[k] # NoRow
      BY <1>1, <1>3, <2>2, <3>1
    <3> QED BY <3>1, <3>2
  <2> HIDE DEF T
  <2>3. \A i \in 0..Len(q) : i \in T
    BY <1>0, <2>1, <2>2, NatInduct
  <2> QED BY <1>0, <2>3 DEF T, End
<1> QED BY <1>2, <1>3

\* The writes of a block lead from the rows of its parent to its own.
LEMMA BlockIsLegal ==
  ASSUME NEW c \in Contents, NEW b \in BlocksOver(c)
  PROVE  /\ b.ops \in Seq(Op) /\ b.rows \in Contents
         /\ Legal(b.ops, c) /\ End(b.ops, c) = b.rows
<1>1. CASE b = [ops |-> <<>>, rows |-> c]
  BY <1>1, LegalNothing
<1>2. CASE \E o \in LegalOps(c) : b = [ops |-> <<o>>, rows |-> o.post]
  <2>1. PICK o \in LegalOps(c) : b = [ops |-> <<o>>, rows |-> o.post]
    BY <1>2
  <2>2. o \in Op /\ o.post \in Contents
    BY LegalOp
  <2>3. <<o>> \in Seq(Op) /\ Len(<<o>>) = 1 /\ <<o>>[1] = o
    BY <2>2
  <2>4. Legal(<<o>>, c) /\ End(<<o>>, c) = o.post
    BY <2>3 DEF Legal, End, After
  <2> QED BY <2>1, <2>2, <2>3, <2>4
<1>3. CASE \E o \in LegalOps(c) : \E p \in LegalOps(o.post) :
             b = [ops |-> <<o, p>>, rows |-> p.post]
  <2>1. PICK o \in LegalOps(c) : \E p \in LegalOps(o.post) :
               b = [ops |-> <<o, p>>, rows |-> p.post]
    BY <1>3
  <2>2. PICK p \in LegalOps(o.post) : b = [ops |-> <<o, p>>, rows |-> p.post]
    BY <2>1
  <2>3. o \in Op /\ o.post \in Contents /\ p \in Op /\ p.post \in Contents
    BY LegalOp
  <2>4. <<o, p>> \in Seq(Op) /\ Len(<<o, p>>) = 2 /\ <<o, p>>[1] = o /\ <<o, p>>[2] = p
    BY <2>3
  <2>5. Legal(<<o, p>>, c)
    <3> SUFFICES ASSUME NEW i \in 1..2
                 PROVE  <<o, p>>[i] \in LegalOps(After(<<o, p>>, c, i - 1))
      BY <2>4 DEF Legal
    <3>1. CASE i = 1
      BY <2>4, <3>1 DEF After
    <3>2. CASE i = 2
      BY <2>4, <3>2 DEF After
    <3> QED BY <3>1, <3>2
  <2>6. End(<<o, p>>, c) = p.post
    BY <2>4 DEF End, After
  <2> QED BY <2>2, <2>3, <2>4, <2>5, <2>6
<1> QED BY <1>1, <1>2, <1>3 DEF BlocksOver

-----------------------------------------------------------------------------
(* Buffers.                                                                 *)

LEMMA FlushedNothing ==
  ASSUME NEW rows \in Contents
  PROVE  /\ Flushed(rows, NoBuffers) = rows /\ ~FlushConflicts(rows, NoBuffers)
         /\ \A k \in Key : NoBuffers.upd[k] = NoRow /\ NoBuffers.ins[k].kind = "none"
<1>1. \A k \in Key : NoBuffers.upd[k] = NoRow /\ NoBuffers.ins[k].kind = "none"
  BY DEF NoBuffers, Empty
<1>2. \A k \in Key : Flushed(rows, NoBuffers)[k] = rows[k]
  BY <1>1 DEF Flushed
<1>3. Flushed(rows, NoBuffers) = rows
  BY <1>2 DEF Flushed, Contents
<1> QED BY <1>1, <1>3 DEF FlushConflicts

LEMMA FlushedInsert ==
  ASSUME NEW rows \in Contents, NEW b \in Buffers, NEW k \in Key, b.upd[k] = NoRow,
         NEW m \in {"insert", "upsert"}, NEW v \in Row
  PROVE  Flushed(rows, BufferInsert(b, m, k, v)) = [Flushed(rows, b) EXCEPT ![k] = v]
<1> DEFINE new == BufferInsert(b, m, k, v)
<1>1. /\ \A j \in Key : new.upd[j] = b.upd[j]
      /\ \A j \in Key : new.ins[j] = IF j = k THEN [kind |-> m, val |-> v] ELSE b.ins[j]
  BY DEF BufferInsert, Buffers
<1> HIDE DEF new
<1>2. \A j \in Key : Flushed(rows, new)[j] = IF j = k THEN v ELSE Flushed(rows, b)[j]
  BY <1>1 DEF Flushed
<1>3. Flushed(rows, new) = [Flushed(rows, b) EXCEPT ![k] = v]
  BY <1>2 DEF Flushed
<1> QED BY <1>3 DEF new

LEMMA FlushedUpdate ==
  ASSUME NEW rows \in Contents, NEW b \in Buffers, NEW k \in Key, NEW v \in Val
  PROVE  Flushed(rows, BufferUpdate(b, k, v)) =
           IF Flushed(rows, b)[k] = NoRow THEN Flushed(rows, b)
                                          ELSE [Flushed(rows, b) EXCEPT ![k] = v]
<1> DEFINE new == BufferUpdate(b, k, v)
<1>1. /\ \A j \in Key : new.upd[j] = IF j = k THEN v ELSE b.upd[j]
      /\ new.ins = b.ins
  BY DEF BufferUpdate, Buffers
<1> HIDE DEF new
<1>2. v # NoRow
  BY TablesAssumption
<1>3. \A j \in Key : Flushed(rows, new)[j] =
        IF j = k /\ Flushed(rows, b)[j] # NoRow THEN v ELSE Flushed(rows, b)[j]
  BY <1>1, <1>2 DEF Flushed
<1>4. CASE Flushed(rows, b)[k] = NoRow
  <2>1. Flushed(rows, new) = Flushed(rows, b)
    BY <1>3, <1>4 DEF Flushed
  <2> QED BY <1>4, <2>1 DEF new
<1>5. CASE Flushed(rows, b)[k] # NoRow
  <2>1. Flushed(rows, new) = [Flushed(rows, b) EXCEPT ![k] = v]
    BY <1>3, <1>5 DEF Flushed
  <2> QED BY <1>5, <2>1 DEF new
<1> QED BY <1>4, <1>5

-----------------------------------------------------------------------------
(* The operators of ContractTables.                                         *)

\* Start of a chain, or the tables after one of its blocks.
LEMMA StateAfterType ==
  ASSUME NEW c \in Seq(Block), NEW n \in 0..Len(c)
  PROVE  StateAfter(c, n) \in Contents
<1>1. CASE n = 0
  BY <1>1 DEF StateAfter, Contents, Empty, Row
<1>2. CASE n # 0
  <2>1. c[n] \in Block
    BY <1>2
  <2> QED BY <1>2, <2>1 DEF StateAfter, Block
<1> QED BY <1>1, <1>2

LEMMA LegalOpsType ==
  ASSUME NEW c \in Contents
  PROVE  LegalOps(c) \subseteq Op
  BY TablesAssumption DEF LegalOps, Op, Contents, Row

\* Blocks as a handler makes them, at most two writes long.
LEMMA BlocksOverType ==
  ASSUME NEW c \in Contents
  PROVE  BlocksOver(c) \subseteq Block
<1> SUFFICES ASSUME NEW b \in BlocksOver(c) PROVE b \in Block
  OBVIOUS
<1>1. ASSUME NEW o \in LegalOps(c) PROVE o \in Op /\ o.post \in Contents
  BY LegalOpsType DEF Op
<1>2. CASE b = [ops |-> <<>>, rows |-> c]
  BY <1>2 DEF Block
<1>3. CASE \E o \in LegalOps(c) : b = [ops |-> <<o>>, rows |-> o.post]
  BY <1>1, <1>3 DEF Block
<1>4. CASE \E o \in LegalOps(c) : \E p \in LegalOps(o.post) :
             b = [ops |-> <<o, p>>, rows |-> p.post]
  <2>1. PICK o \in LegalOps(c) : \E p \in LegalOps(o.post) :
               b = [ops |-> <<o, p>>, rows |-> p.post]
    BY <1>4
  <2>2. PICK p \in LegalOps(o.post) : b = [ops |-> <<o, p>>, rows |-> p.post]
    BY <2>1
  <2>3. o \in Op /\ p \in Op /\ p.post \in Contents
    BY <1>1, LegalOpsType DEF Op
  <2> QED BY <2>2, <2>3 DEF Block
<1> QED BY <1>2, <1>3, <1>4 DEF BlocksOver

LEMMA AppliedType ==
  ASSUME NEW op \in Op, NEW rows \in Contents
  PROVE  Applied(op, rows) \in Contents
  BY DEF Applied, Op, Contents

LEMMA UndoneType ==
  ASSUME NEW e \in Entry, NEW rows \in Contents
  PROVE  Undone(e, rows) \in Contents
  BY DEF Undone, Entry, Contents, Row

\* The undo log stays a finite set of entries.
Log == {log \in SUBSET Entry : IsFiniteSet(log)}

LEMMA LogShrinks ==
  ASSUME NEW log \in Log, NEW S \in SUBSET log
  PROVE  S \in Log
  BY FS_Subset DEF Log

LEMMA LogGrows ==
  ASSUME NEW log \in Log, NEW e \in Entry
  PROVE  log \cup {e} \in Log
  BY FS_AddElement DEF Log

LEMMA FreshIdType ==
  ASSUME NEW log \in Log, NEW block \in Nat
  PROVE  FreshId(log, block) \in Nat \ {0}
<1>1. IsFiniteSet({e \in log : e.block = block})
  BY FS_Subset DEF Log
<1> QED BY <1>1, FS_CardinalityType DEF FreshId

LEMMA LoggedType ==
  ASSUME NEW log \in Log, NEW op \in Op, NEW rows \in Contents, NEW block \in Nat \ {0}
  PROVE  Logged(log, op, rows, block) \in Log
<1> DEFINE e == [id |-> FreshId(log, block), block |-> block, key |-> op.key,
                 kind |-> UndoKind(op, rows[op.key]), old |-> rows[op.key]]
<1>1. e \in Entry
  BY FreshIdType DEF Entry, Op, Contents, UndoKind
<1> QED BY <1>1, LogGrows DEF Logged

LEMMA RecordLoggedType ==
  ASSUME NEW log \in Log, NEW block \in Nat \ {0}
  PROVE  RecordLogged(log, block) \in Log
<1> DEFINE e == [id |-> FreshId(log, block), block |-> block, key |-> BlockRecord,
                 kind |-> "delete", old |-> NoRow]
<1>1. e \in Entry
  BY FreshIdType DEF Entry, Row
<1> QED BY <1>1, LogGrows DEF RecordLogged

LEMMA BufferTypes ==
  ASSUME NEW b \in Buffers, NEW k, NEW v \in Row, NEW m \in {"insert", "upsert"}
  PROVE  /\ NoBuffers \in Buffers
         /\ BufferInsert(b, m, k, v) \in Buffers
         /\ BufferUpdate(b, k, v) \in Buffers
<1>1. NoBuffers \in Buffers
  BY DEF NoBuffers, Buffers, Empty, Row
<1>2. BufferInsert(b, m, k, v) \in Buffers
  BY DEF BufferInsert, Buffers
<1>3. BufferUpdate(b, k, v) \in Buffers
  BY DEF BufferUpdate, Buffers
<1> QED BY <1>1, <1>2, <1>3

LEMMA FlushedType ==
  ASSUME NEW rows \in Contents, NEW b \in Buffers
  PROVE  Flushed(rows, b) \in Contents
  BY DEF Flushed, Buffers, Contents

-----------------------------------------------------------------------------
(* Type correctness.                                                        *)

ResponseType == [branch: Seq(Block), lib: Nat, until: Nat]

\* The type invariant is inductive once the undo logs are known to be finite,
\* a group to be still open while process() is not executing it, and the block
\* being worked on, currentBlock and the positions to be in order.
TypeInv ==
  /\ TypeOK
  /\ pg.log \in Log /\ tx.log \in Log
  /\ pc \in {"idle", "undo"} => collected < DbGroupBlocks
  /\ pg.position <= Len(pg.idx)
  /\ pc \in {"idle", "undo", "execute"} =>
       tx.position <= current /\ current <= Len(tx.idx)
  /\ pc \in {"undo", "execute"} => Num \in Nat \ {0}
  /\ pc = "undo" => Num <= current
  /\ pc = "execute" => Num = current

LEMMA NothingKept ==
  ASSUME TypeInv, NEW t \in Tables, t.log \in Log, Forget(t)
  PROVE  /\ tx' \in Tables /\ tx'.log \in Log /\ buf' \in Buffers /\ begun' \in BOOLEAN
         /\ mode' = "CATCHUP" /\ collected' = 0 /\ queue' \in Seq(Op)
         /\ blk' \in ResponseType /\ undone' = 0
<1>1. NoBuffers \in Buffers
  BY DEF NoBuffers, Buffers, Empty, Row
<1>2. NoBlk \in ResponseType /\ <<>> \in Seq(Op)
  BY DEF NoBlk, ResponseType
<1> QED BY <1>1, <1>2 DEF Forget

LEMMA DieType == TypeInv /\ Die => TypeInv'
<1> SUFFICES ASSUME TypeInv, Die PROVE TypeInv'
  OBVIOUS
<1>1. pg \in Tables /\ pg.log \in Log
  BY DEF TypeInv, TypeOK
<1>2. Forget(pg) /\ pc' = "dead" /\ UNCHANGED <<chain, lib, forks, pg, crashes>>
  BY DEF Die, Stopped, chainVars
<1>3. current' = 0 /\ floor' = 0 /\ lastUpdate' = 0 /\ next' = 1
  BY DEF Die, Stopped
<1>4. /\ tx' \in Tables /\ tx'.log \in Log /\ buf' \in Buffers /\ begun' \in BOOLEAN
      /\ mode' = "CATCHUP" /\ collected' = 0 /\ queue' \in Seq(Op)
      /\ blk' \in ResponseType /\ undone' = 0
  BY <1>1, <1>2, NothingKept
<1> QED BY <1>1, <1>2, <1>3, <1>4, ReceiverAssumption
        DEF TypeInv, TypeOK, ResponseType

\* What Collect makes of a response and of the tables as the fork, if there
\* was one, left them.
LEMMA CollectType ==
  ASSUME TypeInv, collected < DbGroupBlocks,
         NEW r \in ResponseType, Len(r.branch) \in Nat \ {0},
         NEW t \in Tables, t.log \in Log,
         Len(r.branch) <= Len(t.idx) + 1, t.position <= Len(r.branch),
         NEW s \in 1..DbGroupBlocks, Collect(r, t, s)
  PROVE  /\ tx' \in Tables /\ tx'.log \in Log /\ queue' \in Seq(Op)
         /\ mode' \in {"CATCHUP", "HEAD"}
         /\ current' = Len(r.branch) /\ current' \in Nat
         /\ floor' \in Nat /\ r.lib <= floor' /\ floor <= floor'
         /\ collected' \in 0..DbGroupBlocks
         /\ pc' \in {"idle", "execute"}
         /\ pc' = "idle" => collected' < DbGroupBlocks
         /\ pc' = "execute" => blk' = r
         /\ blk' \in ResponseType
         /\ tx'.position = t.position /\ current' <= Len(tx'.idx)
<1> DEFINE n == Len(r.branch)
           block == r.branch[n]
           rev == n > r.lib
           idx == IF n <= Len(t.idx) /\ t.idx[n] = block THEN t.idx
                  ELSE Append(SubSeq(t.idx, 1, n - 1), block)
           blocks == {b \in t.blocks \cup (IF rev THEN {[num |-> n, id |-> r.branch]} ELSE {})
                         : b.num > PrunedUpTo(r)}
           log == {e \in (IF rev THEN RecordLogged(t.log, n) ELSE t.log)
                      : e.block > PrunedUpTo(r)}
<1>1. n \in Nat \ {0} /\ r.branch \in Seq(Block) /\ block \in Block
  BY DEF ResponseType
<1>2. idx \in Seq(Block) /\ n <= Len(idx)
  <2>1. t.idx \in Seq(Block)
    BY DEF Tables
  <2>2. n - 1 \in 0..Len(t.idx)
    BY <1>1, <2>1
  <2>3. /\ SubSeq(t.idx, 1, n - 1) \in Seq(Block)
        /\ Len(SubSeq(t.idx, 1, n - 1)) = n - 1
    BY <1>1, <2>1, <2>2
  <2> QED BY <1>1, <2>1, <2>3
<1>3. blocks \in SUBSET [num: Nat \ {0}, id: Seq(Block)]
  BY <1>1 DEF Tables
<1>4. log \in Log
  BY <1>1, RecordLoggedType, LogShrinks
<1>5. tx' = [t EXCEPT !.idx = idx, !.blocks = blocks, !.log = log]
  BY DEF Collect
<1>6. tx' \in Tables /\ tx'.log = log /\ tx'.position = t.position /\ tx'.idx = idx
  <2>1. log \in SUBSET Entry
    BY <1>4 DEF Log
  <2> HIDE DEF idx, blocks, log
  <2> QED BY <1>2, <1>3, <1>5, <2>1 DEF Tables
<1>7. queue' \in Seq(Op)
  <2>1. block.ops \in Seq(Op) /\ queue \in Seq(Op)
    BY <1>1 DEF Block, TypeInv, TypeOK
  <2> QED BY <2>1 DEF Collect
<1>8. mode' \in {"CATCHUP", "HEAD"} /\ current' = n
  BY DEF Collect, TypeInv, TypeOK
<1>9. floor' \in Nat /\ r.lib <= floor' /\ floor <= floor'
  <2>1. floor' = High(floor, r.lib)
    BY DEF Collect
  <2>2. floor \in Nat /\ r.lib \in Nat
    BY DEF TypeInv, TypeOK, ResponseType
  <2> QED BY <2>1, <2>2 DEF High
<1>10. /\ collected' \in 0..DbGroupBlocks /\ pc' \in {"idle", "execute"}
       /\ pc' = "idle" => collected' < DbGroupBlocks
  <2>1. /\ collected' = collected + 1
        /\ pc' = IF collected + 1 >= s THEN "execute" ELSE "idle"
    BY DEF Collect
  <2> QED BY <2>1, ReceiverAssumption DEF TypeInv, TypeOK
<1>11. (pc' = "execute" => blk' = r) /\ blk' \in ResponseType
  BY DEF Collect, NoBlk, ResponseType
<1> QED BY <1>1, <1>2, <1>4, <1>6, <1>7, <1>8, <1>9, <1>10, <1>11

LEMMA TypeInit == Init => TypeInv
<1> SUFFICES ASSUME Init PROVE TypeInv
  OBVIOUS
<1>1. Empty \in Contents /\ NoBuffers \in Buffers /\ NoBlk \in ResponseType
  BY DEF Empty, Contents, Row, NoBuffers, Buffers, NoBlk, ResponseType
<1>2. {} \in Log /\ <<>> \in Seq(Op) /\ <<>> \in Seq(Block) /\ Len(<<>>) = 0
  BY FS_EmptySet DEF Log
<1>3. pg \in Tables /\ pg.log = {} /\ pg.position = 0 /\ pg.idx = <<>> /\ tx = pg
  BY <1>1, <1>2 DEF Init, Tables
<1>4. TypeOK
  <2>1. /\ chain = <<>> /\ lib = 0 /\ forks = 0 /\ buf = NoBuffers /\ begun = FALSE
        /\ pc = "down" /\ mode = "CATCHUP" /\ current = 0 /\ floor = 0 /\ collected = 0
        /\ lastUpdate = 0 /\ queue = <<>> /\ blk = NoBlk /\ next = 1 /\ undone = 0
        /\ crashes = 0
    BY DEF Init
  <2>2. chain \in Seq(Block) /\ lib \in 0..Len(chain) /\ queue \in Seq(Op)
    BY <1>2, <2>1
  <2>3. 0 \in 0..DbGroupBlocks /\ 0 \in 0..RollbackChunk
    BY ReceiverAssumption
  <2>4. chain \in Seq(Block) /\ lib \in 0..Len(chain) /\ forks \in Nat
    BY <2>1, <2>2
  <2>5. pg \in Tables /\ tx \in Tables /\ buf \in Buffers /\ begun \in BOOLEAN
    BY <1>1, <1>3, <2>1
  <2>6. blk \in [branch: Seq(Block), lib: Nat, until: Nat]
    BY <1>1, <2>1 DEF ResponseType
  <2>7. /\ {current, floor, lastUpdate, crashes} \subseteq Nat /\ next \in Nat \ {0}
        /\ collected \in 0..DbGroupBlocks /\ undone \in 0..RollbackChunk
    BY <2>1, <2>3
  <2> QED BY <2>1, <2>2, <2>4, <2>5, <2>6, <2>7 DEF TypeOK
<1>5. pc = "down"
  BY DEF Init
<1>6. pg.log \in Log /\ tx.log \in Log
  BY <1>2, <1>3
<1>7. pg.position <= Len(pg.idx)
  BY <1>2, <1>3
<1> QED BY <1>4, <1>5, <1>6, <1>7 DEF TypeInv

\* What SHIP may answer.
LEMMA ResponsesType ==
  ASSUME TypeInv, Receiving, NEW r \in Responses
  PROVE  r \in ResponseType /\ Len(r.branch) = next /\ r.lib <= lib
<1>1. chain \in Seq(Block) /\ lib \in 0..Len(chain) /\ next \in Nat \ {0}
  BY DEF TypeInv, TypeOK
<1>2. next <= Served /\ Served \in 0..Len(chain)
  BY <1>1 DEF Receiving, Served
<1>3. SubSeq(chain, 1, next) \in Seq(Block) /\ Len(SubSeq(chain, 1, next)) = next
  BY <1>1, <1>2
<1>4. PICK l \in 0..lib : r = [branch |-> SubSeq(chain, 1, next), lib |-> l,
                               until |-> Served - next]
  BY <1>1 DEF Responses
<1> QED BY <1>1, <1>2, <1>3, <1>4 DEF ResponseType

LEMMA ExtendType == TypeInv /\ Extend => TypeInv'
<1> SUFFICES ASSUME TypeInv, Extend PROVE TypeInv'
  OBVIOUS
<1>1. chain \in Seq(Block) /\ lib \in 0..Len(chain)
  BY DEF TypeInv, TypeOK
<1>2. PICK b \in BlocksOver(StateAfter(chain, Len(chain))) : chain' = Append(chain, b)
  BY DEF Extend
<1>3. b \in Block
  BY <1>1, StateAfterType, BlocksOverType
<1>4. chain' \in Seq(Block) /\ lib' \in 0..Len(chain')
  BY <1>1, <1>2, <1>3 DEF Extend
<1> QED BY <1>4 DEF TypeInv, TypeOK, Extend, txVars, memVars, Num, ResponseType

LEMMA AdvanceLibType == TypeInv /\ AdvanceLib => TypeInv'
  BY DEF TypeInv, TypeOK, AdvanceLib, txVars, memVars, Num

LEMMA ForkType == TypeInv /\ Fork => TypeInv'
<1> SUFFICES ASSUME TypeInv, Fork PROVE TypeInv'
  OBVIOUS
<1>1. chain \in Seq(Block) /\ lib \in 0..Len(chain) /\ next \in Nat \ {0}
  BY DEF TypeInv, TypeOK
<1>2. PICK f \in (lib + 1)..Len(chain) :
           /\ next' = Low(next, f)
           /\ \E b \in BlocksOver(StateAfter(chain, f - 1)) :
                 chain' = Append(SubSeq(chain, 1, f - 1), b)
  BY DEF Fork
<1>3. PICK b \in BlocksOver(StateAfter(chain, f - 1)) :
           chain' = Append(SubSeq(chain, 1, f - 1), b)
  BY <1>2
<1>4. f - 1 \in lib..(Len(chain) - 1) /\ f \in Nat \ {0}
  BY <1>1
<1>5. b \in Block
  BY <1>1, <1>4, StateAfterType, BlocksOverType
<1>6. SubSeq(chain, 1, f - 1) \in Seq(Block) /\ Len(SubSeq(chain, 1, f - 1)) = f - 1
  BY <1>1, <1>4
<1>7. chain' \in Seq(Block) /\ lib' \in 0..Len(chain')
  BY <1>1, <1>3, <1>4, <1>5, <1>6 DEF Fork
<1>8. next' \in Nat \ {0}
  BY <1>1, <1>2, <1>4 DEF Low
<1> QED BY <1>7, <1>8 DEF TypeInv, TypeOK, Fork, txVars, memVars, Num

LEMMA StartType == TypeInv /\ Start => TypeInv'
<1> SUFFICES ASSUME TypeInv, Start PROVE TypeInv'
  OBVIOUS
<1>1. pg \in Tables /\ pg.log \in Log /\ pg.position \in Nat /\ pg.position <= Len(pg.idx)
  BY DEF TypeInv, TypeOK, Tables
<1>2. pg' = [pg EXCEPT !.log = {e \in @ : e.block >= ArmedFloor},
                      !.blocks = {b \in @ : b.num >= ArmedFloor}]
  BY DEF Start
<1>3. {e \in pg.log : e.block >= ArmedFloor} \in Log
  BY <1>1, LogShrinks
<1>4. /\ pg' \in Tables /\ pg'.log \in Log
      /\ pg'.position = pg.position /\ pg'.idx = pg.idx
  BY <1>1, <1>2, <1>3 DEF Tables
<1>5. ArmedFloor \in Nat
  BY <1>1, ReceiverAssumption DEF ArmedFloor, High
<1>6. next' \in Nat \ {0}
  <2>1. next' \in 1..(pg.position + 2) \/ next' \in FirstServed(pg'.blocks, StartBlock)
    BY DEF Start
  <2>2. FirstServed(pg'.blocks, StartBlock) \subseteq Nat \ {0}
    BY <1>1, <1>4 DEF FirstServed, StartBlock, Tables
  <2> QED BY <1>1, <2>1, <2>2
<1>7. /\ tx' = pg' /\ buf' \in Buffers /\ begun' = FALSE /\ undone' = 0 /\ collected' = 0
      /\ queue' \in Seq(Op) /\ blk' \in ResponseType /\ mode' = "CATCHUP"
  <2>1. NoBuffers \in Buffers /\ NoBlk \in ResponseType /\ <<>> \in Seq(Op)
    BY DEF NoBuffers, Buffers, Empty, Row, NoBlk, ResponseType
  <2> QED BY <2>1 DEF Start, Forget
<1>8. /\ pc' = "idle" /\ current' = pg.position /\ lastUpdate' = pg.position
      /\ floor' = ArmedFloor /\ UNCHANGED <<chain, lib, forks, crashes>>
  BY DEF Start, chainVars
<1>9. 0 \in 0..DbGroupBlocks /\ 0 \in 0..RollbackChunk /\ 0 < DbGroupBlocks
  BY ReceiverAssumption
<1>10. TypeOK'
  BY <1>1, <1>4, <1>5, <1>6, <1>7, <1>8, <1>9 DEF TypeInv, TypeOK, ResponseType
<1> QED BY <1>1, <1>4, <1>7, <1>8, <1>9, <1>10 DEF TypeInv

LEMMA CrashType == TypeInv /\ Crash => TypeInv'
<1> SUFFICES ASSUME TypeInv, Crash PROVE TypeInv'
  OBVIOUS
<1>1. pg \in Tables /\ pg.log \in Log
  BY DEF TypeInv, TypeOK
<1>2. Forget(pg) /\ pc' = "down" /\ crashes' = crashes + 1
      /\ UNCHANGED <<chain, lib, forks, pg>>
  BY DEF Crash, Stopped, chainVars
<1>3. current' = 0 /\ floor' = 0 /\ lastUpdate' = 0 /\ next' = 1
  BY DEF Crash, Stopped
<1>4. /\ tx' \in Tables /\ tx'.log \in Log /\ buf' \in Buffers /\ begun' \in BOOLEAN
      /\ mode' = "CATCHUP" /\ collected' = 0 /\ queue' \in Seq(Op)
      /\ blk' \in ResponseType /\ undone' = 0
  BY <1>1, <1>2, NothingKept
<1> QED BY <1>1, <1>2, <1>3, <1>4, ReceiverAssumption DEF TypeInv, TypeOK, ResponseType

LEMMA WatchdogExitType == TypeInv /\ WatchdogExit => TypeInv'
  BY DEF TypeInv, TypeOK, WatchdogExit, chainVars, txVars, memVars, Num

LEMMA NextBlockType == TypeInv /\ NextBlock => TypeInv'
<1> SUFFICES ASSUME TypeInv, NextBlock PROVE TypeInv'
  OBVIOUS
<1>1. PICK r \in Responses :
        /\ Collect(r, tx, IF NearHead(r) THEN 1 ELSE DbGroupBlocks)
        /\ begun' = (next > r.lib)
  BY DEF NextBlock
<1>2. /\ pc = "idle" /\ Receiving /\ next = current + 1 /\ next' = next + 1
      /\ UNCHANGED <<chain, lib, forks, pg, buf, lastUpdate, undone, crashes>>
  BY DEF NextBlock, Receiving, chainVars
<1>3. r \in ResponseType /\ Len(r.branch) = next
  BY <1>2, ResponsesType
<1>4. /\ tx \in Tables /\ tx.log \in Log /\ next \in Nat \ {0} /\ current \in Nat
      /\ tx.position <= current /\ current <= Len(tx.idx)
      /\ tx.position \in Nat /\ Len(tx.idx) \in Nat
  BY SMTT(30), <1>2 DEF TypeInv, TypeOK, Tables
<1>5. /\ collected < DbGroupBlocks
      /\ (IF NearHead(r) THEN 1 ELSE DbGroupBlocks) \in 1..DbGroupBlocks
  BY <1>2, ReceiverAssumption DEF TypeInv
<1>6. /\ tx' \in Tables /\ tx'.log \in Log /\ queue' \in Seq(Op)
      /\ mode' \in {"CATCHUP", "HEAD"}
      /\ current' = next /\ floor' \in Nat
      /\ collected' \in 0..DbGroupBlocks
      /\ pc' \in {"idle", "execute"}
      /\ pc' = "idle" => collected' < DbGroupBlocks
      /\ pc' = "execute" => blk' = r
      /\ blk' \in ResponseType
      /\ tx'.position = tx.position /\ current' <= Len(tx'.idx)
  BY <1>1, <1>2, <1>3, <1>4, <1>5, CollectType
<1>7. TypeOK'
  BY SMTT(30), <1>1, <1>2, <1>4, <1>6 DEF TypeInv, TypeOK, ResponseType
<1> QED BY <1>2, <1>3, <1>4, <1>6, <1>7 DEF TypeInv, Num

LEMMA DetectForkType == TypeInv /\ DetectFork => TypeInv'
<1> SUFFICES ASSUME TypeInv, DetectFork PROVE TypeInv'
  OBVIOUS
<1>1. /\ pc = "idle" /\ Receiving /\ next <= current /\ blk' \in Responses
      /\ pc' = "undo" /\ undone' = 0 /\ begun' = TRUE /\ next' = next + 1
      /\ UNCHANGED <<chain, lib, forks, pg, tx, buf, mode, current, floor, collected,
                     lastUpdate, queue, crashes>>
  BY DEF DetectFork, Receiving, chainVars, memVars
<1>2. blk' \in ResponseType /\ Len(blk'.branch) = next
  BY <1>1, ResponsesType
<1>3. next \in Nat \ {0}
  BY DEF TypeInv, TypeOK
<1>4. TypeOK'
  BY <1>1, <1>2, <1>3, ReceiverAssumption DEF TypeInv, TypeOK, ResponseType
<1> QED BY <1>1, <1>2, <1>3, <1>4 DEF TypeInv, Num

LEMMA UndoOneType == TypeInv /\ UndoOne => TypeInv'
<1> SUFFICES ASSUME TypeInv, UndoOne PROVE TypeInv'
  OBVIOUS
<1>1. PICK e \in From(tx.log, Num) :
        IF UndoFails(e) THEN Die
        ELSE /\ IF Reversible THEN UndoDirect(e) ELSE UndoBuffered(e)
             /\ undone' = undone + 1
             /\ UNCHANGED <<chainVars, pg, begun, pc, memVars, blk, next, crashes>>
  BY DEF UndoOne
<1>2. CASE UndoFails(e)
  BY <1>1, <1>2, DieType
<1>3. CASE ~UndoFails(e)
  <2>1. e \in Entry /\ tx \in Tables /\ tx.log \in Log /\ buf \in Buffers
        /\ tx.rows \in Contents /\ e.old \in Row
    BY DEF From, TypeInv, TypeOK, Tables, Entry
  <2>2. tx.log \ {e} \in Log /\ tx.log \ {e} \in SUBSET Entry
    BY <2>1, LogShrinks DEF Log
  <2>3. ASSUME NEW t \in Tables, t.log = tx.log
        PROVE  /\ AfterUndo(t, e) \in Tables /\ AfterUndo(t, e).log = tx.log \ {e}
               /\ AfterUndo(t, e).position = t.position /\ AfterUndo(t, e).idx = t.idx
    <3>1. Undone(e, t.rows) \in Contents
      BY <2>1, <2>3, UndoneType DEF Tables
    <3> QED BY <2>2, <2>3, <3>1 DEF AfterUndo, Tables
  <2>4. /\ tx' \in Tables /\ tx'.log = tx.log \ {e} /\ buf' \in Buffers
        /\ tx'.position = tx.position /\ tx'.idx = tx.idx
    <3>1. CASE Reversible
      BY <1>1, <1>3, <2>1, <2>3, <3>1 DEF UndoDirect
    <3>2. CASE ~Reversible /\ e.kind = "insert"
      <4>1. buf' \in Buffers
        BY <1>1, <1>3, <2>1, <3>2, BufferTypes DEF UndoBuffered
      <4>2. tx' = [tx EXCEPT !.log = tx.log \ {e}]
        BY <1>1, <1>3, <3>2 DEF UndoBuffered
      <4> QED BY <2>1, <2>2, <4>1, <4>2 DEF Tables
    <3>3. CASE ~Reversible /\ e.kind # "insert"
      <4> DEFINE t == [tx EXCEPT !.rows = Flushed(tx.rows, buf)]
      <4>1. buf' = NoBuffers /\ tx' = AfterUndo(t, e)
        BY <1>1, <1>3, <3>3 DEF UndoBuffered
      <4>2. t \in Tables /\ t.log = tx.log /\ t.position = tx.position /\ t.idx = tx.idx
        BY <2>1, FlushedType DEF Tables
      <4>3. NoBuffers \in Buffers
        BY DEF NoBuffers, Buffers, Empty, Row
      <4> HIDE DEF t
      <4> QED BY <2>3, <4>1, <4>2, <4>3
    <3> QED BY <3>1, <3>2, <3>3
  <2>5. /\ pc = "undo" /\ undone' = undone + 1 /\ undone < RollbackChunk
        /\ UNCHANGED <<chain, lib, forks, pg, begun, pc, mode, current, floor, collected,
                       lastUpdate, queue, blk, next, crashes>>
    BY <1>1, <1>3, ReceiverAssumption DEF UndoOne, ChunkFull, chainVars, memVars, TypeInv, TypeOK
  <2>6. undone' \in 0..RollbackChunk
    BY <2>5, ReceiverAssumption DEF TypeInv, TypeOK
  <2>7. TypeOK'
    BY <2>4, <2>5, <2>6 DEF TypeInv, TypeOK
  <2> QED BY <2>2, <2>4, <2>5, <2>7 DEF TypeInv, Num
<1> QED BY <1>2, <1>3

LEMMA CommitChunkType == TypeInv /\ CommitChunk => TypeInv'
<1> SUFFICES ASSUME TypeInv, CommitChunk PROVE TypeInv'
  OBVIOUS
<1>1. /\ pc = "undo" /\ pg' = [tx EXCEPT !.rewinding = Num] /\ tx' = pg' /\ undone' = 0
      /\ UNCHANGED <<chain, lib, forks, buf, begun, pc, mode, current, floor, collected,
                     lastUpdate, queue, blk, next, crashes>>
  BY DEF CommitChunk, chainVars, memVars
<1>2. tx \in Tables /\ tx.log \in Log /\ Num \in Nat
  BY <1>1 DEF TypeInv, TypeOK
<1>3. /\ pg' \in Tables /\ pg'.log = tx.log /\ pg'.position = tx.position
      /\ pg'.idx = tx.idx
  BY <1>1, <1>2 DEF Tables
<1>4. /\ pg'.position <= Len(pg'.idx) /\ tx.position <= current /\ current <= Len(tx.idx)
  <2>1. current \in Nat /\ tx.position \in Nat /\ Len(tx.idx) \in Nat
    BY <1>2 DEF TypeInv, TypeOK, Tables
  <2> QED BY <1>1, <1>3, <2>1 DEF TypeInv
<1>5. TypeOK'
  BY <1>1, <1>3, ReceiverAssumption DEF TypeInv, TypeOK
<1> QED BY <1>1, <1>2, <1>3, <1>4, <1>5 DEF TypeInv, Num

LEMMA FinishRollbackType == TypeInv /\ FinishRollback => TypeInv'
<1> SUFFICES ASSUME TypeInv, FinishRollback PROVE TypeInv'
  OBVIOUS
<1> DEFINE t == [tx EXCEPT !.blocks = {b \in @ : b.num < Num},
                          !.position = Num - 1,
                          !.idx = SubSeq(@, 1, Num - 1)]
<1>1. /\ pc = "undo" /\ Collect(blk, t, 1)
      /\ UNCHANGED <<chain, lib, forks, pg, buf, begun, lastUpdate, next, undone, crashes>>
  BY DEF FinishRollback, chainVars
<1>2. /\ tx \in Tables /\ tx.log \in Log /\ Num \in Nat \ {0} /\ blk \in ResponseType
      /\ current \in Nat /\ Num <= current /\ current <= Len(tx.idx)
      /\ collected < DbGroupBlocks /\ tx.idx \in Seq(Block)
  BY <1>1 DEF TypeInv, TypeOK, Tables, ResponseType
<1>3. SubSeq(tx.idx, 1, Num - 1) \in Seq(Block) /\ Len(SubSeq(tx.idx, 1, Num - 1)) = Num - 1
  <2>1. Num - 1 \in 0..Len(tx.idx)
    BY <1>2
  <2> QED BY <1>2, <2>1
<1>4. /\ t \in Tables /\ t.log = tx.log /\ t.position = Num - 1
      /\ t.idx = SubSeq(tx.idx, 1, Num - 1)
  <2>1. {b \in tx.blocks : b.num < Num} \in SUBSET [num: Nat \ {0}, id: Seq(Block)]
    BY <1>2 DEF Tables
  <2>2. Num - 1 \in Nat
    BY <1>2
  <2> QED BY <1>2, <1>3, <2>1, <2>2 DEF Tables
<1>5. /\ tx' \in Tables /\ tx'.log \in Log /\ queue' \in Seq(Op)
      /\ mode' \in {"CATCHUP", "HEAD"}
      /\ current' = Num /\ floor' \in Nat
      /\ collected' \in 0..DbGroupBlocks
      /\ pc' \in {"idle", "execute"}
      /\ pc' = "idle" => collected' < DbGroupBlocks
      /\ pc' = "execute" => blk' = blk
      /\ blk' \in ResponseType
      /\ tx'.position = Num - 1 /\ current' <= Len(tx'.idx)
  <2> HIDE DEF t
  <2>1. Len(blk.branch) = Num /\ 1 \in 1..DbGroupBlocks
    BY ReceiverAssumption DEF Num
  <2>2. Num <= Len(t.idx) + 1 /\ t.position <= Num
    BY <1>2, <1>3, <1>4
  <2> QED BY <1>1, <1>2, <1>4, <2>1, <2>2, CollectType
<1>6. TypeOK'
  BY <1>1, <1>2, <1>5 DEF TypeInv, TypeOK, ResponseType
<1> QED BY <1>1, <1>2, <1>5, <1>6 DEF TypeInv, Num

LEMMA ExecuteDirectType == TypeInv /\ ExecuteDirect => TypeInv'
<1> SUFFICES ASSUME TypeInv, ExecuteDirect PROVE TypeInv'
  OBVIOUS
<1> DEFINE op == Head(queue)
<1>1. CASE Conflicts(op, tx.rows)
  BY <1>1, DieType DEF ExecuteDirect
<1>2. CASE ~Conflicts(op, tx.rows)
  <2>1. /\ pc = "execute" /\ queue # <<>>
        /\ tx' = [tx EXCEPT !.rows = Applied(op, tx.rows),
                            !.log = Logged(tx.log, op, tx.rows, Num)]
        /\ queue' = Tail(queue)
        /\ UNCHANGED <<chain, lib, forks, pg, buf, begun, pc, mode, current, floor,
                       collected, lastUpdate, blk, next, undone, crashes>>
    BY <1>2 DEF ExecuteDirect, Executing, chainVars
  <2>2. /\ op \in Op /\ Tail(queue) \in Seq(Op) /\ Num \in Nat \ {0}
        /\ tx \in Tables /\ tx.log \in Log /\ tx.rows \in Contents
    <3>1. queue \in Seq(Op) /\ tx \in Tables /\ tx.log \in Log /\ Num \in Nat \ {0}
      BY <2>1 DEF TypeInv, TypeOK
    <3> QED BY <2>1, <3>1 DEF Tables
  <2>3. Applied(op, tx.rows) \in Contents
    BY <2>2, AppliedType
  <2>4. Logged(tx.log, op, tx.rows, Num) \in Log
    BY <2>2, LoggedType
  <2>5. /\ tx' \in Tables /\ tx'.log \in Log
        /\ tx'.position = tx.position /\ tx'.idx = tx.idx
    BY <2>1, <2>2, <2>3, <2>4 DEF Tables, Log
  <2>6. TypeOK'
    BY <2>1, <2>2, <2>5 DEF TypeInv, TypeOK
  <2> QED BY <2>1, <2>5, <2>6 DEF TypeInv, Num
<1> QED BY <1>1, <1>2

LEMMA ExecuteBufferedType == TypeInv /\ ExecuteBuffered => TypeInv'
<1> SUFFICES ASSUME TypeInv, ExecuteBuffered PROVE TypeInv'
  OBVIOUS
<1> DEFINE op == Head(queue)
           rows == Flushed(tx.rows, buf)
<1>1. pc = "execute" /\ queue # <<>>
  BY DEF ExecuteBuffered, Executing
<1>2. /\ op \in Op /\ Tail(queue) \in Seq(Op) /\ op.post[op.key] \in Row
      /\ tx \in Tables /\ tx.log \in Log /\ tx.rows \in Contents /\ buf \in Buffers
  <2>1. queue \in Seq(Op) /\ tx \in Tables /\ tx.log \in Log /\ buf \in Buffers
    BY DEF TypeInv, TypeOK
  <2>2. op \in Op /\ Tail(queue) \in Seq(Op)
    BY <1>1, <2>1
  <2>3. op.post[op.key] \in Row
    BY <2>2 DEF Op, Contents
  <2> QED BY <2>1, <2>2, <2>3 DEF Tables
<1>3. NoBuffers \in Buffers /\ rows \in Contents
  BY <1>2, FlushedType DEF NoBuffers, Buffers, Empty, Row
<1>4. \A b \in Buffers : BufferedWrite(b, op) \in Buffers
  BY <1>2, BufferTypes DEF BufferedWrite
<1> DEFINE Queued ==
      /\ tx' \in Tables /\ tx'.log \in Log /\ buf' \in Buffers /\ begun' \in BOOLEAN
      /\ tx'.position = tx.position /\ tx'.idx = tx.idx
      /\ queue' = Tail(queue)
      /\ UNCHANGED <<chain, lib, forks, pg, pc, mode, current, floor, collected,
                     lastUpdate, blk, next, undone, crashes>>
<1>5. ASSUME Queued PROVE TypeInv'
  <2>1. TypeOK'
    BY <1>2, <1>5 DEF TypeInv, TypeOK
  <2> QED BY <1>1, <1>5, <2>1 DEF TypeInv, Num
<1>6. CASE /\ buf' = BufferedWrite(buf, op)
           /\ queue' = Tail(queue)
           /\ UNCHANGED <<chainVars, pg, tx, begun, pc, mode, current, floor,
                          collected, lastUpdate, blk, next, undone, crashes>>
  <2>1. Queued
    BY <1>2, <1>4, <1>6 DEF chainVars, TypeInv, TypeOK
  <2> QED BY <1>5, <2>1
<1>7. CASE /\ IF op.kind = "delete"
                 THEN /\ tx' = [tx EXCEPT !.rows = Applied(op, rows)]
                      /\ buf' = NoBuffers
                 ELSE /\ tx' = [tx EXCEPT !.rows = rows]
                      /\ buf' = BufferedWrite(NoBuffers, op)
           /\ begun' = TRUE
           /\ queue' = Tail(queue)
           /\ UNCHANGED <<chainVars, pg, pc, mode, current, floor,
                          collected, lastUpdate, blk, next, undone, crashes>>
  <2>1. Applied(op, rows) \in Contents
    BY <1>2, <1>3, AppliedType
  <2>2. PICK c \in Contents : tx' = [tx EXCEPT !.rows = c]
    BY <1>3, <1>7, <2>1
  <2>3. /\ tx' \in Tables /\ tx'.log = tx.log
        /\ tx'.position = tx.position /\ tx'.idx = tx.idx
    BY <1>2, <2>2 DEF Tables
  <2>4. buf' \in Buffers
    BY <1>3, <1>4, <1>7
  <2>5. Queued
    BY <1>2, <1>7, <2>3, <2>4 DEF chainVars
  <2> QED BY <1>5, <2>5
<1>8. CASE Die
  BY <1>8, DieType
<1> QED BY <1>6, <1>7, <1>8 DEF ExecuteBuffered

LEMMA CommitType == TypeInv /\ Commit => TypeInv'
<1> SUFFICES ASSUME TypeInv, Commit PROVE TypeInv'
  OBVIOUS
<1>1. CASE FlushConflicts(tx.rows, buf)
  BY <1>1, DieType DEF Commit
<1>2. CASE ~FlushConflicts(tx.rows, buf)
  <2>1. /\ pc = "execute"
        /\ pg' = [tx EXCEPT !.rows = Flushed(tx.rows, buf), !.rewinding = 0,
                            !.position = IF MovesPosition THEN Num ELSE tx.position]
        /\ tx' = pg' /\ buf' = NoBuffers /\ begun' = FALSE
        /\ lastUpdate' = IF MovesPosition THEN Num ELSE lastUpdate
        /\ collected' = 0 /\ pc' = "idle" /\ blk' = NoBlk
        /\ UNCHANGED <<chain, lib, forks, mode, current, floor, queue, next, undone, crashes>>
    BY <1>2 DEF Commit, chainVars
  <2>2. /\ tx \in Tables /\ tx.log \in Log /\ buf \in Buffers /\ tx.rows \in Contents
        /\ tx.position \in Nat /\ Len(tx.idx) \in Nat /\ current \in Nat
        /\ Num \in Nat /\ Num = current /\ tx.position <= current /\ current <= Len(tx.idx)
    <3>1. /\ tx \in Tables /\ tx.log \in Log /\ buf \in Buffers /\ current \in Nat
          /\ Num = current /\ tx.position <= current /\ current <= Len(tx.idx)
      BY <2>1 DEF TypeInv, TypeOK
    <3> QED BY <3>1 DEF Tables
  <2>3. Flushed(tx.rows, buf) \in Contents
    BY <2>2, FlushedType
  <2>4. /\ pg' \in Tables /\ pg'.log = tx.log /\ pg'.idx = tx.idx
        /\ pg'.position \in {Num, tx.position}
    BY <2>1, <2>2, <2>3 DEF Tables
  <2>5. NoBuffers \in Buffers /\ NoBlk \in ResponseType
    BY DEF NoBuffers, Buffers, Empty, Row, NoBlk, ResponseType
  <2>6. 0 \in 0..DbGroupBlocks /\ 0 < DbGroupBlocks
    BY ReceiverAssumption
  <2>7. lastUpdate' \in Nat
    BY <2>1, <2>2 DEF TypeInv, TypeOK
  <2>8. TypeOK'
    BY <2>1, <2>4, <2>5, <2>6, <2>7 DEF TypeInv, TypeOK, ResponseType
  <2> QED BY <2>1, <2>2, <2>4, <2>6, <2>8 DEF TypeInv
<1> QED BY <1>1, <1>2

LEMMA RefusalType == TypeInv /\ (SkippedBlock \/ RefusedFork) => TypeInv'
  BY DieType DEF SkippedBlock, RefusedFork

LEMMA TypeStep == TypeInv /\ [Next]_vars => TypeInv'
<1> SUFFICES ASSUME TypeInv, [Next]_vars PROVE TypeInv'
  OBVIOUS
<1>1. CASE Extend         BY <1>1, ExtendType
<1>2. CASE AdvanceLib     BY <1>2, AdvanceLibType
<1>3. CASE Fork           BY <1>3, ForkType
<1>4. CASE Start          BY <1>4, StartType
<1>5. CASE Crash          BY <1>5, CrashType
<1>6. CASE WatchdogExit   BY <1>6, WatchdogExitType
<1>7. CASE SkippedBlock \/ RefusedFork   BY <1>7, RefusalType
<1>8. CASE NextBlock      BY <1>8, NextBlockType
<1>9. CASE DetectFork     BY <1>9, DetectForkType
<1>10. CASE UndoOne       BY <1>10, UndoOneType
<1>11. CASE CommitChunk   BY <1>11, CommitChunkType
<1>12. CASE FinishRollback    BY <1>12, FinishRollbackType
<1>13. CASE ExecuteDirect     BY <1>13, ExecuteDirectType
<1>14. CASE ExecuteBuffered   BY <1>14, ExecuteBufferedType
<1>15. CASE Commit        BY <1>15, CommitType
<1>16. CASE UNCHANGED vars
  BY <1>16 DEF vars, TypeInv, TypeOK, Num
<1> QED BY <1>1, <1>2, <1>3, <1>4, <1>5, <1>6, <1>7, <1>8, <1>9, <1>10, <1>11,
           <1>12, <1>13, <1>14, <1>15, <1>16 DEF Next, Process

LEMMA TypeInvariant == Spec => []TypeInv
<1>1. Init => TypeInv
  BY TypeInit
<1>2. TypeInv /\ [Next]_vars => TypeInv'
  BY TypeStep
<1> QED BY <1>1, <1>2, PTL DEF Spec

\* Every state of the pipeline is well typed: in particular the log only ever
\* holds entries that can be run, a group never outgrows db_group_blocks and a
\* rollback never executes more than a chunk between two commits.
THEOREM TypeCorrect == Spec => []TypeOK
<1>1. TypeInv => TypeOK
  BY DEF TypeInv
<1> QED BY <1>1, TypeInvariant, PTL

-----------------------------------------------------------------------------
(* The checkpoint and the reversible window.                                *)

\* The fork guard stays within the window of the block processed last, and the
\* block a rollback heads for within the window of the checkpoint.
WindowInv ==
  /\ Len(chain) - lib <= MaxLag
  /\ pc \in {"idle", "undo", "execute"} => current - floor <= MaxReversibleWindow
  /\ pc = "idle" => pg.position <= current
  /\ pc \in {"idle", "undo"} => tx.position = pg.position
  /\ pc = "undo" => Len(blk.branch) - blk.lib <= MaxLag
  /\ pc \in {"undo", "execute"} =>
       /\ Num >= pg.position - MaxReversibleWindow
       /\ tx.position >= pg.position - MaxReversibleWindow - 1

LEMMA WindowTypes ==
  ASSUME TypeInv
  PROVE  /\ Len(chain) \in Nat /\ lib \in Nat /\ next \in Nat \ {0}
         /\ current \in Nat /\ floor \in Nat
         /\ pg.position \in Nat /\ tx.position \in Nat
         /\ blk \in ResponseType /\ Num \in Nat /\ blk.lib \in Nat
         /\ MaxLag \in Nat /\ MaxReversibleWindow \in Nat
         /\ MaxLag <= MaxReversibleWindow /\ lib <= Len(chain)
<1>1. chain \in Seq(Block) /\ lib \in 0..Len(chain) /\ pg \in Tables /\ tx \in Tables
      /\ blk \in ResponseType /\ current \in Nat /\ floor \in Nat /\ next \in Nat \ {0}
  BY DEF TypeInv, TypeOK, ResponseType
<1> QED BY SMTT(30), <1>1, ReceiverAssumption, WindowAssumption DEF Tables, ResponseType, Num

LEMMA WindowInit == Init => WindowInv
<1> SUFFICES ASSUME Init PROVE WindowInv
  OBVIOUS
<1>1. chain = <<>> /\ lib = 0 /\ pc = "down"
  BY DEF Init
<1>2. Len(chain) = 0 /\ MaxLag \in Nat
  BY <1>1, ReceiverAssumption
<1> QED BY <1>1, <1>2 DEF WindowInv

\* A block SHIP serves is at most MaxLag ahead of the irreversible block reported
\* with it.
LEMMA ResponsesWindow ==
  ASSUME TypeInv, WindowInv, Receiving, NEW r \in Responses
  PROVE  Len(r.branch) - r.lib <= MaxLag
<1>1. r.lib \in {k \in 0..lib : next - k <= MaxLag} \/ r.lib = lib
  BY DEF Responses
<1>2. Len(r.branch) = next /\ next <= Served
  BY ResponsesType DEF Receiving
<1>3. Served <= Len(chain) /\ Served \in Nat
  BY WindowTypes DEF Served
<1> QED BY <1>1, <1>2, <1>3, WindowTypes DEF WindowInv

LEMMA ChainWindow == TypeInv /\ WindowInv /\ (Extend \/ AdvanceLib \/ Fork) => WindowInv'
<1> SUFFICES ASSUME TypeInv, WindowInv, Extend \/ AdvanceLib \/ Fork PROVE WindowInv'
  OBVIOUS
<1>1. UNCHANGED <<pg, tx, pc, current, floor, blk>>
  BY DEF Extend, AdvanceLib, Fork, txVars, memVars
<1>2. Len(chain') - lib' <= MaxLag
  <2>1. CASE Extend
    BY <2>1, WindowTypes DEF Extend, TypeInv, TypeOK
  <2>2. CASE AdvanceLib
    BY <2>2, WindowTypes DEF AdvanceLib, WindowInv
  <2>3. CASE Fork
    <3>1. PICK f \in (lib + 1)..Len(chain) : \E b \in BlocksOver(StateAfter(chain, f - 1)) :
                chain' = Append(SubSeq(chain, 1, f - 1), b)
      BY <2>3 DEF Fork
    <3>2. chain \in Seq(Block) /\ f - 1 \in 0..Len(chain) /\ f <= Len(chain)
      BY <3>1, WindowTypes DEF TypeInv, TypeOK
    <3>3. Len(chain') = f
      BY <3>1, <3>2
    <3>4. lib' = lib
      BY <2>3 DEF Fork
    <3>5. /\ Len(chain) - lib <= MaxLag
          /\ Len(chain) \in Nat /\ lib \in Nat /\ MaxLag \in Nat /\ f \in Nat
      BY <3>2, WindowTypes DEF WindowInv
    <3> QED BY <3>2, <3>3, <3>4, <3>5
  <2> QED BY <2>1, <2>2, <2>3
<1> QED BY <1>1, <1>2 DEF WindowInv, Num

LEMMA StopWindow ==
  TypeInv /\ WindowInv /\ (Crash \/ Die \/ WatchdogExit) => WindowInv' /\ UNCHANGED pg
<1> SUFFICES ASSUME TypeInv, WindowInv, Crash \/ Die \/ WatchdogExit
             PROVE  WindowInv' /\ UNCHANGED pg
  OBVIOUS
<1>1. pc' \in {"down", "dead"} /\ UNCHANGED <<chain, lib, pg>>
  BY DEF Crash, Die, WatchdogExit, Stopped, chainVars
<1> QED BY <1>1 DEF WindowInv

LEMMA StartWindow ==
  TypeInv /\ WindowInv /\ Start => WindowInv' /\ pg'.position = pg.position
<1> SUFFICES ASSUME TypeInv, WindowInv, Start
             PROVE  WindowInv' /\ pg'.position = pg.position
  OBVIOUS
<1>1. /\ pc' = "idle" /\ current' = pg.position /\ tx' = pg'
      /\ floor' = High(0, pg.position - MaxReversibleWindow)
      /\ UNCHANGED <<chain, lib>>
  BY DEF Start, Forget, chainVars, ArmedFloor
<1>2. pg'.position = pg.position
  BY DEF Start, TypeInv, TypeOK, Tables
<1>3. current' - floor' <= MaxReversibleWindow /\ pg.position <= current'
  BY <1>1, WindowTypes DEF High
<1> QED BY <1>1, <1>2, <1>3 DEF WindowInv

LEMMA NextBlockWindow == TypeInv /\ WindowInv /\ NextBlock => WindowInv' /\ UNCHANGED pg
<1> SUFFICES ASSUME TypeInv, WindowInv, NextBlock PROVE WindowInv' /\ UNCHANGED pg
  OBVIOUS
<1>1. PICK r \in Responses : Collect(r, tx, IF NearHead(r) THEN 1 ELSE DbGroupBlocks)
  BY DEF NextBlock
<1>2. pc = "idle" /\ Receiving /\ next = current + 1 /\ UNCHANGED <<chain, lib, pg>>
  BY DEF NextBlock, Receiving, chainVars
<1>3. r \in ResponseType /\ Len(r.branch) = next /\ Len(r.branch) - r.lib <= MaxLag
  BY <1>2, ResponsesType, ResponsesWindow
<1>4. /\ tx \in Tables /\ tx.log \in Log /\ collected < DbGroupBlocks
      /\ (IF NearHead(r) THEN 1 ELSE DbGroupBlocks) \in 1..DbGroupBlocks
      /\ Len(r.branch) <= Len(tx.idx) + 1 /\ tx.position <= Len(r.branch)
  <2>1. /\ tx \in Tables /\ tx.log \in Log /\ collected < DbGroupBlocks
        /\ tx.position <= current /\ current <= Len(tx.idx)
    BY <1>2 DEF TypeInv, TypeOK
  <2>2. Len(tx.idx) \in Nat /\ tx.position \in Nat
    BY <2>1 DEF Tables
  <2>3. (IF NearHead(r) THEN 1 ELSE DbGroupBlocks) \in 1..DbGroupBlocks
    BY ReceiverAssumption
  <2>4. Len(r.branch) <= Len(tx.idx) + 1 /\ tx.position <= Len(r.branch)
    BY SMTT(30), <1>2, <1>3, <2>1, <2>2, WindowTypes
  <2> QED BY <2>1, <2>3, <2>4
<1>5. /\ current' = next /\ floor' \in Nat /\ r.lib <= floor'
      /\ pc' \in {"idle", "execute"}
      /\ pc' = "execute" => blk' = r
      /\ tx'.position = tx.position
  BY <1>1, <1>3, <1>4, WindowTypes, CollectType
<1>6. current' - floor' <= MaxReversibleWindow
  BY SMTT(30), <1>3, <1>5, WindowTypes DEF ResponseType
<1>7. pg.position <= current' /\ tx'.position = pg.position
  BY <1>2, <1>5, WindowTypes DEF WindowInv
<1>8. pc' = "execute" =>
        /\ Num' >= pg.position - MaxReversibleWindow
        /\ tx'.position >= pg.position - MaxReversibleWindow - 1
  BY <1>3, <1>5, <1>7, WindowTypes DEF Num
<1> QED BY <1>2, <1>5, <1>6, <1>7, <1>8 DEF WindowInv

LEMMA DetectForkWindow == TypeInv /\ WindowInv /\ DetectFork => WindowInv' /\ UNCHANGED pg
<1> SUFFICES ASSUME TypeInv, WindowInv, DetectFork PROVE WindowInv' /\ UNCHANGED pg
  OBVIOUS
<1>1. /\ pc = "idle" /\ Receiving /\ floor <= next /\ blk' \in Responses /\ pc' = "undo"
      /\ UNCHANGED <<chain, lib, pg, tx, current, floor>>
  BY DEF DetectFork, Receiving, chainVars, memVars
<1>2. Len(blk'.branch) = next /\ Len(blk'.branch) - blk'.lib <= MaxLag
  BY <1>1, ResponsesType, ResponsesWindow
<1>3. Num' >= pg.position - MaxReversibleWindow
  BY <1>1, <1>2, WindowTypes DEF WindowInv, Num
<1>4. tx.position >= pg.position - MaxReversibleWindow - 1
  BY <1>1, WindowTypes DEF WindowInv
<1> QED BY <1>1, <1>2, <1>3, <1>4 DEF WindowInv

LEMMA UndoOneWindow == TypeInv /\ WindowInv /\ UndoOne => WindowInv' /\ UNCHANGED pg
<1> SUFFICES ASSUME TypeInv, WindowInv, UndoOne PROVE WindowInv' /\ UNCHANGED pg
  OBVIOUS
<1>1. PICK e \in From(tx.log, Num) :
        IF UndoFails(e) THEN Die
        ELSE /\ IF Reversible THEN UndoDirect(e) ELSE UndoBuffered(e)
             /\ UNCHANGED <<chainVars, pg, begun, pc, memVars, blk, next, crashes>>
  BY DEF UndoOne
<1>2. CASE Die
  BY <1>2, StopWindow
<1>3. CASE /\ IF Reversible THEN UndoDirect(e) ELSE UndoBuffered(e)
           /\ UNCHANGED <<chainVars, pg, begun, pc, memVars, blk, next, crashes>>
  <2>1. tx \in Tables
    BY DEF TypeInv, TypeOK
  <2>2. tx'.position = tx.position
    BY <1>3, <2>1 DEF UndoDirect, UndoBuffered, AfterUndo, Tables
  <2>3. UNCHANGED <<chain, lib, pg, pc, current, floor, blk>>
    BY <1>3 DEF chainVars, memVars
  <2> QED BY <2>2, <2>3 DEF WindowInv, Num
<1> QED BY <1>1, <1>2, <1>3

LEMMA CommitChunkWindow ==
  TypeInv /\ WindowInv /\ CommitChunk => WindowInv' /\ pg'.position = pg.position
<1> SUFFICES ASSUME TypeInv, WindowInv, CommitChunk
             PROVE  WindowInv' /\ pg'.position = pg.position
  OBVIOUS
<1>1. /\ pc = "undo" /\ pg' = [tx EXCEPT !.rewinding = Num] /\ tx' = pg'
      /\ UNCHANGED <<chain, lib, pc, current, floor, blk>>
  BY DEF CommitChunk, chainVars, memVars
<1>2. pg'.position = tx.position
  BY <1>1 DEF TypeInv, TypeOK, Tables
<1>3. tx.position = pg.position
  BY <1>1 DEF WindowInv
<1> QED BY <1>1, <1>2, <1>3 DEF WindowInv, Num

LEMMA FinishRollbackWindow ==
  TypeInv /\ WindowInv /\ FinishRollback => WindowInv' /\ UNCHANGED pg
<1> SUFFICES ASSUME TypeInv, WindowInv, FinishRollback PROVE WindowInv' /\ UNCHANGED pg
  OBVIOUS
<1> DEFINE t == [tx EXCEPT !.blocks = {b \in @ : b.num < Num},
                          !.position = Num - 1,
                          !.idx = SubSeq(@, 1, Num - 1)]
<1>1. pc = "undo" /\ Collect(blk, t, 1) /\ UNCHANGED <<chain, lib, pg>>
  BY DEF FinishRollback, chainVars
<1>2. /\ current' = Num /\ floor' \in Nat /\ blk.lib <= floor'
      /\ pc' = "execute" /\ blk' = blk
  <2>1. current' = Len(blk.branch) /\ floor' = High(floor, blk.lib)
    BY <1>1 DEF Collect
  <2>2. pc' = "execute" /\ blk' = blk
    <3>1. collected + 1 >= 1
      BY DEF TypeInv, TypeOK
    <3> QED BY <1>1, <3>1 DEF Collect
  <2> QED BY <2>1, <2>2, WindowTypes DEF High, Num
<1>3. tx'.position = Num - 1
  <2>1. t.position = Num - 1
    BY DEF TypeInv, TypeOK, Tables
  <2>2. tx'.position = t.position
    <3>1. \E i, bs, l : tx' = [t EXCEPT !.idx = i, !.blocks = bs, !.log = l]
      BY <1>1 DEF Collect
    <3>2. "position" \in DOMAIN t
      BY DEF TypeInv, TypeOK, Tables
    <3> HIDE DEF t
    <3> QED BY <3>1, <3>2
  <2> QED BY <2>1, <2>2
<1>4. current' - floor' <= MaxReversibleWindow
  BY SMTT(30), <1>1, <1>2, WindowTypes DEF WindowInv, Num
<1>5. /\ Num' >= pg.position - MaxReversibleWindow
      /\ tx'.position >= pg.position - MaxReversibleWindow - 1
  <2>1. Num' = Num
    BY <1>2 DEF Num
  <2> QED BY <1>1, <1>3, <2>1, WindowTypes DEF WindowInv
<1> QED BY <1>1, <1>2, <1>4, <1>5 DEF WindowInv

LEMMA ExecuteWindow ==
  TypeInv /\ WindowInv /\ (ExecuteDirect \/ ExecuteBuffered) => WindowInv' /\ UNCHANGED pg
<1> SUFFICES ASSUME TypeInv, WindowInv, ExecuteDirect \/ ExecuteBuffered
             PROVE  WindowInv' /\ UNCHANGED pg
  OBVIOUS
<1>1. CASE Die
  BY <1>1, StopWindow
<1>2. CASE ~Die
  <2>1. pc = "execute" /\ UNCHANGED <<chain, lib, pg, pc, current, floor, blk>>
    BY <1>2 DEF ExecuteDirect, ExecuteBuffered, Executing, chainVars
  <2>2. tx'.position = tx.position
    <3>1. tx \in Tables
      BY DEF TypeInv, TypeOK
    <3> QED BY <1>2, <3>1 DEF ExecuteDirect, ExecuteBuffered, Tables
  <2> QED BY <2>1, <2>2 DEF WindowInv, Num
<1> QED BY <1>1, <1>2

LEMMA CommitWindow ==
  TypeInv /\ WindowInv /\ Commit =>
    WindowInv' /\ pg'.position >= pg.position - MaxReversibleWindow - 1
<1> SUFFICES ASSUME TypeInv, WindowInv, Commit
             PROVE  WindowInv' /\ pg'.position >= pg.position - MaxReversibleWindow - 1
  OBVIOUS
<1>1. CASE FlushConflicts(tx.rows, buf)
  <2>1. Die
    BY <1>1 DEF Commit
  <2> QED BY <2>1, StopWindow, WindowTypes
<1>2. CASE ~FlushConflicts(tx.rows, buf)
  <2>1. /\ pc = "execute" /\ pc' = "idle" /\ tx' = pg'
        /\ pg' = [tx EXCEPT !.rows = Flushed(tx.rows, buf), !.rewinding = 0,
                            !.position = IF MovesPosition THEN Num ELSE tx.position]
        /\ UNCHANGED <<chain, lib, current, floor>>
    BY <1>2 DEF Commit, chainVars
  <2>2. pg'.position \in {Num, tx.position}
    BY <2>1 DEF TypeInv, TypeOK, Tables
  <2>3. Num = current /\ tx.position <= current
    BY <2>1 DEF TypeInv
  <2>4. pg'.position >= pg.position - MaxReversibleWindow - 1 /\ pg'.position <= current
    BY <2>1, <2>2, <2>3, WindowTypes DEF WindowInv
  <2> QED BY <2>1, <2>4 DEF WindowInv
<1> QED BY <1>1, <1>2

\* One step, of whatever kind, keeps the window and moves the checkpoint back
\* by no more than it.
LEMMA WindowStep ==
  TypeInv /\ WindowInv /\ [Next]_vars =>
    WindowInv' /\ pg'.position >= pg.position - MaxReversibleWindow - 1
<1> SUFFICES ASSUME TypeInv, WindowInv, [Next]_vars
             PROVE  WindowInv' /\ pg'.position >= pg.position - MaxReversibleWindow - 1
  OBVIOUS
<1>1. pg'.position = pg.position => pg'.position >= pg.position - MaxReversibleWindow - 1
  BY WindowTypes
<1>2. CASE Extend \/ AdvanceLib \/ Fork
  <2>1. UNCHANGED pg
    BY <1>2 DEF Extend, AdvanceLib, Fork
  <2> QED BY <1>1, <1>2, <2>1, ChainWindow
<1>3. CASE Start
  BY <1>1, <1>3, StartWindow
<1>4. CASE Crash \/ WatchdogExit \/ SkippedBlock \/ RefusedFork
  BY <1>1, <1>4, StopWindow DEF SkippedBlock, RefusedFork
<1>5. CASE NextBlock \/ DetectFork
  BY <1>1, <1>5, NextBlockWindow, DetectForkWindow
<1>6. CASE UndoOne \/ CommitChunk \/ FinishRollback
  BY <1>1, <1>6, UndoOneWindow, CommitChunkWindow, FinishRollbackWindow
<1>7. CASE ExecuteDirect \/ ExecuteBuffered
  BY <1>1, <1>7, ExecuteWindow
<1>8. CASE Commit
  BY <1>8, CommitWindow
<1>9. CASE UNCHANGED vars
  <2>1. UNCHANGED <<chain, lib, pg, tx, pc, current, floor, blk>>
    BY <1>9 DEF vars
  <2> QED BY <1>1, <2>1 DEF WindowInv, Num
<1> QED BY <1>2, <1>3, <1>4, <1>5, <1>6, <1>7, <1>8, <1>9 DEF Next, Process

\* The fork guard armed by startProcessing holds: whatever SHIP serves, honest
\* or restored from an old snapshot, and however often the reader crashes, no
\* commit moves the checkpoint back further than the reversible window.
THEOREM RewindIsBounded == Spec => BoundedRewind
<1>1. Init => WindowInv
  BY WindowInit
<1>2. TypeInv /\ WindowInv /\ [Next]_vars => WindowInv'
  BY WindowStep
<1>3. TypeInv /\ WindowInv /\ [Next]_vars =>
        [pg'.position >= pg.position - MaxReversibleWindow - 1]_pg
  BY WindowStep
<1> QED BY <1>1, <1>2, <1>3, TypeInvariant, PTL DEF Spec, BoundedRewind

-----------------------------------------------------------------------------
(* The rows. *)

Honest ==
  /\ ~FaultyShip /\ ~CrashInRollback
  /\ ~({"replace", "update"} \subseteq OpKinds)

\* The writes of a group of irreversible blocks run in the transaction of a
\* reversible one, and are logged under its number.
Overlap == pc = "execute" /\ Reversible /\ collected > 1

-----------------------------------------------------------------------------
(* Branches.                                                                *)

\* Two branches are the same up to block n.
Agrees(c, d, n) == n <= Len(c) /\ n <= Len(d) /\ \A i \in 1..n : c[i] = d[i]

\* Every block follows from its parent.
Valid(c) == \A n \in 1..Len(c) : c[n] \in BlocksOver(StateAfter(c, n - 1))

LEMMA OnBranchAgrees ==
  ASSUME NEW id \in Seq(Block), NEW c \in Seq(Block)
  PROVE  OnBranch(id, c) <=> Agrees(id, c, Len(id))
<1>1. CASE Len(id) <= Len(c)
  <2> DEFINE s == SubSeq(c, 1, Len(id))
  <2>1. /\ Len(id) \in Nat /\ Len(c) \in Nat
        /\ s \in Seq(Block) /\ Len(s) = Len(id) /\ \A i \in 1..Len(id) : s[i] = c[i]
    BY <1>1
  <2> HIDE DEF s
  <2>2. s = id <=> \A i \in 1..Len(id) : s[i] = id[i]
    BY <2>1
  <2>3. s = id <=> \A i \in 1..Len(id) : id[i] = c[i]
    BY <2>1, <2>2
  <2> QED BY <1>1, <2>1, <2>3 DEF OnBranch, Agrees, s
<1>2. CASE ~(Len(id) <= Len(c))
  BY <1>2 DEF OnBranch, Agrees
<1> QED BY <1>1, <1>2

LEMMA PrefixOf ==
  ASSUME NEW c \in Seq(Block), NEW n \in 0..Len(c)
  PROVE  /\ SubSeq(c, 1, n) \in Seq(Block) /\ Len(SubSeq(c, 1, n)) = n
         /\ Agrees(SubSeq(c, 1, n), c, n)
<1>1. Len(c) \in Nat
  OBVIOUS
<1>2. /\ SubSeq(c, 1, n) \in Seq(Block) /\ Len(SubSeq(c, 1, n)) = n
      /\ \A i \in 1..n : SubSeq(c, 1, n)[i] = c[i]
  BY <1>1
<1> QED BY <1>1, <1>2 DEF Agrees

LEMMA AgreesFacts ==
  ASSUME NEW c \in Seq(Block), NEW d \in Seq(Block), NEW n \in Nat, Agrees(c, d, n)
  PROVE  /\ Agrees(d, c, n)
         /\ \A m \in 0..n : Agrees(c, d, m) /\ StateAfter(c, m) = StateAfter(d, m)
         /\ \A e \in Seq(Block), m \in 0..n : Agrees(d, e, m) => Agrees(c, e, m)
<1>1. Len(c) \in Nat /\ Len(d) \in Nat /\ n <= Len(c) /\ n <= Len(d) /\ \A i \in 1..n : c[i] = d[i]
  BY DEF Agrees
<1>2. Agrees(d, c, n)
  BY <1>1 DEF Agrees
<1>3. ASSUME NEW m \in 0..n PROVE Agrees(c, d, m) /\ StateAfter(c, m) = StateAfter(d, m)
  BY <1>1 DEF Agrees, StateAfter
<1>4. ASSUME NEW e \in Seq(Block), NEW m \in 0..n, Agrees(d, e, m) PROVE Agrees(c, e, m)
  BY <1>1, <1>4 DEF Agrees
<1> QED BY <1>2, <1>3, <1>4

LEMMA ValidPrefix ==
  ASSUME NEW c \in Seq(Block), NEW d \in Seq(Block), Valid(d), Agrees(c, d, Len(c))
  PROVE  Valid(c)
<1> SUFFICES ASSUME NEW n \in 1..Len(c) PROVE c[n] \in BlocksOver(StateAfter(c, n - 1))
  BY DEF Valid
<1>1. Len(c) \in Nat /\ Len(d) \in Nat
  OBVIOUS
<1>2. n \in 1..Len(d) /\ c[n] = d[n] /\ n - 1 \in 0..Len(c)
  BY <1>1 DEF Agrees
<1>3. StateAfter(c, n - 1) = StateAfter(d, n - 1)
  BY <1>1, <1>2, AgreesFacts
<1> QED BY <1>2, <1>3 DEF Valid

\* One block more.
LEMMA ValidNext ==
  ASSUME NEW c \in Seq(Block), NEW d \in Seq(Block), Valid(c), Len(d) = Len(c) + 1,
         Agrees(d, c, Len(c)), d[Len(c) + 1] \in BlocksOver(StateAfter(c, Len(c)))
  PROVE  Valid(d)
<1> SUFFICES ASSUME NEW n \in 1..Len(d) PROVE d[n] \in BlocksOver(StateAfter(d, n - 1))
  BY DEF Valid
<1>1. Len(c) \in Nat /\ Len(d) \in Nat /\ n - 1 \in 0..Len(c)
  OBVIOUS
<1>2. StateAfter(d, n - 1) = StateAfter(c, n - 1)
  BY <1>1, AgreesFacts
<1>3. CASE n <= Len(c)
  BY <1>1, <1>2, <1>3 DEF Valid, Agrees
<1>4. CASE n = Len(c) + 1
  BY <1>1, <1>2, <1>4
<1> QED BY <1>1, <1>3, <1>4

HasStatement(ops) == \E i \in 1..Len(ops) : ops[i].kind \in Statements

\* A row stays while no block has a statement, a delete that is.
LEMMA RowsStay ==
  ASSUME NEW c \in Seq(Block), Valid(c), NEW m \in 0..Len(c),
         \A n \in (m + 1)..Len(c) : ~HasStatement(c[n].ops),
         NEW k \in Key, StateAfter(c, m)[k] # NoRow
  PROVE  \A n \in m..Len(c) : StateAfter(c, n)[k] # NoRow
<1> DEFINE T == {i \in Nat : StateAfter(c, m + i)[k] # NoRow}
           top == Len(c) - m
<1>1. Len(c) \in Nat /\ top \in Nat
  OBVIOUS
<1>2. 0 \in T
  OBVIOUS
<1>3. ASSUME NEW i \in 0..(top - 1), i \in T PROVE i + 1 \in T
  <2> DEFINE n == m + i + 1
  <2>1. /\ n \in 1..Len(c) /\ n \in (m + 1)..Len(c) /\ n - 1 \in 0..Len(c)
        /\ n - 1 = m + i /\ n = m + (i + 1) /\ n # 0
    BY <1>1
  <2> HIDE DEF n
  <2>2. StateAfter(c, n - 1) \in Contents /\ c[n] \in BlocksOver(StateAfter(c, n - 1))
    BY <2>1, StateAfterType DEF Valid
  <2>3. /\ c[n].ops \in Seq(Op) /\ Legal(c[n].ops, StateAfter(c, n - 1))
        /\ End(c[n].ops, StateAfter(c, n - 1)) = c[n].rows
    BY <2>2, BlockIsLegal
  <2>4. \A j \in 1..Len(c[n].ops) : c[n].ops[j].kind # "delete"
    BY <2>1 DEF HasStatement, Statements
  <2>5. c[n].rows[k] # NoRow
    BY <1>3, <2>1, <2>2, <2>3, <2>4, LegalRow
  <2> QED BY <2>1, <2>5 DEF StateAfter
<1> HIDE DEF T
<1>4. \A i \in 0..top : i \in T
  BY <1>1, <1>2, <1>3, NatInduct
<1>5. ASSUME NEW n \in m..Len(c) PROVE StateAfter(c, n)[k] # NoRow
  <2>1. n - m \in 0..top /\ m + (n - m) = n
    BY <1>1
  <2> QED BY <1>4, <2>1 DEF T
<1> QED BY <1>5

-----------------------------------------------------------------------------
(* The invariant.                                                           *)

\* A block the chain may still undo, or already has.
Live(n, idx, c, l) == n > l \/ ~Agrees(idx, c, n)

\* The tables of a reader hang together: the recorded blocks are those indexed,
\* and the log is in order.
Sound(t) ==
  /\ Valid(t.idx)
  /\ \A b \in t.blocks : Len(b.id) = b.num /\ Agrees(b.id, t.idx, b.num)
  /\ Ordered(t.log)
  /\ \A e \in t.log : /\ e.block <= Len(t.idx)
                      /\ e.key = BlockRecord => e.kind = "delete"

\* A position p that a catch-up left behind is irreversible, and what follows it
\* had no statement, which would have moved it.
Behind(idx, p, c, l) ==
  p < Len(idx) => /\ Len(idx) <= l /\ Agrees(idx, c, Len(idx))
                  /\ \A n \in (p + 1)..Len(idx) : ~HasStatement(idx[n].ops)

Restored(v, log, idx, n) == Restores(v, From(log, n), StateAfter(idx, n - 1))
Recorded(blocks, n) == \E b \in blocks : b.num = n

\* What is committed, while no rollback is under way.
Durable(t, c, l) ==
  /\ Sound(t)
  /\ Behind(t.idx, t.position, c, l)
  /\ \A n \in 1..Len(t.idx) : Live(n, t.idx, c, l) =>
       Recorded(t.blocks, n) /\ Restored(t.rows, t.log, t.idx, n) /\ n > t.position - MaxLag
  /\ \A k \in Key : \E n \in t.position..Len(t.idx) : t.rows[k] = StateAfter(t.idx, n)[k]

\* The writes q lead from the contents S to those after block p.  The rows v the
\* transaction sees are S but for rows that a catch-up wrote before a crash: the
\* replay writes them again before anything reads them, or has nothing to write.
Runs(v, S, q, idx, p) ==
  /\ Legal(q, S) /\ End(q, S) = StateAfter(idx, p)
  /\ \A k \in Key :
       \/ v[k] = S[k]
       \/ \E i \in 1..Len(q) : /\ q[i].key = k /\ q[i].kind \notin Statements
                               /\ \A j \in 1..(i - 1) : q[j].key # k
       \/ ~HasStatement(q) /\ \E n \in p..Len(idx) : v[k] = StateAfter(idx, n)[k]
  /\ \A k \in Key : S[k] # NoRow => v[k] # NoRow

\* The rows as the transaction sees them, buffered writes included.
View == Flushed(tx.rows, buf)

Active == pc \in {"idle", "undo", "execute"}

PgInv == pg.rewinding = 0 => Durable(pg, chain, lib)

\* A block that may have to be undone can be.
TxInv ==
  Active =>
    /\ Sound(tx)
    /\ Behind(tx.idx, current, chain, lib)
    /\ \A n \in 1..current :
         \/ pc = "undo" /\ n > Num
         \/ (Live(n, tx.idx, chain, lib) \/ next <= n \/ (pc = "undo" /\ n = Num)) =>
              Restored(View, tx.log, tx.idx, n)
    /\ \A n \in 1..current :
         \/ pc = "undo" /\ n >= Num
         \/ Live(n, tx.idx, chain, lib) => Recorded(tx.blocks, n)

RunInv ==
  pc \in {"idle", "execute"} =>
    /\ begun \/ HasStatement(queue)
         \/ \A n \in (tx.position + 1)..Len(tx.idx) : ~HasStatement(tx.idx[n].ops)
    /\ \E S \in Contents :
         /\ Runs(View, S, queue, tx.idx, current)
         /\ \A k \in Key : buf.upd[k] # NoRow => S[k] # NoRow /\ "update" \in OpKinds
         /\ pc = "execute" /\ Reversible => View = S

BufInv ==
  pc \in {"undo", "execute"} =>
    /\ Reversible => buf = NoBuffers
    /\ \A k \in Key : buf.ins[k].kind = "insert" => tx.rows[k] = NoRow
    /\ pc = "undo" => buf.upd = Empty /\ \A k \in Key : buf.ins[k].kind # "upsert"

IdleInv ==
  /\ pc \notin {"undo", "execute"} => pg.rewinding = 0
  /\ pc = "idle" =>
       /\ buf = NoBuffers /\ ~begun /\ tx = [pg EXCEPT !.idx = tx.idx]
       /\ next <= current + 1 /\ Agrees(tx.idx, chain, next - 1)
       /\ collected = 0 => queue = <<>> /\ tx = pg
       /\ collected > 0 => next = current + 1 /\ current <= lib
       /\ current > lib \/ next <= current =>
            collected = 0 /\ tx.position = current /\ Len(tx.idx) = current

\* The block being worked on was on the chain when it was received.
BlkInv ==
  pc \in {"undo", "execute"} =>
    /\ blk.lib <= lib /\ Num - blk.lib <= MaxLag
    /\ Valid(blk.branch)
    /\ Agrees(blk.branch, chain, Low(Num, blk.lib))
    /\ next <= Num + 1 /\ Agrees(blk.branch, chain, next - 1)
    /\ next <= Num => next > blk.lib
    /\ pc = "undo" => /\ collected = 0 /\ queue = <<>> /\ begun
                      /\ tx.position = current /\ Len(tx.idx) = current
                      /\ Agrees(tx.idx, blk.branch, Num - 1)
    /\ pc = "execute" => /\ Agrees(tx.idx, blk.branch, Num)
                         /\ Reversible => Len(tx.idx) = Num /\ begun

RowsInv ==
  /\ Valid(chain) /\ PgInv /\ TxInv /\ RunInv /\ BufInv /\ IdleInv /\ BlkInv

-----------------------------------------------------------------------------
(* The chain moves above the irreversible block.                            *)

LEMMA LiveStays ==
  ASSUME NEW idx \in Seq(Block), NEW c \in Seq(Block), NEW d \in Seq(Block),
         NEW l \in Nat, NEW m \in Nat, l <= m, Agrees(c, d, m), NEW n \in Nat,
         Live(n, idx, d, m)
  PROVE  Live(n, idx, c, l)
<1> SUFFICES ASSUME n <= l, Agrees(idx, c, n) PROVE FALSE
  BY DEF Live
<1>1. n \in 0..m /\ n \in 0..n /\ n <= m
  OBVIOUS
<1>2. Agrees(c, d, n)
  BY <1>1, AgreesFacts
<1>3. Agrees(idx, d, n)
  BY <1>1, <1>2, AgreesFacts
<1> QED BY <1>1, <1>3 DEF Live

LEMMA BehindStays ==
  ASSUME NEW idx \in Seq(Block), NEW c \in Seq(Block), NEW d \in Seq(Block),
         NEW l \in Nat, NEW m \in Nat, l <= m, Agrees(c, d, m), NEW p \in Nat,
         Behind(idx, p, c, l)
  PROVE  Behind(idx, p, d, m)
<1> SUFFICES ASSUME p < Len(idx) PROVE Len(idx) <= m /\ Agrees(idx, d, Len(idx))
  BY DEF Behind
<1>1. Len(idx) \in 0..m /\ Len(idx) \in 0..Len(idx) /\ Agrees(idx, c, Len(idx))
  BY DEF Behind
<1>2. Agrees(c, d, Len(idx))
  BY <1>1, AgreesFacts
<1> QED BY <1>1, <1>2, AgreesFacts

LEMMA DurableStays ==
  ASSUME NEW t \in Tables, NEW c \in Seq(Block), NEW d \in Seq(Block),
         NEW l \in Nat, NEW m \in Nat, l <= m, Agrees(c, d, m), Durable(t, c, l)
  PROVE  Durable(t, d, m)
<1>1. t.idx \in Seq(Block) /\ t.position \in Nat
  BY DEF Tables
<1>2. Behind(t.idx, t.position, d, m)
  BY <1>1, BehindStays DEF Durable
<1>3. \A n \in 1..Len(t.idx) : Live(n, t.idx, d, m) => Live(n, t.idx, c, l)
  BY <1>1, LiveStays
<1> QED BY <1>2, <1>3 DEF Durable

-----------------------------------------------------------------------------
(* The writes to come.                                                      *)

\* A restarted process has nothing queued.
LEMMA RunsNothing ==
  ASSUME NEW t \in Tables, t.position <= Len(t.idx), NEW c \in Seq(Block), NEW l \in Nat,
         Durable(t, c, l)
  PROVE  Runs(t.rows, StateAfter(t.idx, t.position), <<>>, t.idx, t.position)
<1> DEFINE S == StateAfter(t.idx, t.position)
<1>1. t.idx \in Seq(Block) /\ t.position \in 0..Len(t.idx) /\ t.rows \in Contents
  BY DEF Tables
<1>2. S \in Contents
  BY <1>1, StateAfterType
<1>3. Legal(<<>>, S) /\ End(<<>>, S) = S
  BY LegalNothing
<1>4. ~HasStatement(<<>>)
  BY DEF HasStatement
<1>5. \A k \in Key : \E n \in t.position..Len(t.idx) : t.rows[k] = StateAfter(t.idx, n)[k]
  BY DEF Durable
<1>6. ASSUME NEW k \in Key, S[k] # NoRow PROVE t.rows[k] # NoRow
  <2>1. PICK n \in t.position..Len(t.idx) : t.rows[k] = StateAfter(t.idx, n)[k]
    BY <1>5
  <2>2. CASE t.position < Len(t.idx)
    <3>1. \A i \in (t.position + 1)..Len(t.idx) : ~HasStatement(t.idx[i].ops)
      BY <2>2 DEF Durable, Behind
    <3> QED BY <1>1, <1>6, <2>1, <3>1, RowsStay DEF Durable, Sound
  <2>3. CASE t.position = Len(t.idx)
    <3>1. n = t.position
      BY <1>1, <2>3
    <3> QED BY <1>6, <2>1, <3>1
  <2> QED BY <1>1, <2>2, <2>3
<1> QED BY <1>3, <1>4, <1>5, <1>6 DEF Runs

\* One block more is queued, a new one or one that is replayed.
LEMMA RunsCollect ==
  ASSUME NEW v \in Contents, NEW S \in Contents, NEW q \in Seq(Op),
         NEW idx \in Seq(Block), NEW p \in 0..Len(idx), Runs(v, S, q, idx, p),
         NEW new \in Seq(Block), p + 1 <= Len(new), Valid(new), Agrees(idx, new, Len(idx)),
         Len(idx) = p \/ /\ new = idx
                         /\ \A n \in (p + 1)..Len(idx) : ~HasStatement(idx[n].ops)
  PROVE  Runs(v, S, q \o new[p + 1].ops, new, p + 1)
<1> DEFINE b == new[p + 1]
           ops == b.ops
           w == q \o ops
<1>1. p + 1 \in 1..Len(new) /\ p \in 0..Len(new) /\ p \in Nat /\ p + 1 # 0 /\ (p + 1) - 1 = p
      /\ p \in 0..Len(idx) /\ Len(idx) \in Nat /\ Len(new) \in Nat
  OBVIOUS
<1>2. StateAfter(idx, p) = StateAfter(new, p) /\ StateAfter(idx, p) \in Contents
  BY <1>1, AgreesFacts, StateAfterType
<1>3. b \in BlocksOver(StateAfter(idx, p)) /\ StateAfter(new, p + 1) = b.rows
  BY <1>1, <1>2 DEF Valid, StateAfter
<1>4. /\ ops \in Seq(Op) /\ Legal(ops, StateAfter(idx, p))
      /\ End(ops, StateAfter(idx, p)) = StateAfter(new, p + 1)
      /\ b.rows \in Contents
  BY <1>2, <1>3, BlockIsLegal
<1> HIDE DEF ops, b
<1>5. Legal(q, S) /\ End(q, S) = StateAfter(idx, p)
  BY DEF Runs
<1>6. Legal(w, S) /\ End(w, S) = StateAfter(new, p + 1)
  BY <1>4, <1>5, LegalConcat
<1>7. /\ w \in Seq(Op) /\ Len(w) = Len(q) + Len(ops) /\ Len(q) \in Nat /\ Len(ops) \in Nat
      /\ \A i \in 1..Len(q) : i \in 1..Len(w) /\ w[i] = q[i]
      /\ \A i \in 1..Len(ops) : Len(q) + i \in 1..Len(w) /\ w[Len(q) + i] = ops[i]
  BY <1>4
<1>8. \A i \in 1..Len(w) : i \notin 1..Len(q) =>
        i - Len(q) \in 1..Len(ops) /\ i = Len(q) + (i - Len(q))
  BY <1>7
<1> HIDE DEF w
<1> DEFINE Hit(x, k) == \E i \in 1..Len(x) : /\ x[i].key = k /\ x[i].kind \notin Statements
                                             /\ \A j \in 1..(i - 1) : x[j].key # k
           Late(k) == ~HasStatement(w) /\ \E n \in (p + 1)..Len(new) : v[k] = StateAfter(new, n)[k]
<1>9. ASSUME NEW k \in Key PROVE v[k] = S[k] \/ Hit(w, k) \/ Late(k)
  <2>1. CASE v[k] = S[k]
    BY <2>1
  <2>2. CASE Hit(q, k)
    <3>1. PICK i \in 1..Len(q) : /\ q[i].key = k /\ q[i].kind \notin Statements
                                 /\ \A j \in 1..(i - 1) : q[j].key # k
      BY <2>2
    <3>2. \A j \in 1..(i - 1) : j \in 1..Len(q) /\ w[j] = q[j]
      BY <1>7
    <3>3. i \in 1..Len(w) /\ w[i] = q[i]
      BY <1>7
    <3> QED BY <3>1, <3>2, <3>3
  <2>3. CASE ~HasStatement(q) /\ \E n \in p..Len(idx) : v[k] = StateAfter(idx, n)[k]
    <3>1. PICK n \in p..Len(idx) : v[k] = StateAfter(idx, n)[k]
      BY <2>3
    <3>2. StateAfter(new, n) = StateAfter(idx, n)
      BY <1>1, AgreesFacts
    <3>3. \A i \in 1..Len(q) : q[i].kind \notin Statements
      BY <2>3 DEF HasStatement
    <3>4. CASE \E i \in 1..Len(q) : q[i].key = k
      <4> DEFINE mine == {i \in 1..Len(q) : q[i].key = k}
      <4>1. mine \in SUBSET Nat /\ mine # {}
        BY <3>4
      <4>2. PICK i \in mine : \A j \in mine : i <= j
        BY <4>1, LeastNat
      <4>3. i \in 1..Len(q) /\ q[i].key = k /\ \A j \in 1..(i - 1) : j \in 1..Len(q) /\ j \notin mine
        BY <4>2, <1>7
      <4>4. Hit(q, k)
        BY <3>3, <4>3
      <4> QED BY <2>2, <4>4
    <3>5. CASE \A i \in 1..Len(q) : q[i].key # k
      <4>1. S[k] = StateAfter(idx, p)[k]
        BY <1>5, <3>5, LegalRow
      <4>2. CASE Len(idx) = p
        <5>1. n = p
          BY <1>1, <4>2
        <5> QED BY <2>1, <3>1, <4>1, <5>1
      <4>3. CASE new = idx /\ \A i \in (p + 1)..Len(idx) : ~HasStatement(idx[i].ops)
        <5>1. ~HasStatement(ops)
          BY <1>1, <4>3 DEF ops, b
        <5>2. \A i \in 1..Len(ops) : ops[i].kind \notin Statements
          BY <5>1 DEF HasStatement
        <5>3. ~HasStatement(w)
          BY <1>7, <1>8, <3>3, <5>2 DEF HasStatement
        <5>4. CASE \E i \in 1..Len(ops) : ops[i].key = k
          <6> DEFINE mine == {i \in 1..Len(ops) : ops[i].key = k}
          <6>1. mine \in SUBSET Nat /\ mine # {}
            BY <5>4
          <6>2. PICK i \in mine : \A j \in mine : i <= j
            BY <6>1, LeastNat
          <6>3. /\ i \in 1..Len(ops) /\ ops[i].key = k
                /\ \A j \in 1..Len(ops) : j < i => ops[j].key # k
            BY <6>2, <1>7
          <6>4. Len(q) + i \in 1..Len(w) /\ w[Len(q) + i] = ops[i]
            BY <1>7, <6>3
          <6>5. ASSUME NEW j \in 1..((Len(q) + i) - 1) PROVE w[j].key # k
            <7>1. j \in 1..Len(w)
              BY <1>7, <6>4
            <7>2. CASE j \in 1..Len(q)
              BY <1>7, <3>5, <7>2
            <7>3. CASE j - Len(q) \in 1..Len(ops) /\ j = Len(q) + (j - Len(q))
              <8>1. j - Len(q) < i
                BY <1>7, <6>3
              <8> QED BY <1>7, <6>3, <7>3, <8>1
            <7> QED BY <1>8, <7>1, <7>2, <7>3
          <6> QED BY <5>2, <6>3, <6>4, <6>5
        <5>5. CASE \A i \in 1..Len(ops) : ops[i].key # k
          <6>1. StateAfter(new, p + 1)[k] = StateAfter(idx, p)[k]
            BY <1>2, <1>4, <5>5, LegalRow
          <6>2. CASE n = p
            <7>1. p + 1 \in (p + 1)..Len(new) /\ v[k] = StateAfter(new, p + 1)[k]
              BY <1>1, <3>1, <6>1, <6>2
            <7> QED BY <5>3, <7>1
          <6>3. CASE n # p
            <7>1. n \in (p + 1)..Len(new) /\ v[k] = StateAfter(new, n)[k]
              BY <1>1, <3>1, <3>2, <4>3, <6>3
            <7> QED BY <5>3, <7>1
          <6> QED BY <6>2, <6>3
        <5> QED BY <5>4, <5>5
      <4> QED BY <4>2, <4>3
    <3> QED BY <3>4, <3>5
  <2> QED BY <2>1, <2>2, <2>3 DEF Runs
<1> QED BY <1>6, <1>9 DEF Runs, w, ops, b

\* All writes are done.
LEMMA RunsDone ==
  ASSUME NEW v \in Contents, NEW S \in Contents, NEW idx \in Seq(Block), NEW p \in 0..Len(idx),
         Runs(v, S, <<>>, idx, p)
  PROVE  /\ S = StateAfter(idx, p)
         /\ \A k \in Key : \E n \in p..Len(idx) : v[k] = StateAfter(idx, n)[k]
         /\ Len(idx) = p => v = S
<1>1. Len(idx) \in Nat /\ p \in p..Len(idx) /\ Len(<<>>) = 0
  OBVIOUS
<1>2. S = StateAfter(idx, p)
  BY LegalNothing DEF Runs
<1>3. ASSUME NEW k \in Key
      PROVE  v[k] = S[k] \/ \E n \in p..Len(idx) : v[k] = StateAfter(idx, n)[k]
  BY <1>1 DEF Runs
<1>4. ASSUME NEW k \in Key PROVE \E n \in p..Len(idx) : v[k] = StateAfter(idx, n)[k]
  BY <1>1, <1>2, <1>3
<1>5. ASSUME Len(idx) = p PROVE v = S
  <2>1. \A k \in Key : v[k] = S[k]
    BY <1>1, <1>2, <1>4, <1>5
  <2> QED BY <2>1 DEF Contents
<1> QED BY <1>2, <1>4, <1>5

\* The first write runs.
LEMMA RunsExecute ==
  ASSUME NEW v \in Contents, NEW S \in Contents, NEW q \in Seq(Op), q # <<>>,
         NEW idx, NEW p, Runs(v, S, q, idx, p)
  PROVE  LET op == Head(q)
         IN  /\ op \in LegalOps(S) /\ op.post \in Contents /\ Tail(q) \in Seq(Op)
             /\ op.kind = "insert" => v[op.key] = NoRow
             /\ op.kind = "update" => v[op.key] # NoRow
             /\ Runs([v EXCEPT ![op.key] = op.post[op.key]], op.post, Tail(q), idx, p)
<1> DEFINE op == Head(q)
           r == Tail(q)
           k == op.key
           w == [v EXCEPT ![k] = op.post[k]]
<1>1. /\ op \in LegalOps(S) /\ op.post \in Contents /\ r \in Seq(Op)
      /\ Legal(r, op.post) /\ End(r, op.post) = End(q, S)
  BY LegalHead DEF Runs
<1>2. /\ op \in Op /\ op.post = [S EXCEPT ![k] = op.post[k]]
      /\ op.kind \in {"insert", "upsert"} => S[k] = NoRow
      /\ op.kind \in {"update", "delete"} => S[k] # NoRow
  BY <1>1, LegalOp
<1>3. /\ Len(q) \in Nat /\ Len(r) = Len(q) - 1 /\ 1 \in 1..Len(q) /\ q[1] = op
      /\ \A i \in 1..Len(r) : i + 1 \in 1..Len(q) /\ r[i] = q[i + 1]
      /\ \A i \in 1..Len(q) : i # 1 => i - 1 \in 1..Len(r) /\ r[i - 1] = q[i]
  <2>1. /\ Len(q) \in Nat /\ Len(r) = Len(q) - 1 /\ 1 \in 1..Len(q) /\ q[1] = op
        /\ \A i \in 1..Len(r) : i + 1 \in 1..Len(q) /\ r[i] = q[i + 1]
    OBVIOUS
  <2>2. ASSUME NEW i \in 1..Len(q), i # 1 PROVE i - 1 \in 1..Len(r) /\ r[i - 1] = q[i]
    <3> DEFINE j == i - 1
    <3>1. j \in 1..Len(r) /\ j + 1 = i
      BY <2>1, <2>2
    <3> HIDE DEF j
    <3>2. r[j] = q[i]
      BY <2>1, <3>1
    <3> QED BY <3>1, <3>2 DEF j
  <2> QED BY <2>1, <2>2
<1>4. k \in Key
  BY <1>2 DEF Op
<1> HIDE DEF op, r
<1>5. ASSUME op.kind = "insert" PROVE v[k] = NoRow
  <2>1. S[k] = NoRow
    BY <1>2, <1>5
  <2>2. HasStatement(q)
    BY <1>3, <1>5 DEF HasStatement, Statements
  <2>3. ASSUME NEW i \in 1..Len(q), q[i].key = k, q[i].kind \notin Statements,
               \A j \in 1..(i - 1) : q[j].key # k
        PROVE FALSE
    <3>1. i # 1
      BY <1>3, <1>5, <2>3 DEF Statements
    <3>2. 1 \in 1..(i - 1)
      BY <1>3, <3>1
    <3> QED BY <1>3, <2>3, <3>2
  <2> QED BY <1>4, <2>1, <2>2, <2>3 DEF Runs
<1>6. op.kind = "update" => v[k] # NoRow
  BY <1>2, <1>4 DEF Runs
<1>7. ASSUME NEW j \in Key, j # k
      PROVE  /\ w[j] = v[j] /\ op.post[j] = S[j]
             /\ \/ w[j] = op.post[j]
                \/ \E i \in 1..Len(r) : /\ r[i].key = j /\ r[i].kind \notin Statements
                                        /\ \A h \in 1..(i - 1) : r[h].key # j
                \/ ~HasStatement(r) /\ \E n \in p..Len(idx) : w[j] = StateAfter(idx, n)[j]
  <2>1. w[j] = v[j] /\ op.post[j] = S[j]
    BY <1>2, <1>7 DEF Contents
  <2>2. CASE v[j] = S[j]
    BY <2>1, <2>2
  <2>3. CASE \E i \in 1..Len(q) : /\ q[i].key = j /\ q[i].kind \notin Statements
                                  /\ \A h \in 1..(i - 1) : q[h].key # j
    <3>1. PICK i \in 1..Len(q) : /\ q[i].key = j /\ q[i].kind \notin Statements
                                 /\ \A h \in 1..(i - 1) : q[h].key # j
      BY <2>3
    <3>2. i - 1 \in 1..Len(r) /\ r[i - 1] = q[i]
      BY <1>3, <1>7, <3>1
    <3>3. \A h \in 1..((i - 1) - 1) : h + 1 \in 1..(i - 1) /\ r[h] = q[h + 1]
      BY <1>3, <3>2
    <3> QED BY <2>1, <3>1, <3>2, <3>3
  <2>4. CASE ~HasStatement(q) /\ \E n \in p..Len(idx) : v[j] = StateAfter(idx, n)[j]
    <3>1. ~HasStatement(r)
      BY <1>3, <2>4 DEF HasStatement
    <3> QED BY <2>1, <2>4, <3>1
  <2> QED BY <2>1, <2>2, <2>3, <2>4 DEF Runs
<1>8. w[k] = op.post[k]
  BY <1>4 DEF Contents
<1>9. Runs(w, op.post, r, idx, p)
  <2>1. End(r, op.post) = StateAfter(idx, p)
    BY <1>1 DEF Runs
  <2>2. \A j \in Key : op.post[j] # NoRow => w[j] # NoRow
    BY <1>7, <1>8 DEF Runs
  <2> HIDE DEF w
  <2> QED BY <1>1, <1>7, <1>8, <2>1, <2>2 DEF Runs
<1> QED BY <1>1, <1>5, <1>6, <1>9 DEF op, r

-----------------------------------------------------------------------------
(* A block is collected.                                                    *)

LEMMA RowTypes ==
  ASSUME TypeInv
  PROVE  /\ chain \in Seq(Block) /\ lib \in Nat /\ lib <= Len(chain) /\ Len(chain) \in Nat
         /\ pg \in Tables /\ pg.log \in Log /\ pg.idx \in Seq(Block) /\ pg.rows \in Contents
         /\ pg.position \in Nat /\ Len(pg.idx) \in Nat /\ pg.position <= Len(pg.idx)
         /\ tx \in Tables /\ tx.log \in Log /\ tx.idx \in Seq(Block) /\ tx.rows \in Contents
         /\ tx.position \in Nat /\ Len(tx.idx) \in Nat
         /\ buf \in Buffers /\ View \in Contents /\ queue \in Seq(Op)
         /\ current \in Nat /\ floor \in Nat /\ next \in Nat \ {0} /\ collected \in Nat
         /\ begun \in BOOLEAN
         /\ blk \in ResponseType /\ blk.branch \in Seq(Block) /\ Num \in Nat /\ blk.lib \in Nat
<1>1. TypeOK /\ pg.log \in Log /\ tx.log \in Log /\ pg.position <= Len(pg.idx)
  BY DEF TypeInv
<1>2. /\ chain \in Seq(Block) /\ lib \in 0..Len(chain) /\ queue \in Seq(Op)
      /\ current \in Nat /\ floor \in Nat /\ next \in Nat \ {0} /\ collected \in Nat
      /\ buf \in Buffers /\ begun \in BOOLEAN
  BY <1>1 DEF TypeOK
<1>3. pg \in Tables /\ tx \in Tables
  BY <1>1 DEF TypeOK
<1>4. /\ pg.idx \in Seq(Block) /\ pg.rows \in Contents /\ pg.position \in Nat
      /\ tx.idx \in Seq(Block) /\ tx.rows \in Contents /\ tx.position \in Nat
  BY <1>3 DEF Tables
<1>5. blk \in ResponseType /\ blk.branch \in Seq(Block) /\ blk.lib \in Nat
  BY <1>1 DEF TypeOK, ResponseType
<1>6. View \in Contents
  BY <1>2, <1>4, FlushedType DEF View
<1> QED BY <1>1, <1>2, <1>3, <1>4, <1>5, <1>6 DEF Num

\* The index after block n of the branch c.
Indexed(idx, n, c) ==
  IF n <= Len(idx) /\ idx[n] = c[n] THEN idx ELSE Append(SubSeq(idx, 1, n - 1), c[n])

LEMMA IndexedBranch ==
  ASSUME NEW idx \in Seq(Block), NEW c \in Seq(Block), NEW n \in 1..Len(c),
         Valid(idx), Valid(c), Agrees(idx, c, n - 1),
         Len(idx) = n - 1 \/ (n <= Len(idx) /\ idx[n] = c[n])
  PROVE  LET new == Indexed(idx, n, c)
         IN  /\ new \in Seq(Block) /\ Valid(new) /\ Agrees(new, c, n) /\ n <= Len(new)
             /\ Agrees(idx, new, Len(idx)) /\ new[n] = c[n]
             /\ IF n <= Len(idx) THEN new = idx ELSE Len(new) = n
<1> DEFINE new == Indexed(idx, n, c)
<1>1. /\ n \in Nat \ {0} /\ n - 1 \in 0..Len(c) /\ Len(c) \in Nat /\ Len(idx) \in Nat
      /\ c[n] \in Block /\ c[n] \in BlocksOver(StateAfter(c, n - 1))
  BY DEF Valid
<1>2. CASE n <= Len(idx)
  <2>1. new = idx /\ idx[n] = c[n]
    BY <1>1, <1>2 DEF Indexed
  <2>2. Agrees(idx, c, n)
    BY <1>1, <1>2, <2>1 DEF Agrees
  <2>3. Agrees(idx, idx, Len(idx))
    BY <1>1 DEF Agrees
  <2> QED BY <1>2, <2>1, <2>2, <2>3
<1>3. CASE Len(idx) = n - 1
  <2>1. ~(n <= Len(idx)) /\ SubSeq(idx, 1, n - 1) = idx
    BY <1>1, <1>3
  <2>2. new = Append(idx, c[n])
    BY <2>1 DEF Indexed
  <2>3. /\ new \in Seq(Block) /\ Len(new) = n /\ new[n] = c[n]
        /\ \A i \in 1..Len(idx) : new[i] = idx[i]
    BY <1>1, <1>3, <2>2
  <2> HIDE DEF new
  <2>4. Agrees(idx, new, Len(idx)) /\ Agrees(new, idx, Len(idx))
    BY <1>1, <1>3, <2>3 DEF Agrees
  <2>5. Agrees(new, c, n)
    BY <1>1, <1>3, <2>3 DEF Agrees
  <2>6. StateAfter(idx, n - 1) = StateAfter(c, n - 1)
    BY <1>1, AgreesFacts
  <2>7. Valid(new)
    <3>1. new[Len(idx) + 1] \in BlocksOver(StateAfter(idx, Len(idx)))
      BY <1>1, <1>3, <2>3, <2>6
    <3>2. Len(new) = Len(idx) + 1
      BY <1>1, <1>3, <2>3
    <3> QED BY <2>3, <2>4, <3>1, <3>2, ValidNext
  <2> QED BY <1>1, <2>1, <2>3, <2>4, <2>5, <2>7 DEF new
<1> QED BY <1>1, <1>2, <1>3

\* The tables t become u when block n of the response r is collected.
Collected(r, n, t, u) ==
  /\ u = [t EXCEPT !.idx = u.idx, !.blocks = u.blocks, !.log = u.log]
  /\ u.idx \in Seq(Block) /\ Agrees(u.idx, r.branch, n) /\ n <= Len(u.idx)
  /\ Agrees(t.idx, u.idx, Len(t.idx)) /\ u.idx[n] = r.branch[n]
  /\ IF n <= Len(t.idx) THEN u.idx = t.idx ELSE Len(u.idx) = n
  /\ Sound(u)
  /\ n <= r.lib => u = [t EXCEPT !.idx = u.idx]
  /\ n > r.lib => Recorded(u.blocks, n)
  /\ \A m \in Nat : m > r.lib \/ n <= r.lib =>
       /\ m # 0 /\ Recorded(t.blocks, m) => Recorded(u.blocks, m)
       /\ m <= n => \A v, old : Restores(v, From(t.log, m), old)
                                   => Restores(v, From(u.log, m), old)

LEMMA CollectRows ==
  ASSUME TypeInv, NEW r \in ResponseType, NEW n \in Nat \ {0}, n = Len(r.branch),
         NEW t \in Tables, t.log \in Log, NEW s, Collect(r, t, s),
         Sound(t), Valid(r.branch), Agrees(t.idx, r.branch, n - 1),
         Len(t.idx) = n - 1 \/ (n <= r.lib /\ n <= Len(t.idx) /\ t.idx[n] = r.branch[n])
  PROVE  Collected(r, n, t, tx')
<1> USE DEF Collected
<1> DEFINE rev == n > r.lib
           u == PrunedUpTo(r)
           new == Indexed(t.idx, n, r.branch)
           all == t.blocks \cup (IF rev THEN {[num |-> n, id |-> r.branch]} ELSE {})
           blocks == {b \in all : b.num > u}
           log1 == IF rev THEN RecordLogged(t.log, n) ELSE t.log
           log == {e \in log1 : e.block > u}
<1>1. /\ r.branch \in Seq(Block) /\ r.lib \in Nat /\ n \in 1..Len(r.branch) /\ n - 1 \in Nat
      /\ t.idx \in Seq(Block) /\ Len(t.idx) \in Nat /\ n \in Nat
      /\ t.blocks \in SUBSET [num: Nat \ {0}, id: Seq(Block)]
  BY DEF ResponseType, Tables
<1>2. tx' = [t EXCEPT !.idx = new, !.blocks = blocks, !.log = log]
  BY DEF Collect, Indexed
<1>3. tx'.idx = new /\ tx'.blocks = blocks /\ tx'.log = log
  BY <1>2 DEF Tables
<1>4. /\ new \in Seq(Block) /\ Valid(new) /\ Agrees(new, r.branch, n) /\ n <= Len(new)
      /\ Agrees(t.idx, new, Len(t.idx)) /\ new[n] = r.branch[n]
      /\ IF n <= Len(t.idx) THEN new = t.idx ELSE Len(new) = n
  BY <1>1, IndexedBranch DEF Sound
<1>5. u \in Nat /\ (rev => u <= r.lib) /\ (~rev => u = 0)
  BY <1>1 DEF PrunedUpTo
<1> HIDE DEF new, u
<1>6. /\ log1 \in Log /\ Ordered(log1)
      /\ \A e \in log1 : /\ e \in Entry /\ e.block <= Len(new)
                         /\ e.key = BlockRecord => e.kind = "delete"
      /\ \A m \in 0..n : \A v, old : Restores(v, From(t.log, m), old) => Restores(v, From(log1, m), old)
  <2>0. t.log \in SUBSET Entry /\ IsFiniteSet(t.log) /\ Ordered(t.log)
    BY DEF Log, Sound
  <2>1. CASE rev
    <3>1. Len(t.idx) = n - 1 /\ Len(new) = n
      BY <1>1, <1>4, <2>1
    <3>2. \A e \in t.log : e.block <= n
      <4> SUFFICES ASSUME NEW e \in t.log PROVE e.block <= n
        OBVIOUS
      <4>1. e.block <= Len(t.idx) /\ e.block \in Nat
        BY <2>0 DEF Sound, Entry
      <4> QED BY <1>1, <3>1, <4>1
    <3>3. log1 = RecordLogged(t.log, n)
      BY <2>1
    <3>4. log1 \in Log
      BY <3>3, RecordLoggedType
    <3>5. /\ Ordered(log1) /\ \A e \in log1 : e.block <= n
          /\ \A m \in 0..n : \A v, old :
               Restores(v, From(t.log, m), old) => Restores(v, From(log1, m), old)
      BY <2>0, <3>2, <3>3, RecordRestores
    <3>6. \A e \in log1 : e.key = BlockRecord => e.kind = "delete"
      BY <3>3 DEF RecordLogged, Sound
    <3> HIDE DEF log1
    <3> QED BY <3>1, <3>4, <3>5, <3>6 DEF Log
  <2>2. CASE ~rev
    <3>1. log1 = t.log
      BY <2>2
    <3>2. \A e \in t.log : e.block <= Len(new)
      <4> SUFFICES ASSUME NEW e \in t.log PROVE e.block <= Len(new)
        OBVIOUS
      <4>1. e.block <= Len(t.idx) /\ e.block \in Nat /\ Len(new) \in Nat /\ Len(t.idx) <= Len(new)
        BY <1>4, <2>0 DEF Sound, Entry, Agrees
      <4> QED BY <1>1, <4>1
    <3> QED BY <2>0, <3>1, <3>2 DEF Sound, Log
  <2> QED BY <2>1, <2>2
<1> HIDE DEF log1
<1>7. Sound(tx')
  <2>1. ASSUME NEW b \in blocks PROVE Len(b.id) = b.num /\ Agrees(b.id, new, b.num)
    <3>1. CASE b \in t.blocks
      <4>1. /\ Len(b.id) = b.num /\ Agrees(b.id, t.idx, b.num) /\ b.id \in Seq(Block)
            /\ b.num \in Nat
        BY <1>1, <3>1 DEF Sound
      <4>2. b.num \in 0..Len(t.idx)
        BY <4>1 DEF Agrees
      <4>3. Agrees(t.idx, new, b.num)
        BY <1>1, <1>4, <4>2, AgreesFacts
      <4>4. b.num \in 0..b.num
        BY <4>1
      <4> QED BY <1>1, <1>4, <4>1, <4>3, <4>4, AgreesFacts
    <3>2. CASE b = [num |-> n, id |-> r.branch]
      BY <1>1, <1>4, <3>2, AgreesFacts
    <3> QED BY <3>1, <3>2
  <2>2. Ordered(log)
    <3>1. log \in SUBSET log1 /\ log1 \in SUBSET Entry
      BY <1>6 DEF Log
    <3>2. \A d, e \in log1 : d.block = e.block /\ d \in log => e \in log
      OBVIOUS
    <3> QED BY <1>6, <3>1, <3>2, OrderedPruned
  <2>3. \A e \in log : e.block <= Len(new) /\ (e.key = BlockRecord => e.kind = "delete")
    BY <1>6
  <2> HIDE DEF blocks, log
  <2> QED BY <1>3, <1>4, <2>1, <2>2, <2>3 DEF Sound
<1>8. n > r.lib => Recorded(tx'.blocks, n)
  <2> SUFFICES ASSUME n > r.lib PROVE Recorded(tx'.blocks, n)
    OBVIOUS
  <2>1. [num |-> n, id |-> r.branch] \in blocks
    BY <1>1, <1>5
  <2> QED BY <1>3, <2>1 DEF Recorded
<1>9. ASSUME NEW m \in Nat, m > r.lib \/ n <= r.lib
      PROVE  /\ m # 0 /\ Recorded(t.blocks, m) => Recorded(tx'.blocks, m)
             /\ m <= n => \A v, old : Restores(v, From(t.log, m), old)
                                         => Restores(v, From(tx'.log, m), old)
  <2>1. m > u \/ (u = 0 /\ ~rev)
    BY <1>1, <1>5, <1>9
  <2>2. m # 0 => m > u
    BY <1>5, <2>1
  <2>3. m # 0 /\ Recorded(t.blocks, m) => Recorded(tx'.blocks, m)
    BY <1>3, <2>2 DEF Recorded
  <2>4. From(log, m) = From(log1, m)
    <3>1. ASSUME NEW e \in log1, e.block >= m PROVE e \in log
      <4>1. e.block \in Nat \ {0}
        BY <1>6 DEF Entry
      <4> QED BY <1>5, <2>1, <3>1, <4>1
    <3>2. \A e \in From(log1, m) : e \in log
      BY <3>1 DEF From
    <3> QED BY <3>2, FromOfPart
  <2>5. m <= n => m \in 0..n
    OBVIOUS
  <2> HIDE DEF log, blocks
  <2> QED BY <1>3, <1>6, <2>3, <2>4, <2>5
<1>10. tx' = [t EXCEPT !.idx = tx'.idx, !.blocks = tx'.blocks, !.log = tx'.log]
  BY <1>2, <1>3
<1>11. n <= r.lib => tx' = [t EXCEPT !.idx = tx'.idx]
  <2> SUFFICES ASSUME n <= r.lib PROVE tx' = [t EXCEPT !.idx = tx'.idx]
    OBVIOUS
  <2>1. ~rev /\ u = 0
    BY <1>1, <1>5
  <2>2. log1 = t.log
    BY <2>1 DEF log1
  <2>3. log = t.log
    BY <1>6, <2>1, <2>2 DEF Entry
  <2>4. blocks = t.blocks
    BY <1>1, <2>1
  <2> HIDE DEF log, blocks
  <2> QED BY <1>2, <1>3, <2>3, <2>4 DEF Tables
<1> QED BY <1>3, <1>4, <1>7, <1>8, <1>9, <1>10, <1>11

-----------------------------------------------------------------------------
(* The chain.                                                               *)

LEMMA ChainMoves ==
  ASSUME TypeInv, Valid(chain), Extend \/ AdvanceLib \/ Fork
  PROVE  /\ chain' \in Seq(Block) /\ Valid(chain')
         /\ lib' \in Nat /\ lib <= lib' /\ Agrees(chain, chain', lib')
         /\ next' \in Nat \ {0} /\ next' <= next /\ (next' < next => lib' < next' /\ lib' = lib)
         /\ next - 1 <= Len(chain) => Agrees(chain, chain', next' - 1)
<1>1. /\ chain \in Seq(Block) /\ lib \in Nat /\ lib <= Len(chain) /\ Len(chain) \in Nat
      /\ next \in Nat \ {0}
  BY RowTypes
<1>2. CASE Extend
  <2>1. PICK b \in BlocksOver(StateAfter(chain, Len(chain))) : chain' = Append(chain, b)
    BY <1>2 DEF Extend
  <2>2. b \in Block
    BY <1>1, StateAfterType, BlocksOverType
  <2>3. /\ chain' \in Seq(Block) /\ Len(chain') = Len(chain) + 1 /\ chain'[Len(chain) + 1] = b
        /\ \A i \in 1..Len(chain) : chain'[i] = chain[i]
    BY <1>1, <2>1, <2>2
  <2>4. Agrees(chain', chain, Len(chain)) /\ Agrees(chain, chain', Len(chain))
    BY <1>1, <2>3 DEF Agrees
  <2>5. Valid(chain')
    BY <1>1, <2>1, <2>3, <2>4, ValidNext
  <2>6. \A m \in 0..Len(chain) : Agrees(chain, chain', m)
    BY <1>1, <2>3, <2>4, AgreesFacts
  <2>7. lib' = lib /\ next' = next
    BY <1>2 DEF Extend
  <2>8. Agrees(chain, chain', lib') /\ (next - 1 <= Len(chain) => Agrees(chain, chain', next' - 1))
    BY <1>1, <2>6, <2>7
  <2> QED BY <1>1, <2>3, <2>5, <2>7, <2>8
<1>3. CASE AdvanceLib
  <2>1. chain' = chain /\ lib' = lib + 1 /\ lib < Len(chain) /\ next' = next
    BY <1>3 DEF AdvanceLib
  <2>2. \A m \in 0..Len(chain) : Agrees(chain, chain', m)
    BY <1>1, <2>1 DEF Agrees
  <2>3. Agrees(chain, chain', lib') /\ (next - 1 <= Len(chain) => Agrees(chain, chain', next' - 1))
    BY <1>1, <2>1, <2>2
  <2> QED BY <1>1, <2>1, <2>3
<1>4. CASE Fork
  <2>1. PICK f \in (lib + 1)..Len(chain) : \E b \in BlocksOver(StateAfter(chain, f - 1)) :
           chain' = Append(SubSeq(chain, 1, f - 1), b) /\ next' = Low(next, f)
    BY <1>4 DEF Fork
  <2>2. PICK b \in BlocksOver(StateAfter(chain, f - 1)) :
           chain' = Append(SubSeq(chain, 1, f - 1), b) /\ next' = Low(next, f)
    BY <2>1
  <2>3. f \in Nat \ {0} /\ f - 1 \in 0..Len(chain) /\ lib < f /\ lib \in 0..(f - 1)
    BY <1>1
  <2> DEFINE kept == SubSeq(chain, 1, f - 1)
  <2>4. /\ kept \in Seq(Block) /\ Len(kept) = f - 1 /\ Agrees(kept, chain, f - 1)
    BY <1>1, <2>3, PrefixOf
  <2>5. b \in Block /\ StateAfter(kept, f - 1) = StateAfter(chain, f - 1)
    <3> HIDE DEF kept
    <3>1. f - 1 \in Nat /\ f - 1 \in 0..(f - 1)
      BY <2>3
    <3>2. StateAfter(kept, f - 1) = StateAfter(chain, f - 1)
      BY <1>1, <2>4, <3>1, AgreesFacts
    <3>3. b \in Block
      BY <1>1, <2>3, StateAfterType, BlocksOverType
    <3> QED BY <3>2, <3>3
  <2>6. chain' = Append(kept, b)
    BY <2>2
  <2> HIDE DEF kept
  <2>7. /\ chain' \in Seq(Block) /\ Len(chain') = f /\ chain'[f] = b
        /\ \A i \in 1..(f - 1) : chain'[i] = kept[i]
    BY <2>3, <2>4, <2>5, <2>6
  <2>8. Agrees(chain', kept, f - 1)
    BY <2>3, <2>4, <2>7 DEF Agrees
  <2>9. Valid(chain')
    <3>1. Valid(kept)
      BY <1>1, <2>3, <2>4, ValidPrefix
    <3>2. Len(chain') = Len(kept) + 1 /\ Len(kept) + 1 = f /\ Len(kept) = f - 1
      BY <2>3, <2>4, <2>7
    <3> QED BY <2>2, <2>4, <2>5, <2>7, <2>8, <3>1, <3>2, ValidNext
  <2>10. \A m \in 0..(f - 1) : Agrees(chain, chain', m)
    <3>1. Agrees(chain, kept, f - 1) /\ Agrees(kept, chain', f - 1)
      BY <1>1, <2>3, <2>4, <2>7, <2>8, AgreesFacts
    <3>2. f - 1 \in 0..(f - 1) /\ f - 1 \in Nat
      BY <2>3
    <3>3. Agrees(chain, chain', f - 1)
      BY <1>1, <2>4, <2>7, <3>1, <3>2, AgreesFacts
    <3> QED BY <1>1, <2>7, <3>2, <3>3, AgreesFacts
  <2>11. lib' = lib
    BY <1>4 DEF Fork
  <2>12. /\ next' \in Nat \ {0} /\ next' <= next /\ next' - 1 \in 0..(f - 1)
         /\ next' < next => lib < next'
    BY <1>1, <2>2, <2>3 DEF Low
  <2>13. Agrees(chain, chain', lib') /\ Agrees(chain, chain', next' - 1)
    BY <2>3, <2>10, <2>11, <2>12
  <2> QED BY <1>1, <2>7, <2>9, <2>11, <2>12, <2>13
<1> QED BY <1>2, <1>3, <1>4

LEMMA ChainRows ==
  ASSUME TypeInv, RowsInv, Extend \/ AdvanceLib \/ Fork
  PROVE  RowsInv'
<1>1. /\ chain' \in Seq(Block) /\ Valid(chain')
      /\ lib' \in Nat /\ lib <= lib' /\ Agrees(chain, chain', lib')
      /\ next' \in Nat \ {0} /\ next' <= next /\ (next' < next => lib' < next' /\ lib' = lib)
      /\ next - 1 <= Len(chain) => Agrees(chain, chain', next' - 1)
  BY ChainMoves DEF RowsInv
<1>2. UNCHANGED <<pg, tx, buf, begun, pc, current, collected, queue, blk>>
  BY DEF Extend, AdvanceLib, Fork, txVars, memVars
<1>3. UNCHANGED <<View, Num, Reversible, Active>>
  BY <1>2 DEF View, Num, Reversible, Active
<1>4. /\ chain \in Seq(Block) /\ lib \in Nat /\ Len(chain) \in Nat /\ next \in Nat \ {0}
      /\ pg \in Tables /\ tx.idx \in Seq(Block) /\ current \in Nat
      /\ blk.branch \in Seq(Block) /\ Num \in Nat /\ blk.lib \in Nat
  BY RowTypes
\* What agreed with the chain as far as the reader was served still does.
<1>5. ASSUME NEW c \in Seq(Block), Agrees(c, chain, next - 1)
      PROVE  Agrees(c, chain', next' - 1)
  <2>1. /\ next - 1 \in Nat /\ next' - 1 \in 0..(next - 1) /\ next' - 1 \in Nat
        /\ next' - 1 \in 0..(next' - 1)
    <3>1. next \in Nat \ {0} /\ next' \in Nat \ {0} /\ next' <= next
      BY <1>1, <1>4
    <3>2. \A a, b \in Nat \ {0} : b <= a =>
             a - 1 \in Nat /\ b - 1 \in 0..(a - 1) /\ b - 1 \in Nat /\ b - 1 \in 0..(b - 1)
      OBVIOUS
    <3> QED BY <3>1, <3>2
  <2>2. next - 1 <= Len(chain) /\ Agrees(c, chain, next' - 1)
    BY <1>4, <1>5, <2>1, AgreesFacts DEF Agrees
  <2>3. Agrees(chain, chain', next' - 1)
    BY <1>1, <2>2
  <2> QED BY <1>1, <1>4, <2>1, <2>2, <2>3, AgreesFacts
<1>6. PgInv'
  BY <1>1, <1>2, <1>4, DurableStays DEF RowsInv, PgInv
<1>7. TxInv'
  <2> SUFFICES ASSUME Active PROVE TxInv'
    BY <1>3 DEF TxInv
  <2>1. Behind(tx.idx, current, chain', lib')
    BY <1>1, <1>4, BehindStays DEF RowsInv, TxInv
  <2>2. \A n \in 1..current : Live(n, tx.idx, chain', lib') => Live(n, tx.idx, chain, lib)
    BY <1>1, <1>4, LiveStays
  <2>3. ASSUME NEW n \in 1..current, next' <= n
        PROVE  next <= n \/ Live(n, tx.idx, chain, lib)
    BY <1>1, <1>4, <2>3 DEF Live
  <2> QED BY <1>2, <1>3, <2>1, <2>2, <2>3 DEF RowsInv, TxInv
<1>8. RunInv' /\ BufInv'
  BY <1>2, <1>3 DEF RowsInv, RunInv, BufInv
<1>9. IdleInv'
  <2>1. ASSUME pc = "idle"
        PROVE  /\ next' <= current + 1 /\ Agrees(tx.idx, chain', next' - 1)
               /\ collected > 0 => next' = current + 1 /\ current <= lib'
               /\ current > lib' \/ next' <= current => current > lib \/ next <= current
    <3>1. /\ next <= current + 1 /\ Agrees(tx.idx, chain, next - 1)
          /\ collected > 0 => next = current + 1 /\ current <= lib
      BY <2>1 DEF RowsInv, IdleInv
    <3> QED BY <1>1, <1>4, <1>5, <3>1
  <2> QED BY <1>2, <2>1 DEF RowsInv, IdleInv
<1>10. BlkInv'
  <2> SUFFICES ASSUME pc \in {"undo", "execute"} PROVE BlkInv'
    BY <1>2 DEF BlkInv
  <2>1. /\ blk.lib <= lib /\ Agrees(blk.branch, chain, Low(Num, blk.lib))
        /\ next <= Num + 1 /\ Agrees(blk.branch, chain, next - 1)
        /\ next <= Num => next > blk.lib
    BY DEF RowsInv, BlkInv
  <2>2. /\ blk.lib <= lib' /\ next' <= Num + 1 /\ (next' <= Num => next' > blk.lib)
    BY <1>1, <1>4, <2>1
  <2>3. Agrees(blk.branch, chain', next' - 1)
    BY <1>4, <1>5, <2>1
  <2>4. Agrees(blk.branch, chain', Low(Num, blk.lib))
    <3> DEFINE m == Low(Num, blk.lib)
    <3>1. m \in 0..lib' /\ m \in Nat /\ m \in 0..m
      BY <1>1, <1>4, <2>1 DEF Low
    <3> HIDE DEF m
    <3>2. Agrees(chain, chain', m)
      BY <1>1, <1>4, <3>1, AgreesFacts
    <3> QED BY <1>1, <1>4, <2>1, <3>1, <3>2, AgreesFacts DEF m
  <2> QED BY <1>2, <1>3, <2>2, <2>3, <2>4 DEF RowsInv, BlkInv
<1> QED BY <1>1, <1>6, <1>7, <1>8, <1>9, <1>10 DEF RowsInv

-----------------------------------------------------------------------------
(* The process starts and stops.                                            *)

LEMMA RowsInit == Init => RowsInv
<1> SUFFICES ASSUME Init PROVE RowsInv
  OBVIOUS
<1>1. /\ chain = <<>> /\ lib = 0 /\ pc = "down" /\ pg.rewinding = 0
      /\ pg.rows = Empty /\ pg.log = {} /\ pg.blocks = {} /\ pg.position = 0 /\ pg.idx = <<>>
  BY DEF Init
<1>2. Valid(<<>>) /\ Len(<<>>) = 0
  BY DEF Valid
<1>3. Sound(pg)
  BY <1>1, <1>2 DEF Sound, Ordered
<1>4. Behind(pg.idx, pg.position, chain, lib)
  BY <1>1, <1>2 DEF Behind
<1>5. \A k \in Key : \E n \in pg.position..Len(pg.idx) : pg.rows[k] = StateAfter(pg.idx, n)[k]
  <2>1. 0 \in pg.position..Len(pg.idx) /\ pg.rows = StateAfter(pg.idx, 0)
    BY <1>1, <1>2 DEF StateAfter
  <2> QED BY <2>1
<1>6. Durable(pg, chain, lib)
  BY <1>1, <1>2, <1>3, <1>4, <1>5 DEF Durable
<1> QED BY <1>1, <1>2, <1>6
        DEF RowsInv, PgInv, TxInv, RunInv, BufInv, IdleInv, BlkInv, Active

LEMMA StopRows ==
  ASSUME RowsInv, Honest, Crash \/ (Die /\ pg.rewinding = 0) \/ WatchdogExit
  PROVE  RowsInv'
<1>1. pc' \in {"down", "dead"} /\ UNCHANGED <<chain, lib, pg>>
  BY DEF Crash, Die, WatchdogExit, Stopped, chainVars
<1>2. pg.rewinding = 0
  BY DEF Crash, WatchdogExit, Honest, RowsInv, IdleInv
<1> QED BY <1>1, <1>2 DEF RowsInv, PgInv, TxInv, RunInv, BufInv, IdleInv, BlkInv, Active

\* What startProcessing drops is not needed any more.
LEMMA StartDurable ==
  ASSUME TypeInv, RowsInv, Start
  PROVE  /\ pg'.rows = pg.rows /\ pg'.idx = pg.idx /\ pg'.position = pg.position
         /\ pg'.rewinding = 0 /\ Durable(pg', chain, lib)
<1>1. /\ pg \in Tables /\ pg.log \in Log /\ pg.idx \in Seq(Block) /\ pg.position \in Nat
      /\ MaxLag \in Nat /\ MaxReversibleWindow \in Nat /\ MaxLag <= MaxReversibleWindow
  BY RowTypes, WindowTypes
<1> DEFINE log == {e \in pg.log : e.block >= ArmedFloor}
           blocks == {b \in pg.blocks : b.num >= ArmedFloor}
<1>2. pc = "down" /\ pg' = [pg EXCEPT !.log = log, !.blocks = blocks]
  BY DEF Start
<1>3. pg.rewinding = 0
  BY <1>2 DEF RowsInv, IdleInv
<1>4. Durable(pg, chain, lib)
  BY <1>3 DEF RowsInv, PgInv
<1>5. /\ pg'.rows = pg.rows /\ pg'.idx = pg.idx /\ pg'.position = pg.position
      /\ pg'.rewinding = 0 /\ pg'.log = log /\ pg'.blocks = blocks
  BY <1>1, <1>2, <1>3 DEF Tables
<1>6. ArmedFloor \in Nat
      /\ \A n \in Nat \ {0} : n > pg.position - MaxLag => n >= ArmedFloor
  BY <1>1 DEF ArmedFloor, High
<1>7. Ordered(log)
  <2>1. log \in SUBSET pg.log /\ pg.log \in SUBSET Entry
    BY <1>1 DEF Log
  <2>2. \A d, e \in pg.log : d.block = e.block /\ d \in log => e \in log
    OBVIOUS
  <2> QED BY <1>4, <2>1, <2>2, OrderedPruned DEF Durable, Sound
<1>8. Sound(pg')
  BY <1>4, <1>5, <1>7 DEF Durable, Sound
<1>9. ASSUME NEW n \in 1..Len(pg.idx), Live(n, pg.idx, chain, lib)
      PROVE  /\ Recorded(blocks, n) /\ Restored(pg.rows, log, pg.idx, n)
             /\ n > pg.position - MaxLag
  <2>1. Recorded(pg.blocks, n) /\ Restored(pg.rows, pg.log, pg.idx, n) /\ n > pg.position - MaxLag
    BY <1>4, <1>9 DEF Durable
  <2>2. n >= ArmedFloor /\ n \in Nat
    BY <1>6, <2>1
  <2>3. Recorded(blocks, n)
    BY <2>1, <2>2 DEF Recorded
  <2>4. From(log, n) = From(pg.log, n)
    <3>1. ASSUME NEW e \in From(pg.log, n) PROVE e \in log
      <4>1. e \in pg.log /\ e.block \in Nat /\ e.block >= n
        BY <1>1 DEF From, Log, Entry
      <4> QED BY <1>6, <2>2, <4>1
    <3> QED BY <3>1, FromOfPart
  <2> HIDE DEF log
  <2> QED BY <2>1, <2>3, <2>4 DEF Restored
<1> HIDE DEF log, blocks
<1> QED BY <1>4, <1>5, <1>8, <1>9 DEF Durable

\* A block below the checkpoint that has left the chain is asked for.
LEMMA StartServed ==
  ASSUME NEW t \in Tables, NEW l, chain \in Seq(Block), Durable(t, chain, l),
         t.position <= Len(t.idx), NEW n \in FirstServed(t.blocks, t.position + 1)
  PROVE  /\ n \in Nat \ {0} /\ n <= t.position + 1 /\ Agrees(t.idx, chain, n - 1)
         /\ n <= t.position => ~Agrees(t.idx, chain, n)
<1>1. /\ t.idx \in Seq(Block) /\ Len(t.idx) \in Nat /\ t.position \in Nat
      /\ t.blocks \in SUBSET [num: Nat \ {0}, id: Seq(Block)]
  BY DEF Tables
<1> DEFINE start == t.position + 1
           orphans == {p \in t.blocks : p.num < start /\ ~OnBranch(p.id, chain)}
           asked == {b.num : b \in orphans} \cup {start}
<1>2. n \in asked /\ \A m \in asked : n <= m
  BY DEF FirstServed
<1>3. \A b \in t.blocks : Len(b.id) = b.num /\ Agrees(b.id, t.idx, b.num) /\ b.id \in Seq(Block)
  BY <1>1 DEF Durable, Sound
<1>4. \A b \in t.blocks : OnBranch(b.id, chain) <=> Agrees(t.idx, chain, b.num)
  <2> SUFFICES ASSUME NEW b \in t.blocks
               PROVE  OnBranch(b.id, chain) <=> Agrees(t.idx, chain, b.num)
    OBVIOUS
  <2>1. b.num \in Nat /\ b.num \in 0..b.num
    BY <1>1
  <2>2. Agrees(t.idx, b.id, b.num) /\ Agrees(b.id, t.idx, b.num)
    BY <1>1, <1>3, <2>1, AgreesFacts
  <2>3. Agrees(b.id, chain, b.num) <=> Agrees(t.idx, chain, b.num)
    BY <1>1, <1>3, <2>1, <2>2, AgreesFacts
  <2> QED BY <1>3, <2>3, OnBranchAgrees
<1>5. n \in Nat \ {0} /\ n <= start
  BY <1>1, <1>2
<1>6. n <= t.position => ~Agrees(t.idx, chain, n)
  <2> SUFFICES ASSUME n <= t.position PROVE ~Agrees(t.idx, chain, n)
    OBVIOUS
  <2>1. n # start
    BY <1>1
  <2>2. PICK b \in orphans : n = b.num
    BY <1>2, <2>1
  <2> QED BY <1>4, <2>2
<1>7. Agrees(t.idx, chain, n - 1)
  <2> SUFFICES ASSUME ~Agrees(t.idx, chain, n - 1) PROVE FALSE
    OBVIOUS
  <2>1. n - 1 # 0
    BY <1>1 DEF Agrees
  <2> DEFINE m == n - 1
  <2>2. m \in 1..Len(t.idx) /\ m < start /\ m < n /\ m \in Nat
    BY <1>1, <1>5, <2>1
  <2> HIDE DEF m
  <2>3. Live(m, t.idx, chain, l)
    BY DEF Live, m
  <2>4. PICK b \in t.blocks : b.num = m
    BY <2>2, <2>3 DEF Durable, Recorded
  <2>5. m \in asked
    BY <1>4, <2>2, <2>4 DEF m
  <2> HIDE DEF asked
  <2> QED BY <1>2, <1>5, <2>2, <2>5
<1> QED BY <1>5, <1>6, <1>7

LEMMA StartRows ==
  ASSUME TypeInv, TypeInv', RowsInv, Honest, Start
  PROVE  RowsInv'
<1> DEFINE t == pg'
<1>1. /\ chain \in Seq(Block) /\ lib \in Nat /\ pg.position \in Nat /\ pg.idx \in Seq(Block)
      /\ pg.position <= Len(pg.idx)
  BY RowTypes
<1>2. t \in Tables
  BY DEF TypeInv, TypeOK
<1>3. /\ t.idx = pg.idx /\ t.position = pg.position /\ t.rewinding = 0
      /\ Durable(t, chain, lib)
  BY StartDurable
<1>4. /\ t.idx \in Seq(Block) /\ Len(t.idx) \in Nat /\ t.position \in 0..Len(t.idx)
      /\ t.rows \in Contents
  BY <1>1, <1>2, <1>3 DEF Tables
<1>5. /\ tx' = t /\ buf' = NoBuffers /\ begun' = FALSE /\ pc' = "idle" /\ collected' = 0
      /\ queue' = <<>> /\ current' = t.position /\ UNCHANGED <<chain, lib>>
      /\ next' \in FirstServed(t.blocks, t.position + 1)
  BY <1>3 DEF Start, Forget, Honest, StartBlock, chainVars
<1> HIDE DEF t
<1>6. /\ next' \in Nat \ {0} /\ next' <= t.position + 1 /\ Agrees(t.idx, chain, next' - 1)
      /\ next' <= t.position => ~Agrees(t.idx, chain, next')
  BY <1>1, <1>2, <1>3, <1>4, <1>5, StartServed
<1>7. View' = t.rows
  <2>1. View' = Flushed(t.rows, NoBuffers)
    BY <1>5 DEF View
  <2> QED BY <1>4, <2>1, FlushedNothing
<1>8. Sound(t) /\ Behind(t.idx, t.position, chain, lib)
  BY <1>3 DEF Durable
<1>9. ASSUME NEW n \in 1..t.position, Live(n, t.idx, chain, lib) \/ next' <= n
      PROVE  Restored(t.rows, t.log, t.idx, n) /\ Recorded(t.blocks, n)
  <2>1. n \in 1..Len(t.idx) /\ n \in Nat
    BY <1>4
  <2>2. CASE next' <= n
    <3>1. next' <= t.position /\ next' \in 0..n
      BY <1>4, <1>6, <2>2
    <3>2. ~Agrees(t.idx, chain, n)
      BY <1>1, <1>4, <1>6, <2>1, <3>1, AgreesFacts
    <3> QED BY <1>3, <2>1, <3>2 DEF Durable, Live
  <2>3. CASE Live(n, t.idx, chain, lib)
    BY <1>3, <2>1, <2>3 DEF Durable
  <2> QED BY <1>9, <2>2, <2>3
<1>10. PgInv'
  BY <1>3, <1>5 DEF PgInv, t
<1>11. TxInv'
  BY <1>5, <1>7, <1>8, <1>9 DEF TxInv
<1>12. RunInv'
  <2>1. \A n \in (t.position + 1)..Len(t.idx) : ~HasStatement(t.idx[n].ops)
    BY <1>4, <1>8 DEF Behind
  <2> DEFINE S == StateAfter(t.idx, t.position)
  <2>2. S \in Contents /\ Runs(t.rows, S, <<>>, t.idx, t.position)
    BY <1>1, <1>2, <1>3, <1>4, StateAfterType, RunsNothing
  <2>3. \A k \in Key : NoBuffers.upd[k] = NoRow
    BY <1>4, FlushedNothing
  <2> HIDE DEF S
  <2> QED BY <1>5, <1>7, <2>1, <2>2, <2>3 DEF RunInv
<1>13. BufInv' /\ BlkInv'
  BY <1>5 DEF BufInv, BlkInv
<1>14. IdleInv'
  <2>1. ASSUME t.position > lib \/ next' <= t.position PROVE Len(t.idx) = t.position
    <3> SUFFICES ASSUME t.position < Len(t.idx) PROVE FALSE
      BY <1>4
    <3>1. Len(t.idx) <= lib /\ Agrees(t.idx, chain, Len(t.idx))
      BY <1>8 DEF Behind
    <3>2. next' <= t.position
      BY <1>1, <1>4, <2>1, <3>1
    <3>3. next' \in 0..Len(t.idx)
      BY <1>4, <1>6, <3>2
    <3> QED BY <1>1, <1>4, <1>6, <3>1, <3>2, <3>3, AgreesFacts
  <2>2. t = [t EXCEPT !.idx = t.idx]
    BY <1>2 DEF Tables
  <2> QED BY <1>3, <1>5, <1>6, <2>1, <2>2 DEF IdleInv, t
<1>15. Valid(chain')
  BY <1>5 DEF RowsInv
<1> QED BY <1>10, <1>11, <1>12, <1>13, <1>14, <1>15 DEF RowsInv

-----------------------------------------------------------------------------
(* A block arrives.                                                         *)

LEMMA ServedBlock ==
  ASSUME TypeInv, WindowInv, RowsInv, Honest, Receiving, NEW r \in Responses
  PROVE  /\ r \in ResponseType /\ r.lib = lib /\ Len(r.branch) = next
         /\ Valid(r.branch) /\ Agrees(r.branch, chain, next)
         /\ next <= Len(chain) /\ next - lib <= MaxLag
         /\ Agrees(tx.idx, r.branch, next - 1)
<1>1. /\ chain \in Seq(Block) /\ lib \in Nat /\ lib <= Len(chain) /\ Len(chain) \in Nat
      /\ next \in Nat \ {0} /\ tx.idx \in Seq(Block)
  BY RowTypes
<1>2. pc = "idle" /\ next <= Served /\ next <= Len(chain)
  BY <1>1 DEF Receiving, Served
<1>3. r.branch = SubSeq(chain, 1, next) /\ r.lib = lib
  BY DEF Responses, Honest
<1>4. r \in ResponseType /\ Len(r.branch) = next /\ r.branch \in Seq(Block)
  BY ResponsesType DEF ResponseType
<1>5. Agrees(r.branch, chain, next)
  BY <1>1, <1>2, <1>3, PrefixOf
<1>6. Valid(r.branch)
  BY <1>1, <1>4, <1>5, ValidPrefix DEF RowsInv
<1>7. next - lib <= MaxLag
  BY <1>3, <1>4, ResponsesWindow
<1>8. Agrees(tx.idx, r.branch, next - 1)
  <2>1. Agrees(tx.idx, chain, next - 1)
    BY <1>2 DEF RowsInv, IdleInv
  <2>2. next - 1 \in Nat /\ next - 1 \in 0..next /\ next - 1 \in 0..(next - 1) /\ next \in Nat
    BY <1>1
  <2>3. Agrees(chain, r.branch, next - 1)
    BY <1>1, <1>4, <1>5, <2>2, AgreesFacts
  <2> QED BY <1>1, <1>4, <2>1, <2>2, <2>3, AgreesFacts
<1> QED BY <1>2, <1>3, <1>4, <1>5, <1>6, <1>7, <1>8

LEMMA NextBlockRows ==
  ASSUME TypeInv, TypeInv', WindowInv, RowsInv, Honest, NextBlock, ~Overlap'
  PROVE  RowsInv'
<1> DEFINE n == next
           p == current
           s == collected + 1
<1>1. /\ chain \in Seq(Block) /\ lib \in Nat /\ n \in Nat \ {0} /\ p \in Nat /\ collected \in Nat
      /\ tx \in Tables /\ tx.log \in Log /\ tx.idx \in Seq(Block) /\ tx.rows \in Contents
      /\ Len(tx.idx) \in Nat /\ queue \in Seq(Op) /\ View \in Contents /\ tx.position \in Nat
  BY RowTypes
<1>2. PICK r \in Responses : /\ Collect(r, tx, IF NearHead(r) THEN 1 ELSE DbGroupBlocks)
                             /\ begun' = (n > r.lib)
  BY DEF NextBlock
<1>3. /\ pc = "idle" /\ n = p + 1 /\ Receiving /\ next' = n + 1
      /\ UNCHANGED <<chain, lib, pg, buf>>
  BY DEF NextBlock, Receiving, chainVars
<1>4. /\ r \in ResponseType /\ r.lib = lib /\ Len(r.branch) = n
      /\ Valid(r.branch) /\ Agrees(r.branch, chain, n)
      /\ n <= Len(chain) /\ n - lib <= MaxLag /\ Agrees(tx.idx, r.branch, n - 1)
  BY <1>3, ServedBlock
<1>5. r.branch \in Seq(Block) /\ n \in 1..Len(r.branch)
  BY <1>1, <1>4 DEF ResponseType
<1>6. p \in 0..Len(tx.idx)
  BY <1>1, <1>3 DEF TypeInv
<1>7. /\ Sound(tx) /\ Behind(tx.idx, p, chain, lib)
      /\ \A m \in 1..p : Live(m, tx.idx, chain, lib) =>
           Restored(View, tx.log, tx.idx, m) /\ Recorded(tx.blocks, m)
  BY <1>3 DEF RowsInv, TxInv, Active
<1>8. /\ buf = NoBuffers /\ ~begun /\ tx = [pg EXCEPT !.idx = tx.idx] /\ pg.rewinding = 0
      /\ collected = 0 => queue = <<>>
  BY <1>3 DEF RowsInv, IdleInv
<1>9. Len(tx.idx) = n - 1 \/ (n <= r.lib /\ n <= Len(tx.idx) /\ tx.idx[n] = r.branch[n])
  <2> SUFFICES ASSUME p < Len(tx.idx)
               PROVE  n <= lib /\ n <= Len(tx.idx) /\ tx.idx[n] = r.branch[n]
    BY <1>1, <1>3, <1>4, <1>6
  <2>1. Len(tx.idx) <= lib /\ Agrees(tx.idx, chain, Len(tx.idx)) /\ n \in 1..Len(tx.idx)
    BY <1>1, <1>3, <1>7 DEF Behind
  <2> QED BY <1>1, <1>4, <2>1 DEF Agrees
<1>10. /\ tx' = [tx EXCEPT !.idx = tx'.idx, !.blocks = tx'.blocks, !.log = tx'.log]
       /\ tx'.idx \in Seq(Block) /\ Agrees(tx'.idx, r.branch, n) /\ n <= Len(tx'.idx)
       /\ Agrees(tx.idx, tx'.idx, Len(tx.idx)) /\ tx'.idx[n] = r.branch[n]
       /\ IF n <= Len(tx.idx) THEN tx'.idx = tx.idx ELSE Len(tx'.idx) = n
       /\ Sound(tx')
       /\ n <= lib => tx' = [tx EXCEPT !.idx = tx'.idx]
       /\ n > lib => Recorded(tx'.blocks, n)
       /\ \A m \in Nat : m > lib \/ n <= lib =>
            /\ m # 0 /\ Recorded(tx.blocks, m) => Recorded(tx'.blocks, m)
            /\ m <= n => \A v, old : Restores(v, From(tx.log, m), old)
                                        => Restores(v, From(tx'.log, m), old)
  <2> HIDE DEF n, p, s
  <2>1. PICK c : Collect(r, tx, c)
    BY <1>2
  <2>2. Collected(r, n, tx, tx')
    BY <1>1, <1>4, <1>7, <1>9, <2>1, CollectRows
  <2>3. r.lib = lib
    BY <1>4
  <2> QED BY <2>2, <2>3 DEF Collected
<1>11. /\ current' = n /\ collected' = s /\ queue' = queue \o tx'.idx[n].ops
       /\ pc' \in {"idle", "execute"} /\ (pc' = "execute" => blk' = r)
       /\ NearHead(r) => pc' = "execute"
  <2> DEFINE c == IF NearHead(r) THEN 1 ELSE DbGroupBlocks
  <2>1. /\ current' = n /\ collected' = s /\ queue' = queue \o r.branch[n].ops
        /\ pc' = (IF s >= c THEN "execute" ELSE "idle")
        /\ blk' = (IF s >= c THEN r ELSE NoBlk)
    BY <1>2, <1>4 DEF Collect
  <2>2. tx'.idx[n] = r.branch[n]
    BY <1>10
  <2>3. NearHead(r) => s >= c
    BY <1>1
  <2> HIDE DEF s, c
  <2> QED BY <2>1, <2>2, <2>3
<1>12. n > lib => NearHead(r)
  BY <1>1, <1>4 DEF NearHead
<1> HIDE DEF n, p, s
<1>13. /\ tx'.rows = tx.rows /\ tx'.position = tx.position /\ tx'.idx \in Seq(Block)
       /\ Len(tx'.idx) \in Nat
       /\ \A i \in 0..Len(tx.idx) : StateAfter(tx'.idx, i) = StateAfter(tx.idx, i)
  <2>1. tx'.rows = tx.rows /\ tx'.position = tx.position
    BY <1>1, <1>10 DEF Tables
  <2>2. tx'.idx \in Seq(Block) /\ Agrees(tx.idx, tx'.idx, Len(tx.idx))
    BY <1>10
  <2>3. \A i \in 0..Len(tx.idx) : StateAfter(tx'.idx, i) = StateAfter(tx.idx, i)
    BY <1>1, <2>2, AgreesFacts
  <2> QED BY <2>1, <2>2, <2>3
<1>14. View' = View /\ View = tx.rows
  BY <1>1, <1>3, <1>8, <1>13, FlushedNothing DEF View
<1>15. ASSUME n > lib
       PROVE  /\ pc' = "execute" /\ blk' = r /\ Num' = n /\ Reversible' /\ queue = <<>>
              /\ Len(tx.idx) = p /\ Len(tx'.idx) = n
  <2>1. pc' = "execute" /\ blk' = r
    BY <1>11, <1>12, <1>15
  <2>2. Num' = n /\ Reversible'
    BY <1>4, <1>15, <2>1 DEF Num, Reversible
  <2>3. collected' <= 1
    <3>1. collected' \in Nat
      BY <1>1, <1>11 DEF s
    <3> QED BY <2>1, <2>2, <3>1 DEF Overlap
  <2>4. collected = 0
    BY <1>1, <1>11, <2>3 DEF s
  <2>5. Len(tx.idx) = p
    BY <1>1, <1>3, <1>4, <1>9, <1>15 DEF n, p
  <2>6. Len(tx'.idx) = n
    BY <1>1, <1>3, <1>10, <2>5 DEF n, p
  <2> QED BY <1>8, <2>1, <2>2, <2>4, <2>5, <2>6
\* The rows are exactly those of the parent when the block can be reversed.
<1>16. PICK S \in Contents :
          /\ Runs(View, S, queue, tx.idx, p)
          /\ \A k \in Key : buf.upd[k] # NoRow => S[k] # NoRow /\ "update" \in OpKinds
  BY <1>3 DEF RowsInv, RunInv, p
<1>17. n > lib => View = S /\ S = StateAfter(tx.idx, p)
  BY <1>1, <1>6, <1>15, <1>16, RunsDone
<1>18. Agrees(tx'.idx, chain, n)
  <2>1. n \in 0..n /\ n \in Nat
    BY <1>1
  <2> QED BY <1>1, <1>4, <1>5, <1>10, <2>1, AgreesFacts
<1>19. TxInv'
  <2>1. Behind(tx'.idx, n, chain, lib)
    <3> SUFFICES ASSUME n < Len(tx'.idx) PROVE Behind(tx'.idx, n, chain, lib)
      BY DEF Behind
    <3>1. tx'.idx = tx.idx /\ p < Len(tx.idx)
      BY <1>1, <1>3, <1>10 DEF n, p
    <3>2. \A m \in (n + 1)..Len(tx.idx) : m \in (p + 1)..Len(tx.idx)
      BY <1>1, <1>3 DEF n, p
    <3> QED BY <1>7, <3>1, <3>2 DEF Behind
  <2>2. ASSUME NEW m \in 1..n, Live(m, tx'.idx, chain, lib) \/ n + 1 <= m
        PROVE  Restored(View, tx'.log, tx'.idx, m) /\ Recorded(tx'.blocks, m)
    <3>1. m > lib /\ m \in Nat /\ m # 0 /\ m <= n
      <4>1. m \in Nat /\ m # 0 /\ m \in 0..n /\ ~(n + 1 <= m)
        BY <1>1
      <4>2. Agrees(tx'.idx, chain, m)
        BY <1>1, <1>10, <1>18, <4>1, AgreesFacts
      <4> QED BY <1>1, <2>2, <4>1, <4>2 DEF Live
    <3>2. n > lib
      BY <1>1, <3>1
    <3>3. CASE m = n
      <4>1. From(tx.log, n) = {}
        <5> SUFFICES ASSUME NEW e \in tx.log PROVE ~(e.block >= n)
          BY DEF From
        <5>1. e.block \in Nat /\ e.block <= p
          BY <1>1, <1>7, <1>15, <3>2 DEF Sound, Log, Entry
        <5> QED BY <1>1, <1>3, <5>1 DEF n, p
      <4>2. StateAfter(tx'.idx, n - 1) = S
        <5>1. n - 1 = p /\ p \in 0..Len(tx.idx)
          BY <1>1, <1>3, <1>6 DEF n, p
        <5> QED BY <1>13, <1>17, <3>2, <5>1
      <4>3. Restores(View, From(tx.log, n), S)
        BY <1>17, <3>2, <4>1, RestoresNothing
      <4> QED BY <1>10, <3>1, <3>2, <3>3, <4>2, <4>3 DEF Restored
    <3>4. CASE m < n
      <4>1. m \in 1..p /\ m - 1 \in 0..Len(tx.idx)
        BY <1>1, <1>3, <1>6, <3>1, <3>4 DEF n, p
      <4>2. Restored(View, tx.log, tx.idx, m) /\ Recorded(tx.blocks, m)
        BY <1>7, <3>1, <4>1 DEF Live
      <4>3. StateAfter(tx'.idx, m - 1) = StateAfter(tx.idx, m - 1)
        BY <1>13, <4>1
      <4> QED BY <1>10, <3>1, <4>2, <4>3 DEF Restored
    <3> QED BY <1>1, <3>1, <3>3, <3>4
  <2>3. current' = n /\ next' = n + 1
    BY <1>3, <1>11
  <2> QED BY <1>3, <1>10, <1>11, <1>14, <2>1, <2>2, <2>3 DEF TxInv
<1>20. RunInv'
  <2>1. HasStatement(queue')
          \/ \A m \in (tx.position + 1)..Len(tx'.idx) : ~HasStatement(tx'.idx[m].ops)
    <3> DEFINE ops == tx'.idx[n].ops
    <3>0. n \in 1..Len(tx'.idx)
      BY <1>1, <1>10
    <3>1. ops \in Seq(Op)
      <4>1. tx'.idx[n] \in Block
        BY <1>13, <3>0
      <4> QED BY <4>1 DEF Block
    <3>2. queue' = queue \o ops
      BY <1>11
    <3> HIDE DEF ops
    <3>3. HasStatement(queue) \/ HasStatement(ops) => HasStatement(queue')
      <4>1. /\ Len(queue') = Len(queue) + Len(ops) /\ Len(queue) \in Nat /\ Len(ops) \in Nat
            /\ \A i \in 1..Len(queue) : i \in 1..Len(queue') /\ queue'[i] = queue[i]
            /\ \A i \in 1..Len(ops) : Len(queue) + i \in 1..Len(queue')
                                      /\ queue'[Len(queue) + i] = ops[i]
        BY <1>1, <3>1, <3>2
      <4> QED BY <4>1 DEF HasStatement
    <3>4. HasStatement(queue)
            \/ \A m \in (tx.position + 1)..Len(tx.idx) : ~HasStatement(tx.idx[m].ops)
      BY <1>3, <1>8 DEF RowsInv, RunInv
    <3>5. ASSUME NEW m \in (tx.position + 1)..Len(tx'.idx), HasStatement(tx'.idx[m].ops),
                 ~HasStatement(queue)
          PROVE  HasStatement(queue')
      <4>1. CASE m \in 1..Len(tx.idx)
        <5>1. tx'.idx[m] = tx.idx[m] /\ m \in (tx.position + 1)..Len(tx.idx)
          BY <1>1, <1>10, <4>1 DEF Agrees
        <5> QED BY <3>4, <3>5, <5>1
      <4>2. CASE m \notin 1..Len(tx.idx)
        <5>1. m = n
          BY SMTT(30), <1>1, <1>3, <1>6, <1>10, <1>13, <4>2 DEF n, p
        <5> QED BY <3>3, <3>5, <5>1 DEF ops
      <4> QED BY <4>1, <4>2
    <3> QED BY <3>3, <3>5
  <2>2. Runs(View, S, queue', tx'.idx, n)
    <3>1. p + 1 = n
      BY <1>3 DEF n, p
    <3>2. Len(tx.idx) = p \/ /\ tx'.idx = tx.idx
                             /\ \A m \in (p + 1)..Len(tx.idx) : ~HasStatement(tx.idx[m].ops)
      BY <1>1, <1>6, <1>7, <1>10, <3>1 DEF Behind
    <3>3. Runs(View, S, queue \o tx'.idx[p + 1].ops, tx'.idx, p + 1)
      BY <1>1, <1>6, <1>10, <1>16, <3>1, <3>2, RunsCollect DEF Sound
    <3> QED BY <1>11, <3>1, <3>3
  <2>3. pc' = "execute" /\ Reversible' => View = S
    <3> SUFFICES ASSUME pc' = "execute", Reversible' PROVE n > lib
      BY <1>17
    <3> QED BY <1>4, <1>11 DEF Reversible, Num
  <2> QED BY <1>3, <1>11, <1>13, <1>14, <1>16, <2>1, <2>2, <2>3 DEF RunInv
<1>21. BufInv'
  <2>1. \A k \in Key : buf.ins[k].kind = "none"
    BY <1>1, <1>8, FlushedNothing
  <2> QED BY <1>3, <1>8, <1>11, <2>1 DEF BufInv
<1>22. IdleInv'
  <2>1. ASSUME pc' = "idle"
        PROVE  /\ n <= lib /\ ~begun' /\ tx' = [pg EXCEPT !.idx = tx'.idx]
               /\ ~(n + 1 <= n) /\ s # 0
    <3>1. n <= lib
      BY <1>1, <1>11, <1>12, <2>1
    <3>2. tx' = [tx EXCEPT !.idx = tx'.idx]
      BY <1>10, <3>1
    <3>3. tx' = [pg EXCEPT !.idx = tx'.idx]
      BY <1>8, <3>2
    <3>4. ~begun'
      <4>1. ~(n > r.lib)
        BY <1>1, <1>4, <3>1
      <4> QED BY <1>2, <4>1 DEF n
    <3>5. ~(n + 1 <= n) /\ s # 0
      BY <1>1 DEF s
    <3> QED BY <3>1, <3>3, <3>4, <3>5
  <2>2. (n + 1) - 1 = n
    BY <1>1
  <2> QED BY <1>1, <1>3, <1>8, <1>11, <1>18, <2>1, <2>2 DEF IdleInv, n
<1>23. BlkInv'
  <2> SUFFICES ASSUME pc' = "execute" PROVE BlkInv'
    BY <1>11 DEF BlkInv
  <2>1. blk' = r /\ Num' = n /\ blk'.lib = lib /\ blk'.branch = r.branch
    BY <1>4, <1>11 DEF Num
  <2>2. Agrees(r.branch, chain, Low(n, lib)) /\ Agrees(r.branch, chain, (n + 1) - 1)
    <3>1. Low(n, lib) \in 0..n /\ (n + 1) - 1 = n /\ n \in Nat
      BY <1>1 DEF Low
    <3> QED BY <1>1, <1>4, <1>5, <3>1, AgreesFacts
  <2>3. Reversible' => Len(tx'.idx) = n /\ begun'
    <3> SUFFICES ASSUME n > lib PROVE Len(tx'.idx) = n /\ begun'
      BY <2>1 DEF Reversible
    <3>1. n > r.lib
      BY <1>4
    <3>2. begun'
      BY <1>2, <3>1 DEF n
    <3> QED BY <1>15, <3>2
  <2>4. next' = n + 1 /\ lib' = lib /\ chain' = chain
    BY <1>3 DEF n
  <2>6. /\ blk'.lib <= lib' /\ Num' - blk'.lib <= MaxLag
        /\ next' <= Num' + 1 /\ ~(next' <= Num')
    BY <1>1, <1>4, <2>1, <2>4
  <2>7. /\ Valid(blk'.branch)
        /\ Agrees(blk'.branch, chain', Low(Num', blk'.lib))
        /\ Agrees(blk'.branch, chain', next' - 1)
        /\ Agrees(tx'.idx, blk'.branch, Num')
    BY <1>4, <1>10, <2>1, <2>2, <2>4
  <2>5. Reversible' => Len(tx'.idx) = Num' /\ begun'
    BY <2>1, <2>3
  <2>8. pc' # "undo"
    OBVIOUS
  <2> QED BY <2>5, <2>6, <2>7, <2>8, Zenon DEF BlkInv
<1>24. PgInv' /\ Valid(chain')
  BY <1>3 DEF RowsInv, PgInv
<1> QED BY <1>19, <1>20, <1>21, <1>22, <1>23, <1>24 DEF RowsInv

-----------------------------------------------------------------------------
(* A fork is undone.                                                        *)

LEMMA DetectForkRows ==
  ASSUME TypeInv, WindowInv, RowsInv, Honest, DetectFork
  PROVE  RowsInv'
<1>1. /\ chain \in Seq(Block) /\ lib \in Nat /\ next \in Nat \ {0} /\ current \in Nat
      /\ tx.idx \in Seq(Block) /\ Len(tx.idx) \in Nat
  BY RowTypes
<1>2. PICK r \in Responses : blk' = r
  BY DEF DetectFork
<1>3. /\ pc = "idle" /\ Receiving /\ next <= current /\ pc' = "undo" /\ begun' = TRUE
      /\ next' = next + 1
      /\ UNCHANGED <<chain, lib, pg, tx, buf, current, collected, queue>>
  BY DEF DetectFork, Receiving, chainVars, memVars
<1>4. /\ r \in ResponseType /\ r.lib = lib /\ Len(r.branch) = next
      /\ Valid(r.branch) /\ Agrees(r.branch, chain, next)
      /\ next - lib <= MaxLag /\ Agrees(tx.idx, r.branch, next - 1)
      /\ r.branch \in Seq(Block)
  BY <1>3, ServedBlock DEF ResponseType
<1>5. /\ buf = NoBuffers /\ collected = 0 /\ queue = <<>>
      /\ tx.position = current /\ Len(tx.idx) = current
  BY <1>3 DEF RowsInv, IdleInv
<1>6. Num' = next /\ UNCHANGED View /\ Active' /\ Active
  BY <1>2, <1>3, <1>4 DEF Num, View, Active
<1>7. TxInv'
  <2>1. ASSUME NEW m \in 1..current, m <= next,
               Live(m, tx.idx, chain, lib) \/ next + 1 <= m \/ m = next
        PROVE  Restored(View, tx.log, tx.idx, m)
    <3>1. Live(m, tx.idx, chain, lib) \/ next <= m
      BY <1>1, <2>1
    <3> QED BY <1>3, <1>6, <3>1 DEF RowsInv, TxInv
  <2>2. \A m \in 1..current : Live(m, tx.idx, chain, lib) => Recorded(tx.blocks, m)
    BY <1>3, <1>6 DEF RowsInv, TxInv
  <2>3. \A m \in 1..current : m > next \/ m <= next
    BY <1>1
  <2> QED BY <1>3, <1>6, <2>1, <2>2, <2>3 DEF RowsInv, TxInv
<1>8. BlkInv'
  <2>1. Agrees(r.branch, chain, Low(next, lib)) /\ (next + 1) - 1 = next /\ ~(next + 1 <= next)
    <3>1. Low(next, lib) \in 0..next /\ (next + 1) - 1 = next /\ next \in Nat /\ ~(next + 1 <= next)
      BY <1>1 DEF Low
    <3> QED BY <1>1, <1>4, <3>1, AgreesFacts
  <2>2. blk'.lib = lib /\ blk'.branch = r.branch
    BY <1>2, <1>4
  <2> QED BY <1>1, <1>3, <1>4, <1>5, <1>6, <2>1, <2>2 DEF BlkInv
<1>9. BufInv'
  <2>1. \A k \in Key : NoBuffers.ins[k].kind = "none"
    BY DEF NoBuffers
  <2>2. NoBuffers.upd = Empty
    BY DEF NoBuffers
  <2> QED BY <1>3, <1>5, <2>1, <2>2 DEF BufInv
<1>10. PgInv' /\ RunInv' /\ IdleInv' /\ Valid(chain')
  BY <1>3 DEF RowsInv, PgInv, RunInv, IdleInv
<1> QED BY <1>7, <1>8, <1>9, <1>10 DEF RowsInv

\* The entry undone last of all is undone: it cannot fail, and the rows the
\* transaction sees are those the log promises.
LEMMA UndoEntry ==
  ASSUME TypeInv, RowsInv, pc = "undo", NEW e \in From(tx.log, Num), IsLast(e, From(tx.log, Num))
  PROVE  /\ ~UndoFails(e)
         /\ \A d \in tx.log \ {e} : UndoneBefore(e, d)
         /\ e \in Entry /\ e.block >= Num
         /\ (IF Reversible THEN UndoDirect(e) ELSE UndoBuffered(e)) =>
              /\ tx' = [tx EXCEPT !.rows = tx'.rows, !.log = @ \ {e}, !.blocks = tx'.blocks]
              /\ tx'.blocks \subseteq tx.blocks
              /\ \A b \in tx.blocks : b.num < Num => b \in tx'.blocks
              /\ View' = Undone(e, View)
              /\ \A k \in Key : /\ buf'.ins[k].kind = "insert" => tx'.rows[k] = NoRow
                                /\ buf'.ins[k].kind # "upsert"
              /\ buf'.upd = Empty
              /\ Reversible => buf' = NoBuffers
<1>1. /\ tx \in Tables /\ tx.log \in Log /\ tx.rows \in Contents /\ buf \in Buffers
      /\ tx.idx \in Seq(Block) /\ View \in Contents /\ Num \in Nat /\ current \in Nat
  BY RowTypes
<1>2. Sound(tx) /\ tx.log \in SUBSET Entry /\ e \in tx.log /\ e \in Entry /\ e.block >= Num
  BY <1>1 DEF RowsInv, TxInv, Active, Log, From
<1>3. ASSUME NEW d \in tx.log \ {e} PROVE UndoneBefore(e, d)
  <2>1. d.block \in Nat /\ e.block \in Nat
    BY <1>2 DEF Entry
  <2>2. CASE d.block >= Num
    BY <2>2 DEF IsLast, From
  <2>3. CASE d.block < Num
    BY <1>1, <1>2, <2>1, <2>3 DEF UndoneBefore
  <2> QED BY <1>1, <2>1, <2>2, <2>3
<1>4. Num \in 1..current
  BY <1>1 DEF TypeInv
<1>5. StateAfter(tx.idx, Num - 1) \in Contents /\ Restored(View, tx.log, tx.idx, Num)
  <2>1. Len(tx.idx) = current /\ Num - 1 \in 0..Len(tx.idx)
    BY <1>1, <1>4 DEF RowsInv, BlkInv
  <2>2. ~(Num > Num)
    BY <1>1
  <2> QED BY <1>1, <1>4, <2>1, <2>2, StateAfterType DEF RowsInv, TxInv, Active
<1> DEFINE S == From(tx.log, Num)
           old == StateAfter(tx.idx, Num - 1)
<1>6. /\ e.key = BlockRecord => Undone(e, View) = View
      /\ e.key \in Key => /\ Undone(e, View) = [View EXCEPT ![e.key] = Old(e)]
                          /\ e.kind = "insert" <=> View[e.key] = NoRow
  <2>1. S \in SUBSET Entry /\ e \in S
    BY <1>2 DEF From
  <2>2. LastOf(e, S)
    BY DEF IsLast, LastOf
  <2>3. Restores(View, S, old)
    BY <1>5 DEF Restored
  <2> HIDE DEF S, old
  <2> QED BY <1>1, <1>5, <2>1, <2>2, <2>3, UndoneRow DEF old
<1>7. e.kind = "insert" => e.key \in Key
  BY <1>2 DEF Sound, Entry
<1>8. /\ Reversible => buf = NoBuffers /\ View = tx.rows
      /\ \A k \in Key : buf.ins[k].kind = "insert" => tx.rows[k] = NoRow
      /\ buf.upd = Empty /\ \A k \in Key : buf.ins[k].kind # "upsert"
  BY <1>1, FlushedNothing DEF RowsInv, BufInv, View
<1>9. ~UndoFails(e)
  BY <1>6, <1>7, <1>8 DEF UndoFails, FlushConflicts
<1>10. /\ NoBuffers.upd = Empty /\ \A k \in Key : NoBuffers.ins[k].kind = "none"
  BY DEF NoBuffers
<1>11. Undone(e, View) \in Contents
  BY <1>1, <1>2, UndoneType
<1>12. ASSUME Reversible, UndoDirect(e)
       PROVE  /\ tx' = AfterUndo(tx, e) /\ buf' = NoBuffers /\ View' = Undone(e, View)
  <2>1. tx' = AfterUndo(tx, e) /\ buf' = NoBuffers
    BY <1>8, <1>12 DEF UndoDirect
  <2>2. tx'.rows = Undone(e, tx.rows)
    BY <1>1, <2>1 DEF AfterUndo, Tables
  <2>3. tx'.rows = Undone(e, View)
    BY <1>8, <1>12, <2>2
  <2> QED BY <1>11, <2>1, <2>3, FlushedNothing DEF View
<1>13. ASSUME ~Reversible, UndoBuffered(e), e.kind # "insert"
       PROVE  /\ tx' = AfterUndo([tx EXCEPT !.rows = View], e) /\ buf' = NoBuffers
              /\ View' = Undone(e, View)
  <2>1. tx' = AfterUndo([tx EXCEPT !.rows = View], e) /\ buf' = NoBuffers
    BY <1>13 DEF UndoBuffered, View
  <2>2. tx'.rows = Undone(e, View)
    BY <1>1, <2>1 DEF AfterUndo, Tables
  <2> QED BY <1>11, <2>1, <2>2, FlushedNothing DEF View
<1>14. ASSUME ~Reversible, UndoBuffered(e), e.kind = "insert"
       PROVE  /\ tx' = [tx EXCEPT !.log = @ \ {e}]
              /\ buf' = BufferInsert(buf, "insert", e.key, e.old)
              /\ View' = Undone(e, View)
              /\ \A k \in Key : /\ buf'.ins[k].kind = "insert" => tx'.rows[k] = NoRow
                                /\ buf'.ins[k].kind # "upsert"
              /\ buf'.upd = Empty
  <2>1. tx' = [tx EXCEPT !.log = @ \ {e}] /\ buf' = BufferInsert(buf, "insert", e.key, e.old)
    BY <1>14 DEF UndoBuffered
  <2>2. tx'.rows = tx.rows
    BY <1>1, <2>1 DEF Tables
  <2>3. e.key \in Key /\ e.old \in Row /\ Old(e) = e.old
    BY <1>2, <1>7, <1>14 DEF Entry, Old
  <2>4. buf.upd[e.key] = NoRow
    BY <1>8, <2>3 DEF Empty
  <2>5. View' = [View EXCEPT ![e.key] = e.old]
    BY <1>1, <2>1, <2>2, <2>3, <2>4, FlushedInsert DEF View
  <2>6. tx.rows[e.key] = NoRow
    <3>1. View[e.key] = NoRow
      BY <1>6, <1>14, <2>3
    <3>2. buf.ins[e.key].kind \in {"none", "insert"}
      BY <1>1, <1>8, <2>3 DEF Buffers
    <3> QED BY <1>8, <2>3, <2>4, <3>1, <3>2 DEF View, Flushed
  <2>7. ASSUME NEW k \in Key
        PROVE  buf'.ins[k].kind = "insert" => tx'.rows[k] = NoRow /\ buf'.ins[k].kind # "upsert"
    BY <1>1, <1>8, <2>1, <2>2, <2>6, <2>7 DEF BufferInsert, Buffers
  <2>8. \A k \in Key : buf'.ins[k].kind # "upsert"
    BY <1>1, <1>8, <2>1 DEF BufferInsert, Buffers
  <2>9. buf'.upd = Empty
    BY <1>1, <1>8, <2>1 DEF BufferInsert, Buffers
  <2> QED BY <1>6, <2>1, <2>3, <2>5, <2>7, <2>8, <2>9
<1>15. ASSUME NEW rows \in Contents, tx' = AfterUndo([tx EXCEPT !.rows = rows], e)
       PROVE  /\ tx' = [tx EXCEPT !.rows = tx'.rows, !.log = @ \ {e}, !.blocks = tx'.blocks]
              /\ tx'.blocks \subseteq tx.blocks
              /\ \A b \in tx.blocks : b.num < Num => b \in tx'.blocks
  <2>1. tx' = [tx EXCEPT !.rows = Undone(e, rows), !.log = @ \ {e},
                         !.blocks = {b \in @ : ~(e.key = BlockRecord /\ b.num = e.block)}]
    BY <1>1, <1>15 DEF AfterUndo, Tables
  <2>2. /\ tx'.rows = Undone(e, rows)
        /\ tx'.blocks = {b \in tx.blocks : ~(e.key = BlockRecord /\ b.num = e.block)}
    BY <1>1, <2>1 DEF Tables
  <2>3. \A b \in tx.blocks : b.num < Num => b.num # e.block
    <3>1. e.block \in Nat /\ e.block >= Num
      BY <1>2 DEF Entry
    <3>2. \A b \in tx.blocks : b.num \in Nat
      BY <1>1 DEF Tables
    <3> QED BY <1>1, <3>1, <3>2
  <2>4. /\ tx'.blocks \subseteq tx.blocks
        /\ \A b \in tx.blocks : b.num < Num => b \in tx'.blocks
    BY <2>2, <2>3
  <2>5. tx' = [tx EXCEPT !.rows = tx'.rows, !.log = @ \ {e}, !.blocks = tx'.blocks]
    BY <2>1, <2>2
  <2> QED BY <2>4, <2>5
<1>16. ASSUME IF Reversible THEN UndoDirect(e) ELSE UndoBuffered(e)
       PROVE  /\ tx' = [tx EXCEPT !.rows = tx'.rows, !.log = @ \ {e}, !.blocks = tx'.blocks]
              /\ tx'.blocks \subseteq tx.blocks
              /\ \A b \in tx.blocks : b.num < Num => b \in tx'.blocks
              /\ View' = Undone(e, View)
              /\ \A k \in Key : /\ buf'.ins[k].kind = "insert" => tx'.rows[k] = NoRow
                                /\ buf'.ins[k].kind # "upsert"
              /\ buf'.upd = Empty
              /\ Reversible => buf' = NoBuffers
  <2>1. CASE Reversible
    <3>1. tx = [tx EXCEPT !.rows = tx.rows]
      BY <1>1 DEF Tables
    <3>2. tx' = AfterUndo([tx EXCEPT !.rows = tx.rows], e) /\ buf' = NoBuffers
          /\ View' = Undone(e, View)
      BY <1>12, <1>16, <2>1, <3>1
    <3> QED BY <1>1, <1>10, <1>15, <3>2
  <2>2. CASE ~Reversible /\ e.kind # "insert"
    BY <1>1, <1>10, <1>13, <1>15, <1>16, <2>2
  <2>3. CASE ~Reversible /\ e.kind = "insert"
    <3>1. tx' = [tx EXCEPT !.log = @ \ {e}]
      BY <1>14, <1>16, <2>3
    <3>2. tx'.rows = tx.rows /\ tx'.blocks = tx.blocks
      BY <1>1, <3>1 DEF Tables
    <3>3. tx' = [tx EXCEPT !.rows = tx'.rows, !.log = @ \ {e}, !.blocks = tx'.blocks]
      BY <1>1, <3>1, <3>2 DEF Tables
    <3> QED BY <1>14, <1>16, <2>3, <3>2, <3>3
  <2> QED BY <2>1, <2>2, <2>3
<1> QED BY <1>2, <1>3, <1>9, <1>16

LEMMA UndoOneRows ==
  ASSUME TypeInv, RowsInv, UndoOne
  PROVE  RowsInv'
<1>1. /\ tx \in Tables /\ tx.log \in Log /\ tx.rows \in Contents /\ View \in Contents
      /\ tx.idx \in Seq(Block) /\ Num \in Nat /\ current \in Nat /\ Len(tx.idx) \in Nat
  BY RowTypes
<1>2. PICK e \in From(tx.log, Num) :
         /\ IsLast(e, From(tx.log, Num))
         /\ IF UndoFails(e) THEN Die
            ELSE /\ IF Reversible THEN UndoDirect(e) ELSE UndoBuffered(e)
                 /\ UNCHANGED <<chainVars, pg, begun, pc, memVars, blk, next>>
  BY DEF UndoOne
<1>3. pc = "undo"
  BY DEF UndoOne
<1>4. /\ ~UndoFails(e)
      /\ \A d \in tx.log \ {e} : UndoneBefore(e, d)
      /\ e \in Entry /\ e.block >= Num
  BY <1>2, <1>3, UndoEntry
<1>5. /\ IF Reversible THEN UndoDirect(e) ELSE UndoBuffered(e)
      /\ UNCHANGED <<chain, lib, pg, begun, pc, current, collected, queue, blk, next>>
  BY <1>2, <1>4 DEF chainVars, memVars
<1>6. /\ tx' = [tx EXCEPT !.rows = tx'.rows, !.log = @ \ {e}, !.blocks = tx'.blocks]
      /\ tx'.blocks \subseteq tx.blocks
      /\ \A b \in tx.blocks : b.num < Num => b \in tx'.blocks
      /\ View' = Undone(e, View)
      /\ \A k \in Key : /\ buf'.ins[k].kind = "insert" => tx'.rows[k] = NoRow
                        /\ buf'.ins[k].kind # "upsert"
      /\ buf'.upd = Empty
      /\ Reversible => buf' = NoBuffers
  BY <1>2, <1>3, <1>5, UndoEntry
<1>7. /\ tx'.log = tx.log \ {e} /\ tx'.idx = tx.idx /\ tx'.position = tx.position
  BY <1>1, <1>6 DEF Tables
<1>8. UNCHANGED <<Num, Reversible, Active>> /\ Active
  BY <1>3, <1>5 DEF Num, Reversible, Active
<1>9. /\ Sound(tx) /\ tx.log \in SUBSET Entry /\ IsFiniteSet(tx.log) /\ e \in tx.log
      /\ Ordered(tx.log)
  BY <1>1, <1>8 DEF RowsInv, TxInv, Log, From, Sound
<1>10. Sound(tx')
  <2>1. Ordered(tx.log \ {e})
    <3>1. \A d \in tx.log \ {e} : d.block = e.block => UndoneBefore(e, d)
      BY <1>4
    <3> QED BY <1>9, <3>1, OrderedShrinks
  <2> QED BY <1>6, <1>7, <1>9, <2>1 DEF Sound
<1>11. ASSUME NEW m \in 1..current, m <= Num, Restored(View, tx.log, tx.idx, m)
       PROVE  Restored(View', tx'.log, tx'.idx, m)
  <2> DEFINE S == From(tx.log, m)
             old == StateAfter(tx.idx, m - 1)
  <2>1. S \in SUBSET Entry /\ Total(S)
    BY <1>9, OrderedIsTotal DEF From
  <2>2. e \in S /\ \A d \in S \ {e} : UndoneBefore(e, d)
    <3>1. e.block \in Nat
      BY <1>4 DEF Entry
    <3>2. e.block >= m
      BY <1>1, <1>4, <1>11, <3>1
    <3> QED BY <1>4, <1>9, <3>2 DEF From
  <2>3. old \in Contents
    <3>1. Len(tx.idx) = current /\ m - 1 \in 0..Len(tx.idx)
      BY <1>1, <1>3 DEF RowsInv, BlkInv
    <3> QED BY <1>1, <3>1, StateAfterType
  <2>4. Restores(View, S, old)
    BY <1>11 DEF Restored
  <2>5. From(tx'.log, m) = S \ {e}
    BY <1>7 DEF From
  <2> HIDE DEF S, old
  <2>6. Restores(Undone(e, View), S \ {e}, old)
    BY <1>1, <2>1, <2>2, <2>3, <2>4, RestoresUndone
  <2> QED BY <1>6, <1>7, <2>5, <2>6 DEF Restored, old
<1>12. TxInv'
  <2>1. ASSUME NEW m \in 1..current, m < Num, Recorded(tx.blocks, m)
        PROVE  Recorded(tx'.blocks, m)
    BY <1>6, <2>1 DEF Recorded
  <2>2. \A m \in 1..current : (m <= Num \/ m > Num) /\ (m < Num \/ m >= Num)
    BY <1>1
  <2>3. Behind(tx'.idx, current', chain', lib')
    BY <1>5, <1>7, <1>8 DEF RowsInv, TxInv
  <2>4. ASSUME NEW m \in 1..current,
               Live(m, tx.idx, chain, lib) \/ next <= m \/ m = Num
        PROVE  m > Num \/ Restored(View', tx'.log, tx'.idx, m)
    BY <1>3, <1>8, <1>11, <2>2, <2>4 DEF RowsInv, TxInv
  <2>5. ASSUME NEW m \in 1..current, Live(m, tx.idx, chain, lib)
        PROVE  m >= Num \/ Recorded(tx'.blocks, m)
    BY <1>3, <1>8, <2>1, <2>2, <2>5 DEF RowsInv, TxInv
  <2> QED BY <1>3, <1>5, <1>7, <1>8, <1>10, <2>3, <2>4, <2>5 DEF TxInv
<1>13. BufInv'
  BY <1>3, <1>5, <1>6, <1>8 DEF BufInv
<1>14. BlkInv'
  BY <1>3, <1>5, <1>7, <1>8 DEF RowsInv, BlkInv
<1>15. PgInv' /\ RunInv' /\ IdleInv' /\ Valid(chain')
  BY <1>3, <1>5 DEF RowsInv, PgInv, RunInv, IdleInv
<1> QED BY <1>12, <1>13, <1>14, <1>15 DEF RowsInv

LEMMA CommitChunkRows ==
  ASSUME TypeInv, RowsInv, CommitChunk
  PROVE  RowsInv'
<1>1. tx \in Tables /\ Num \in Nat \ {0} /\ pc = "undo"
  BY RowTypes DEF CommitChunk, TypeInv
<1>2. /\ pg' = [tx EXCEPT !.rewinding = Num] /\ tx' = pg'
      /\ UNCHANGED <<chain, lib, buf, begun, pc, current, collected, queue, blk, next>>
  BY DEF CommitChunk, chainVars, memVars
<1>3. /\ pg'.rewinding = Num
      /\ tx'.rows = tx.rows /\ tx'.log = tx.log /\ tx'.blocks = tx.blocks
      /\ tx'.position = tx.position /\ tx'.idx = tx.idx
  BY <1>1, <1>2 DEF Tables
<1>4. UNCHANGED <<Num, Reversible, Active, View>>
  BY <1>2, <1>3 DEF Num, Reversible, Active, View
<1>5. Sound(tx) => Sound(tx')
  BY <1>3 DEF Sound
<1>6. TxInv'
  BY <1>2, <1>3, <1>4, <1>5 DEF RowsInv, TxInv
<1>7. BufInv' /\ BlkInv'
  BY <1>2, <1>3, <1>4 DEF RowsInv, BufInv, BlkInv
<1>8. PgInv' /\ RunInv' /\ IdleInv' /\ Valid(chain')
  BY <1>1, <1>2, <1>3 DEF RowsInv, PgInv, RunInv, IdleInv
<1> QED BY <1>6, <1>7, <1>8 DEF RowsInv

LEMMA FinishRollbackRows ==
  ASSUME TypeInv, RowsInv, FinishRollback
  PROVE  RowsInv'
<1> DEFINE n == Num
           r == blk
           t == [tx EXCEPT !.blocks = {b \in @ : b.num < Num}, !.position = Num - 1,
                           !.idx = SubSeq(@, 1, Num - 1)]
<1>1. /\ chain \in Seq(Block) /\ lib \in Nat /\ next \in Nat \ {0} /\ current \in Nat
      /\ tx \in Tables /\ tx.log \in Log /\ tx.rows \in Contents /\ View \in Contents
      /\ tx.idx \in Seq(Block) /\ Len(tx.idx) \in Nat /\ queue \in Seq(Op)
      /\ r \in ResponseType /\ r.branch \in Seq(Block) /\ r.lib \in Nat
  BY RowTypes
<1>2. /\ pc = "undo" /\ n \in Nat \ {0} /\ n <= current /\ n = Len(r.branch)
      /\ From(tx.log, n) = {}
  BY DEF FinishRollback, TypeInv, Num
<1>3. Collect(r, t, 1) /\ UNCHANGED <<chain, lib, pg, buf, begun, next>>
  BY DEF FinishRollback, chainVars
<1>4. Len(tx.idx) = current /\ queue = <<>> /\ Agrees(tx.idx, r.branch, n - 1) /\ Valid(r.branch)
      /\ Agrees(r.branch, chain, Low(n, r.lib)) /\ (next <= n => next > r.lib) /\ r.lib <= lib
  BY <1>2 DEF RowsInv, BlkInv
<1>5. n - 1 \in 0..Len(tx.idx) /\ n - 1 \in Nat
  BY <1>1, <1>2, <1>4
<1>6. /\ t.idx \in Seq(Block) /\ Len(t.idx) = n - 1 /\ Agrees(t.idx, tx.idx, n - 1)
      /\ t \in Tables /\ t.log = tx.log /\ t.rows = tx.rows /\ t.position = n - 1
      /\ t.blocks = {b \in tx.blocks : b.num < n}
  <2>1. /\ t.log = tx.log /\ t.rows = tx.rows /\ t.position = n - 1
        /\ t.blocks = {b \in tx.blocks : b.num < n} /\ t.idx = SubSeq(tx.idx, 1, n - 1)
    BY <1>1 DEF Tables
  <2>2. t.idx \in Seq(Block) /\ Len(t.idx) = n - 1 /\ Agrees(t.idx, tx.idx, n - 1)
    BY <1>1, <1>5, <2>1, PrefixOf
  <2>3. t \in Tables
    BY <1>1, <1>5, <2>1, <2>2 DEF Tables
  <2> QED BY <2>1, <2>2, <2>3
<1> HIDE DEF n, t, r
<1>7. Sound(tx)
  BY <1>2 DEF RowsInv, TxInv, Active
<1>8. Sound(t)
  <2>1. Valid(t.idx)
    BY <1>1, <1>6, <1>7, ValidPrefix DEF Sound
  <2>2. ASSUME NEW b \in t.blocks PROVE Len(b.id) = b.num /\ Agrees(b.id, t.idx, b.num)
    <3>1. /\ b.id \in Seq(Block) /\ b.num \in Nat /\ b.num < n
          /\ Len(b.id) = b.num /\ Agrees(b.id, tx.idx, b.num)
      BY <1>1, <1>6, <1>7 DEF Sound, Tables
    <3>2. b.num \in 0..(n - 1) /\ b.num \in 0..b.num
      BY <1>2, <3>1
    <3>3. Agrees(tx.idx, t.idx, b.num)
      BY <1>1, <1>5, <1>6, <3>1, <3>2, AgreesFacts
    <3> QED BY <1>1, <1>6, <3>1, <3>2, <3>3, AgreesFacts
  <2>3. ASSUME NEW e \in tx.log PROVE e.block <= n - 1
    <3>1. e.block \in Nat /\ ~(e.block >= n)
      BY <1>1, <1>2 DEF Log, Entry, From
    <3> QED BY <1>2, <3>1
  <2> QED BY <1>6, <1>7, <2>1, <2>2, <2>3 DEF Sound
<1>9. Agrees(t.idx, r.branch, n - 1)
  <2>1. n - 1 \in 0..(n - 1)
    BY <1>5
  <2> QED BY <1>1, <1>4, <1>5, <1>6, <2>1, AgreesFacts
<1>10. Collected(r, n, t, tx')
  BY <1>1, <1>2, <1>3, <1>4, <1>6, <1>8, <1>9, CollectRows
<1>11. /\ tx'.idx \in Seq(Block) /\ Agrees(tx'.idx, r.branch, n) /\ Len(tx'.idx) = n
       /\ Agrees(t.idx, tx'.idx, n - 1) /\ tx'.idx[n] = r.branch[n] /\ Sound(tx')
       /\ tx'.rows = tx.rows /\ tx'.position = n - 1
  <2>1. ~(n <= Len(t.idx))
    BY <1>2, <1>6
  <2>2. tx'.rows = t.rows /\ tx'.position = t.position
    BY <1>6, <1>10 DEF Collected, Tables
  <2> QED BY <1>6, <1>10, <2>1, <2>2 DEF Collected
<1>12. /\ n > r.lib => Recorded(tx'.blocks, n)
       /\ \A m \in Nat : m > r.lib =>
            /\ m # 0 /\ Recorded(t.blocks, m) => Recorded(tx'.blocks, m)
            /\ m <= n => \A v, old : Restores(v, From(tx.log, m), old)
                                        => Restores(v, From(tx'.log, m), old)
  BY <1>6, <1>10 DEF Collected
<1>13. /\ current' = n /\ queue' = tx'.idx[n].ops /\ pc' = "execute" /\ blk' = r
  <2>1. /\ current' = n /\ queue' = <<>> \o r.branch[n].ops
        /\ pc' = (IF collected + 1 >= 1 THEN "execute" ELSE "idle")
        /\ blk' = (IF collected + 1 >= 1 THEN r ELSE NoBlk)
    BY <1>2, <1>3, <1>4 DEF Collect
  <2>2. collected + 1 >= 1
    BY RowTypes
  <2>3. r.branch[n].ops \in Seq(Op)
    <3>1. r.branch[n] \in Block
      BY <1>1, <1>2
    <3> QED BY <3>1 DEF Block
  <2>4. <<>> \o r.branch[n].ops = r.branch[n].ops
    BY <2>3
  <2> QED BY <1>11, <2>1, <2>2, <2>4
<1>14. /\ Num' = n /\ (Reversible' <=> Reversible) /\ View' = View /\ (Reversible' <=> n > r.lib)
  BY <1>2, <1>3, <1>11, <1>13 DEF Num, Reversible, View, r, n
\* Undone to the last entry, the rows are those the first orphaned block found.
<1> DEFINE S == StateAfter(tx.idx, n - 1)
<1>15. S \in Contents /\ View = S /\ S = StateAfter(t.idx, n - 1) /\ S = StateAfter(tx'.idx, n - 1)
  <2>1. S \in Contents
    BY <1>1, <1>5, StateAfterType
  <2>2. n \in 1..current /\ ~(n > n)
    BY <1>1, <1>2
  <2>3. Restored(View, tx.log, tx.idx, n)
    BY <1>2, <2>2 DEF RowsInv, TxInv, Active, n
  <2>4. View = S
    <3> HIDE DEF S
    <3>1. Restores(View, {}, S)
      BY <1>2, <2>3 DEF Restored, S
    <3> QED BY <1>1, <2>1, <3>1, RestoresNothing
  <2>5. n - 1 \in 0..(n - 1)
    BY <1>5
  <2>6. StateAfter(t.idx, n - 1) = S /\ StateAfter(tx'.idx, n - 1) = StateAfter(t.idx, n - 1)
    BY <1>1, <1>5, <1>6, <1>11, <2>5, AgreesFacts
  <2> QED BY <2>1, <2>4, <2>6
<1>16. ASSUME NEW m \in 1..n, Live(m, tx'.idx, chain, lib) \/ next <= m
       PROVE  m > r.lib
  <2>1. CASE next <= m
    BY <1>1, <1>2, <1>4, <2>1
  <2>2. CASE Live(m, tx'.idx, chain, lib)
    <3> SUFFICES ASSUME m <= r.lib PROVE FALSE
      BY <1>1, <1>2
    <3>1. m <= lib /\ m \in 0..Low(n, r.lib) /\ m \in 0..n /\ m \in Nat /\ m \in 0..m
      BY <1>1, <1>2, <1>4 DEF Low
    <3>2. Low(n, r.lib) \in Nat /\ n \in Nat
      BY <1>1, <1>2 DEF Low
    <3>3. Agrees(r.branch, chain, m)
      BY <1>1, <1>4, <3>1, <3>2, AgreesFacts
    <3>4. Agrees(tx'.idx, r.branch, m)
      BY <1>1, <1>11, <3>1, <3>2, AgreesFacts
    <3>5. Agrees(tx'.idx, chain, m)
      BY <1>1, <1>11, <3>1, <3>3, <3>4, AgreesFacts
    <3> QED BY <1>1, <2>2, <3>1, <3>5 DEF Live
  <2> QED BY <1>16, <2>1, <2>2
<1>17. ASSUME NEW m \in 1..(n - 1)
       PROVE  /\ m \in 1..current /\ ~(m > n) /\ ~(m >= n)
              /\ Live(m, tx'.idx, chain, lib) => Live(m, tx.idx, chain, lib)
              /\ StateAfter(tx'.idx, m - 1) = StateAfter(tx.idx, m - 1)
  <2>1. m \in 1..current /\ ~(m > n) /\ ~(m >= n) /\ m \in 0..(n - 1) /\ m - 1 \in 0..(n - 1)
        /\ m \in Nat /\ m \in 0..m
    BY <1>1, <1>2
  <2>2. /\ StateAfter(tx'.idx, m - 1) = StateAfter(t.idx, m - 1)
        /\ StateAfter(t.idx, m - 1) = StateAfter(tx.idx, m - 1)
    BY <1>1, <1>5, <1>6, <1>11, <2>1, AgreesFacts
  <2>3. Agrees(t.idx, tx'.idx, m) /\ Agrees(t.idx, tx.idx, m)
    BY <1>1, <1>5, <1>6, <1>11, <2>1, AgreesFacts
  <2>4. Agrees(tx'.idx, t.idx, m)
    BY <1>6, <1>11, <2>1, <2>3, AgreesFacts
  <2>5. Agrees(tx'.idx, tx.idx, m)
    BY <1>1, <1>6, <1>11, <2>1, <2>3, <2>4, AgreesFacts
  <2>6. Agrees(tx.idx, chain, m) => Agrees(tx'.idx, chain, m)
    BY <1>1, <1>11, <2>1, <2>5, AgreesFacts
  <2> QED BY <2>1, <2>2, <2>6 DEF Live
<1>18. TxInv'
  <2>1. Behind(tx'.idx, n, chain, lib)
    BY <1>2, <1>11 DEF Behind
  <2>2. ASSUME NEW m \in 1..n, Live(m, tx'.idx, chain, lib) \/ next <= m
        PROVE  /\ Restored(View, tx'.log, tx'.idx, m)
               /\ Live(m, tx'.idx, chain, lib) => Recorded(tx'.blocks, m)
    <3>1. m > r.lib /\ m \in Nat /\ m # 0 /\ m <= n
      BY <1>2, <1>16, <2>2
    <3>2. CASE m = n
      <4>1. Restores(View, From(tx.log, n), S)
        BY <1>1, <1>2, <1>15, RestoresNothing
      <4> QED BY <1>12, <1>15, <3>1, <3>2, <4>1 DEF Restored
    <3>3. CASE m < n
      <4>1. m \in 1..(n - 1)
        BY <1>2, <3>1, <3>3
      <4>2. Live(m, tx.idx, chain, lib) \/ next <= m
        BY <1>17, <2>2, <4>1
      <4>3. Restored(View, tx.log, tx.idx, m)
        BY <1>2, <1>17, <4>1, <4>2 DEF RowsInv, TxInv, Active, n
      <4>4. Restored(View, tx'.log, tx'.idx, m)
        BY <1>12, <1>17, <3>1, <4>1, <4>3 DEF Restored
      <4>5. ASSUME Live(m, tx'.idx, chain, lib) PROVE Recorded(tx'.blocks, m)
        <5>1. Recorded(tx.blocks, m)
          BY <1>2, <1>17, <4>1, <4>5 DEF RowsInv, TxInv, Active, n
        <5>2. Recorded(t.blocks, m)
          BY <1>6, <3>3, <5>1 DEF Recorded
        <5> QED BY <1>12, <3>1, <5>2
      <4> QED BY <4>4, <4>5
    <3> QED BY <1>2, <3>1, <3>2, <3>3
  <2> QED BY <1>3, <1>11, <1>13, <1>14, <2>1, <2>2 DEF TxInv
<1>19. RunInv'
  <2>1. HasStatement(queue')
          \/ \A m \in ((n - 1) + 1)..n : ~HasStatement(tx'.idx[m].ops)
    <3>1. \A m \in ((n - 1) + 1)..n : m = n
      BY <1>2
    <3> QED BY <1>13, <3>1
  <2>2. Runs(View, S, queue', tx'.idx, n)
    <3> HIDE DEF S
    <3>1. Runs(View, S, <<>>, t.idx, n - 1)
      BY <1>15, LegalNothing DEF Runs
    <3> DEFINE p == n - 1
    <3>2. p \in 0..Len(t.idx) /\ p + 1 = n /\ Len(t.idx) = p /\ <<>> \in Seq(Op)
      BY <1>2, <1>5, <1>6
    <3>3. p + 1 <= Len(tx'.idx)
      BY <1>2, <1>11, <3>2
    <3> HIDE DEF p
    <3>4. Runs(View, S, <<>> \o tx'.idx[p + 1].ops, tx'.idx, p + 1)
      BY <1>1, <1>6, <1>11, <1>15, <3>1, <3>2, <3>3, RunsCollect DEF Sound, p
    <3>5. tx'.idx[n].ops \in Seq(Op)
      <4>1. tx'.idx[n] \in Block
        BY <1>2, <1>11
      <4> QED BY <4>1 DEF Block
    <3>6. <<>> \o tx'.idx[n].ops = queue'
      BY <1>13, <3>5
    <3> QED BY <3>2, <3>4, <3>6
  <2>3. \A k \in Key : buf.upd[k] = NoRow
    BY <1>2 DEF RowsInv, BufInv, Empty
  <2> QED BY <1>3, <1>11, <1>13, <1>14, <1>15, <2>1, <2>2, <2>3 DEF RunInv
<1>20. BufInv'
  BY <1>2, <1>3, <1>11, <1>13, <1>14 DEF RowsInv, BufInv
<1>21. BlkInv'
  BY <1>2, <1>3, <1>11, <1>13, <1>14 DEF RowsInv, BlkInv, n, r
<1>22. PgInv' /\ IdleInv' /\ Valid(chain')
  BY <1>3, <1>13 DEF RowsInv, PgInv, IdleInv
<1> QED BY <1>18, <1>19, <1>20, <1>21, <1>22 DEF RowsInv

-----------------------------------------------------------------------------
(* The writes of a transaction.                                             *)

\* Only what is above the irreversible block reported with it may be undone.
LEMMA LiveAbove ==
  ASSUME TypeInv, RowsInv, pc = "execute"
  PROVE  /\ \A m \in 1..current : Live(m, tx.idx, chain, lib) \/ next <= m => m > blk.lib
         /\ ~Reversible => \A m \in 1..current : ~Live(m, tx.idx, chain, lib) /\ ~(next <= m)
         /\ current = Num /\ blk.lib <= lib
         /\ ~Reversible => current <= lib /\ Agrees(tx.idx, chain, current)
<1>1. /\ chain \in Seq(Block) /\ lib \in Nat /\ next \in Nat \ {0} /\ current \in Nat
      /\ tx.idx \in Seq(Block) /\ blk.branch \in Seq(Block) /\ blk.lib \in Nat
  BY RowTypes
<1>2. /\ current = Num /\ Agrees(tx.idx, blk.branch, Num) /\ blk.lib <= lib
      /\ Agrees(blk.branch, chain, Low(Num, blk.lib)) /\ (next <= Num => next > blk.lib)
  BY DEF TypeInv, RowsInv, BlkInv
<1>3. ASSUME NEW m \in 0..current, m <= blk.lib PROVE m <= lib /\ Agrees(tx.idx, chain, m)
  <2>1. m <= lib /\ m \in 0..Low(Num, blk.lib) /\ m \in 0..Num /\ m \in Nat /\ m \in 0..m
    BY <1>1, <1>2, <1>3 DEF Low
  <2>2. Low(Num, blk.lib) \in Nat /\ Num \in Nat
    BY <1>1, <1>2 DEF Low
  <2>3. Agrees(blk.branch, chain, m) /\ Agrees(tx.idx, blk.branch, m)
    BY <1>1, <1>2, <2>1, <2>2, AgreesFacts
  <2> QED BY <1>1, <2>1, <2>3, AgreesFacts
<1>4. ASSUME NEW m \in 1..current, Live(m, tx.idx, chain, lib) \/ next <= m PROVE m > blk.lib
  <2>1. CASE next <= m
    BY <1>1, <1>2, <2>1
  <2>2. CASE Live(m, tx.idx, chain, lib)
    <3>1. m \in 0..current
      OBVIOUS
    <3> QED BY <1>1, <1>3, <2>2, <3>1 DEF Live
  <2> QED BY <1>4, <2>1, <2>2
<1>5. ASSUME ~Reversible, NEW m \in 1..current
      PROVE  ~Live(m, tx.idx, chain, lib) /\ ~(next <= m)
  <2>1. ~(m > blk.lib)
    BY <1>1, <1>2, <1>5 DEF Reversible
  <2> QED BY <1>4, <2>1
<1>6. ASSUME ~Reversible PROVE current <= lib /\ Agrees(tx.idx, chain, current)
  <2>1. current \in 0..current /\ current <= blk.lib
    BY <1>1, <1>2, <1>6 DEF Reversible
  <2> QED BY <1>3, <2>1
<1> QED BY <1>2, <1>4, <1>5, <1>6

LEMMA ExecuteDirectRows ==
  ASSUME TypeInv, RowsInv, ExecuteDirect
  PROVE  RowsInv'
<1> DEFINE op == Head(queue)
<1>1. /\ tx \in Tables /\ tx.log \in Log /\ tx.rows \in Contents /\ View \in Contents
      /\ tx.idx \in Seq(Block) /\ Len(tx.idx) \in Nat /\ queue \in Seq(Op)
      /\ Num \in Nat /\ current \in Nat
  BY RowTypes
<1>2. /\ pc = "execute" /\ queue # <<>> /\ Reversible /\ Num \in Nat \ {0} /\ current = Num
  BY DEF ExecuteDirect, Executing, TypeInv
<1>3. buf = NoBuffers /\ View = tx.rows
  BY <1>1, <1>2, FlushedNothing DEF RowsInv, BufInv, View
<1>4. Runs(tx.rows, tx.rows, queue, tx.idx, current) /\ Len(tx.idx) = Num /\ begun
  BY <1>2, <1>3 DEF RowsInv, RunInv, BlkInv
<1>5. /\ op \in LegalOps(tx.rows) /\ op.post \in Contents /\ Tail(queue) \in Seq(Op)
      /\ Runs([tx.rows EXCEPT ![op.key] = op.post[op.key]], op.post, Tail(queue), tx.idx, current)
  BY <1>1, <1>2, <1>4, RunsExecute
<1>6. /\ Applied(op, tx.rows) = op.post /\ ~Conflicts(op, tx.rows)
      /\ op.post = [tx.rows EXCEPT ![op.key] = op.post[op.key]] /\ op \in Op
  BY <1>1, <1>5, AppliedLegal, LegalOp
<1> HIDE DEF op
<1>7. /\ tx' = [tx EXCEPT !.rows = op.post, !.log = Logged(tx.log, op, tx.rows, Num)]
      /\ queue' = Tail(queue)
      /\ UNCHANGED <<chain, lib, pg, buf, begun, pc, current, collected, blk, next>>
  BY <1>6 DEF ExecuteDirect, op, chainVars
<1>8. /\ tx'.rows = op.post /\ tx'.log = Logged(tx.log, op, tx.rows, Num)
      /\ tx'.idx = tx.idx /\ tx'.blocks = tx.blocks /\ tx'.position = tx.position
  BY <1>1, <1>7 DEF Tables
<1>9. /\ UNCHANGED <<Num, Reversible, Active>> /\ Active /\ View' = op.post
  <2>1. UNCHANGED <<Num, Reversible, Active>> /\ Active
    BY <1>2, <1>7 DEF Num, Reversible, Active
  <2>2. View' = Flushed(op.post, NoBuffers)
    BY <1>3, <1>7, <1>8 DEF View
  <2> QED BY <1>5, <2>1, <2>2, FlushedNothing
<1>10. Sound(tx)
  BY <1>9 DEF RowsInv, TxInv
<1>11. /\ Ordered(tx'.log) /\ \A e \in tx'.log : e.block <= Num
       /\ \A n \in 0..Num, old \in Contents :
            Restores(tx.rows, From(tx.log, n), old) => Restores(op.post, From(tx'.log, n), old)
  <2>1. tx.log \in SUBSET Entry /\ IsFiniteSet(tx.log) /\ Ordered(tx.log)
        /\ \A e \in tx.log : e.block <= Num
    BY <1>1, <1>4, <1>10 DEF Log, Sound
  <2> QED BY <1>1, <1>2, <1>5, <1>8, <2>1, LoggedRestores
<1>12. Sound(tx')
  <2>1. \A e \in tx'.log : e.key = BlockRecord => e.kind = "delete"
    BY <1>6, <1>8, <1>10, TablesAssumption DEF Sound, Logged, Op
  <2> QED BY <1>4, <1>8, <1>10, <1>11, <2>1 DEF Sound
<1>13. TxInv'
  <2>1. ASSUME NEW m \in 1..current, Live(m, tx.idx, chain, lib) \/ next <= m
        PROVE  Restored(op.post, tx'.log, tx.idx, m)
    <3>1. Restored(tx.rows, tx.log, tx.idx, m)
      BY <1>2, <1>3, <1>9, <2>1 DEF RowsInv, TxInv
    <3>2. m \in 0..Num /\ m - 1 \in 0..Len(tx.idx)
      BY <1>1, <1>2, <1>4
    <3>3. StateAfter(tx.idx, m - 1) \in Contents
      BY <1>1, <3>2, StateAfterType
    <3> QED BY <1>11, <3>1, <3>2, <3>3 DEF Restored
  <2> QED BY <1>2, <1>7, <1>8, <1>9, <1>12, <2>1 DEF RowsInv, TxInv
<1>14. RunInv'
  <2>1. \A k \in Key : NoBuffers.upd[k] = NoRow
    BY <1>1, FlushedNothing
  <2>2. Runs(op.post, op.post, Tail(queue), tx.idx, current)
    BY <1>5, <1>6 DEF op
  <2> QED BY <1>2, <1>3, <1>4, <1>5, <1>7, <1>8, <1>9, <2>1, <2>2 DEF RunInv
<1>15. BufInv'
  <2>1. \A k \in Key : NoBuffers.ins[k].kind = "none"
    BY DEF NoBuffers
  <2> QED BY <1>2, <1>3, <1>7, <2>1 DEF BufInv
<1>16. BlkInv'
  BY <1>2, <1>7, <1>8, <1>9 DEF RowsInv, BlkInv
<1>17. PgInv' /\ IdleInv' /\ Valid(chain')
  BY <1>2, <1>7 DEF RowsInv, PgInv, IdleInv
<1> QED BY <1>13, <1>14, <1>15, <1>16, <1>17 DEF RowsInv

LEMMA ExecuteBufferedRows ==
  ASSUME TypeInv, RowsInv, Honest, ExecuteBuffered
  PROVE  RowsInv'
<1> DEFINE op == Head(queue)
           k == op.key
           w == [View EXCEPT ![k] = op.post[k]]
<1>1. /\ tx \in Tables /\ tx.rows \in Contents /\ View \in Contents /\ buf \in Buffers
      /\ tx.idx \in Seq(Block) /\ queue \in Seq(Op) /\ current \in Nat
  BY RowTypes
<1>2. pc = "execute" /\ queue # <<>> /\ ~Reversible
  BY DEF ExecuteBuffered, Executing
<1>3. \A m \in 1..current : ~Live(m, tx.idx, chain, lib) /\ ~(next <= m)
  BY <1>2, LiveAbove
<1>4. PICK S \in Contents :
         /\ Runs(View, S, queue, tx.idx, current)
         /\ \A j \in Key : buf.upd[j] # NoRow => S[j] # NoRow /\ "update" \in OpKinds
  BY <1>2 DEF RowsInv, RunInv
<1>5. /\ op \in LegalOps(S) /\ op.post \in Contents /\ Tail(queue) \in Seq(Op)
      /\ op.kind = "insert" => View[k] = NoRow
      /\ op.kind = "update" => View[k] # NoRow
      /\ Runs(w, op.post, Tail(queue), tx.idx, current)
  BY <1>1, <1>2, <1>4, RunsExecute
<1>6. /\ op \in Op /\ op.kind \in OpKinds /\ op.kind \in AllKinds
      /\ k \in Key /\ op.post[k] \in Row
      /\ op.post = [S EXCEPT ![k] = op.post[k]]
      /\ op.kind = "upsert" => S[k] = NoRow
      /\ op.post[k] = NoRow <=> op.kind = "delete"
  BY <1>5, LegalOp DEF Op, Contents
<1>7. queue = <<op>> \o Tail(queue) /\ queue[1] = op /\ 1 \in 1..Len(queue)
      /\ Len(Tail(queue)) = Len(queue) - 1 /\ Len(queue) \in Nat
      /\ \A i \in 1..Len(Tail(queue)) : Tail(queue)[i] = queue[i + 1]
  BY <1>1, <1>2
<1> HIDE DEF op, k, w
<1>8. \A k2 \in Key : NoBuffers.upd[k2] = NoRow /\ NoBuffers.ins[k2].kind = "none"
  BY <1>1, FlushedNothing
<1>9. NoBuffers \in Buffers
  BY DEF NoBuffers, Buffers, Empty, Row
<1>10. \A k2 \in Key : buf.ins[k2].kind = "insert" => tx.rows[k2] = NoRow
  BY <1>2 DEF RowsInv, BufInv
<1>11. ~FlushConflicts(tx.rows, buf)
  BY <1>10 DEF FlushConflicts
\* What follows once the write has run: the rows seen, the buffers and the rows
\* of the transaction.
<1>12. ASSUME queue' = Tail(queue), View' = w,
              tx' = [tx EXCEPT !.rows = tx'.rows],
              UNCHANGED <<chain, lib, pg, pc, current, collected, blk, next>>,
              begun' \/ (begun' = begun /\ op.kind \notin Statements),
              \A j \in Key : buf'.upd[j] # NoRow => op.post[j] # NoRow /\ "update" \in OpKinds,
              \A j \in Key : buf'.ins[j].kind = "insert" => tx'.rows[j] = NoRow
       PROVE  RowsInv'
  <2>1. tx'.log = tx.log /\ tx'.idx = tx.idx /\ tx'.blocks = tx.blocks /\ tx'.position = tx.position
    BY <1>1, <1>12 DEF Tables
  <2>2. UNCHANGED <<Num, Reversible, Active>> /\ Active
    BY <1>2, <1>12 DEF Num, Reversible, Active
  <2>3. TxInv'
    <3>1. Sound(tx') /\ Behind(tx'.idx, current, chain, lib)
      BY <2>1, <2>2 DEF RowsInv, TxInv, Sound
    <3> QED BY <1>2, <1>3, <1>12, <2>1, <3>1 DEF TxInv
  <2>4. RunInv'
    <3>1. begun' \/ HasStatement(queue')
            \/ \A n \in (tx.position + 1)..Len(tx.idx) : ~HasStatement(tx.idx[n].ops)
      <4> SUFFICES ASSUME ~begun, begun' = begun, op.kind \notin Statements, HasStatement(queue)
                   PROVE  HasStatement(queue')
        BY <1>2, <1>12 DEF RowsInv, RunInv
      <4>1. PICK i \in 1..Len(queue) : queue[i].kind \in Statements
        BY DEF HasStatement
      <4>2. i # 1
        BY <1>7, <4>1
      <4> DEFINE j == i - 1
      <4>3. j \in 1..Len(Tail(queue)) /\ j + 1 = i
        BY <1>7, <4>2
      <4> HIDE DEF j
      <4>4. Tail(queue)[j].kind \in Statements
        BY <1>7, <4>1, <4>3
      <4> QED BY <1>12, <4>3, <4>4 DEF HasStatement
    <3> QED BY <1>2, <1>5, <1>12, <2>1, <2>2, <3>1 DEF RunInv
  <2>5. BufInv'
    BY <1>2, <1>12, <2>2 DEF BufInv
  <2>6. BlkInv'
    BY <1>2, <1>12, <2>1, <2>2 DEF RowsInv, BlkInv
  <2>7. PgInv' /\ IdleInv' /\ Valid(chain')
    BY <1>2, <1>12 DEF RowsInv, PgInv, IdleInv
  <2> QED BY <2>3, <2>4, <2>5, <2>6, <2>7 DEF RowsInv
<1>13. ASSUME op.kind \notin Statements, buf' = BufferedWrite(buf, op), queue' = Tail(queue),
              UNCHANGED <<chain, lib, pg, tx, begun, pc, current, collected, blk, next>>
       PROVE  RowsInv'
  <2>1. op.kind \in {"upsert", "replace", "update"} /\ op.post[k] \in Val
    BY <1>6, <1>13 DEF AllKinds, Statements, Row
  <2>2. tx' = [tx EXCEPT !.rows = tx'.rows] /\ tx'.rows = tx.rows
    BY <1>1, <1>13 DEF Tables
  <2>3. ASSUME NEW j \in Key, j # k PROVE op.post[j] = S[j]
    BY <1>4, <1>6, <2>3 DEF Contents
  <2>4. CASE op.kind = "update"
    <3>1. buf' = BufferUpdate(buf, k, op.post[k])
      BY <1>13, <2>4 DEF BufferedWrite, k
    <3>2. View' = w
      <4>1. View' = Flushed(tx.rows, BufferUpdate(buf, k, op.post[k]))
        BY <1>13, <3>1 DEF View
      <4>2. Flushed(tx.rows, buf)[k] # NoRow
        BY <1>5, <2>4 DEF View
      <4> QED BY <1>1, <1>6, <2>1, <4>1, <4>2, FlushedUpdate DEF View, w
    <3>3. \A j \in Key : buf'.ins[j] = buf.ins[j] /\ (j # k => buf'.upd[j] = buf.upd[j])
      BY <1>1, <3>1 DEF BufferUpdate, Buffers
    <3>4. \A j \in Key : buf'.upd[j] # NoRow => op.post[j] # NoRow /\ "update" \in OpKinds
      BY <1>4, <1>6, <2>3, <2>4, <3>3
    <3> QED BY <1>10, <1>12, <1>13, <2>2, <3>2, <3>3, <3>4
  <2>5. CASE op.kind # "update"
    <3>1. buf' = BufferInsert(buf, "upsert", k, op.post[k])
      BY <1>13, <2>1, <2>5 DEF BufferedWrite, k
    <3>2. buf.upd[k] = NoRow
      <4>1. CASE op.kind = "upsert"
        BY <1>4, <1>6, <4>1
      <4>2. CASE op.kind = "replace"
        BY <1>4, <1>6, <4>2 DEF Honest
      <4> QED BY <2>1, <2>5, <4>1, <4>2
    <3>3. View' = w
      <4>1. View' = Flushed(tx.rows, BufferInsert(buf, "upsert", k, op.post[k]))
        BY <1>13, <3>1 DEF View
      <4> QED BY <1>1, <1>6, <3>2, <4>1, FlushedInsert DEF View, w
    <3>4. /\ buf'.upd = buf.upd
          /\ \A j \in Key : buf'.ins[j].kind = "insert" => buf.ins[j].kind = "insert"
      BY <1>1, <3>1 DEF BufferInsert, Buffers
    <3>5. \A j \in Key : buf'.upd[j] # NoRow => op.post[j] # NoRow /\ "update" \in OpKinds
      BY <1>4, <2>3, <3>2, <3>4
    <3> QED BY <1>10, <1>12, <1>13, <2>2, <3>3, <3>4, <3>5
  <2> QED BY <2>4, <2>5
<1>14. ASSUME op.kind = "delete", tx' = [tx EXCEPT !.rows = Applied(op, View)],
              buf' = NoBuffers, begun' = TRUE, queue' = Tail(queue),
              UNCHANGED <<chain, lib, pg, pc, current, collected, blk, next>>
       PROVE  RowsInv'
  <2>1. Applied(op, View) = w
    BY <1>14 DEF Applied, w, k
  <2>2. tx'.rows = w /\ tx' = [tx EXCEPT !.rows = tx'.rows] /\ w \in Contents
    BY <1>1, <1>6, <1>14, <2>1, AppliedType DEF Tables
  <2>3. View' = w
    BY <1>14, <2>2, FlushedNothing DEF View
  <2> QED BY <1>8, <1>12, <1>14, <2>2, <2>3
<1>15. ASSUME op.kind = "insert", tx' = [tx EXCEPT !.rows = View],
              buf' = BufferedWrite(NoBuffers, op), begun' = TRUE, queue' = Tail(queue),
              UNCHANGED <<chain, lib, pg, pc, current, collected, blk, next>>
       PROVE  RowsInv'
  <2>1. buf' = BufferInsert(NoBuffers, "insert", k, op.post[k])
    BY <1>15 DEF BufferedWrite, k
  <2>2. tx'.rows = View /\ tx' = [tx EXCEPT !.rows = tx'.rows]
    BY <1>1, <1>15 DEF Tables
  <2>3. View' = w
    <3>1. View' = [Flushed(View, NoBuffers) EXCEPT ![k] = op.post[k]]
      <4>1. View' = Flushed(View, BufferInsert(NoBuffers, "insert", k, op.post[k]))
        BY <2>1, <2>2 DEF View
      <4> QED BY <1>1, <1>6, <1>8, <1>9, <4>1, FlushedInsert
    <3> QED BY <1>1, <3>1, FlushedNothing DEF w
  <2>4. /\ buf'.upd = NoBuffers.upd
        /\ \A j \in Key : buf'.ins[j].kind = "insert" => j = k \/ NoBuffers.ins[j].kind = "insert"
    BY <1>9, <2>1 DEF BufferInsert, Buffers
  <2>5. \A j \in Key : buf'.ins[j].kind = "insert" => tx'.rows[j] = NoRow
    BY <1>5, <1>8, <1>15, <2>2, <2>4
  <2>6. \A j \in Key : buf'.upd[j] = NoRow
    BY <1>8, <2>4
  <2> QED BY <1>12, <1>15, <2>2, <2>3, <2>5, <2>6
<1>16. \/ /\ op.kind \notin Statements /\ buf' = BufferedWrite(buf, op) /\ queue' = Tail(queue)
          /\ UNCHANGED <<chain, lib, pg, tx, begun, pc, current, collected, blk, next>>
       \/ /\ op.kind = "delete" /\ tx' = [tx EXCEPT !.rows = Applied(op, View)]
          /\ buf' = NoBuffers /\ begun' = TRUE /\ queue' = Tail(queue)
          /\ UNCHANGED <<chain, lib, pg, pc, current, collected, blk, next>>
       \/ /\ op.kind = "insert" /\ tx' = [tx EXCEPT !.rows = View]
          /\ buf' = BufferedWrite(NoBuffers, op) /\ begun' = TRUE /\ queue' = Tail(queue)
          /\ UNCHANGED <<chain, lib, pg, pc, current, collected, blk, next>>
  BY <1>11 DEF ExecuteBuffered, op, chainVars, View, Statements
<1> QED BY <1>13, <1>14, <1>15, <1>16

\* The transaction is executed.
LEMMA CommitRows ==
  ASSUME TypeInv, RowsInv, Commit
  PROVE  RowsInv'
<1> DEFINE p == IF MovesPosition THEN Num ELSE tx.position
<1>1. /\ chain \in Seq(Block) /\ lib \in Nat /\ next \in Nat \ {0} /\ current \in Nat
      /\ tx \in Tables /\ tx.rows \in Contents /\ View \in Contents /\ tx.position \in Nat
      /\ tx.idx \in Seq(Block) /\ Len(tx.idx) \in Nat /\ Num \in Nat
      /\ blk.lib \in Nat /\ blk.branch \in Seq(Block)
  BY RowTypes
<1>2. /\ pc = "execute" /\ queue = <<>> /\ current = Num /\ current \in 0..Len(tx.idx)
      /\ tx.position <= Len(tx.idx)
  BY <1>1 DEF Commit, TypeInv
<1>3. ~FlushConflicts(tx.rows, buf)
  BY <1>2 DEF RowsInv, BufInv, FlushConflicts
<1>4. /\ pg' = [tx EXCEPT !.rows = View, !.rewinding = 0, !.position = p]
      /\ tx' = pg' /\ buf' = NoBuffers /\ begun' = FALSE /\ collected' = 0 /\ pc' = "idle"
      /\ UNCHANGED <<chain, lib, current, queue, next>>
  BY <1>3 DEF Commit, View, chainVars
<1>5. p \in Nat /\ (p = Num \/ (p = tx.position /\ ~begun /\ ~Reversible))
  BY <1>1 DEF MovesPosition
<1>6. Reversible => p = Num /\ Len(tx.idx) = Num
  BY <1>2, <1>5 DEF RowsInv, BlkInv
<1> HIDE DEF p
<1>7. /\ pg'.rows = View /\ pg'.position = p /\ pg'.log = tx.log /\ pg'.idx = tx.idx
      /\ pg'.blocks = tx.blocks /\ pg'.rewinding = 0
  BY <1>1, <1>4 DEF Tables
<1>8. View' = View
  <2>1. View' = Flushed(View, NoBuffers)
    BY <1>4, <1>7 DEF View
  <2> QED BY <1>1, <2>1, FlushedNothing
<1>9. /\ Sound(tx) /\ Behind(tx.idx, current, chain, lib)
      /\ \A n \in 1..current : Live(n, tx.idx, chain, lib) \/ next <= n =>
           Restored(View, tx.log, tx.idx, n)
      /\ \A n \in 1..current : Live(n, tx.idx, chain, lib) => Recorded(tx.blocks, n)
  BY <1>2 DEF RowsInv, TxInv, Active
<1>10. PICK S \in Contents :
          /\ Runs(View, S, <<>>, tx.idx, current)
          /\ \A k \in Key : buf.upd[k] # NoRow => S[k] # NoRow /\ "update" \in OpKinds
  BY <1>2 DEF RowsInv, RunInv
<1>11. /\ \A k \in Key : \E n \in current..Len(tx.idx) : View[k] = StateAfter(tx.idx, n)[k]
  BY <1>1, <1>2, <1>10, RunsDone
\* Only a catch-up leaves the position behind.
<1>12. Behind(tx.idx, p, chain, lib)
  <2>1. CASE p = Num
    BY <1>2, <1>9, <2>1
  <2>2. CASE p = tx.position /\ ~begun /\ ~Reversible
    <3>1. \A n \in (p + 1)..Len(tx.idx) : ~HasStatement(tx.idx[n].ops)
      <4>1. ~HasStatement(queue)
        BY <1>2 DEF HasStatement
      <4> QED BY <1>2, <2>2, <4>1 DEF RowsInv, RunInv
    <3>2. Len(tx.idx) <= lib /\ Agrees(tx.idx, chain, Len(tx.idx))
      <4>1. current <= lib /\ Agrees(tx.idx, chain, current)
        BY <1>2, <2>2, LiveAbove
      <4>2. CASE current = Len(tx.idx)
        BY <4>1, <4>2
      <4>3. CASE current < Len(tx.idx)
        BY <1>9, <4>3 DEF Behind
      <4> QED BY <1>1, <1>2, <4>2, <4>3
    <3> QED BY <3>1, <3>2 DEF Behind
  <2> QED BY <1>5, <2>1, <2>2
<1>13. p <= current
  <2>1. CASE p = Num
    BY <1>1, <1>2, <2>1
  <2>2. CASE p = tx.position
    BY <1>1, <1>2, <2>2 DEF TypeInv
  <2> QED BY <1>5, <2>1, <2>2
\* What may still be undone is not below the window.
<1>14. ASSUME NEW n \in 1..Len(tx.idx), Live(n, tx.idx, chain, lib)
       PROVE  /\ n \in 1..current /\ Recorded(tx.blocks, n) /\ Restored(View, tx.log, tx.idx, n)
              /\ n > p - MaxLag
  <2>1. n \in 1..current
    <3> SUFFICES ASSUME current < n PROVE FALSE
      BY <1>1
    <3>1. current < Len(tx.idx)
      BY <1>1
    <3>2. Len(tx.idx) <= lib /\ Agrees(tx.idx, chain, Len(tx.idx))
      BY <1>9, <3>1 DEF Behind
    <3>3. n <= lib /\ Agrees(tx.idx, chain, n)
      BY <1>1, <3>2 DEF Agrees
    <3> QED BY <1>1, <1>14, <3>3 DEF Live
  <2>2. n > blk.lib
    BY <1>2, <1>14, <2>1, LiveAbove
  <2>3. Num - blk.lib <= MaxLag
    BY <1>2 DEF RowsInv, BlkInv
  <2>4. MaxLag \in Nat
    BY ReceiverAssumption
  <2>5. n > p - MaxLag
    BY <1>1, <1>2, <1>5, <1>13, <2>1, <2>2, <2>3, <2>4
  <2> QED BY <1>9, <1>14, <2>1, <2>5
<1>15. PgInv'
  <2>1. Sound(pg')
    BY <1>7, <1>9 DEF Sound
  <2>2. \A k \in Key : \E n \in p..Len(tx.idx) : View[k] = StateAfter(tx.idx, n)[k]
    <3>1. \A n \in current..Len(tx.idx) : n \in p..Len(tx.idx)
      BY <1>1, <1>5, <1>13
    <3> QED BY <1>11, <3>1
  <2> QED BY <1>4, <1>7, <1>12, <1>14, <2>1, <2>2 DEF PgInv, Durable
<1>16. TxInv'
  <2>1. Sound(tx')
    BY <1>4, <1>7, <1>9 DEF Sound
  <2> QED BY <1>4, <1>7, <1>8, <1>9, <2>1 DEF TxInv
<1>17. RunInv'
  <2>1. \A n \in (p + 1)..Len(tx.idx) : ~HasStatement(tx.idx[n].ops)
    <3>1. CASE p < Len(tx.idx)
      BY <1>12, <3>1 DEF Behind
    <3>2. CASE ~(p < Len(tx.idx))
      BY <1>1, <1>5, <3>2
    <3> QED BY <3>1, <3>2
  <2>2. \A k \in Key : NoBuffers.upd[k] = NoRow
    BY <1>1, FlushedNothing
  <2> QED BY <1>2, <1>4, <1>7, <1>8, <1>10, <2>1, <2>2 DEF RunInv
<1>18. IdleInv'
  <2>1. next <= current + 1 /\ Agrees(tx.idx, chain, next - 1)
    <3>1. /\ Agrees(tx.idx, blk.branch, Num) /\ next <= Num + 1
          /\ Agrees(blk.branch, chain, next - 1)
      BY <1>2 DEF RowsInv, BlkInv
    <3>2. next - 1 \in 0..Num /\ next - 1 \in Nat
      BY <1>1, <3>1
    <3> QED BY <1>1, <1>2, <3>1, <3>2, AgreesFacts
  <2>2. current > lib \/ next <= current => p = current /\ Len(tx.idx) = current
    <3> SUFFICES ASSUME current > lib \/ next <= current PROVE Reversible
      BY <1>2, <1>6
    <3> SUFFICES ASSUME ~Reversible PROVE FALSE
      OBVIOUS
    <3>1. current <= lib
      BY <1>2, LiveAbove
    <3>2. next <= current /\ current \in 1..current
      BY <1>1, <3>1
    <3> QED BY <1>2, <3>2, LiveAbove
  <2>3. tx' = [pg' EXCEPT !.idx = tx'.idx]
    <3>1. pg' \in Tables
      BY <1>1, <1>4, <1>5 DEF Tables
    <3> QED BY <1>4, <3>1 DEF Tables
  <2> QED BY <1>2, <1>4, <1>7, <2>1, <2>2, <2>3 DEF IdleInv
<1>19. BufInv' /\ BlkInv' /\ Valid(chain')
  BY <1>4 DEF RowsInv, BufInv, BlkInv
<1> QED BY <1>15, <1>16, <1>17, <1>18, <1>19 DEF RowsInv

-----------------------------------------------------------------------------
(* Every step.                                                              *)

LEMMA RowsStep ==
  ASSUME TypeInv, TypeInv', WindowInv, RowsInv, Honest, ~Overlap', [Next]_vars
  PROVE  RowsInv'
<1>1. CASE Extend \/ AdvanceLib \/ Fork
  BY <1>1, ChainRows
<1>2. CASE Start
  BY <1>2, StartRows
<1>3. CASE Crash \/ WatchdogExit
  BY <1>3, StopRows
<1>4. CASE SkippedBlock \/ RefusedFork
  <2>1. Die /\ pg.rewinding = 0
    BY <1>4 DEF SkippedBlock, RefusedFork, Receiving, RowsInv, IdleInv
  <2> QED BY <2>1, StopRows
<1>5. CASE NextBlock
  BY <1>5, NextBlockRows
<1>6. CASE DetectFork
  BY <1>6, DetectForkRows
<1>7. CASE UndoOne
  BY <1>7, UndoOneRows
<1>8. CASE CommitChunk
  BY <1>8, CommitChunkRows
<1>9. CASE FinishRollback
  BY <1>9, FinishRollbackRows
<1>10. CASE ExecuteDirect
  BY <1>10, ExecuteDirectRows
<1>11. CASE ExecuteBuffered
  BY <1>11, ExecuteBufferedRows
<1>12. CASE Commit
  BY <1>12, CommitRows
<1>13. CASE UNCHANGED vars
  <2>1. UNCHANGED <<chain, lib, pg, tx, buf, begun, pc, current, collected, queue, blk, next>>
    BY <1>13 DEF vars
  <2>2. UNCHANGED <<Num, Reversible, Active, View>>
    BY <2>1 DEF Num, Reversible, Active, View
  <2>3. PgInv' /\ TxInv' /\ RunInv'
    BY <2>1, <2>2 DEF RowsInv, PgInv, TxInv, RunInv
  <2>4. BufInv' /\ IdleInv' /\ BlkInv' /\ Valid(chain')
    BY <2>1, <2>2 DEF RowsInv, BufInv, IdleInv, BlkInv
  <2> QED BY <2>3, <2>4 DEF RowsInv
<1> QED BY <1>1, <1>2, <1>3, <1>4, <1>5, <1>6, <1>7, <1>8, <1>9, <1>10, <1>11, <1>12,
           <1>13 DEF Next, Process

LEMMA RowsInvariant ==
  ASSUME Honest
  PROVE  Spec /\ []~Overlap => []RowsInv
<1>1. Init => WindowInv /\ RowsInv
  BY WindowInit, RowsInit
<1>2. TypeInv /\ WindowInv /\ [Next]_vars => WindowInv'
  BY WindowStep
<1>3. TypeInv /\ TypeInv' /\ WindowInv /\ RowsInv /\ ~Overlap' /\ [Next]_vars => RowsInv'
  BY RowsStep
<1> QED BY <1>1, <1>2, <1>3, TypeInvariant, PTL DEF Spec

\* The recorded blocks are those indexed, so that either tells whether a block
\* is still on the chain.
LEMMA RecordedOnBranch ==
  ASSUME NEW t \in Tables, Sound(t), NEW c \in Seq(Block), NEW b \in t.blocks
  PROVE  /\ b.num \in 1..Len(t.idx)
         /\ OnBranch(b.id, c) <=> Agrees(t.idx, c, b.num)
<1>1. /\ t.idx \in Seq(Block) /\ b.num \in Nat \ {0} /\ b.id \in Seq(Block)
      /\ Len(b.id) = b.num /\ Agrees(b.id, t.idx, b.num)
  BY DEF Tables, Sound
<1>2. b.num \in 1..Len(t.idx) /\ b.num \in Nat /\ b.num \in 0..b.num
  BY <1>1 DEF Agrees
<1>3. Agrees(t.idx, b.id, b.num)
  BY <1>1, <1>2, AgreesFacts
<1>4. Agrees(b.id, c, b.num) <=> Agrees(t.idx, c, b.num)
  BY <1>1, <1>2, <1>3, AgreesFacts
<1> QED BY <1>1, <1>2, <1>4, OnBranchAgrees

-----------------------------------------------------------------------------
(* What is committed.                                                       *)

\* Whatever is committed between two blocks, also after forks, crashes and
\* replays, are the rows of the indexed chain at the position, or, row by row,
\* at a block between it and the last one indexed.
THEOREM RowsAreThoseOfTheChain ==
  ASSUME Honest
  PROVE  Spec /\ []~Overlap => []RowsMatchPosition
<1>1. RowsInv => RowsMatchPosition
  BY DEF RowsInv, PgInv, Durable, RowsMatchPosition
<1> QED BY <1>1, RowsInvariant, PTL

\* Undoing the log down to a recorded block that is reversible, or orphaned,
\* gives back exactly the rows the block found.
THEOREM LogRestoresRows ==
  ASSUME Honest
  PROVE  Spec /\ []~Overlap => []UndoLogIsExact
<1>1. ASSUME TypeInv, RowsInv PROVE UndoLogIsExact
  <2> SUFFICES ASSUME pg.rewinding = 0, NEW b \in pg.blocks,
                      b.num > lib \/ ~OnBranch(b.id, chain)
               PROVE  Before(pg.rows, pg.log, b.num) = StateAfter(pg.idx, b.num - 1)
    BY DEF UndoLogIsExact
  <2>1. /\ pg \in Tables /\ pg.log \in Log /\ pg.rows \in Contents /\ pg.idx \in Seq(Block)
        /\ chain \in Seq(Block)
    BY <1>1, RowTypes
  <2>2. Durable(pg, chain, lib)
    BY <1>1 DEF RowsInv, PgInv
  <2>3. b.num \in 1..Len(pg.idx) /\ Live(b.num, pg.idx, chain, lib)
    BY <2>1, <2>2, RecordedOnBranch DEF Durable, Live
  <2>4. Restored(pg.rows, pg.log, pg.idx, b.num)
    BY <2>2, <2>3 DEF Durable
  <2>5. b.num - 1 \in 0..Len(pg.idx)
    BY <2>1, <2>3
  <2>6. StateAfter(pg.idx, b.num - 1) \in Contents
    BY <2>1, <2>5, StateAfterType
  <2>7. pg.log \in SUBSET Entry /\ Ordered(pg.log)
    BY <2>1, <2>2 DEF Log, Durable, Sound
  <2> QED BY <2>1, <2>4, <2>6, <2>7, BeforeIsOld DEF Restored
<1>2. TypeInv /\ RowsInv => UndoLogIsExact
  BY <1>1
<1> QED BY <1>2, RowsInvariant, TypeInvariant, PTL

\* A restarted reader is served, first of all, a block not above the lowest of
\* the indexed ones that have left the chain: no orphaned block is passed over.
THEOREM RestartFindsTheFork ==
  ASSUME Honest
  PROVE  Spec /\ []~Overlap => []OrphansAreServed
<1>1. ASSUME TypeInv, RowsInv PROVE OrphansAreServed
  <2> SUFFICES ASSUME pg.rewinding = 0, NEW n \in 1..Len(pg.idx), n <= pg.position,
                      ~OnBranch(SubSeq(pg.idx, 1, n), chain),
                      NEW m \in FirstServed(pg.blocks, pg.position + 1)
               PROVE  m <= n
    BY DEF OrphansAreServed, CoversOrphans
  <2>1. /\ pg \in Tables /\ pg.idx \in Seq(Block) /\ chain \in Seq(Block)
        /\ pg.position \in Nat /\ Len(pg.idx) \in Nat
    BY <1>1, RowTypes
  <2>2. Durable(pg, chain, lib)
    BY <1>1 DEF RowsInv, PgInv
  <2>3. ~Agrees(pg.idx, chain, n)
    <3> DEFINE id == SubSeq(pg.idx, 1, n)
    <3>1. n \in 0..Len(pg.idx) /\ n \in Nat /\ n \in 0..n
      BY <2>1
    <3>2. id \in Seq(Block) /\ Len(id) = n /\ Agrees(id, pg.idx, n)
      BY <2>1, <3>1, PrefixOf
    <3> HIDE DEF id
    <3>3. ~Agrees(id, chain, n)
      BY <2>1, <3>2, OnBranchAgrees DEF id
    <3> QED BY <2>1, <3>1, <3>2, <3>3, AgreesFacts
  <2>4. PICK b \in pg.blocks : b.num = n
    BY <2>2, <2>3 DEF Durable, Live, Recorded
  <2>5. b.num < pg.position + 1 /\ ~OnBranch(b.id, chain)
    BY <2>1, <2>2, <2>3, <2>4, RecordedOnBranch DEF Durable
  <2> QED BY <2>4, <2>5 DEF FirstServed
<1>2. TypeInv /\ RowsInv => OrphansAreServed
  BY <1>1
<1> QED BY <1>2, RowsInvariant, TypeInvariant, PTL

\* A reader that has processed all there is holds the rows of the active branch,
\* and nothing of an orphaned one.
THEOREM CaughtUpHoldsTheChain ==
  ASSUME Honest
  PROVE  Spec /\ []~Overlap => []CaughtUpIsExact
<1>1. ASSUME TypeInv, RowsInv PROVE CaughtUpIsExact
  <2> SUFFICES ASSUME pc = "idle", current = Served, next = Served + 1, collected = 0
               PROVE  pg.rows = StateAfter(chain, Served)
    BY DEF CaughtUpIsExact
  <2>1. /\ chain \in Seq(Block) /\ lib \in Nat /\ lib <= Len(chain) /\ Len(chain) \in Nat
        /\ tx.idx \in Seq(Block) /\ Len(tx.idx) \in Nat /\ View \in Contents
        /\ tx.rows \in Contents /\ current \in Nat
    BY <1>1, RowTypes
  <2>2. /\ queue = <<>> /\ tx = pg /\ buf = NoBuffers /\ Agrees(tx.idx, chain, next - 1)
        /\ Behind(tx.idx, current, chain, lib)
    BY <1>1 DEF RowsInv, IdleInv, TxInv, Active
  <2>3. current <= Len(tx.idx)
    BY <1>1 DEF TypeInv
  <2>4. Len(tx.idx) = current
    <3> SUFFICES ASSUME current < Len(tx.idx) PROVE FALSE
      BY <2>1, <2>3
    <3>1. Len(tx.idx) <= lib
      BY <2>2 DEF Behind
    <3>2. lib <= Served
      BY <2>1 DEF Served
    <3> QED BY <2>1, <3>1, <3>2
  <2>5. View = pg.rows
    BY <2>1, <2>2, FlushedNothing DEF View
  <2>6. PICK S \in Contents :
           /\ Runs(View, S, <<>>, tx.idx, current)
           /\ \A k \in Key : buf.upd[k] # NoRow => S[k] # NoRow /\ "update" \in OpKinds
    BY <1>1, <2>2 DEF RowsInv, RunInv
  <2>7. current \in 0..Len(tx.idx)
    BY <2>1, <2>3
  <2>8. View = S /\ S = StateAfter(tx.idx, current)
    BY <2>1, <2>4, <2>6, <2>7, RunsDone
  <2>9. StateAfter(tx.idx, current) = StateAfter(chain, current)
    <3>1. Agrees(tx.idx, chain, current)
      BY <2>1, <2>2
    <3>2. current \in 0..current
      BY <2>1
    <3> QED BY <2>1, <3>1, <3>2, AgreesFacts
  <2> QED BY <2>5, <2>8, <2>9
<1>2. TypeInv /\ RowsInv => CaughtUpIsExact
  BY <1>1
<1> QED BY <1>2, RowsInvariant, TypeInvariant, PTL

\* WriteBuffer.add takes for granted that a row a catch-up inserts is not there
\* yet: no flush of the write buffer meets one.
THEOREM FlushesMeetNoRow ==
  ASSUME Honest
  PROVE  Spec /\ []~Overlap => []NoDuplicateInsert
<1>1. RowsInv => NoDuplicateInsert
  BY DEF RowsInv, BufInv, FlushConflicts, NoDuplicateInsert
<1> QED BY <1>1, RowsInvariant, PTL

-----------------------------------------------------------------------------
(* Configurations in which no reversible block joins a group.               *)

\* Groups of one block, a reader of irreversible blocks only, or finality that
\* lags by less than the 2 * db_group_blocks a reader must be behind to group.
SeparateGroups ==
  DbGroupBlocks = 1 \/ IrreversibleOnly \/ MaxLag < 2 * DbGroupBlocks

\* A group that is open goes on with an irreversible block.
GroupInv ==
  /\ pc = "idle" /\ collected > 0 => next = current + 1 /\ current < lib
  /\ pc = "undo" => collected = 0
  /\ ~Overlap

LEMMA GroupStep ==
  ASSUME TypeInv, WindowInv, ~FaultyShip, SeparateGroups, GroupInv, [Next]_vars
  PROVE  GroupInv'
<1>1. /\ chain \in Seq(Block) /\ Len(chain) \in Nat /\ lib \in Nat /\ lib <= Len(chain)
      /\ next \in Nat \ {0} /\ current \in Nat /\ collected \in Nat
  BY RowTypes
<1>2. CASE Extend \/ AdvanceLib \/ Fork
  <2>1. UNCHANGED <<pc, collected, current, blk>> /\ UNCHANGED <<Num, Reversible>>
    BY <1>2 DEF Extend, AdvanceLib, Fork, memVars, Num, Reversible
  <2>2. ASSUME current < lib, next = current + 1
        PROVE  current < lib' /\ next' = current + 1
    BY <1>1, <1>2, <2>2 DEF Extend, AdvanceLib, Fork, Low
  <2> QED BY <2>1, <2>2 DEF GroupInv, Overlap
<1>3. CASE Crash \/ WatchdogExit \/ Start \/ Die
  <2>1. pc' \in {"down", "dead"} \/ (pc' = "idle" /\ collected' = 0)
    BY <1>3 DEF Crash, WatchdogExit, Start, Die, Forget
  <2> QED BY <2>1 DEF GroupInv, Overlap
<1>4. CASE NextBlock
  <2>1. PICK r \in Responses : Collect(r, tx, IF NearHead(r) THEN 1 ELSE DbGroupBlocks)
    BY <1>4 DEF NextBlock
  <2>2. pc = "idle" /\ next = current + 1 /\ next' = next + 1 /\ UNCHANGED lib /\ Receiving
    BY <1>4 DEF NextBlock, Receiving, chainVars
  <2>3. Len(r.branch) = next
    BY <2>2, ResponsesType
  <2>4. r.lib = lib /\ r.until = Served - next
    BY DEF Responses
  <2>5. /\ current' = next /\ collected' = collected + 1 /\ pc' \in {"idle", "execute"}
        /\ pc' = "execute" => blk' = r
        /\ pc' = "idle" => ~NearHead(r) /\ DbGroupBlocks # 1
    <3>1. DbGroupBlocks \in Nat
      BY ReceiverAssumption
    <3> QED BY <1>1, <2>1, <2>3, <3>1 DEF Collect
  <2>6. ~Overlap'
    <3> SUFFICES ASSUME pc' = "execute", next > lib PROVE collected' <= 1
      BY <1>1, <2>3, <2>4, <2>5 DEF Overlap, Reversible, Num
    <3>1. collected = 0
      BY <1>1, <2>2 DEF GroupInv
    <3> QED BY <2>5, <3>1
  <2>7. ASSUME pc' = "idle" PROVE next < lib
    <3>1. next <= lib /\ Served - next >= 2 * DbGroupBlocks /\ DbGroupBlocks \in Nat \ {0}
          /\ DbGroupBlocks # 1
      <4>1. ~NearHead(r) /\ DbGroupBlocks # 1
        BY <2>5, <2>7
      <4>2. DbGroupBlocks \in Nat \ {0} /\ Served \in Int
        BY <1>1, ReceiverAssumption DEF Served
      <4> QED BY <1>1, <2>3, <2>4, <4>1, <4>2 DEF NearHead
    <3>2. Len(chain) - lib <= MaxLag /\ MaxLag \in Nat
      BY WindowTypes DEF WindowInv
    <3>3. CASE IrreversibleOnly
      BY <1>1, <3>1, <3>3 DEF Served
    <3>4. CASE ~IrreversibleOnly
      <4>1. MaxLag < 2 * DbGroupBlocks /\ Served = Len(chain)
        BY <3>1, <3>4 DEF SeparateGroups, Served
      <4> QED BY <1>1, <3>1, <3>2, <4>1
    <3> QED BY <3>3, <3>4
  <2> QED BY <2>2, <2>5, <2>6, <2>7 DEF GroupInv
<1>5. CASE DetectFork
  <2>1. pc = "idle" /\ next <= current /\ pc' = "undo" /\ UNCHANGED collected
    BY <1>5 DEF DetectFork, Receiving, memVars
  <2>2. collected = 0
    BY <1>1, <2>1 DEF GroupInv
  <2> QED BY <2>1, <2>2 DEF GroupInv, Overlap
<1>6. CASE (UndoOne /\ ~Die) \/ CommitChunk
  <2>1. pc = "undo" /\ pc' = "undo" /\ UNCHANGED collected
    BY <1>6 DEF UndoOne, CommitChunk, memVars
  <2> QED BY <2>1 DEF GroupInv, Overlap
<1>7. CASE FinishRollback
  <2>1. pc = "undo" /\ collected = 0 /\ collected' = collected + 1 /\ pc' = "execute"
    BY <1>7 DEF FinishRollback, Collect, GroupInv
  <2>2. collected' = 1
    BY <2>1
  <2> QED BY <2>1, <2>2 DEF GroupInv, Overlap
<1>8. CASE (ExecuteDirect \/ ExecuteBuffered) /\ ~Die
  <2>1. pc = "execute" /\ UNCHANGED <<pc, collected, blk>>
    BY <1>8 DEF ExecuteDirect, ExecuteBuffered, Executing
  <2>2. UNCHANGED Overlap
    BY <2>1 DEF Overlap, Reversible, Num
  <2> QED BY <2>1, <2>2 DEF GroupInv
<1>9. CASE Commit /\ ~Die
  <2>1. pc' = "idle" /\ collected' = 0
    BY <1>9 DEF Commit
  <2> QED BY <2>1 DEF GroupInv, Overlap
<1>10. CASE UNCHANGED vars
  <2>1. UNCHANGED <<pc, collected, current, next, lib, blk>>
    BY <1>10 DEF vars
  <2>2. UNCHANGED Overlap
    BY <2>1 DEF Overlap, Reversible, Num
  <2> QED BY <2>1, <2>2 DEF GroupInv
<1> QED BY <1>2, <1>3, <1>4, <1>5, <1>6, <1>7, <1>8, <1>9, <1>10
        DEF Next, Process, SkippedBlock, RefusedFork

\* With such a configuration no reversible block is executed with a group, and
\* the five theorems above hold without the hypothesis.
THEOREM GroupsStaySeparate ==
  ASSUME ~FaultyShip, SeparateGroups
  PROVE  Spec => []~Overlap
<1>1. Init => WindowInv /\ GroupInv
  <2>1. Init => GroupInv
    BY DEF Init, GroupInv, Overlap
  <2> QED BY <2>1, WindowInit
<1>2. TypeInv /\ WindowInv /\ [Next]_vars => WindowInv'
  BY WindowStep
<1>3. TypeInv /\ WindowInv /\ GroupInv /\ [Next]_vars => GroupInv'
  BY GroupStep
<1>4. GroupInv => ~Overlap
  BY DEF GroupInv
<1> QED BY <1>1, <1>2, <1>3, <1>4, TypeInvariant, PTL DEF Spec
=============================================================================
