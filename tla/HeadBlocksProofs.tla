--------------------------- MODULE HeadBlocksProofs ---------------------------
(***************************************************************************)
(* What the blocks near the head leave behind them, for any values of the    *)
(* constants: the ranges of template mints that sales are given              *)
(* (MintNumbers, by way of MintNumbersProofs) and the repair of float        *)
(* attributes while the filler writes to the same rows (FloatRepair).  The   *)
(* rows themselves are those of ReceiverRowsProofs.                          *)
(***************************************************************************)
EXTENDS MCHeadBlocks, FiniteSetTheorems, TLAPS

MP == INSTANCE MintNumbersProofs WITH lib <- final

-----------------------------------------------------------------------------
(* The repair: what a step leaves as it was.                                *)

Procs == {F!Job, F!Command}
DocType == [value : Int, mutable : F!Forms, immutable : F!Forms]
Batches == UNION {[D -> DocType] : D \in SUBSET F!All}
ProcType == [at : {"idle", "looping", "locked", "read"}, pairs : SUBSET Pairs,
             pair : Pairs \cup {0}, after : Nat, batches : Nat, rows : Batches]
StateType == [status : {"none", "running", "done"}, pair : Pairs \cup {0}, asset : Nat]

FloatTypes ==
  /\ docs \in [F!All -> DocType] /\ said \in [F!All -> Int]
  /\ undoDocs \in [F!All -> SUBSET DocType]
  /\ exists \in SUBSET Pairs /\ pass \in StateType
  /\ proc \in [Procs -> ProcType]

\* An asset the pass has nothing more to do for.
Clean(x) == x[1] \notin exists \/ x \in revived \cup missed \/ F!NoStrings(x)

\* All assets up to one of a pair.
CleanUpTo(q, a) == \A x \in F!All : x[1] < q \/ (x[1] = q /\ x[2] <= a) => Clean(x)
AllClean == \A x \in F!All : Clean(x)

\* A document has the value that the contract has now.
ValuesAreCurrent == \A x \in F!All : docs[x].value = said[x]

\* The cursor in the database: what is before it is clean.
CursorInv ==
  /\ pass.status = "none" => pass.pair = 0
  /\ pass.status = "running" => pass.pair # 0 /\ CleanUpTo(pass.pair, pass.asset)
  /\ pass.status = "done" => AllClean

\* The assets of the next batch after one.
NextBatch(after) == {a \in Assets : a > after /\ a <= after + BatchSize}

\* The slice of a process: what it has passed is clean; the rows it has read
\* are the next ones of its pair, if that is still there.
SliceInv(p) ==
  proc[p].at # "idle" =>
    /\ exists \subseteq proc[p].pairs
    /\ IF proc[p].pair = 0 THEN AllClean ELSE CleanUpTo(proc[p].pair, proc[p].after)
    /\ proc[p].at \in {"locked", "read"} => proc[p].pair # 0
    /\ proc[p].at = "read" =>
         LET D == DOMAIN proc[p].rows
             due == {proc[p].pair} \X NextBatch(proc[p].after)
         IN  D \subseteq due /\ (proc[p].pair \in exists => D = due)

FloatInv == FloatTypes /\ ValuesAreCurrent /\ CursorInv /\ \A p \in Procs : SliceInv(p)
-----------------------------------------------------------------------------
(* Rows of a batch.                                                         *)

LEMMA BatchOf ==
  ASSUME NEW D \in SUBSET F!All, NEW f \in [D -> DocType]
  PROVE  f \in Batches /\ DOMAIN f = D
<1>1. [D -> DocType] \in {[E -> DocType] : E \in SUBSET F!All}
  OBVIOUS
<1> QED BY <1>1 DEF Batches

LEMMA BatchParts ==
  ASSUME NEW f \in Batches
  PROVE  DOMAIN f \in SUBSET F!All /\ f \in [DOMAIN f -> DocType]
<1>1. PICK D \in SUBSET F!All : f \in [D -> DocType]
  BY DEF Batches
<1> QED BY <1>1

LEMMA NoBatch == <<>> \in Batches
<1>1. {} \in SUBSET F!All /\ <<>> \in [{} -> DocType]
  OBVIOUS
<1> QED BY <1>1, BatchOf

\* Assets are numbered, so a batch is an interval of them.
LEMMA PairsAre ==
  /\ \E n \in Nat : Pairs = 1..n
  /\ \E n \in Nat : Assets = 1..n
  /\ BatchSize \in Nat \ {0}
  /\ Stored \in [Pairs \X Assets -> F!Forms \X F!Forms]
<1>1. \A S : F!Cardinality(S) = Cardinality(S) /\ (F!IsFiniteSet(S) <=> IsFiniteSet(S))
  BY DEF F!Cardinality, Cardinality, F!IsFiniteSet, IsFiniteSet
<1>2. F!FloatInstance
  BY FloatInstanceAssumption
<1>3. Pairs = 1..Cardinality(Pairs) /\ IsFiniteSet(Pairs)
  BY <1>1, <1>2 DEF F!FloatInstance
<1>4. Assets = 1..Cardinality(Assets) /\ IsFiniteSet(Assets)
  BY <1>1, <1>2 DEF F!FloatInstance
<1>5. Cardinality(Pairs) \in Nat /\ Cardinality(Assets) \in Nat
  BY <1>3, <1>4, FS_CardinalityType
<1>6. BatchSize \in Nat \ {0} /\ Stored \in [Pairs \X Assets -> F!Forms \X F!Forms]
  BY <1>2 DEF F!FloatInstance
<1> QED BY <1>3, <1>4, <1>5, <1>6

LEMMA AllAre == F!All = Pairs \X Assets
  BY DEF F!All

\* The ids the statement of a batch finds are those of the next batch.
LEMMA IdsAreNext ==
  ASSUME NEW p \in Procs, proc[p].after \in Nat
  PROVE  F!Ids(p) = IF proc[p].pair \in exists THEN NextBatch(proc[p].after) ELSE {}
<1> DEFINE k == proc[p].after
           left == {a \in Assets : a > k}
<1>1. CASE proc[p].pair \notin exists
  BY <1>1 DEF F!Ids
<1>2. CASE proc[p].pair \in exists
  <2>1. PICK n \in Nat : Assets = 1..n
    BY PairsAre
  <2>2. F!Ids(p) = {a \in left : F!Cardinality({b \in left : b < a}) < BatchSize}
    BY <1>2 DEF F!Ids
  <2>3. ASSUME NEW a \in left PROVE F!Cardinality({b \in left : b < a}) = a - k - 1
    <3>1. k \in Nat /\ a \in Nat /\ a > k /\ a <= n
      BY <2>1, <2>3
    <3>2. {b \in left : b < a} = (k + 1)..(a - 1)
      BY <2>1, <3>1
    <3>3. Cardinality((k + 1)..(a - 1)) = IF k + 1 > a - 1 THEN 0 ELSE (a - 1) - (k + 1) + 1
      <4>1. k + 1 \in Int /\ a - 1 \in Int
        BY <3>1
      <4> QED BY <4>1, FS_Interval
    <3>4. F!Cardinality({b \in left : b < a}) = Cardinality({b \in left : b < a})
      BY DEF F!Cardinality, Cardinality, F!IsFiniteSet, IsFiniteSet
    <3>5. F!Cardinality({b \in left : b < a}) = Cardinality((k + 1)..(a - 1))
      BY <3>2, <3>4
    <3> DEFINE size == F!Cardinality({b \in left : b < a})
    <3>6. size = IF k + 1 > a - 1 THEN 0 ELSE (a - 1) - (k + 1) + 1
      BY <3>3, <3>5
    <3> HIDE DEF left, k, size
    <3>7. size = a - k - 1
      BY <3>1, <3>6
    <3> QED BY <3>7 DEF size
  <2>4. \A a \in left : F!Cardinality({b \in left : b < a}) < BatchSize <=> a <= k + BatchSize
    <3>1. SUFFICES ASSUME NEW a \in left
                   PROVE  F!Cardinality({b \in left : b < a}) < BatchSize <=> a <= k + BatchSize
      OBVIOUS
    <3>2. a \in Nat /\ BatchSize \in Nat /\ k \in Nat
      BY <2>1, PairsAre
    <3>3. F!Cardinality({b \in left : b < a}) = a - k - 1
      BY <2>3
    <3> HIDE DEF left, k
    <3> QED BY <3>2, <3>3
  <2>5. F!Ids(p) = {a \in left : a <= k + BatchSize}
    BY <2>2, <2>4, Zenon
  <2> QED BY <1>2, <2>5 DEF NextBatch
<1> QED BY <1>1, <1>2

\* How many rows the next batch has, and the last of them.
LEMMA BatchCounts ==
  ASSUME NEW q \in Pairs, NEW k \in Nat, NEW D, D = {q} \X NextBatch(k)
  PROVE  /\ F!Cardinality(D) >= BatchSize \/ \A a \in Assets : a > k => a \in NextBatch(k)
         /\ F!Cardinality(D) >= BatchSize => D # {}
<1>1. PICK n \in Nat : Assets = 1..n
  BY PairsAre
<1>2. BatchSize \in Nat \ {0}
  BY PairsAre
<1>3. CASE n >= k + BatchSize
  <2>1. NextBatch(k) = (k + 1)..(k + BatchSize)
    BY <1>1, <1>2, <1>3 DEF NextBatch
  <2>2. Cardinality((k + 1)..(k + BatchSize)) = BatchSize /\ IsFiniteSet((k + 1)..(k + BatchSize))
    <3>1. k + 1 \in Int /\ k + BatchSize \in Int /\ ~ (k + 1 > k + BatchSize)
      BY <1>2
    <3>2. Cardinality((k + 1)..(k + BatchSize)) = (k + BatchSize) - (k + 1) + 1
      BY <3>1, FS_Interval
    <3>3. IsFiniteSet((k + 1)..(k + BatchSize))
      BY <3>1, FS_Interval
    <3> QED BY <1>2, <3>2, <3>3
  <2>3. Cardinality(D) = BatchSize
    <3>1. IsFiniteSet({q}) /\ Cardinality({q}) = 1
      BY FS_Singleton
    <3>2. IsFiniteSet(NextBatch(k)) /\ Cardinality(NextBatch(k)) = BatchSize
      BY <2>1, <2>2
    <3>3. Cardinality({q} \X NextBatch(k)) = Cardinality({q}) * Cardinality(NextBatch(k))
      BY <3>1, <3>2, FS_Product
    <3>4. Cardinality({q} \X NextBatch(k)) = 1 * BatchSize
      BY <3>1, <3>2, <3>3
    <3> QED BY <1>2, <3>4
  <2>4. F!Cardinality(D) = BatchSize
    <3>1. F!Cardinality(D) = Cardinality(D)
      BY DEF F!Cardinality, Cardinality, F!IsFiniteSet, IsFiniteSet
    <3> QED BY <2>3, <3>1
  <2>5. k + 1 \in NextBatch(k)
    BY <1>2, <2>1
  <2>6. <<q, k + 1>> \in D
    BY <2>5
  <2> QED BY <1>2, <2>4, <2>6
<1>4. CASE ~ (n >= k + BatchSize)
  <2>1. \A a \in Assets : a > k => a \in NextBatch(k)
    BY <1>1, <1>2, <1>4 DEF NextBatch
  <2>2. F!Cardinality(D) >= BatchSize => D # {}
    <3>1. F!Cardinality({}) = 0
      <4>1. F!Cardinality({}) = Cardinality({})
        BY DEF F!Cardinality, Cardinality, F!IsFiniteSet, IsFiniteSet
      <4> QED BY <4>1, FS_EmptySet
    <3> QED BY <1>2, <3>1
  <2> QED BY <2>1, <2>2
<1> QED BY <1>3, <1>4

\* The first of some pairs.
LEMMA FirstOf ==
  ASSUME NEW S \in SUBSET Pairs
  PROVE  /\ F!First(S) \in Pairs \cup {0}
         /\ F!First(S) = 0 <=> S = {}
         /\ S # {} => F!First(S) \in S /\ \A q \in S : F!First(S) <= q
<1>1. PICK n \in Nat : Pairs = 1..n
  BY PairsAre
<1>2. CASE S = {}
  BY <1>2 DEF F!First
<1>3. CASE S # {}
  <2>1. S \in SUBSET Nat
    BY <1>1
  <2>2. PICK m \in S : \A k \in S : m <= k
    BY <1>3, <2>1, MP!LeastNat DEF MP!LeastNat
  <2>3. F!First(S) = F!Min(S)
    BY <1>3 DEF F!First
  <2>4. F!Min(S) \in S /\ \A k \in S : F!Min(S) <= k
    BY <2>2 DEF F!Min
  <2>5. 0 \notin S
    BY <1>1
  <2> QED BY <1>3, <2>3, <2>4, <2>5
<1> QED BY <1>2, <1>3

\* The last of some assets.
LEMMA LastOf ==
  ASSUME NEW S \in SUBSET Assets, S # {}
  PROVE  F!Max(S) \in S /\ \A a \in S : a <= F!Max(S)
<1>1. PICK n \in Nat : Assets = 1..n
  BY PairsAre
<1>2. MP!Max(S) \in S /\ \A a \in S : a <= MP!Max(S)
  BY <1>1, MP!MaxOfSet DEF MP!MaxOfSet
<1>3. F!Max(S) = MP!Max(S)
  BY DEF F!Max, MP!Max
<1> QED BY <1>2, <1>3
-----------------------------------------------------------------------------
(* What is clean stays clean.                                               *)

LEMMA CursorStays ==
  ASSUME CursorInv, pass' = pass, \A x \in F!All : Clean(x) => Clean(x)'
  PROVE  CursorInv'
BY DEF CursorInv, CleanUpTo, AllClean

LEMMA SliceStays ==
  ASSUME NEW p \in Procs, SliceInv(p), proc'[p] = proc[p], exists' \subseteq exists,
         \A x \in F!All : Clean(x) => Clean(x)'
  PROVE  SliceInv(p)'
<1>1. SUFFICES ASSUME proc[p].at # "idle" PROVE SliceInv(p)'
  BY DEF SliceInv
<1>2. exists' \subseteq proc'[p].pairs
  BY <1>1 DEF SliceInv
<1>3. IF proc'[p].pair = 0 THEN AllClean' ELSE CleanUpTo(proc[p].pair, proc[p].after)'
  BY <1>1 DEF SliceInv, CleanUpTo, AllClean
<1>4. proc'[p].at = "read" =>
        LET D == DOMAIN proc'[p].rows
            due == {proc'[p].pair} \X NextBatch(proc'[p].after)
        IN  D \subseteq due /\ (proc'[p].pair \in exists' => D = due)
  BY <1>1 DEF SliceInv
<1> QED BY <1>1, <1>2, <1>3, <1>4 DEF SliceInv, CleanUpTo

LEMMA FloatTypesOf ==
  ASSUME FloatInv
  PROVE  /\ docs \in [F!All -> DocType] /\ said \in [F!All -> Int]
         /\ undoDocs \in [F!All -> SUBSET DocType]
         /\ exists \in SUBSET Pairs /\ pass \in StateType
         /\ proc \in [Procs -> ProcType]
         /\ ValuesAreCurrent /\ CursorInv /\ \A p \in Procs : SliceInv(p)
BY DEF FloatInv, FloatTypes

LEMMA FloatInvOf ==
  ASSUME docs' \in [F!All -> DocType], said' \in [F!All -> Int],
         undoDocs' \in [F!All -> SUBSET DocType],
         exists' \in SUBSET Pairs, pass' \in StateType, proc' \in [Procs -> ProcType],
         ValuesAreCurrent', CursorInv', \A p \in Procs : SliceInv(p)'
  PROVE  FloatInv'
BY DEF FloatInv, FloatTypes

-----------------------------------------------------------------------------
(* The filler.                                                              *)

\* A step that leaves the pass and the slices as they are.
LEMMA FillerKeeps ==
  ASSUME FloatInv, pass' = pass, proc' = proc, exists' \in SUBSET exists,
         docs' \in [F!All -> DocType], said' \in [F!All -> Int],
         undoDocs' \in [F!All -> SUBSET DocType], ValuesAreCurrent',
         \A x \in F!All : Clean(x) => Clean(x)'
  PROVE  FloatInv'
<1>1. CursorInv'
  BY CursorStays, FloatTypesOf
<1>2. \A p \in Procs : SliceInv(p)'
  BY SliceStays, FloatTypesOf
<1>3. exists' \in SUBSET Pairs /\ pass' \in StateType /\ proc' \in [Procs -> ProcType]
  BY FloatTypesOf
<1> QED BY <1>1, <1>2, <1>3, FloatInvOf

LEMMA SetDataKeeps ==
  ASSUME FloatInv, NEW x \in F!All, F!SetData(x)
  PROVE  FloatInv'
<1>0. /\ docs \in [F!All -> DocType] /\ said \in [F!All -> Int]
      /\ undoDocs \in [F!All -> SUBSET DocType] /\ ValuesAreCurrent
  BY FloatTypesOf
<1>1. /\ said' = [said EXCEPT ![x] = 1 - @]
      /\ undoDocs' = [undoDocs EXCEPT ![x] = IF @ = {} THEN {docs[x]} ELSE @]
      /\ docs' = [docs EXCEPT ![x].value = said'[x], ![x].mutable = "number"]
      /\ pass' = pass /\ proc' = proc /\ exists' = exists /\ revived' = revived /\ missed' = missed
  BY DEF F!SetData
<1>2. docs[x] \in DocType /\ said[x] \in Int
  BY <1>0
<1>3. said' \in [F!All -> Int] /\ said'[x] \in Int
  BY <1>0, <1>1
<1>4. "number" \in F!Forms
  BY DEF F!Forms
<1>5. /\ docs'[x].value = said'[x] /\ docs'[x].mutable = "number"
      /\ docs'[x].immutable = docs[x].immutable /\ docs'[x] \in DocType
  BY <1>0, <1>1, <1>2, <1>3, <1>4 DEF DocType
<1>6. \A y \in F!All \ {x} : docs'[y] = docs[y] /\ said'[y] = said[y]
  BY <1>0, <1>1
<1>7. docs' \in [F!All -> DocType]
  <2>1. docs' = [y \in F!All |-> docs'[y]]
    BY <1>0, <1>1
  <2>2. \A y \in F!All : docs'[y] \in DocType
    BY <1>0, <1>5, <1>6
  <2> QED BY <2>1, <2>2
<1>8. undoDocs' \in [F!All -> SUBSET DocType]
  BY <1>0, <1>1, <1>2
<1>9. ValuesAreCurrent'
  BY <1>0, <1>5, <1>6 DEF ValuesAreCurrent
<1>10. ASSUME NEW y \in F!All, Clean(y) PROVE Clean(y)'
  <2>1. CASE y = x
    BY <1>1, <1>5, <1>10, <2>1 DEF Clean, F!NoStrings
  <2>2. CASE y # x
    BY <1>1, <1>6, <1>10, <2>2 DEF Clean, F!NoStrings
  <2> QED BY <2>1, <2>2
<1> QED BY <1>1, <1>3, <1>7, <1>8, <1>9, <1>10, FillerKeeps

LEMMA RollbackKeeps ==
  ASSUME FloatInv, NEW x \in F!All, F!Rollback(x)
  PROVE  FloatInv'
<1>0. /\ docs \in [F!All -> DocType] /\ said \in [F!All -> Int]
      /\ undoDocs \in [F!All -> SUBSET DocType] /\ ValuesAreCurrent
  BY FloatTypesOf
<1>1. PICK old \in undoDocs[x] :
        /\ docs' = [docs EXCEPT ![x].value = old.value, ![x].mutable = old.mutable]
        /\ said' = [said EXCEPT ![x] = old.value] /\ undoDocs' = [undoDocs EXCEPT ![x] = {}]
        /\ revived' = revived \cup {x}
        /\ pass' = pass /\ proc' = proc /\ exists' = exists /\ missed' = missed
  BY DEF F!Rollback
<1>2. docs[x] \in DocType /\ old \in DocType
  BY <1>0
<1>3. said' \in [F!All -> Int]
  BY <1>0, <1>1, <1>2 DEF DocType
<1>4. docs'[x].value = said'[x] /\ docs'[x] \in DocType
  BY <1>0, <1>1, <1>2 DEF DocType
<1>5. \A y \in F!All \ {x} : docs'[y] = docs[y] /\ said'[y] = said[y]
  BY <1>0, <1>1
<1>6. docs' \in [F!All -> DocType]
  <2>1. docs' = [y \in F!All |-> docs'[y]]
    BY <1>0, <1>1
  <2>2. \A y \in F!All : docs'[y] \in DocType
    BY <1>0, <1>4, <1>5
  <2> QED BY <2>1, <2>2
<1>7. undoDocs' \in [F!All -> SUBSET DocType]
  BY <1>0, <1>1
<1>8. ValuesAreCurrent'
  BY <1>0, <1>4, <1>5 DEF ValuesAreCurrent
<1>9. ASSUME NEW y \in F!All, Clean(y) PROVE Clean(y)'
  <2>1. CASE y = x
    BY <1>1, <2>1 DEF Clean
  <2>2. CASE y # x
    BY <1>1, <1>5, <1>9, <2>2 DEF Clean, F!NoStrings
  <2> QED BY <2>1, <2>2
<1> QED BY <1>1, <1>3, <1>6, <1>7, <1>8, <1>9, FillerKeeps

LEMMA DropPairKeeps ==
  ASSUME FloatInv, NEW q \in Pairs, F!DropPair(q)
  PROVE  FloatInv'
<1>1. /\ exists' = exists \ {q} /\ docs' = docs /\ said' = said /\ undoDocs' = undoDocs
      /\ pass' = pass /\ proc' = proc /\ revived' = revived /\ missed' = missed
  BY DEF F!DropPair
<1>2. ValuesAreCurrent'
  BY <1>1, FloatTypesOf DEF ValuesAreCurrent
<1>3. \A x \in F!All : Clean(x) => Clean(x)'
  BY <1>1 DEF Clean, F!NoStrings
<1>4. exists' \in SUBSET exists
  BY <1>1
<1>5. docs' \in [F!All -> DocType] /\ said' \in [F!All -> Int] /\ undoDocs' \in [F!All -> SUBSET DocType]
  BY <1>1, FloatTypesOf
<1> QED BY <1>1, <1>2, <1>3, <1>4, <1>5, FillerKeeps
-----------------------------------------------------------------------------
(* The slices.                                                              *)

\* A step of one slice that writes no rows.
LEMMA SliceKeeps ==
  ASSUME FloatInv, NEW p \in Procs, NEW e \in ProcType, proc' = [proc EXCEPT ![p] = e],
         SliceInv(p)', pass' \in StateType, CursorInv',
         UNCHANGED <<docs, said, undoDocs, exists, revived, missed>>
  PROVE  FloatInv'
<1>1. proc \in [Procs -> ProcType]
  BY FloatTypesOf
<1>2. proc' \in [Procs -> ProcType]
  BY <1>1
<1>3. \A x \in F!All : Clean(x) => Clean(x)'
  BY DEF Clean, F!NoStrings
<1>4. ASSUME NEW o \in Procs PROVE SliceInv(o)'
  <2>1. CASE o = p
    BY <2>1
  <2>2. CASE o # p
    <3>1. proc'[o] = proc[o]
      BY <1>1, <2>2
    <3> QED BY <1>3, <3>1, SliceStays, FloatTypesOf
  <2> QED BY <2>1, <2>2
<1>5. ValuesAreCurrent'
  BY FloatTypesOf DEF ValuesAreCurrent
<1>6. /\ docs' \in [F!All -> DocType] /\ said' \in [F!All -> Int]
      /\ undoDocs' \in [F!All -> SUBSET DocType] /\ exists' \in SUBSET Pairs
  BY FloatTypesOf
<1> QED BY <1>2, <1>4, <1>5, <1>6, FloatInvOf

LEMMA NothingMoves ==
  ASSUME UNCHANGED <<docs, exists, revived, missed>>
  PROVE  /\ \A x \in F!All : Clean(x)' <=> Clean(x)
         /\ AllClean' <=> AllClean
         /\ \A q \in Pairs \cup {0}, k \in Nat : CleanUpTo(q, k)' <=> CleanUpTo(q, k)
<1>1. \A x \in F!All : Clean(x)' <=> Clean(x)
  BY DEF Clean, F!NoStrings
<1>2. AllClean' <=> AllClean
  BY <1>1 DEF AllClean
<1>3. \A q \in Pairs \cup {0}, k \in Nat : CleanUpTo(q, k)' <=> CleanUpTo(q, k)
  BY <1>1 DEF CleanUpTo
<1> QED BY <1>1, <1>2, <1>3

LEMMA IdleIs == F!Idle \in ProcType /\ F!Idle.at = "idle"
BY NoBatch DEF F!Idle, ProcType

\* A slice that ends asks for nothing.
LEMMA IdleSlice ==
  ASSUME NEW p \in Procs, proc \in [Procs -> ProcType], proc' = [proc EXCEPT ![p] = F!Idle]
  PROVE  SliceInv(p)'
<1>1. proc'[p].at = "idle"
  BY IdleIs
<1> QED BY <1>1 DEF SliceInv

\* A slice that starts at a place before which all is clean.
LEMMA EnterKeeps ==
  ASSUME FloatInv, NEW p \in Procs, NEW at, at.pair \in Pairs \cup {0}, at.after \in Nat,
         F!Enter(p, at), UNCHANGED <<docs, said, undoDocs, exists, revived, missed>>,
         IF at.pair = 0 THEN AllClean ELSE CleanUpTo(at.pair, at.after),
         pass' \in StateType, CursorInv'
  PROVE  FloatInv'
<1>1. proc \in [Procs -> ProcType] /\ exists \in SUBSET Pairs
  BY FloatTypesOf
<1> DEFINE e == [F!Idle EXCEPT !.at = "looping", !.pairs = exists, !.pair = at.pair, !.after = at.after]
<1>2. proc' = [proc EXCEPT ![p] = e]
  BY DEF F!Enter
<1>3. /\ e \in ProcType /\ e.at = "looping" /\ e.pairs = exists /\ e.pair = at.pair /\ e.after = at.after
  BY <1>1, NoBatch DEF F!Idle, ProcType
<1> HIDE DEF e
<1>4. proc'[p] = e
  BY <1>1, <1>2
<1>5. IF at.pair = 0 THEN AllClean' ELSE CleanUpTo(at.pair, at.after)'
  BY NothingMoves
<1>6. /\ proc'[p].at = "looping" /\ proc'[p].pairs = exists
      /\ proc'[p].pair = at.pair /\ proc'[p].after = at.after
  BY <1>3, <1>4
<1>7. SliceInv(p)'
  BY <1>5, <1>6 DEF SliceInv, CleanUpTo
<1> QED BY <1>2, <1>3, <1>7, SliceKeeps

\* All before the pair of the cursor is clean, and so is what is no pair any more.
LEMMA ResumeIsClean ==
  ASSUME FloatInv, pass.status # "done"
  PROVE  LET at == F!Resume(exists)
         IN  /\ at.pair \in Pairs \cup {0} /\ at.after \in Nat
             /\ IF at.pair = 0 THEN AllClean ELSE CleanUpTo(at.pair, at.after)
<1> DEFINE at == F!Resume(exists)
           S == {q \in exists : pass.pair <= q}
<1>0. exists \in SUBSET Pairs /\ pass \in StateType /\ CursorInv
  BY FloatTypesOf
<1>1. at.pair = F!First(S) /\ at.after = IF pass.pair \in exists THEN pass.asset ELSE 0
  BY DEF F!Resume
<1>2. S \in SUBSET Pairs
  BY <1>0
<1>3. PICK n \in Nat : Pairs = 1..n
  BY PairsAre
<1>4. pass.pair \in Pairs \cup {0} /\ pass.asset \in Nat /\ pass.status \in {"none", "running"}
  BY <1>0 DEF StateType
<1>5. at.pair \in Pairs \cup {0} /\ at.after \in Nat
  BY <1>1, <1>2, <1>4, FirstOf
<1>6. ASSUME NEW x \in F!All, x[1] < pass.pair \/ (x[1] = pass.pair /\ x[2] <= pass.asset)
      PROVE  Clean(x)
  <2>1. CASE pass.status = "none"
    <3>1. pass.pair = 0
      BY <1>0, <2>1 DEF CursorInv
    <3>2. x[1] \in Nat /\ x[1] > 0
      BY <1>3, AllAre
    <3> QED BY <1>6, <3>1, <3>2
  <2>2. CASE pass.status = "running"
    BY <1>0, <1>6, <2>2 DEF CursorInv, CleanUpTo
  <2> QED BY <1>4, <2>1, <2>2
<1>7. ASSUME NEW x \in F!All, x[1] \notin exists PROVE Clean(x)
  BY <1>7 DEF Clean
<1>8. \A x \in F!All : x[1] \in Nat /\ x[1] \in Pairs
  BY <1>3, AllAre
<1>9. CASE S = {}
  <2>1. at.pair = 0
    BY <1>1, <1>2, <1>9, FirstOf
  <2>2. ASSUME NEW x \in F!All PROVE Clean(x)
    <3>1. CASE x[1] < pass.pair
      BY <1>6, <3>1
    <3>2. CASE ~ (x[1] < pass.pair)
      <4>1. x[1] \notin exists
        BY <1>3, <1>4, <1>8, <1>9, <3>2
      <4> QED BY <1>7, <4>1
    <3> QED BY <3>1, <3>2
  <2> QED BY <1>5, <2>1, <2>2 DEF AllClean
<1>10. CASE S # {}
  <2>1. at.pair \in S /\ \A q \in S : at.pair <= q
    BY <1>1, <1>2, <1>10, FirstOf
  <2>2. at.pair # 0
    BY <1>2, <1>3, <2>1
  <2>3. ASSUME NEW x \in F!All, x[1] < at.pair \/ (x[1] = at.pair /\ x[2] <= at.after)
        PROVE  Clean(x)
    <3>1. CASE x[1] < pass.pair
      BY <1>6, <3>1
    <3>2. CASE ~ (x[1] < pass.pair) /\ x[1] < at.pair
      <4>1. x[1] \notin exists
        <5>1. SUFFICES ASSUME x[1] \in exists PROVE FALSE
          OBVIOUS
        <5>2. x[1] \in S
          BY <1>3, <1>4, <1>8, <3>2, <5>1
        <5>3. at.pair <= x[1] /\ at.pair \in Nat /\ x[1] \in Nat
          BY <1>3, <1>5, <1>8, <2>1, <5>2
        <5> QED BY <3>2, <5>3
      <4> QED BY <1>7, <4>1
    <3>3. CASE ~ (x[1] < pass.pair) /\ x[1] = at.pair
      <4>0. at.pair \in Nat /\ pass.pair \in Nat /\ x[2] \in Nat /\ pass.pair <= at.pair
        <5>1. PICK m \in Nat : Assets = 1..m
          BY PairsAre
        <5> QED BY <1>3, <1>4, <1>5, <2>1, <5>1, AllAre
      <4>1. x[2] <= at.after
        BY <2>3, <3>3, <4>0
      <4>2. CASE pass.pair \in exists
        <5>1. pass.pair \in S
          BY <4>0, <4>2
        <5>2. at.pair = pass.pair
          BY <2>1, <4>0, <5>1
        <5> QED BY <1>1, <1>6, <3>3, <4>1, <4>2, <5>2
      <4>3. CASE pass.pair \notin exists
        <5>1. PICK m \in Nat : Assets = 1..m
          BY PairsAre
        <5>2. x[2] > 0
          BY <5>1, AllAre
        <5> QED BY <1>1, <4>0, <4>1, <4>3, <5>2
      <4> QED BY <4>2, <4>3
    <3>4. x[1] < at.pair \/ x[1] = at.pair
      BY <2>3
    <3> QED BY <3>1, <3>2, <3>3, <3>4
  <2> QED BY <1>5, <2>2, <2>3 DEF CleanUpTo
<1> QED BY <1>9, <1>10

LEMMA StartKeeps ==
  ASSUME FloatInv, NEW p \in Procs, F!Start(p)
  PROVE  FloatInv'
<1>0. /\ exists \in SUBSET Pairs /\ pass \in StateType /\ CursorInv
      /\ proc \in [Procs -> ProcType] /\ \A o \in Procs : SliceInv(o)
  BY FloatTypesOf
<1>1. UNCHANGED <<docs, undoDocs, exists, said, revived, missed>>
  BY DEF F!Start
<1>2. CASE UNCHANGED <<pass, proc>>
  <2>1. proc' = [proc EXCEPT ![p] = proc[p]] /\ proc[p] \in ProcType
    BY <1>0, <1>2
  <2>2. \A x \in F!All : Clean(x) => Clean(x)'
    BY <1>1, NothingMoves
  <2>3. CursorInv'
    BY <1>0, <1>2, <2>2, CursorStays
  <2>4. SliceInv(p)'
    BY <1>0, <1>1, <1>2, <2>2, SliceStays
  <2>5. pass' \in StateType
    BY <1>0, <1>2
  <2> QED BY <1>1, <2>1, <2>3, <2>4, <2>5, SliceKeeps
<1>3. CASE pass.status # "done" /\ F!Enter(p, F!Resume(exists)) /\ pass' = pass
  <2>1. \A x \in F!All : Clean(x) => Clean(x)'
    BY <1>1, NothingMoves
  <2>2. CursorInv' /\ pass' \in StateType
    BY <1>0, <1>3, <2>1, CursorStays
  <2>0. PICK at : at = F!Resume(exists)
    OBVIOUS
  <2>3. /\ at.pair \in Pairs \cup {0} /\ at.after \in Nat
        /\ IF at.pair = 0 THEN AllClean ELSE CleanUpTo(at.pair, at.after)
    BY <1>3, <2>0, ResumeIsClean
  <2>4. F!Enter(p, at)
    BY <1>3, <2>0
  <2> QED BY <1>1, <2>2, <2>3, <2>4, EnterKeeps
<1>4. CASE pass' = F!NoState /\ F!Enter(p, [pair |-> F!First(exists), after |-> 0])
  <2>0. PICK at : at = [pair |-> F!First(exists), after |-> 0]
    OBVIOUS
  <2>1. pass' \in StateType /\ CursorInv'
    BY <1>4 DEF F!NoState, StateType, CursorInv
  <2>2. at.pair = F!First(exists) /\ at.after = 0
    BY <2>0
  <2>3. F!Enter(p, at)
    BY <1>4, <2>0
  <2>4. /\ at.pair \in Pairs \cup {0}
        /\ at.pair = 0 <=> exists = {}
        /\ exists # {} => at.pair \in exists /\ \A q \in exists : at.pair <= q
    BY <1>0, <2>2, FirstOf
  <2>5. PICK n \in Nat : Pairs = 1..n
    BY PairsAre
  <2>6. PICK m \in Nat : Assets = 1..m
    BY PairsAre
  <2>7. ASSUME NEW x \in F!All, at.pair # 0 => x[1] < at.pair \/ (x[1] = at.pair /\ x[2] <= 0)
        PROVE  Clean(x)
    <3>0. x[1] \in Nat /\ x[2] \in Nat /\ x[2] > 0
      BY <2>5, <2>6, AllAre
    <3>1. x[1] \notin exists
      <4>1. SUFFICES ASSUME x[1] \in exists PROVE FALSE
        OBVIOUS
      <4>2. exists # {}
        BY <4>1
      <4>3. at.pair \in exists /\ at.pair # 0 /\ at.pair <= x[1]
        BY <2>4, <4>1, <4>2
      <4>4. at.pair \in Nat
        <5>1. at.pair \in Pairs
          BY <2>4, <4>3
        <5> QED BY <2>5, <5>1
      <4> QED BY <2>7, <3>0, <4>3, <4>4
    <3> QED BY <3>1 DEF Clean
  <2>8. IF at.pair = 0 THEN AllClean ELSE CleanUpTo(at.pair, at.after)
    BY <2>2, <2>7 DEF AllClean, CleanUpTo
  <2>9. at.after \in Nat
    BY <2>2
  <2> QED BY <1>1, <2>1, <2>3, <2>4, <2>8, <2>9, EnterKeeps
<1> QED BY <1>2, <1>3, <1>4 DEF F!Start
LEMMA BeginBatchKeeps ==
  ASSUME FloatInv, NEW p \in Procs, F!BeginBatch(p)
  PROVE  FloatInv'
<1>0. /\ pass \in StateType /\ CursorInv /\ proc \in [Procs -> ProcType] /\ SliceInv(p)
  BY FloatTypesOf
<1>1. /\ UNCHANGED <<docs, undoDocs, exists, said, revived, missed>> /\ pass' = pass
      /\ proc[p].at = "looping" /\ proc[p].pair # 0
  BY DEF F!BeginBatch
<1>2. PICK e : proc' = [proc EXCEPT ![p] = e] /\ (e = F!Idle \/ e = [proc[p] EXCEPT !.at = "locked"])
  BY DEF F!BeginBatch
<1>3. CursorInv' /\ pass' \in StateType
  BY <1>0, <1>1, NothingMoves, CursorStays
<1>4. proc'[p] = e
  BY <1>0, <1>2
<1>5. CASE e = F!Idle
  <2>1. SliceInv(p)'
    BY <1>0, <1>2, <1>5, IdleSlice
  <2>2. e \in ProcType
    BY <1>5, IdleIs
  <2> QED BY <1>1, <1>2, <1>3, <2>1, <2>2, SliceKeeps
<1>6. CASE e = [proc[p] EXCEPT !.at = "locked"]
  <2>1. proc[p] \in ProcType
    BY <1>0
  <2>2. e \in ProcType /\ e.at = "locked" /\ e.pairs = proc[p].pairs /\ e.pair = proc[p].pair /\ e.after = proc[p].after
    BY <1>6, <2>1 DEF ProcType
  <2>3. exists \subseteq proc[p].pairs /\ CleanUpTo(proc[p].pair, proc[p].after)
    BY <1>0, <1>1 DEF SliceInv
  <2>4. e.pair \in Pairs \cup {0} /\ e.after \in Nat
    BY <2>2 DEF ProcType
  <2>5. CleanUpTo(e.pair, e.after)'
    BY <1>1, <2>2, <2>3, <2>4, NothingMoves
  <2>6. SliceInv(p)'
    BY <1>1, <1>4, <2>2, <2>3, <2>5 DEF SliceInv, CleanUpTo
  <2> QED BY <1>1, <1>2, <1>3, <2>2, <2>6, SliceKeeps
<1> QED BY <1>2, <1>5, <1>6

LEMMA ReadBatchKeeps ==
  ASSUME FloatInv, NEW p \in Procs, F!ReadBatch(p)
  PROVE  FloatInv'
<1>0. /\ pass \in StateType /\ CursorInv /\ proc \in [Procs -> ProcType] /\ SliceInv(p)
      /\ docs \in [F!All -> DocType] /\ exists \in SUBSET Pairs
  BY FloatTypesOf
<1>1. PICK D : D = {<<proc[p].pair, a>> : a \in F!Ids(p)}
  OBVIOUS
<1>2. PICK rows : rows = [x \in D |-> docs[x]]
  OBVIOUS
<1>3. PICK e : e = [proc[p] EXCEPT !.at = "read", !.rows = rows]
  OBVIOUS
<1>4. /\ UNCHANGED <<docs, undoDocs, exists, said, revived, missed>> /\ pass' = pass
      /\ proc[p].at = "locked" /\ proc' = [proc EXCEPT ![p] = e]
  BY <1>1, <1>2, <1>3 DEF F!ReadBatch
<1>5. proc[p] \in ProcType /\ proc[p].pair \in Pairs /\ proc[p].after \in Nat
  <2>1. proc[p] \in ProcType
    BY <1>0
  <2>2. proc[p].pair # 0
    BY <1>0, <1>4 DEF SliceInv
  <2> QED BY <2>1, <2>2 DEF ProcType
<1>6. /\ D \subseteq {proc[p].pair} \X NextBatch(proc[p].after)
      /\ proc[p].pair \in exists => D = {proc[p].pair} \X NextBatch(proc[p].after)
  BY <1>1, <1>5, IdsAreNext
<1>7. D \in SUBSET F!All
  <2>1. NextBatch(proc[p].after) \subseteq Assets
    BY DEF NextBatch
  <2> QED BY <1>5, <1>6, <2>1, AllAre
<1>8. rows \in Batches /\ DOMAIN rows = D
  <2>1. rows \in [D -> DocType]
    BY <1>0, <1>2, <1>7
  <2> QED BY <1>7, <2>1, BatchOf
<1>9. /\ e \in ProcType /\ e.at = "read" /\ e.pairs = proc[p].pairs /\ e.pair = proc[p].pair
      /\ e.after = proc[p].after /\ e.rows = rows
  BY <1>3, <1>5, <1>8 DEF ProcType
<1>10. proc'[p] = e
  BY <1>0, <1>4
<1>11. exists \subseteq proc[p].pairs /\ CleanUpTo(proc[p].pair, proc[p].after)
  BY <1>0, <1>4, <1>5 DEF SliceInv
<1>12. e.pair \in Pairs \cup {0} /\ e.after \in Nat /\ e.pair # 0
  <2>1. e.pair # 0
    BY <1>0, <1>4, <1>9 DEF SliceInv
  <2> QED BY <1>5, <1>9, <2>1
<1>13. CleanUpTo(e.pair, e.after)'
  BY <1>4, <1>9, <1>11, <1>12, NothingMoves
<1>14. /\ DOMAIN e.rows \subseteq {e.pair} \X NextBatch(e.after)
       /\ e.pair \in exists => DOMAIN e.rows = {e.pair} \X NextBatch(e.after)
  BY <1>6, <1>8, <1>9
<1>15. SliceInv(p)'
  BY <1>4, <1>9, <1>10, <1>11, <1>12, <1>13, <1>14 DEF SliceInv, CleanUpTo
<1>16. CursorInv' /\ pass' \in StateType
  BY <1>0, <1>4, NothingMoves, CursorStays
<1> QED BY <1>4, <1>9, <1>15, <1>16, SliceKeeps

LEMMA FinishKeeps ==
  ASSUME FloatInv, NEW p \in Procs, F!Finish(p)
  PROVE  FloatInv'
<1>0. /\ pass \in StateType /\ CursorInv /\ proc \in [Procs -> ProcType] /\ SliceInv(p)
  BY FloatTypesOf
<1>1. /\ UNCHANGED <<docs, undoDocs, exists, said, revived, missed>>
      /\ proc[p].at = "looping" /\ proc[p].pair = 0
      /\ proc' = [proc EXCEPT ![p] = F!Idle]
      /\ pass' = pass \/ pass' = [pass EXCEPT !.status = "done"]
  BY DEF F!Finish
<1>2. SliceInv(p)' /\ F!Idle \in ProcType
  BY <1>0, <1>1, IdleSlice, IdleIs
<1>3. CursorInv' /\ pass' \in StateType
  <2>1. CASE pass' = pass
    BY <1>0, <1>1, <2>1, NothingMoves, CursorStays
  <2>2. CASE pass' = [pass EXCEPT !.status = "done"]
    <3>1. pass' \in StateType /\ pass'.status = "done"
      BY <1>0, <2>2 DEF StateType
    <3>2. AllClean'
      BY <1>0, <1>1, NothingMoves DEF SliceInv
    <3> QED BY <3>1, <3>2 DEF CursorInv
  <2> QED BY <1>1, <2>1, <2>2
<1> QED BY <1>1, <1>2, <1>3, SliceKeeps

LEMMA FailKeeps ==
  ASSUME FloatInv, NEW p \in Procs, F!Fail(p)
  PROVE  FloatInv'
<1>0. /\ pass \in StateType /\ CursorInv /\ proc \in [Procs -> ProcType]
  BY FloatTypesOf
<1>1. /\ UNCHANGED <<docs, undoDocs, exists, said, revived, missed>> /\ pass' = pass
      /\ proc' = [proc EXCEPT ![p] = F!Idle]
  BY DEF F!Fail
<1>2. SliceInv(p)' /\ F!Idle \in ProcType
  BY <1>0, <1>1, IdleSlice, IdleIs
<1>3. CursorInv' /\ pass' \in StateType
  BY <1>0, <1>1, NothingMoves, CursorStays
<1> QED BY <1>1, <1>2, <1>3, SliceKeeps
-----------------------------------------------------------------------------
(* The batch is written.                                                    *)

\* What the UPDATE makes of a row: as it is now, or repaired.
LEMMA RewrittenIs ==
  ASSUME NEW row \in DocType, NEW now \in DocType
  PROVE  /\ F!Rewritten(row, now) \in DocType
         /\ F!Rewritten(row, now).value = now.value
         /\ row # now => F!Rewritten(row, now) = now
         /\ row = now => {F!Rewritten(row, now).mutable, F!Rewritten(row, now).immutable}
                           \cap {"string", "nonfinite"} = {}
         /\ {now.mutable, now.immutable} \cap {"string", "nonfinite"} = {} =>
              {F!Rewritten(row, now).mutable, F!Rewritten(row, now).immutable}
                \cap {"string", "nonfinite"} = {}
<1>1. CASE row # now
  BY <1>1 DEF F!Rewritten
<1>2. CASE row = now
  <2>1. F!Rewritten(row, now) = [now EXCEPT !.mutable = F!Repaired(@), !.immutable = F!Repaired(@)]
    BY <1>2 DEF F!Rewritten
  <2>2. \A form \in F!Forms : F!Repaired(form) \in F!Forms /\ F!Repaired(form) \notin {"string", "nonfinite"}
    BY DEF F!Repaired, F!Forms
  <2>3. now.mutable \in F!Forms /\ now.immutable \in F!Forms
    BY DEF DocType
  <2>4. /\ F!Rewritten(row, now).value = now.value
        /\ F!Rewritten(row, now).mutable = F!Repaired(now.mutable)
        /\ F!Rewritten(row, now).immutable = F!Repaired(now.immutable)
        /\ F!Rewritten(row, now) \in DocType
    BY <2>1, <2>2, <2>3 DEF DocType
  <2> QED BY <1>2, <2>2, <2>3, <2>4
<1> QED BY <1>1, <1>2

\* The rows, with the assets that are clean after it: those that were, and
\* those of the batch.
LEMMA WritesRows ==
  ASSUME FloatInv, NEW p \in Procs, F!WriteBatch(p)
  PROVE  /\ docs' \in [F!All -> DocType] /\ ValuesAreCurrent'
         /\ \A x \in F!All : Clean(x) => Clean(x)'
         /\ \A x \in DOMAIN proc[p].rows : Clean(x)'
<1>0. /\ docs \in [F!All -> DocType] /\ proc \in [Procs -> ProcType] /\ ValuesAreCurrent
  BY FloatTypesOf
<1>1. PICK rows : rows = proc[p].rows
  OBVIOUS
<1>2. DOMAIN rows \in SUBSET F!All /\ rows \in [DOMAIN rows -> DocType]
  <2>1. proc[p] \in ProcType
    BY <1>0
  <2>2. rows \in Batches
    BY <1>1, <2>1 DEF ProcType
  <2> QED BY <2>2, BatchParts
<1>3. /\ docs' = [x \in F!All |-> IF x \in DOMAIN rows /\ x[1] \in exists
                                  THEN F!Rewritten(rows[x], docs[x]) ELSE docs[x]]
      /\ missed' = missed \cup {x \in DOMAIN rows : rows[x] # docs[x]}
      /\ UNCHANGED <<exists, said, revived>>
  BY <1>1 DEF F!WriteBatch
<1>4. ASSUME NEW x \in F!All
      PROVE  /\ docs'[x] \in DocType /\ docs'[x].value = docs[x].value
             /\ Clean(x) => Clean(x)'
             /\ x \in DOMAIN rows => Clean(x)'
  <2>0. docs[x] \in DocType
    BY <1>0
  <2>1. CASE x \in DOMAIN rows /\ x[1] \in exists
    <3>1. docs'[x] = F!Rewritten(rows[x], docs[x])
      BY <1>3, <2>1
    <3>2. rows[x] \in DocType
      BY <1>2, <2>1
    <3>3. /\ docs'[x] \in DocType /\ docs'[x].value = docs[x].value
          /\ rows[x] = docs[x] => {docs'[x].mutable, docs'[x].immutable} \cap {"string", "nonfinite"} = {}
      BY <2>0, <3>1, <3>2, RewrittenIs
    <3>4. CASE rows[x] = docs[x]
      BY <3>3, <3>4 DEF Clean, F!NoStrings
    <3>5. CASE rows[x] # docs[x]
      <4>1. x \in missed'
        BY <1>3, <2>1, <3>5
      <4> QED BY <3>3, <4>1 DEF Clean
    <3> QED BY <3>3, <3>4, <3>5
  <2>2. CASE ~ (x \in DOMAIN rows /\ x[1] \in exists)
    <3>1. docs'[x] = docs[x]
      BY <1>3, <2>2
    <3>2. Clean(x) => Clean(x)'
      BY <1>3, <3>1 DEF Clean, F!NoStrings
    <3>3. x \in DOMAIN rows => Clean(x)'
      BY <1>3, <2>2 DEF Clean
    <3> QED BY <2>0, <3>1, <3>2, <3>3
  <2> QED BY <2>1, <2>2
<1>5. docs' \in [F!All -> DocType]
  <2>1. docs' = [x \in F!All |-> docs'[x]]
    BY <1>3
  <2> QED BY <1>4, <2>1
<1>6. ValuesAreCurrent'
  BY <1>0, <1>3, <1>4 DEF ValuesAreCurrent
<1> QED BY <1>1, <1>2, <1>4, <1>5, <1>6

LEMMA WriteBatchKeeps ==
  ASSUME FloatInv, NEW p \in Procs, F!WriteBatch(p)
  PROVE  FloatInv'
<1>0. /\ said \in [F!All -> Int] /\ undoDocs \in [F!All -> SUBSET DocType]
      /\ exists \in SUBSET Pairs /\ proc \in [Procs -> ProcType] /\ \A o \in Procs : SliceInv(o)
  BY FloatTypesOf
<1>1. PICK q, k, D :
        q = proc[p].pair /\ k = proc[p].after /\ D = DOMAIN proc[p].rows
  OBVIOUS
<1> DEFINE full == F!Cardinality(D) >= BatchSize
<1>2. PICK last, rest :
        /\ last = IF D = {} THEN k ELSE F!Max({x[2] : x \in D})
        /\ rest = {o \in proc[p].pairs : o > q}
  OBVIOUS
<1>3. PICK e, pair, after :
        /\ pair = (IF full THEN q ELSE F!First(rest)) /\ after = (IF full THEN last ELSE 0)
        /\ e = [proc[p] EXCEPT !.at = "looping", !.batches = IF p = F!Job THEN @ + 1 ELSE 0,
                               !.rows = <<>>, !.pair = pair, !.after = after]
  OBVIOUS
<1>4. /\ proc[p].at = "read" /\ pass' = [status |-> "running", pair |-> q, asset |-> last]
      /\ proc' = [proc EXCEPT ![p] = e]
      /\ UNCHANGED <<undoDocs, exists, said, revived>>
  <2>1. /\ proc[p].at = "read" /\ pass' = [status |-> "running", pair |-> q, asset |-> last]
        /\ UNCHANGED <<undoDocs, exists, said, revived>>
    BY <1>1, <1>2 DEF F!WriteBatch
  <2>2. proc' = [proc EXCEPT ![p].at = "looping", ![p].batches = IF p = F!Job THEN @ + 1 ELSE 0,
                             ![p].rows = <<>>, ![p].pair = IF full THEN @ ELSE F!First(rest),
                             ![p].after = IF full THEN last ELSE 0]
    BY <1>1, <1>2 DEF F!WriteBatch
  <2>3. q = proc[p].pair
    BY <1>1
  <2> HIDE DEF full
  <2>4. proc' = [proc EXCEPT ![p] = e]
    BY <1>0, <1>3, <2>2, <2>3
  <2> QED BY <2>1, <2>4
<1>5. /\ docs' \in [F!All -> DocType] /\ ValuesAreCurrent'
      /\ \A x \in F!All : Clean(x) => Clean(x)'
      /\ \A x \in D : Clean(x)'
  BY <1>1, WritesRows
<1>6. proc[p] \in ProcType /\ proc[p].batches \in Nat /\ proc[p].pairs \in SUBSET Pairs
  BY <1>0 DEF ProcType
<1>7. /\ q \in Pairs /\ k \in Nat /\ exists \subseteq proc[p].pairs /\ CleanUpTo(q, k)
      /\ D \subseteq {q} \X NextBatch(k)
      /\ q \in exists => D = {q} \X NextBatch(k)
  <2>1. /\ q # 0 /\ exists \subseteq proc[p].pairs /\ D \subseteq {q} \X NextBatch(k)
        /\ q \in exists => D = {q} \X NextBatch(k)
    BY <1>0, <1>1, <1>4 DEF SliceInv
  <2>2. CleanUpTo(q, k)
    <3>1. proc[p].pair # 0
      BY <1>1, <2>1
    <3>2. CleanUpTo(proc[p].pair, proc[p].after)
      BY <1>0, <1>4, <3>1 DEF SliceInv
    <3> QED BY <1>1, <3>2 DEF CleanUpTo
  <2>3. q \in Pairs \cup {0} /\ k \in Nat
    BY <1>1, <1>6 DEF ProcType
  <2> QED BY <2>1, <2>2, <2>3
<1>8. PICK n \in Nat : Pairs = 1..n
  BY PairsAre
<1>9. PICK m \in Nat : Assets = 1..m
  BY PairsAre
<1>10. last \in Nat /\ \A a \in Assets : a <= last /\ a > k => <<q, a>> \in D \/ q \notin exists
  <2>1. CASE D = {}
    <3>1. last = k
      BY <1>2, <2>1
    <3>2. \A a \in Assets : a \in Nat
      BY <1>9
    <3> QED BY <1>7, <3>1, <3>2
  <2>2. CASE D # {}
    <3>0. NextBatch(k) \in SUBSET Assets
      BY DEF NextBatch
    <3>1. {x[2] : x \in D} \in SUBSET Assets /\ {x[2] : x \in D} # {}
      BY <1>7, <2>2, <3>0
    <3>2. last \in {x[2] : x \in D}
      BY <1>2, <2>2, <3>1, LastOf
    <3>3. last \in NextBatch(k)
      BY <1>7, <3>2
    <3>4. last \in Nat /\ last <= k + BatchSize
      BY <1>9, <3>3 DEF NextBatch
    <3>5. ASSUME NEW a \in Assets, a <= last, a > k, q \in exists PROVE <<q, a>> \in D
      <4>1. a <= k + BatchSize
        BY <1>7, <1>9, <3>4, <3>5, PairsAre
      <4>2. a \in NextBatch(k)
        BY <3>5, <4>1 DEF NextBatch
      <4> QED BY <1>7, <3>5, <4>2
    <3> QED BY <3>4, <3>5
  <2> QED BY <2>1, <2>2
<1>11. \A x \in F!All : x[1] \in Pairs /\ x[2] \in Assets /\ x = <<x[1], x[2]>>
  BY AllAre
<1>12. ASSUME NEW x \in F!All, x[1] < q \/ (x[1] = q /\ x[2] <= last) PROVE Clean(x)'
  <2>1. CASE x[1] < q \/ (x[1] = q /\ x[2] <= k)
    BY <1>5, <1>7, <2>1 DEF CleanUpTo
  <2>2. CASE x[1] = q /\ ~ (x[2] <= k)
    <3>1. x[2] \in Assets /\ x[2] > k /\ x[2] <= last
      <4>1. x[2] \in Assets /\ x[2] \in Nat /\ x[1] \in Nat
        BY <1>8, <1>9, <1>11
      <4> QED BY <1>7, <1>12, <2>2, <4>1
    <3>2. CASE q \notin exists
      BY <1>4, <2>2, <3>2 DEF Clean
    <3>3. CASE <<q, x[2]>> \in D
      BY <1>5, <1>11, <2>2, <3>3
    <3> QED BY <1>10, <3>1, <3>2, <3>3
  <2> QED BY <1>12, <2>1, <2>2
<1>13. CleanUpTo(q, last)'
  BY <1>12 DEF CleanUpTo
<1>14. q # 0
  BY <1>7, <1>8
<1>15. pass' \in StateType /\ CursorInv'
  <2>1. pass'.status = "running" /\ pass'.pair = q /\ pass'.asset = last /\ pass' \in StateType
    BY <1>4, <1>7, <1>10 DEF StateType
  <2> QED BY <1>13, <1>14, <2>1 DEF CursorInv, CleanUpTo
<1>16. rest \in SUBSET Pairs
  BY <1>2, <1>6
<1>17. /\ e \in ProcType /\ e.at = "looping" /\ e.pairs = proc[p].pairs
       /\ e.pair = (IF full THEN q ELSE F!First(rest)) /\ e.after = (IF full THEN last ELSE 0)
  <2>1. F!First(rest) \in Pairs \cup {0}
    BY <1>16, FirstOf
  <2>2. pair \in Pairs \cup {0} /\ after \in Nat
    BY <1>3, <1>7, <1>10, <2>1
  <2>3. (IF p = F!Job THEN proc[p].batches + 1 ELSE 0) \in Nat
    BY <1>6
  <2>4. /\ e \in ProcType /\ e.at = "looping" /\ e.pairs = proc[p].pairs
        /\ e.pair = pair /\ e.after = after
    BY <1>3, <1>6, <2>2, <2>3, NoBatch DEF ProcType
  <2> QED BY <1>3, <2>4
<1>18. proc'[p] = e
  BY <1>0, <1>4
<1>19. IF e.pair = 0 THEN AllClean' ELSE \A x \in F!All : x[1] < e.pair \/ (x[1] = e.pair /\ x[2] <= e.after) => Clean(x)'
  <2>1. CASE full
    BY <1>12, <1>14, <1>17, <2>1
  <2>2. CASE ~full
    <3>1. e.pair = F!First(rest) /\ e.after = 0
      BY <1>17, <2>2
    <3>2. ASSUME NEW x \in F!All, x[1] \notin rest PROVE Clean(x)'
      <4>0. x[1] \in Nat /\ x[2] \in Nat /\ q \in Nat /\ k \in Nat
        BY <1>7, <1>8, <1>9, <1>11
      <4>1. CASE x[1] \notin exists
        BY <1>4, <4>1 DEF Clean
      <4>2. CASE x[1] \in exists /\ x[1] < q
        BY <1>12, <4>2
      <4>3. CASE x[1] \in exists /\ x[1] = q
        <5>1. D = {q} \X NextBatch(k)
          BY <1>7, <4>3
        <5>2. ~ (F!Cardinality(D) >= BatchSize)
          BY <1>2, <2>2
        <5>3. \A a \in Assets : a > k => a \in NextBatch(k)
          BY <1>7, <5>1, <5>2, BatchCounts
        <5>4. CASE x[2] <= k
          BY <1>5, <1>7, <4>3, <5>4 DEF CleanUpTo
        <5>5. CASE x[2] > k
          <6>1. <<q, x[2]>> \in D
            BY <1>11, <5>1, <5>3, <5>5
          <6>2. x \in D
            BY <1>11, <4>3, <6>1
          <6> QED BY <1>5, <6>2
        <5> QED BY <4>0, <5>4, <5>5
      <4>4. x[1] \in exists => x[1] < q \/ x[1] = q
        BY <1>2, <1>7, <3>2, <4>0
      <4> QED BY <4>1, <4>2, <4>3, <4>4
    <3>3. CASE rest = {}
      <4>1. e.pair = 0
        BY <1>16, <3>1, <3>3, FirstOf
      <4> QED BY <3>2, <3>3, <4>1 DEF AllClean
    <3>4. CASE rest # {}
      <4>1. e.pair \in rest /\ \A o \in rest : e.pair <= o
        BY <1>16, <3>1, <3>4, FirstOf
      <4>2. ASSUME NEW x \in F!All, x[1] < e.pair \/ (x[1] = e.pair /\ x[2] <= e.after)
            PROVE  x[1] \notin rest
        <5>0. x[1] \in Nat /\ x[2] \in Nat /\ x[2] > 0 /\ e.pair \in Nat
          BY <1>8, <1>9, <1>11, <1>16, <4>1
        <5> QED BY <3>1, <4>1, <4>2, <5>0
      <4>3. e.pair # 0
        BY <1>8, <1>16, <4>1
      <4> QED BY <3>2, <4>2, <4>3
    <3> QED BY <3>3, <3>4
  <2> QED BY <2>1, <2>2
<1>20. SliceInv(p)'
  BY <1>4, <1>7, <1>17, <1>18, <1>19 DEF SliceInv, CleanUpTo
<1>21. ASSUME NEW o \in Procs PROVE SliceInv(o)'
  <2>1. CASE o = p
    BY <1>20, <2>1
  <2>2. CASE o # p
    <3>1. proc'[o] = proc[o] /\ SliceInv(o)
      BY <1>0, <1>4, <2>2
    <3> QED BY <1>4, <1>5, <3>1, SliceStays
  <2> QED BY <2>1, <2>2
<1>22. /\ said' \in [F!All -> Int] /\ undoDocs' \in [F!All -> SUBSET DocType]
       /\ exists' \in SUBSET Pairs /\ proc' \in [Procs -> ProcType]
  BY <1>0, <1>4, <1>17
<1> QED BY <1>5, <1>15, <1>21, <1>22, FloatInvOf
-----------------------------------------------------------------------------
(* What the pass leaves behind it.                                          *)

LEMMA FloatInvInit == F!Init => FloatInv
<1> SUFFICES ASSUME F!Init PROVE FloatInv
  OBVIOUS
<1>1. /\ docs = [x \in F!All |-> [value |-> 0, mutable |-> Stored[x][1], immutable |-> Stored[x][2]]]
      /\ undoDocs = [x \in F!All |-> {}] /\ exists = Pairs /\ said = [x \in F!All |-> 0]
      /\ pass = F!NoState /\ proc = [p \in Procs |-> F!Idle]
  BY DEF F!Init, Procs
<1>2. docs \in [F!All -> DocType]
  BY <1>1, PairsAre, AllAre DEF DocType
<1>3. pass \in StateType /\ CursorInv
  BY <1>1 DEF F!NoState, StateType, CursorInv
<1>4. proc \in [Procs -> ProcType] /\ \A p \in Procs : SliceInv(p)
  BY <1>1, IdleIs DEF SliceInv
<1>5. ValuesAreCurrent
  BY <1>1 DEF ValuesAreCurrent
<1>6. said \in [F!All -> Int] /\ undoDocs \in [F!All -> SUBSET DocType] /\ exists \in SUBSET Pairs
  BY <1>1
<1> QED BY <1>2, <1>3, <1>4, <1>5, <1>6 DEF FloatInv, FloatTypes

LEMMA FloatInvNext == FloatInv /\ [F!Next]_floats => FloatInv'
<1> SUFFICES ASSUME FloatInv, [F!Next]_floats PROVE FloatInv'
  OBVIOUS
<1>1. CASE UNCHANGED floats
  <2>1. UNCHANGED <<docs, undoDocs, exists, said, revived, missed>> /\ pass' = pass /\ proc' = proc
    BY <1>1 DEF floats
  <2>2. exists' \in SUBSET exists /\ \A x \in F!All : Clean(x) => Clean(x)'
    BY <2>1, NothingMoves
  <2>3. /\ docs' \in [F!All -> DocType] /\ said' \in [F!All -> Int]
        /\ undoDocs' \in [F!All -> SUBSET DocType] /\ ValuesAreCurrent'
    BY <2>1, FloatTypesOf DEF ValuesAreCurrent
  <2> QED BY <2>1, <2>2, <2>3, FillerKeeps
<1>2. ASSUME NEW x \in F!All, F!SetData(x) \/ F!Rollback(x) PROVE FloatInv'
  BY <1>2, SetDataKeeps, RollbackKeeps
<1>3. ASSUME NEW q \in Pairs, F!DropPair(q) PROVE FloatInv'
  BY <1>3, DropPairKeeps
<1>4. ASSUME NEW p \in Procs,
             \/ F!Start(p) \/ F!BeginBatch(p) \/ F!ReadBatch(p)
             \/ F!WriteBatch(p) \/ F!Finish(p) \/ F!Fail(p)
      PROVE  FloatInv'
  BY <1>4, StartKeeps, BeginBatchKeeps, ReadBatchKeeps, WriteBatchKeeps, FinishKeeps, FailKeeps
<1> QED BY <1>1, <1>2, <1>3, <1>4 DEF F!Next, Procs

LEMMA FloatsFollow == FloatInv => FloatsAreRepaired
<1> SUFFICES ASSUME FloatInv PROVE F!FloatsAreRepaired
  BY DEF FloatsAreRepaired
<1>1. \A x \in F!All : docs[x].value = said[x]
  BY FloatTypesOf DEF ValuesAreCurrent
<1>2. pass.status = "done" => \A x \in F!All : Clean(x)
  BY FloatTypesOf DEF CursorInv, AllClean
<1> QED BY <1>1, <1>2 DEF F!FloatsAreRepaired, Clean

\* Of the parts of the step one moves, the others stutter.
LEMMA HeadSteps ==
  ASSUME HeadNext
  PROVE  [M!Next]_mints /\ [F!Next]_floats
BY DEF HeadNext

\* For any schemas, assets, forms of the stored attributes, batch sizes and
\* slices, and whatever the filler writes, rolls back or drops meanwhile: the
\* pass puts no old value over a new one, and once it is done no float is a
\* string but where a rollback has brought one back or a write came between a
\* batch and its UPDATE (float-repair.ts: repairFloatAttributes).
THEOREM FloatsEndRepaired == HeadSpec => []FloatsAreRepaired
<1>1. HeadInit => FloatInv
  BY FloatInvInit DEF HeadInit
<1>2. FloatInv /\ [HeadNext]_<<part, receiver, mints, floats>> => FloatInv'
  <2> SUFFICES ASSUME FloatInv, [HeadNext]_<<part, receiver, mints, floats>> PROVE FloatInv'
    OBVIOUS
  <2>1. CASE HeadNext
    BY <2>1, HeadSteps, FloatInvNext
  <2>2. CASE UNCHANGED <<part, receiver, mints, floats>>
    <3>1. UNCHANGED floats
      BY <2>2
    <3> QED BY <3>1, FloatInvNext
  <2> QED BY <2>1, <2>2
<1> QED BY <1>1, <1>2, FloatsFollow, PTL DEF HeadSpec

-----------------------------------------------------------------------------
(* The mints.                                                               *)

LEMMA MintInitIs == M!Init => MP!Init
BY DEF M!Init, MP!Init, M!Idle, MP!Idle

\* The actions of the model are those of the module the proofs are about.
LEMMA BlockIs ==
  ASSUME NEW templates, NEW sold, M!Block(templates, sold)
  PROVE  MP!Block(templates, sold)
BY DEF M!Block, MP!Block

LEMMA ForkIs ==
  ASSUME NEW b, M!Fork(b)
  PROVE  MP!Fork(b)
BY DEF M!Fork, MP!Fork, M!Kept, MP!Kept, M!Cardinality, MP!Cardinality, M!IsFiniteSet, MP!IsFiniteSet

LEMMA LibIs == M!AdvanceLib => MP!AdvanceLib
BY DEF M!AdvanceLib, MP!AdvanceLib

LEMMA CallIs == \A c \in Callers : M!Call(c) => MP!Call(c)
BY DEF M!Call, MP!Call, M!Idle, MP!Idle

LEMMA QueryIs == \A c \in Callers : M!Query(c) => MP!Query(c)
BY DEF M!Query, MP!Query, M!Selected, MP!Selected, M!Unnumbered, MP!Unnumbered, M!Before, MP!Before,
   M!LastMint, MP!LastMint, M!Max, MP!Max, M!Cardinality, MP!Cardinality, M!NoTemplate, MP!NoTemplate,
   M!IsFiniteSet, MP!IsFiniteSet

LEMMA UpdateIs == \A c \in Callers : M!Update(c) => MP!Update(c)
BY DEF M!Update, MP!Update, M!Min, MP!Min, M!Idle, MP!Idle

LEMMA CutIs == \A c \in Callers : M!Cut(c) => MP!Cut(c)
BY DEF M!Cut, MP!Cut, M!Idle, MP!Idle

LEMMA ResolveIs == M!ResolveSales => MP!ResolveSales
BY DEF M!ResolveSales, MP!ResolveSales, M!Resolvable, MP!Resolvable, M!RangeOf, MP!RangeOf,
   M!Min, MP!Min, M!Max, MP!Max, M!NoTemplate, MP!NoTemplate

LEMMA MintNextIs == [M!Next]_mints => [MP!Next]_MP!mintVars
<1>2. ASSUME NEW templates \in M!SeqOf(Templates \cup {M!NoTemplate}, 2),
             NEW sold \in SUBSET (DOMAIN assets \cup (Len(assets) + 1)..(Len(assets) + Len(templates))),
             M!Cardinality(sold) \in {0, 2}, M!Block(templates, sold)
      PROVE  MP!Next
  <2>1. templates \in MP!SeqOf(Templates \cup {MP!NoTemplate}, 2)
    BY DEF M!SeqOf, MP!SeqOf, M!NoTemplate, MP!NoTemplate
  <2>2. MP!Cardinality(sold) \in {0, 2}
    BY <1>2 DEF M!Cardinality, MP!Cardinality, M!IsFiniteSet, MP!IsFiniteSet
  <2>3. MP!Block(templates, sold)
    BY <1>2, BlockIs
  <2> QED BY <2>1, <2>2, <2>3 DEF MP!Next
<1>3. ASSUME NEW b \in 1..MaxBlocks, M!Fork(b) PROVE MP!Next
  BY <1>3, ForkIs DEF MP!Next
<1>4. M!AdvanceLib \/ M!ResolveSales => MP!Next
  BY LibIs, ResolveIs DEF MP!Next
<1>5. ASSUME NEW c \in Callers, M!Call(c) \/ M!Query(c) \/ M!Update(c) \/ M!Cut(c) PROVE MP!Next
  BY <1>5, CallIs, QueryIs, UpdateIs, CutIs DEF MP!Next
<1>6. ASSUME M!Next PROVE MP!Next
  <2>1. CASE \E templates \in M!SeqOf(Templates \cup {M!NoTemplate}, 2) :
               \E sold \in SUBSET (DOMAIN assets \cup (Len(assets) + 1)..(Len(assets) + Len(templates))) :
                 M!Cardinality(sold) \in {0, 2} /\ M!Block(templates, sold)
    BY <1>2, <2>1, Zenon
  <2>2. CASE \E b \in 1..MaxBlocks : M!Fork(b)
    BY <1>3, <2>2
  <2>3. CASE \E c \in Callers : M!Call(c) \/ M!Query(c) \/ M!Update(c) \/ M!Cut(c)
    BY <1>5, <2>3
  <2>4. \/ \E templates \in M!SeqOf(Templates \cup {M!NoTemplate}, 2) :
               \E sold \in SUBSET (DOMAIN assets \cup (Len(assets) + 1)..(Len(assets) + Len(templates))) :
                 M!Cardinality(sold) \in {0, 2} /\ M!Block(templates, sold)
        \/ \E b \in 1..MaxBlocks : M!Fork(b)
        \/ M!AdvanceLib \/ M!ResolveSales
        \/ \E c \in Callers : M!Call(c) \/ M!Query(c) \/ M!Update(c) \/ M!Cut(c)
    BY <1>6 DEF M!Next
  <2>5. CASE M!AdvanceLib \/ M!ResolveSales
    BY <1>4, <2>5
  <2> QED BY <2>1, <2>2, <2>3, <2>4, <2>5, Zenon
<1> QED BY <1>6 DEF mints, MP!mintVars

\* For any templates, batch size, sessions, forks and cut-off runs: once a sale
\* has a range, all its assets are numbered and the range is that of their
\* numbers (atomicmarket_sale_mints.sql: HAVING).
THEOREM SaleRangesStay == HeadSpec => []RangesAreFinal
<1>0. MP!MintInstance
  BY MintInstanceAssumption DEF M!MintInstance, MP!MintInstance
<1>1. HeadInit => MP!MintInv
  BY <1>0, MintInitIs, MP!InitHolds DEF MP!InitHolds, HeadInit
<1>2. MP!MintInv /\ [HeadNext]_<<part, receiver, mints, floats>> => MP!MintInv'
  <2>1. MP!MintInv /\ [MP!Next]_MP!mintVars => MP!MintInv'
    BY <1>0, MP!NextHolds DEF MP!NextHolds
  <2>2. [HeadNext]_<<part, receiver, mints, floats>> => [M!Next]_mints
    BY HeadSteps
  <2> QED BY <2>1, <2>2, MintNextIs
<1>3. MP!MintInv => RangesAreFinal
  <2> SUFFICES ASSUME MP!MintInv PROVE M!RangesAreFinal
    BY DEF RangesAreFinal
  <2>1. MP!RangesAreFinal
    BY DEF MP!MintInv
  <2> QED BY <2>1 DEF M!RangesAreFinal, MP!RangesAreFinal, M!Resolvable, MP!Resolvable,
                      M!RangeOf, MP!RangeOf, M!Min, MP!Min, M!Max, MP!Max, M!NoTemplate, MP!NoTemplate
<1> QED BY <1>1, <1>2, <1>3, PTL DEF HeadSpec
=============================================================================
