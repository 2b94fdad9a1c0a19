-------------------------- MODULE MintNumbersProofs --------------------------
(***************************************************************************)
(* The mint numbers, for every set of templates and sessions and every batch *)
(* size: numbers are given without gap in the order of the ids whatever       *)
(* sessions overlap or are cut off, the ranges of sales are final, and the   *)
(* procedure implements Numbering.                                          *)
(***************************************************************************)
EXTENDS MintNumbers, FiniteSetTheorems, SequenceTheorems, TLAPS

-----------------------------------------------------------------------------
(* Sets of numbers.                                                         *)

LEMMA LeastNat ==
  ASSUME NEW S \in SUBSET Nat, S # {}
  PROVE  \E m \in S : \A k \in S : m <= k
<1> DEFINE R == OpToRel(<, Nat)
<1>1. IsWellFoundedOn(R, Nat)
  BY NatLessThanWellFounded
<1>2. PICK x \in S : \A y \in S : ~ (<<y, x>> \in R)
  BY <1>1, WFMin
<1>3. \A y \in S : <<y, x>> \in R <=> y < x
  BY DEF OpToRel
<1>4. \A y \in S : ~ (y < x)
  BY <1>2, <1>3, Zenon
<1> HIDE DEF R
<1> QED BY <1>4

LEMMA MinOfSet ==
  ASSUME NEW S \in SUBSET Nat, S # {}
  PROVE  Min(S) \in S /\ \A k \in S : Min(S) <= k
  BY LeastNat DEF Min

LEMMA MaxOfSet ==
  ASSUME NEW n \in Nat, NEW S \in SUBSET (1..n), S # {}
  PROVE  Max(S) \in S /\ \A k \in S : k <= Max(S)
<1> DEFINE over == {m \in Nat : \A k \in S : k <= m}
<1>1. n \in over
  OBVIOUS
<1>2. PICK m \in over : \A k \in over : m <= k
  BY <1>1, LeastNat
<1>3. m \in S
  <2>1. SUFFICES ASSUME m \notin S PROVE FALSE
    OBVIOUS
  <2>2. m # 0
    <3>1. PICK k \in S : TRUE
      OBVIOUS
    <3> QED BY <1>2, <3>1
  <2>3. \A k \in S : k <= m - 1
    BY <1>2, <2>1
  <2>4. m - 1 \in Nat
    BY <1>2, <2>2
  <2>5. m - 1 \in over
    BY <2>3, <2>4
  <2> QED BY <1>2, <2>5
<1>4. \E x \in S : \A y \in S : x >= y
  BY <1>2, <1>3
<1>5. Max(S) \in S /\ \A y \in S : Max(S) >= y
  BY <1>4 DEF Max
<1> QED BY <1>5

\* A set of numbers from 1 on without gap is as large as its last.
LEMMA GaplessSet ==
  ASSUME NEW n \in Nat, NEW S \in SUBSET (1..n),
         \A i \in S : \A j \in 1..i : j \in S
  PROVE  /\ Cardinality(S) \in 0..n
         /\ \A i \in 1..n : i \in S <=> i <= Cardinality(S)
<1>1. CASE S = {}
  <2>1. Cardinality(S) = 0
    BY <1>1, FS_EmptySet
  <2> QED BY <1>1, <2>1
<1>2. CASE S # {}
  <2>1. Max(S) \in S /\ \A k \in S : k <= Max(S)
    BY <1>2, MaxOfSet
  <2> DEFINE m == Max(S)
  <2>2. m \in 1..n /\ m \in S /\ \A k \in S : k <= m
    BY <2>1
  <2> HIDE DEF m
  <2>3. S = 1..m
    <3>1. \A j \in 1..m : j \in S
      BY <2>2
    <3>2. \A j \in S : j \in 1..m
      BY <2>2
    <3> QED BY <3>1, <3>2
  <2>4. Cardinality(1..m) = m
    <3>1. 1 \in Int /\ m \in Int /\ ~ (1 > m)
      BY <2>2
    <3>2. Cardinality(1..m) = m - 1 + 1
      BY <3>1, FS_Interval
    <3> QED BY <3>1, <3>2
  <2> QED BY <2>2, <2>3, <2>4
<1> QED BY <1>1, <1>2

\* Rows in the order of their blocks keep a prefix when blocks are forked.
LEMMA KeptIsPrefix ==
  ASSUME NEW T, NEW rows \in Seq(T), NEW b,
         \A i, j \in 1..Len(rows) : i <= j /\ rows[j].block < b => rows[i].block < b
  PROVE  /\ Kept(rows, b) \in Seq(T) /\ Len(Kept(rows, b)) \in 0..Len(rows)
         /\ \A i \in 1..Len(rows) : i <= Len(Kept(rows, b)) <=> rows[i].block < b
         /\ \A i \in 1..Len(Kept(rows, b)) : Kept(rows, b)[i] = rows[i]
<1> DEFINE S == {i \in DOMAIN rows : rows[i].block < b}
           n == Cardinality(S)
<1>1. Len(rows) \in Nat /\ DOMAIN rows = 1..Len(rows)
  OBVIOUS
<1>2. S \in SUBSET (1..Len(rows)) /\ \A i \in S : \A j \in 1..i : j \in S
  BY <1>1
<1>3. n \in 0..Len(rows) /\ \A i \in 1..Len(rows) : i \in S <=> i <= n
  <2> HIDE DEF S
  <2> QED BY <1>1, <1>2, GaplessSet
<1>4. Kept(rows, b) = SubSeq(rows, 1, n)
  BY DEF Kept
<1>5. \A i \in 1..Len(rows) : i <= n <=> rows[i].block < b
  BY <1>1, <1>3
<1> HIDE DEF n, S
<1>6. \A i \in 1..n : rows[i] \in T
  BY <1>1, <1>3
<1>7. /\ SubSeq(rows, 1, n) \in Seq(T) /\ Len(SubSeq(rows, 1, n)) = n
      /\ \A i \in 1..n : SubSeq(rows, 1, n)[i] = rows[i]
  <2>1. n \in Int /\ (1 <= n \/ n = 0)
    BY <1>3
  <2>2. /\ SubSeq(rows, 1, n) \in Seq(T) /\ Len(SubSeq(rows, 1, n)) = IF 1 <= n THEN n - 1 + 1 ELSE 0
        /\ \A i \in 1..n - 1 + 1 : SubSeq(rows, 1, n)[i] = rows[1 + i - 1]
    BY <1>6, <2>1, SubSeqProperties
  <2> QED BY <2>1, <2>2
<1> QED BY <1>3, <1>4, <1>5, <1>7

-----------------------------------------------------------------------------
(* The inductive invariant.                                                 *)

AssetRow == [template: Templates \cup {NoTemplate}, block: Nat]
SaleRow == [block: Nat, assets: SUBSET Nat, range: Seq(Nat \cup {"empty"})]
Calls == [at: {"idle", "called", "loop"}, lib: Nat, plan: UNION {[D -> Nat] : D \in SUBSET Nat}]

TypeOK ==
  /\ assets \in Seq(AssetRow) /\ Len(assets) <= MaxAssets
  /\ mint \in Seq(Nat) /\ Len(mint) = Len(assets)
  /\ sales \in Seq(SaleRow)
  /\ head \in Nat /\ lib \in Nat /\ stops \in Nat
  /\ call \in [Callers -> Calls]

\* Rows stand in the order of their blocks.
Ordered ==
  /\ \A i \in 1..Len(assets) : assets[i].block <= head
  /\ \A i, j \in 1..Len(assets) : i <= j => assets[i].block <= assets[j].block
  /\ \A i \in 1..Len(sales) : sales[i].block <= head
  /\ \A i, j \in 1..Len(sales) : i <= j => sales[i].block <= sales[j].block

\* Where an asset stands among those of its template.
UpTo(a) == {b \in 1..a : assets[b].template = assets[a].template}
Rank(a) == Cardinality(UpTo(a))

\* Only irreversible assets have a number, which is their place, and none of
\* their template before them is without one.
Numbered(a) ==
  /\ assets[a].template # NoTemplate /\ assets[a].block <= lib
  /\ mint[a] = Rank(a)
  /\ \A b \in UpTo(a) : mint[b] # 0
MintsArePlaces == \A a \in 1..Len(assets) : mint[a] # 0 => Numbered(a)

\* What a run is about to write: places of irreversible assets, of which none
\* is passed over.
Planned(c, a) ==
  /\ a \in 1..Len(assets)
  /\ assets[a].template # NoTemplate /\ assets[a].block <= lib
  /\ call[c].plan[a] = Rank(a)
  /\ \A b \in UpTo(a) : mint[b] # 0 \/ b \in DOMAIN call[c].plan
PlansArePlaces ==
  \A c \in Callers :
    /\ call[c].lib <= lib
    /\ call[c].at = "loop" => \A a \in DOMAIN call[c].plan : Planned(c, a)

\* A sale comes after its assets, and has a range when it is irreversible.
SalesFollowAssets ==
  \A s \in 1..Len(sales) :
    /\ \A a \in sales[s].assets : a \in 1..Len(assets) /\ assets[a].block <= sales[s].block
    /\ sales[s].range # <<>> => sales[s].block <= lib

MintInv ==
  /\ TypeOK /\ Ordered /\ MintsArePlaces /\ PlansArePlaces
  /\ SalesFollowAssets /\ RangesAreFinal

LEMMA MintFacts ==
  ASSUME MintInv
  PROVE  /\ assets \in Seq(AssetRow) /\ mint \in Seq(Nat) /\ sales \in Seq(SaleRow)
         /\ Len(assets) \in Nat /\ DOMAIN assets = 1..Len(assets)
         /\ Len(mint) = Len(assets) /\ DOMAIN mint = 1..Len(assets)
         /\ Len(sales) \in Nat /\ DOMAIN sales = 1..Len(sales)
         /\ head \in Nat /\ lib \in Nat
         /\ \A i \in 1..Len(assets) : /\ assets[i] \in AssetRow /\ assets[i].block \in Nat
                                      /\ mint[i] \in Nat
         /\ \A i \in 1..Len(sales) : sales[i] \in SaleRow /\ sales[i].block \in Nat
<1>1. /\ assets \in Seq(AssetRow) /\ sales \in Seq(SaleRow) /\ mint \in Seq(Nat)
      /\ head \in Nat /\ lib \in Nat /\ Len(mint) = Len(assets)
  BY DEF MintInv, TypeOK
<1>2. /\ \A i \in 1..Len(assets) : assets[i] \in AssetRow
      /\ \A i \in 1..Len(sales) : sales[i] \in SaleRow
      /\ \A i \in 1..Len(mint) : mint[i] \in Nat
  BY <1>1
<1> QED BY <1>1, <1>2 DEF AssetRow, SaleRow

-----------------------------------------------------------------------------
(* What does not move the rows up to an asset leaves its place.             *)

LEMMA RankStable ==
  ASSUME NEW a \in Nat, \A b \in 1..a : assets'[b].template = assets[b].template
  PROVE  UpTo(a)' = UpTo(a) /\ Rank(a)' = Rank(a)
<1>1. CASE a = 0
  BY <1>1 DEF UpTo, Rank
<1>2. CASE a # 0
  <2>1. assets'[a].template = assets[a].template
    BY <1>2
  <2>2. UpTo(a)' = UpTo(a)
    BY <2>1 DEF UpTo
  <2> QED BY <2>2 DEF Rank
<1> QED BY <1>1, <1>2

LEMMA RankPositive ==
  ASSUME NEW a \in Nat \ {0}
  PROVE  Rank(a) \in Nat \ {0} /\ Rank(a) <= a
<1>1. IsFiniteSet(1..a) /\ Cardinality(1..a) = a
  BY FS_Interval
<1>2. UpTo(a) \in SUBSET (1..a)
  BY DEF UpTo
<1>3. IsFiniteSet(UpTo(a)) /\ Cardinality(UpTo(a)) <= a /\ Cardinality(UpTo(a)) \in Nat
  BY <1>1, <1>2, FS_Subset, FS_CardinalityType
<1>4. a \in UpTo(a)
  BY DEF UpTo
<1>5. Cardinality(UpTo(a)) # 0
  BY <1>3, <1>4, FS_EmptySet
<1> QED BY <1>3, <1>5 DEF Rank

\* Blocks come, blocks without numbers go, more of them are irreversible.
LEMMA PlacesStay ==
  ASSUME MintInv, NEW n \in 0..Len(assets), n <= Len(assets)', Len(assets)' \in Nat,
         lib <= lib', lib' \in Nat,
         \A i \in 1..n : assets'[i] = assets[i] /\ mint'[i] = mint[i],
         \A i \in (n + 1)..Len(assets)' : mint'[i] = 0,
         \A i \in 1..Len(assets) : assets[i].block <= lib => i <= n
  PROVE  /\ MintsArePlaces'
         /\ \A c \in Callers : \A a \in Nat :
              Planned(c, a) /\ call'[c].plan = call[c].plan => Planned(c, a)'
<1>0. \A i \in 1..Len(assets) : assets[i] \in AssetRow
  BY DEF MintInv, TypeOK
<1>1. ASSUME NEW a \in 1..n
      PROVE  /\ UpTo(a)' = UpTo(a) /\ Rank(a)' = Rank(a)
             /\ UpTo(a) \subseteq 1..n
  <2>1. \A b \in 1..a : assets'[b].template = assets[b].template
    OBVIOUS
  <2> QED BY <2>1, RankStable DEF UpTo
<1>2. ASSUME NEW a \in 1..Len(assets)', mint'[a] # 0
      PROVE  Numbered(a)'
  <2>1. a \in 1..n
    BY <1>2
  <2>2. Numbered(a)
    BY <1>2, <2>1 DEF MintInv, MintsArePlaces
  <2>3. assets[a].block <= lib'
    BY <2>1, <2>2, <1>0 DEF Numbered, MintInv, TypeOK, AssetRow
  <2> QED BY <1>1, <2>1, <2>2, <2>3 DEF Numbered
<1>3. ASSUME NEW c \in Callers, NEW a \in Nat, Planned(c, a), call'[c].plan = call[c].plan
      PROVE  Planned(c, a)'
  <2>1. a \in 1..n
    BY <1>3 DEF Planned
  <2>2. assets[a].block <= lib'
    BY <2>1, <1>3, <1>0 DEF Planned, MintInv, TypeOK, AssetRow
  <2>3. a \in (1..Len(assets))'
    BY <2>1
  <2> QED BY <1>1, <1>3, <2>1, <2>2, <2>3 DEF Planned
<1> QED BY <1>2, <1>3 DEF MintsArePlaces

SaleOk(s) ==
  /\ \A a \in sales[s].assets : a \in 1..Len(assets) /\ assets[a].block <= sales[s].block
  /\ sales[s].range # <<>> => sales[s].block <= lib
  /\ sales[s].range # <<>> => Resolvable(s) /\ sales[s].range = RangeOf(s)

LEMMA SalesOk ==
  ASSUME sales \in Seq(SaleRow)
  PROVE  SalesFollowAssets /\ RangesAreFinal <=> \A s \in 1..Len(sales) : SaleOk(s)
  BY DEF SalesFollowAssets, RangesAreFinal, SaleOk

LEMMA SalesOkNext ==
  ASSUME sales' \in Seq(SaleRow), \A s \in 1..Len(sales)' : SaleOk(s)'
  PROVE  SalesFollowAssets' /\ RangesAreFinal'
  BY DEF SalesFollowAssets, RangesAreFinal, SaleOk

LEMMA SaleStays ==
  ASSUME MintInv, lib <= lib', lib' \in Nat
  PROVE  \A s \in 1..Len(sales) :
           /\ sales'[s] = sales[s]
           /\ \A a \in sales[s].assets : /\ a \in 1..Len(assets)' /\ assets'[a] = assets[a]
                                         /\ sales[s].range # <<>> => mint'[a] = mint[a]
           => SaleOk(s)'
<1> SUFFICES ASSUME NEW s \in 1..Len(sales), sales'[s] = sales[s],
                    \A a \in sales[s].assets : /\ a \in 1..Len(assets)' /\ assets'[a] = assets[a]
                                               /\ sales[s].range # <<>> => mint'[a] = mint[a]
             PROVE  SaleOk(s)'
  OBVIOUS
<1>1. SaleOk(s)
  BY SalesOk DEF MintInv, TypeOK
<1>2. sales[s].block \in Nat
  <2>1. sales[s] \in SaleRow
    BY DEF MintInv, TypeOK
  <2> QED BY <2>1 DEF SaleRow
<1>3. sales[s].range # <<>> => Resolvable(s)' /\ RangeOf(s)' = RangeOf(s)
  <2> SUFFICES ASSUME sales[s].range # <<>> PROVE Resolvable(s)' /\ RangeOf(s)' = RangeOf(s)
    OBVIOUS
  <2>1. \A a \in sales[s].assets : mint'[a] = mint[a] /\ assets'[a] = assets[a]
    OBVIOUS
  <2>2. {mint'[a] : a \in sales'[s].assets} = {mint[a] : a \in sales[s].assets}
    BY <2>1
  <2>3. RangeOf(s)' = RangeOf(s)
    BY <2>2 DEF RangeOf
  <2>4. Resolvable(s)'
    BY <1>1, <2>1 DEF SaleOk, Resolvable
  <2> QED BY <2>3, <2>4
<1> QED BY <1>1, <1>2, <1>3 DEF SaleOk, MintInv, TypeOK

-----------------------------------------------------------------------------
(* The chain.                                                               *)

\* A block appends its rows.
LEMMA BlockAppends ==
  ASSUME MintInv, NEW templates \in SeqOf(Templates \cup {NoTemplate}, 2), NEW sold, Block(templates, sold)
  PROVE  /\ assets' \in Seq(AssetRow) /\ mint' \in Seq(Nat)
         /\ Len(assets)' = Len(assets) + Len(templates) /\ Len(mint)' = Len(assets)'
         /\ Len(templates) \in Nat
         /\ \A i \in 1..Len(assets) : assets'[i] = assets[i] /\ mint'[i] = mint[i]
         /\ \A i \in (Len(assets) + 1)..Len(assets)' :
              assets'[i].block = head + 1 /\ mint'[i] = 0
<1> DEFINE S == Templates \cup {NoTemplate}
           new == [i \in DOMAIN templates |-> [template |-> templates[i], block |-> head + 1]]
           none == [i \in DOMAIN templates |-> 0]
<1>1. PICK m \in Nat : templates \in [1..m -> S]
  <2>1. templates \in UNION {[1..m -> S] : m \in 0..2}
    BY DEF SeqOf
  <2>2. \E m \in 0..2 : templates \in [1..m -> S]
    BY <2>1, Zenon
  <2>3. 0..2 \subseteq Nat
    OBVIOUS
  <2> QED BY <2>2, <2>3, Zenon
<1>2. templates \in Seq(S) /\ Len(templates) = m /\ DOMAIN templates = 1..m
  BY <1>1
<1>3. head + 1 \in Nat
  BY DEF MintInv, TypeOK
<1>4. new \in Seq(AssetRow) /\ Len(new) = m /\ \A i \in 1..m : new[i].block = head + 1
  <2>1. \A i \in 1..m : templates[i] \in S
    BY <1>1
  <2>2. new \in [1..m -> AssetRow]
    BY <1>2, <1>3, <2>1 DEF AssetRow
  <2> QED BY <1>2, <2>2
<1>5. none \in Seq(Nat) /\ Len(none) = m /\ \A i \in 1..m : none[i] = 0
  <2>1. none \in [1..m -> Nat]
    BY <1>2
  <2> QED BY <1>2, <2>1
<1>6. /\ assets' = assets \o new /\ mint' = mint \o none
      /\ assets \in Seq(AssetRow) /\ mint \in Seq(Nat)
  BY DEF Block, MintInv, TypeOK
<1> HIDE DEF new, none
<1>7. /\ assets' \in Seq(AssetRow) /\ Len(assets') = Len(assets) + m
      /\ \A i \in 1..Len(assets) + m :
           assets'[i] = IF i <= Len(assets) THEN assets[i] ELSE new[i - Len(assets)]
  BY <1>4, <1>6, ConcatProperties
<1>8. /\ mint' \in Seq(Nat) /\ Len(mint') = Len(mint) + m
      /\ \A i \in 1..Len(mint) + m :
           mint'[i] = IF i <= Len(mint) THEN mint[i] ELSE none[i - Len(mint)]
  BY <1>5, <1>6, ConcatProperties
<1>9. Len(mint) = Len(assets) /\ Len(assets) \in Nat
  BY DEF MintInv, TypeOK
<1>10. \A i \in 1..Len(assets) : assets'[i] = assets[i] /\ mint'[i] = mint[i]
  BY <1>1, <1>7, <1>8, <1>9
<1>11. ASSUME NEW i \in (Len(assets) + 1)..(Len(assets) + m)
       PROVE  assets'[i].block = head + 1 /\ mint'[i] = 0
  <2>1. i - Len(assets) \in 1..m
    BY <1>1, <1>9
  <2>2. assets'[i] = new[i - Len(assets)] /\ mint'[i] = none[i - Len(assets)]
    BY <1>1, <1>7, <1>8, <1>9
  <2> QED BY <1>4, <1>5, <2>1, <2>2
<1> QED BY <1>1, <1>2, <1>7, <1>8, <1>9, <1>10, <1>11

LEMMA BlockPreserves ==
  ASSUME MintInstance, MintInv, NEW templates \in SeqOf(Templates \cup {NoTemplate}, 2),
         NEW sold \in SUBSET (DOMAIN assets \cup (Len(assets) + 1)..(Len(assets) + Len(templates))),
         Block(templates, sold)
  PROVE  MintInv'
<1>1. /\ assets' \in Seq(AssetRow) /\ mint' \in Seq(Nat)
      /\ Len(assets)' = Len(assets) + Len(templates) /\ Len(mint)' = Len(assets)'
      /\ Len(templates) \in Nat
      /\ \A i \in 1..Len(assets) : assets'[i] = assets[i] /\ mint'[i] = mint[i]
      /\ \A i \in (Len(assets) + 1)..Len(assets)' :
           assets'[i].block = head + 1 /\ mint'[i] = 0
  BY BlockAppends
<1>2. /\ head' = head + 1 /\ UNCHANGED <<lib, call, stops>>
      /\ Len(assets) + Len(templates) <= MaxAssets
  BY DEF Block
<1>3. /\ Len(assets) \in Nat /\ DOMAIN assets = 1..Len(assets) /\ Len(sales) \in Nat
      /\ head \in Nat /\ lib \in Nat /\ sales \in Seq(SaleRow)
      /\ \A i \in 1..Len(assets) : assets[i] \in AssetRow /\ assets[i].block \in Nat
      /\ \A i \in 1..Len(sales) : sales[i] \in SaleRow /\ sales[i].block \in Nat
  BY MintFacts
<1>4. sold \in SUBSET (1..Len(assets)')
  BY <1>1, <1>3
<1> DEFINE sale == [block |-> head + 1, assets |-> sold, range |-> <<>>]
<1>5. sale \in SaleRow
  <2>1. sold \in SUBSET Nat /\ head + 1 \in Nat
    BY <1>1, <1>3, <1>4
  <2>2. <<>> \in Seq(Nat \cup {"empty"})
    BY EmptySeq
  <2> QED BY <2>1, <2>2 DEF SaleRow
<1>6. \/ sales' = sales
      \/ sales' = Append(sales, sale)
  BY DEF Block
<1> HIDE DEF sale
<1>7. /\ sales' \in Seq(SaleRow) /\ Len(sales') \in Len(sales)..Len(sales) + 1
      /\ \A s \in 1..Len(sales) : sales'[s] = sales[s]
      /\ \A s \in 1..Len(sales') : s \notin 1..Len(sales) => sales'[s] = sale
  <2>1. CASE sales' = sales
    BY <1>3, <2>1
  <2>2. CASE sales' = Append(sales, sale)
    <3>1. /\ sales' \in Seq(SaleRow) /\ Len(sales') = Len(sales) + 1
          /\ \A i \in 1..Len(sales) : sales'[i] = sales[i]
          /\ sales'[Len(sales) + 1] = sale
      BY <1>3, <1>5, <2>2, AppendProperties
    <3> QED BY <1>3, <3>1
  <2> QED BY <1>6, <2>1, <2>2
<1>8. TypeOK'
  BY <1>1, <1>2, <1>7 DEF MintInv, TypeOK
<1>9. Ordered'
  <2>0. Ordered
    BY DEF MintInv
  <2>1. \A i \in 1..Len(assets)' : assets'[i].block <= head + 1 /\ assets'[i].block \in Nat
    <3>1. ASSUME NEW i \in 1..Len(assets)'
          PROVE  i \in 1..Len(assets) \/ i \in (Len(assets) + 1)..Len(assets)'
      BY <1>1, <1>3
    <3>2. \A i \in 1..Len(assets) : assets'[i].block <= head + 1 /\ assets'[i].block \in Nat
      BY SMTT(30), <1>1, <1>3, <2>0 DEF Ordered
    <3>3. \A i \in (Len(assets) + 1)..Len(assets)' : assets'[i].block <= head + 1 /\ assets'[i].block \in Nat
      BY SMTT(30), <1>1, <1>3
    <3> QED BY <3>1, <3>2, <3>3
  <2>2. ASSUME NEW i \in 1..Len(assets)', NEW j \in 1..Len(assets)', i <= j
        PROVE  assets'[i].block <= assets'[j].block
    <3>1. CASE j \in 1..Len(assets)
      <4>1. i \in 1..Len(assets)
        BY <1>3, <2>2, <3>1
      <4> QED BY <1>1, <2>0, <2>2, <3>1, <4>1 DEF Ordered
    <3>2. CASE j \notin 1..Len(assets)
      <4>1. j \in (Len(assets) + 1)..Len(assets)'
        BY <1>1, <1>3, <3>2
      <4>2. assets'[j].block = head + 1
        BY <1>1, <4>1
      <4> QED BY <2>1, <4>2
    <3> QED BY <3>1, <3>2
  <2>3. \A i \in 1..Len(sales)' : sales'[i].block <= head + 1 /\ sales'[i].block \in Nat
    <3>1. \A i \in 1..Len(sales) : sales'[i].block <= head + 1 /\ sales'[i].block \in Nat
      BY <1>3, <1>7, <2>0 DEF Ordered
    <3>2. sale.block = head + 1
      BY DEF sale
    <3> QED BY <1>3, <1>7, <3>1, <3>2
  <2>4. ASSUME NEW i \in 1..Len(sales)', NEW j \in 1..Len(sales)', i <= j
        PROVE  sales'[i].block <= sales'[j].block
    <3>1. CASE j \in 1..Len(sales)
      <4>1. i \in 1..Len(sales)
        BY <1>3, <2>4, <3>1
      <4> QED BY <1>7, <2>0, <2>4, <3>1, <4>1 DEF Ordered
    <3>2. CASE j \notin 1..Len(sales)
      <4>1. sales'[j].block = head + 1
        BY <1>7, <3>2 DEF sale
      <4> QED BY <2>3, <4>1
    <3> QED BY <3>1, <3>2
  <2> QED BY <1>2, <2>1, <2>2, <2>3, <2>4 DEF Ordered
<1>10. /\ MintsArePlaces'
       /\ \A c \in Callers : \A a \in Nat :
            Planned(c, a) /\ call'[c].plan = call[c].plan => Planned(c, a)'
  <2>1. /\ Len(assets) \in 0..Len(assets) /\ Len(assets) <= Len(assets)' /\ Len(assets)' \in Nat
        /\ lib <= lib' /\ lib' \in Nat
    BY <1>1, <1>2, <1>3
  <2>2. /\ \A i \in 1..Len(assets) : assets'[i] = assets[i] /\ mint'[i] = mint[i]
        /\ \A i \in (Len(assets) + 1)..Len(assets)' : mint'[i] = 0
        /\ \A i \in 1..Len(assets) : assets[i].block <= lib => i <= Len(assets)
    BY <1>1, <1>3
  <2> QED BY <2>1, <2>2, PlacesStay
<1>11. PlansArePlaces'
  BY <1>2, <1>10 DEF PlansArePlaces, MintInv, Planned
<1>12. \A s \in 1..Len(sales)' : SaleOk(s)'
  <2>1. ASSUME NEW s \in 1..Len(sales)
        PROVE  SaleOk(s)'
    <3>1. sales'[s] = sales[s] /\ lib <= lib' /\ lib' \in Nat
      BY <1>2, <1>3, <1>7
    <3>2. \A a \in sales[s].assets : a \in 1..Len(assets)
      BY DEF MintInv, SalesFollowAssets
    <3>3. \A a \in sales[s].assets : /\ a \in 1..Len(assets)' /\ assets'[a] = assets[a]
                                     /\ sales[s].range # <<>> => mint'[a] = mint[a]
      BY <1>1, <1>3, <3>2
    <3> QED BY <3>1, <3>3, SaleStays
  <2>2. ASSUME NEW s \in 1..Len(sales)', s \notin 1..Len(sales)
        PROVE  SaleOk(s)'
    <3>1. sales'[s] = sale
      BY <1>7, <2>2
    <3>2. \A a \in sold : a \in 1..Len(assets)' /\ assets'[a].block <= head + 1
      BY <1>2, <1>4, <1>9 DEF Ordered
    <3> QED BY <3>1, <3>2 DEF SaleOk, sale
  <2> QED BY <2>1, <2>2
<1>13. (SalesFollowAssets /\ RangesAreFinal)'
  BY <1>7, <1>12, SalesOkNext
<1> QED BY <1>8, <1>9, <1>10, <1>11, <1>13 DEF MintInv

\* A fork keeps what lies below it, which is all that is irreversible.
LEMMA ForkPreserves ==
  ASSUME MintInstance, MintInv, NEW b \in Nat, Fork(b)
  PROVE  MintInv'
<1>0. /\ assets \in Seq(AssetRow) /\ mint \in Seq(Nat) /\ sales \in Seq(SaleRow)
      /\ Len(assets) \in Nat /\ DOMAIN assets = 1..Len(assets)
      /\ Len(mint) = Len(assets) /\ Len(sales) \in Nat
      /\ head \in Nat /\ lib \in Nat
      /\ \A i \in 1..Len(assets) : assets[i].block \in Nat /\ mint[i] \in Nat
      /\ \A i \in 1..Len(sales) : sales[i].block \in Nat
  BY MintFacts
<1>1. /\ lib < b /\ b <= head /\ head' = b - 1
      /\ assets' = Kept(assets, b) /\ mint' = SubSeq(mint, 1, Len(assets')) /\ sales' = Kept(sales, b)
      /\ UNCHANGED <<lib, call, stops>>
  BY DEF Fork
<1>2. Ordered
  BY DEF MintInv
<1>3. /\ assets' \in Seq(AssetRow) /\ Len(assets)' \in 0..Len(assets)
      /\ \A i \in 1..Len(assets) : i <= Len(assets)' <=> assets[i].block < b
      /\ \A i \in 1..Len(assets)' : assets'[i] = assets[i]
  <2>1. \A i, j \in 1..Len(assets) : i <= j /\ assets[j].block < b => assets[i].block < b
    BY <1>0, <1>2 DEF Ordered
  <2> QED BY <1>0, <1>1, <2>1, KeptIsPrefix
<1>4. /\ sales' \in Seq(SaleRow) /\ Len(sales)' \in 0..Len(sales)
      /\ \A i \in 1..Len(sales) : i <= Len(sales)' <=> sales[i].block < b
      /\ \A i \in 1..Len(sales)' : sales'[i] = sales[i]
  <2>1. \A i, j \in 1..Len(sales) : i <= j /\ sales[j].block < b => sales[i].block < b
    BY <1>0, <1>2 DEF Ordered
  <2> QED BY <1>0, <1>1, <2>1, KeptIsPrefix
<1>5. /\ mint' \in Seq(Nat) /\ Len(mint)' = Len(assets)'
      /\ \A i \in 1..Len(assets)' : mint'[i] = mint[i]
  <2> DEFINE n == Len(assets)'
  <2>1. n \in 0..Len(mint) /\ mint' = SubSeq(mint, 1, n)
    BY <1>0, <1>1, <1>3
  <2> HIDE DEF n
  <2>2. \A i \in 1..n : mint[i] \in Nat
    BY <1>0, <2>1
  <2>3. n \in Int /\ (1 <= n \/ n = 0)
    BY <1>0, <2>1
  <2>4. /\ mint' \in Seq(Nat) /\ Len(mint') = IF 1 <= n THEN n - 1 + 1 ELSE 0
        /\ \A i \in 1..n - 1 + 1 : mint'[i] = mint[1 + i - 1]
    BY <2>1, <2>2, <2>3, SubSeqProperties
  <2>5. mint' \in Seq(Nat) /\ Len(mint') = n /\ \A i \in 1..n : mint'[i] = mint[i]
    BY <2>3, <2>4
  <2> QED BY <2>5 DEF n
<1>6. TypeOK'
  <2>1. head' \in Nat
    BY <1>0, <1>1
  <2>2. (Len(assets) <= MaxAssets)'
    BY <1>0, <1>3 DEF MintInv, TypeOK, MintInstance
  <2> QED BY <1>1, <1>3, <1>4, <1>5, <2>1, <2>2 DEF MintInv, TypeOK
<1>7. Ordered'
  <2>1. \A i \in 1..Len(assets)' : i \in 1..Len(assets) /\ assets'[i].block <= b - 1
    BY <1>0, <1>3
  <2>2. \A i \in 1..Len(sales)' : i \in 1..Len(sales) /\ sales'[i].block <= b - 1
    BY <1>0, <1>4
  <2> QED BY <1>1, <1>2, <1>3, <1>4, <2>1, <2>2 DEF Ordered
<1>8. /\ MintsArePlaces'
      /\ \A c \in Callers : \A a \in Nat :
           Planned(c, a) /\ call'[c].plan = call[c].plan => Planned(c, a)'
  <2>1. /\ Len(assets)' \in 0..Len(assets) /\ Len(assets)' <= Len(assets)' /\ Len(assets)' \in Nat
        /\ lib <= lib' /\ lib' \in Nat
    BY <1>0, <1>1, <1>3
  <2>2. /\ \A i \in 1..Len(assets)' : assets'[i] = assets[i] /\ mint'[i] = mint[i]
        /\ \A i \in (Len(assets)' + 1)..Len(assets)' : mint'[i] = 0
        /\ \A i \in 1..Len(assets) : assets[i].block <= lib => i <= Len(assets)'
    BY <1>0, <1>1, <1>3, <1>5
  <2> QED BY <2>1, <2>2, PlacesStay
<1>9. PlansArePlaces'
  <2>1. \A c \in Callers : \A a \in DOMAIN call[c].plan : Planned(c, a) => a \in Nat
    BY <1>0 DEF Planned
  <2> QED BY <1>1, <1>8, <2>1 DEF PlansArePlaces, MintInv
<1>10. ASSUME NEW s \in 1..Len(sales)'
       PROVE  SaleOk(s)'
  <2>1. /\ s \in 1..Len(sales) /\ sales'[s] = sales[s] /\ sales[s].block < b
        /\ lib <= lib' /\ lib' \in Nat
    <3>1. s \in 1..Len(sales)
      BY <1>0, <1>4
    <3>2. sales'[s] = sales[s] /\ sales[s].block < b
      BY <1>4, <3>1
    <3> QED BY <1>0, <1>1, <3>1, <3>2
  <2>2. \A a \in sales[s].assets : a \in 1..Len(assets) /\ assets[a].block <= sales[s].block
    BY <2>1 DEF MintInv, SalesFollowAssets
  <2>3. \A a \in sales[s].assets : a \in 1..Len(assets)'
    <3> SUFFICES ASSUME NEW a \in sales[s].assets PROVE a \in 1..Len(assets)'
      OBVIOUS
    <3>1. a \in 1..Len(assets) /\ assets[a].block <= sales[s].block
      BY <2>2
    <3>2. assets[a].block < b
      BY <1>0, <1>1, <2>1, <3>1
    <3> QED BY <1>3, <3>1, <3>2
  <2>4. \A a \in sales[s].assets : /\ a \in 1..Len(assets)' /\ assets'[a] = assets[a]
                                   /\ sales[s].range # <<>> => mint'[a] = mint[a]
    BY <1>3, <1>5, <2>3
  <2> QED BY <2>1, <2>4, SaleStays
<1>11. SalesFollowAssets' /\ RangesAreFinal'
  BY <1>4, <1>10, SalesOkNext
<1> QED BY <1>6, <1>7, <1>8, <1>9, <1>11 DEF MintInv

LEMMA LibPreserves ==
  ASSUME MintInv, AdvanceLib
  PROVE  MintInv'
<1>0. /\ Len(assets) \in Nat /\ DOMAIN assets = 1..Len(assets)
      /\ lib \in Nat /\ sales \in Seq(SaleRow)
      /\ \A i \in 1..Len(assets) : assets[i].block \in Nat
  BY MintFacts
<1>1. lib' = lib + 1 /\ UNCHANGED <<assets, mint, sales, head, call, stops>>
  BY DEF AdvanceLib
<1>2. TypeOK' /\ Ordered'
  BY <1>0, <1>1 DEF MintInv, TypeOK, Ordered
<1>3. /\ MintsArePlaces'
      /\ \A c \in Callers : \A a \in Nat :
           Planned(c, a) /\ call'[c].plan = call[c].plan => Planned(c, a)'
  <2>1. /\ Len(assets) \in 0..Len(assets) /\ Len(assets) <= Len(assets)' /\ Len(assets)' \in Nat
        /\ lib <= lib' /\ lib' \in Nat
    BY <1>0, <1>1
  <2>2. /\ \A i \in 1..Len(assets) : assets'[i] = assets[i] /\ mint'[i] = mint[i]
        /\ \A i \in (Len(assets) + 1)..Len(assets)' : mint'[i] = 0
        /\ \A i \in 1..Len(assets) : assets[i].block <= lib => i <= Len(assets)
    BY <1>0, <1>1
  <2> QED BY <2>1, <2>2, PlacesStay
<1>4. PlansArePlaces'
  <2>1. ASSUME NEW c \in Callers
        PROVE  call'[c].lib <= lib'
    BY <1>0, <1>1 DEF PlansArePlaces, MintInv, TypeOK, Calls
  <2> QED BY <1>1, <1>3, <2>1 DEF PlansArePlaces, MintInv, Planned
<1>5. ASSUME NEW s \in 1..Len(sales)'
      PROVE  SaleOk(s)'
  <2>1. s \in 1..Len(sales) /\ sales'[s] = sales[s] /\ lib <= lib' /\ lib' \in Nat
    BY <1>0, <1>1
  <2>2. \A a \in sales[s].assets : /\ a \in 1..Len(assets)' /\ assets'[a] = assets[a]
                                   /\ sales[s].range # <<>> => mint'[a] = mint[a]
    BY <1>1, <2>1 DEF MintInv, SalesFollowAssets
  <2> QED BY <2>1, <2>2, SaleStays
<1>6. SalesFollowAssets' /\ RangesAreFinal'
  BY <1>0, <1>1, <1>5, SalesOkNext
<1> QED BY <1>2, <1>3, <1>4, <1>6 DEF MintInv

-----------------------------------------------------------------------------
(* The ranges of sales.                                                     *)

LEMMA ResolvePreserves ==
  ASSUME MintInv, ResolveSales
  PROVE  MintInv'
<1>0. /\ Len(assets) \in Nat /\ DOMAIN assets = 1..Len(assets)
      /\ Len(mint) = Len(assets)
      /\ lib \in Nat /\ sales \in Seq(SaleRow) /\ Len(sales) \in Nat /\ DOMAIN sales = 1..Len(sales)
      /\ \A i \in 1..Len(assets) : mint[i] \in Nat
      /\ \A i \in 1..Len(sales) : sales[i] \in SaleRow
  BY MintFacts
<1> DEFINE due(s) == sales[s].range = <<>> /\ sales[s].block <= lib /\ Resolvable(s)
<1>1. /\ sales' = [s \in DOMAIN sales |->
            IF due(s) THEN [sales[s] EXCEPT !.range = RangeOf(s)] ELSE sales[s]]
      /\ UNCHANGED <<assets, mint, head, lib, call, stops>>
  BY DEF ResolveSales
<1>2. \A s \in 1..Len(sales) :
        \A a \in sales[s].assets : a \in 1..Len(assets) /\ assets[a].block <= sales[s].block
  BY DEF MintInv, SalesFollowAssets
<1>3. ASSUME NEW s \in 1..Len(sales)
      PROVE  RangeOf(s) \in Seq(Nat \cup {"empty"})
  <2> DEFINE numbers == {mint[a] : a \in sales[s].assets} \ {0}
  <2>1. numbers \in SUBSET Nat
    BY <1>0, <1>2
  <2>2. CASE numbers = {}
    BY <2>2 DEF RangeOf
  <2>3. CASE numbers # {}
    <3>1. Min(numbers) \in Nat
      BY <2>1, <2>3, MinOfSet
    <3>2. Max(numbers) \in Nat
      <4>1. \A a \in sales[s].assets : mint[a] <= Len(assets)
        <5> SUFFICES ASSUME NEW a \in sales[s].assets PROVE mint[a] <= Len(assets)
          OBVIOUS
        <5>1. a \in 1..Len(assets)
          BY <1>2
        <5>2. mint[a] # 0 => mint[a] = Rank(a)
          BY <5>1 DEF MintInv, MintsArePlaces, Numbered
        <5>3. Rank(a) <= a /\ Rank(a) \in Nat
          BY <1>0, <5>1, RankPositive
        <5> QED BY <1>0, <5>1, <5>2, <5>3
      <4>2. numbers \in SUBSET (1..Len(assets))
        <5> SUFFICES ASSUME NEW n \in numbers PROVE n \in 1..Len(assets)
          OBVIOUS
        <5>1. PICK a \in sales[s].assets : n = mint[a]
          OBVIOUS
        <5>2. n # 0 /\ n \in Nat
          BY <2>1
        <5>3. n <= Len(assets)
          BY <4>1, <5>1
        <5> HIDE DEF numbers
        <5> QED BY <1>0, <5>2, <5>3
      <4> HIDE DEF numbers
      <4>3. Max(numbers) \in numbers
        BY <1>0, <2>3, <4>2, MaxOfSet
      <4> QED BY <2>1, <4>3
    <3>3. RangeOf(s) = <<Min(numbers), Max(numbers)>>
      BY <2>3 DEF RangeOf
    <3> HIDE DEF numbers
    <3> QED BY <3>1, <3>2, <3>3
  <2> QED BY <2>2, <2>3
<1>4. /\ sales' \in Seq(SaleRow) /\ Len(sales)' = Len(sales)
      /\ \A s \in 1..Len(sales) :
           sales'[s] = IF due(s) THEN [sales[s] EXCEPT !.range = RangeOf(s)] ELSE sales[s]
  <2> DEFINE row(s) == IF due(s) THEN [sales[s] EXCEPT !.range = RangeOf(s)] ELSE sales[s]
  <2>1. \A s \in 1..Len(sales) : row(s) \in SaleRow
    BY <1>0, <1>3 DEF SaleRow
  <2>2. sales' = [s \in 1..Len(sales) |-> row(s)]
    BY <1>0, <1>1
  <2> HIDE DEF row
  <2>3. sales' \in [1..Len(sales) -> SaleRow]
    BY <2>1, <2>2
  <2>4. \A s \in 1..Len(sales) : sales'[s] = row(s)
    BY <2>2
  <2>5. sales' \in Seq(SaleRow) /\ Len(sales)' = Len(sales)
    BY <1>0, <2>3
  <2> QED BY <2>4, <2>5 DEF row
<1>5. \A s \in 1..Len(sales) : /\ sales'[s].block = sales[s].block
                               /\ sales'[s].assets = sales[s].assets
  BY <1>0, <1>4 DEF SaleRow
<1>6. TypeOK' /\ Ordered'
  <2>1. TypeOK'
    BY <1>1, <1>4 DEF MintInv, TypeOK
  <2>2. Ordered'
    BY <1>1, <1>4, <1>5 DEF MintInv, Ordered
  <2> QED BY <2>1, <2>2
<1>7. MintsArePlaces' /\ PlansArePlaces'
  BY <1>1 DEF MintInv, MintsArePlaces, Numbered, PlansArePlaces, Planned, UpTo, Rank
<1>8. ASSUME NEW s \in 1..Len(sales)'
      PROVE  SaleOk(s)'
  <2>1. s \in 1..Len(sales)
    BY <1>4
  <2>2. CASE ~ due(s)
    <3>1. sales'[s] = sales[s] /\ lib <= lib' /\ lib' \in Nat
      BY <1>0, <1>1, <1>4, <2>1, <2>2
    <3>2. \A a \in sales[s].assets : /\ a \in 1..Len(assets)' /\ assets'[a] = assets[a]
                                     /\ sales[s].range # <<>> => mint'[a] = mint[a]
      BY <1>1, <1>2, <2>1
    <3> QED BY <2>1, <3>1, <3>2, SaleStays
  <2>3. CASE due(s)
    <3>1. sales'[s] = [sales[s] EXCEPT !.range = RangeOf(s)]
      BY <1>4, <2>1, <2>3
    <3>2. /\ sales'[s].range = RangeOf(s) /\ sales'[s].assets = sales[s].assets
          /\ sales'[s].block = sales[s].block
      BY <1>0, <2>1, <3>1 DEF SaleRow
    <3>3. {mint'[a] : a \in sales'[s].assets} = {mint[a] : a \in sales[s].assets}
      BY <1>1, <3>2
    <3>4. RangeOf(s)' = RangeOf(s)
      BY <3>3 DEF RangeOf
    <3>5. Resolvable(s)'
      BY <1>1, <2>3, <3>2 DEF Resolvable
    <3> QED BY <1>1, <1>2, <2>1, <2>3, <3>2, <3>4, <3>5 DEF SaleOk
  <2> QED BY <2>2, <2>3
<1>9. SalesFollowAssets' /\ RangesAreFinal'
  BY <1>4, <1>8, SalesOkNext
<1> QED BY <1>6, <1>7, <1>9 DEF MintInv

-----------------------------------------------------------------------------
(* The procedure.                                                           *)

Plans == UNION {[D -> Nat] : D \in SUBSET Nat}

LEMMA PlanDomain ==
  ASSUME NEW D \in SUBSET Nat, NEW p, p \in [D -> Nat]
  PROVE  p \in Plans /\ DOMAIN p = D
<1>1. [D -> Nat] \in {[E -> Nat] : E \in SUBSET Nat}
  OBVIOUS
<1> QED BY <1>1 DEF Plans

LEMMA PlanOfCall ==
  ASSUME MintInv, NEW c \in Callers
  PROVE  /\ call[c].at \in {"idle", "called", "loop"} /\ call[c].lib \in Nat
         /\ DOMAIN call[c].plan \in SUBSET Nat
         /\ call[c].plan \in [DOMAIN call[c].plan -> Nat]
<1>1. call[c] \in Calls
  BY DEF MintInv, TypeOK
<1>2. call[c].plan \in UNION {[D -> Nat] : D \in SUBSET Nat}
  BY <1>1 DEF Calls
<1>3. PICK D \in SUBSET Nat : call[c].plan \in [D -> Nat]
  BY <1>2
<1>4. DOMAIN call[c].plan = D
  BY <1>3
<1> QED BY <1>1, <1>3, <1>4 DEF Calls

LEMMA IdleCall == Idle \in Calls /\ [Idle EXCEPT !.at = "called"] \in Calls
<1>1. <<>> \in [{} -> Nat] /\ {} \in SUBSET Nat
  OBVIOUS
<1>2. <<>> \in Plans
  BY <1>1, PlanDomain
<1> QED BY <1>2 DEF Idle, Calls, Plans

\* The rows stand still and one session goes on: what is to show of the others
\* is what was known.
LEMMA SessionMoves ==
  ASSUME MintInv, NEW c \in Callers, NEW next \in Calls,
         call' = [call EXCEPT ![c] = next], UNCHANGED <<assets, mint, sales, head, lib>>,
         stops' \in Nat, next.lib <= lib,
         next.at = "loop" => \A a \in DOMAIN next.plan :
           /\ a \in 1..Len(assets)
           /\ assets[a].template # NoTemplate /\ assets[a].block <= lib
           /\ next.plan[a] = Rank(a)
           /\ \A b \in UpTo(a) : mint[b] # 0 \/ b \in DOMAIN next.plan
  PROVE  MintInv'
<1>1. /\ call' \in [Callers -> Calls] /\ call'[c] = next
      /\ \A d \in Callers : d # c => call'[d] = call[d]
  BY DEF MintInv, TypeOK
<1>2. TypeOK'
  BY <1>1 DEF MintInv, TypeOK
<1>3. /\ Len(assets) \in Nat /\ lib \in Nat /\ sales \in Seq(SaleRow)
      /\ \A i \in 1..Len(assets) : assets[i].block \in Nat
  BY MintFacts
<1>4. /\ MintsArePlaces'
      /\ \A d \in Callers : \A a \in Nat :
           Planned(d, a) /\ call'[d].plan = call[d].plan => Planned(d, a)'
  <2>1. /\ Len(assets) \in 0..Len(assets) /\ Len(assets) <= Len(assets)' /\ Len(assets)' \in Nat
        /\ lib <= lib' /\ lib' \in Nat
    BY <1>3
  <2>2. /\ \A i \in 1..Len(assets) : assets'[i] = assets[i] /\ mint'[i] = mint[i]
        /\ \A i \in (Len(assets) + 1)..Len(assets)' : mint'[i] = 0
        /\ \A i \in 1..Len(assets) : assets[i].block <= lib => i <= Len(assets)
    BY <1>3
  <2> QED BY <2>1, <2>2, PlacesStay
<1>5. ASSUME NEW d \in Callers
      PROVE  /\ call'[d].lib <= lib'
             /\ call'[d].at = "loop" => \A a \in DOMAIN call'[d].plan : Planned(d, a)'
  <2>1. CASE d = c
    <3>1. ASSUME next.at = "loop", NEW a \in DOMAIN next.plan
          PROVE  Planned(d, a)'
      BY <1>1, <2>1, <3>1 DEF Planned, UpTo, Rank
    <3> QED BY <1>1, <2>1, <3>1
  <2>2. CASE d # c
    <3>1. call'[d] = call[d]
      BY <1>1, <2>2
    <3>2. call[d].lib <= lib /\ (call[d].at = "loop" => \A a \in DOMAIN call[d].plan : Planned(d, a))
      BY DEF MintInv, PlansArePlaces
    <3>3. \A a \in DOMAIN call[d].plan : Planned(d, a) => a \in Nat
      BY <1>3 DEF Planned
    <3> QED BY <1>4, <3>1, <3>2, <3>3
  <2> QED BY <2>1, <2>2
<1>6. PlansArePlaces'
  BY <1>5 DEF PlansArePlaces
<1>7. Ordered'
  BY DEF MintInv, Ordered
<1>8. ASSUME NEW s \in 1..Len(sales)'
      PROVE  SaleOk(s)'
  <2>1. s \in 1..Len(sales) /\ sales'[s] = sales[s] /\ lib <= lib' /\ lib' \in Nat
    BY <1>3
  <2>2. \A a \in sales[s].assets : /\ a \in 1..Len(assets)' /\ assets'[a] = assets[a]
                                   /\ sales[s].range # <<>> => mint'[a] = mint[a]
    BY <2>1 DEF MintInv, SalesFollowAssets
  <2> QED BY <2>1, <2>2, SaleStays
<1>9. SalesFollowAssets' /\ RangesAreFinal'
  BY <1>3, <1>8, SalesOkNext
<1> QED BY <1>2, <1>4, <1>6, <1>7, <1>9 DEF MintInv

LEMMA CallPreserves ==
  ASSUME MintInv, NEW c \in Callers, Call(c)
  PROVE  MintInv'
<1> DEFINE next == [Idle EXCEPT !.at = "called", !.lib = lib]
<1>1. lib \in Nat /\ stops \in Nat
  BY DEF MintInv, TypeOK
<1>2. next \in Calls /\ next.lib = lib /\ next.at = "called"
  BY <1>1, IdleCall DEF Calls, Idle
<1>3. call' = [call EXCEPT ![c] = next] /\ UNCHANGED <<assets, mint, sales, head, lib, stops>>
  BY DEF Call
<1>4. next.lib <= lib /\ stops' \in Nat /\ next.at # "loop"
  BY <1>1, <1>2, <1>3
<1> HIDE DEF next
<1> QED BY <1>2, <1>3, <1>4, SessionMoves

LEMMA CutPreserves ==
  ASSUME MintInv, NEW c \in Callers, Cut(c)
  PROVE  MintInv'
<1>1. lib \in Nat /\ stops + 1 \in Nat
  BY DEF MintInv, TypeOK
<1>2. Idle \in Calls /\ Idle.lib <= lib /\ Idle.at = "idle"
  BY <1>1, IdleCall DEF Idle
<1>3. /\ call' = [call EXCEPT ![c] = Idle] /\ UNCHANGED <<assets, mint, sales, head, lib>>
      /\ stops' = stops + 1
  BY DEF Cut
<1> QED BY <1>1, <1>2, <1>3, SessionMoves

\* The number after the last one of the template, and so on in the order of the
\* ids: that is the place.
LEMMA QueryNumbers ==
  ASSUME MintInstance, MintInv, NEW c \in Callers,
         NEW a \in Selected(Unnumbered(c))
  PROVE  LET chosen == Selected(Unnumbered(c))
             rank == Cardinality({b \in chosen : assets[b].template = assets[a].template /\ b <= a})
         IN  /\ LastMint(assets[a].template) + rank = Rank(a)
             /\ \A b \in UpTo(a) : mint[b] # 0 \/ b \in chosen
<1> DEFINE chosen == Selected(Unnumbered(c))
           t == assets[a].template
           ours == {b \in chosen : assets[b].template = t /\ b <= a}
           numbered == {b \in DOMAIN assets : assets[b].template = t /\ mint[b] # 0}
<1>0. /\ Len(assets) \in Nat /\ DOMAIN assets = 1..Len(assets) /\ lib \in Nat
      /\ \A i \in 1..Len(assets) : /\ assets[i] \in AssetRow /\ assets[i].block \in Nat
                                   /\ mint[i] \in Nat
  BY MintFacts
<1>1. /\ chosen \subseteq 1..Len(assets)
      /\ \A b \in chosen : /\ assets[b].template # NoTemplate /\ mint[b] = 0
                           /\ assets[b].block <= call[c].lib
  BY <1>0 DEF Selected, Unnumbered
<1>2. a \in 1..Len(assets) /\ t # NoTemplate /\ mint[a] = 0 /\ assets[a].block <= call[c].lib
  BY <1>1
\* No asset of the template is passed over.
<1>3. ASSUME NEW b \in UpTo(a), mint[b] = 0
      PROVE  b \in ours
  <2>1. b \in 1..Len(assets) /\ b <= a /\ assets[b].template = t
    BY <1>0, <1>2 DEF UpTo
  <2>2. assets[b].block <= call[c].lib
    <3>1. assets[b].block <= assets[a].block
      BY <1>0, <1>2, <2>1 DEF MintInv, Ordered
    <3>2. call[c].lib \in Nat
      BY PlanOfCall
    <3> QED BY <1>0, <1>2, <2>1, <3>1, <3>2
  <2>3. b \in Unnumbered(c)
    BY <1>0, <1>2, <1>3, <2>1, <2>2 DEF Unnumbered
  <2>4. Unnumbered(c) \subseteq 1..Len(assets) /\ IsFiniteSet(Unnumbered(c))
    <3>1. Unnumbered(c) \in SUBSET (1..Len(assets))
      BY <1>0 DEF Unnumbered
    <3>2. IsFiniteSet(1..Len(assets))
      BY <1>0, FS_Interval
    <3> QED BY <3>1, <3>2, FS_Subset
  <2> DEFINE below(x) == {e \in Unnumbered(c) : Before(e, x)}
  <2>5. \A e \in Unnumbered(c) : assets[e].template \in Nat
    <3>1. Templates \cup {NoTemplate} \subseteq Nat
      BY DEF MintInstance, NoTemplate
    <3>2. \A e \in Unnumbered(c) : assets[e] \in AssetRow
      BY <1>0, <2>4
    <3> QED BY <3>1, <3>2 DEF AssetRow
  <2>6. below(b) \subseteq below(a)
    BY <1>2, <2>1, <2>4, <2>5 DEF Before
  <2>7. IsFiniteSet(below(a)) /\ IsFiniteSet(below(b))
    <3>1. below(a) \in SUBSET Unnumbered(c) /\ below(b) \in SUBSET Unnumbered(c)
      OBVIOUS
    <3> HIDE DEF below
    <3> QED BY <2>4, <3>1, FS_Subset
  <2>8. /\ Cardinality(below(b)) <= Cardinality(below(a))
        /\ Cardinality(below(b)) \in Nat /\ Cardinality(below(a)) \in Nat
    <3> HIDE DEF below
    <3> QED BY <2>6, <2>7, FS_Subset, FS_CardinalityType
  <2>9. Cardinality(below(a)) < Limit
    BY DEF Selected
  <2>10. Cardinality(below(b)) < Limit
    BY <2>8, <2>9 DEF MintInstance
  <2>11. b \in chosen
    BY <2>3, <2>10 DEF Selected
  <2> QED BY <2>1, <2>11
\* The numbered ones of the template all come before.
<1>4. UpTo(a) = numbered \cup ours /\ numbered \cap ours = {}
  <2>1. ASSUME NEW b \in numbered
        PROVE  b \in UpTo(a)
    <3>1. b \in 1..Len(assets) /\ assets[b].template = t /\ mint[b] # 0
      BY <1>0
    <3>2. \A e \in UpTo(b) : mint[e] # 0
      BY <3>1 DEF MintInv, MintsArePlaces, Numbered
    <3>3. ~ (a <= b)
      BY <1>0, <1>2, <3>1, <3>2 DEF UpTo
    <3> QED BY <1>0, <1>2, <3>1, <3>3 DEF UpTo
  <2>2. ours \subseteq UpTo(a)
    BY <1>1, <1>2 DEF UpTo
  <2>3. ASSUME NEW b \in UpTo(a), b \notin ours
        PROVE  b \in numbered
    <3>1. mint[b] # 0
      BY <1>3, <2>3
    <3> QED BY <1>0, <1>2, <3>1 DEF UpTo
  <2>4. \A b \in ours : b \notin numbered
    BY <1>1
  <2> HIDE DEF ours, numbered
  <2> QED BY <2>1, <2>2, <2>3, <2>4
<1>5. LastMint(t) = Cardinality(numbered)
  <2>1. CASE numbered = {}
    BY <2>1, FS_EmptySet DEF LastMint
  <2>2. CASE numbered # {}
    <3> DEFINE last == Max(numbered)
    <3>1. numbered \in SUBSET (1..Len(assets))
      BY <1>0
    <3>2. last \in numbered /\ \A k \in numbered : k <= last
      <4> HIDE DEF numbered
      <4> QED BY <1>0, <2>2, <3>1, MaxOfSet
    <3>3. LastMint(t) = mint[last]
      BY <2>2 DEF LastMint
    <3> HIDE DEF last
    <3>4. last \in 1..Len(assets) /\ assets[last].template = t /\ mint[last] # 0
      BY <1>0, <3>2
    <3>5. mint[last] = Rank(last) /\ \A e \in UpTo(last) : mint[e] # 0
      BY <3>4 DEF MintInv, MintsArePlaces, Numbered
    <3>6. UpTo(last) \subseteq numbered
      BY <1>0, <3>4, <3>5 DEF UpTo
    <3>7. numbered \subseteq UpTo(last)
      BY <1>0, <3>2, <3>4 DEF UpTo
    <3> HIDE DEF numbered
    <3> QED BY <3>3, <3>5, <3>6, <3>7 DEF Rank
  <2> QED BY <2>1, <2>2
<1>6. Cardinality(numbered) + Cardinality(ours) = Rank(a)
  <2>1. IsFiniteSet(1..Len(assets))
    BY <1>0, FS_Interval
  <2>2. numbered \in SUBSET (1..Len(assets)) /\ ours \in SUBSET (1..Len(assets))
    BY <1>0, <1>1
  <2> HIDE DEF numbered, ours
  <2>3. IsFiniteSet(numbered) /\ IsFiniteSet(ours)
    BY <2>1, <2>2, FS_Subset
  <2>4. Cardinality(numbered \cup ours) = Cardinality(numbered) + Cardinality(ours) - Cardinality(numbered \cap ours)
    BY <2>3, FS_Union
  <2>5. Cardinality(numbered \cap ours) = 0
    BY <1>4, FS_EmptySet
  <2>6. Cardinality(numbered) \in Nat /\ Cardinality(ours) \in Nat
    BY <2>3, FS_CardinalityType
  <2> QED BY <1>4, <2>4, <2>5, <2>6 DEF Rank
<1>7. \A b \in UpTo(a) : mint[b] # 0 \/ b \in chosen
  BY <1>3
<1> QED BY <1>5, <1>6, <1>7

LEMMA QueryPreserves ==
  ASSUME MintInstance, MintInv, NEW c \in Callers, Query(c)
  PROVE  MintInv'
<1> DEFINE chosen == Selected(Unnumbered(c))
           number(a) == LastMint(assets[a].template)
             + Cardinality({b \in chosen : assets[b].template = assets[a].template /\ b <= a})
           plan == [a \in chosen |-> number(a)]
           next == [call[c] EXCEPT !.at = "loop", !.plan = plan]
<1>0. /\ Len(assets) \in Nat /\ DOMAIN assets = 1..Len(assets) /\ lib \in Nat
      /\ \A i \in 1..Len(assets) : assets[i].block \in Nat
  BY MintFacts
<1>1. call[c] \in Calls /\ call[c].lib <= lib /\ call[c].lib \in Nat /\ stops \in Nat
  BY PlanOfCall DEF MintInv, TypeOK, PlansArePlaces
<1>2. /\ chosen \subseteq 1..Len(assets)
      /\ \A a \in chosen : assets[a].template # NoTemplate /\ assets[a].block <= lib
  BY <1>0, <1>1 DEF Selected, Unnumbered
<1>3. \A a \in chosen : number(a) = Rank(a) /\ \A b \in UpTo(a) : mint[b] # 0 \/ b \in chosen
  BY QueryNumbers
<1>4. \A a \in chosen : number(a) \in Nat
  BY <1>0, <1>2, <1>3, RankPositive
<1>5. /\ call' = [call EXCEPT ![c] = next]
      /\ UNCHANGED <<assets, mint, sales, head, lib, stops>>
  BY DEF Query
<1> HIDE DEF number, chosen
<1>6. plan \in Plans /\ DOMAIN plan = chosen /\ \A a \in chosen : plan[a] = number(a)
  <2>1. plan \in [chosen -> Nat] /\ chosen \in SUBSET Nat
    BY <1>0, <1>2, <1>4
  <2> QED BY <2>1, PlanDomain
<1> HIDE DEF plan
<1>7. next \in Calls /\ next.lib = call[c].lib /\ next.plan = plan
  BY <1>1, <1>6 DEF Calls, Plans
<1> HIDE DEF next
<1>8. \A a \in DOMAIN next.plan :
        /\ a \in 1..Len(assets)
        /\ assets[a].template # NoTemplate /\ assets[a].block <= lib
        /\ next.plan[a] = Rank(a)
        /\ \A b \in UpTo(a) : mint[b] # 0 \/ b \in DOMAIN next.plan
  BY <1>2, <1>3, <1>6, <1>7
<1> QED BY <1>1, <1>5, <1>7, <1>8, SessionMoves

\* The row the loop comes to gets its place, and is the first of its template
\* without a number.
LEMMA UpdateTakes ==
  ASSUME MintInv, NEW c \in Callers, Update(c), DOMAIN call[c].plan # {}
  PROVE  LET plan == call[c].plan
             row == Min(DOMAIN plan)
         IN  /\ row \in DOMAIN plan /\ \A a \in DOMAIN plan : Planned(c, a)
             /\ row \in 1..Len(assets) /\ assets[row].template # NoTemplate
             /\ assets[row].block <= lib
             /\ \A b \in UpTo(row) : b # row => mint[b] # 0
             /\ Rank(row) \in Nat \ {0}
             /\ mint' = [mint EXCEPT ![row] = Rank(row)]
             /\ call[c].at = "loop"
             /\ call' = [call EXCEPT ![c].plan = [a \in DOMAIN plan \ {row} |-> plan[a]]]
             /\ UNCHANGED <<assets, sales, head, lib, stops>>
<1> DEFINE plan == call[c].plan
           row == Min(DOMAIN plan)
<1>0. Len(assets) \in Nat /\ DOMAIN mint = 1..Len(assets)
  BY MintFacts
<1>1. DOMAIN plan \in SUBSET Nat
  BY PlanOfCall
<1>2. row \in DOMAIN plan /\ \A a \in DOMAIN plan : row <= a
  BY <1>1, MinOfSet
<1>3. /\ call' = [call EXCEPT ![c].plan = [a \in DOMAIN plan \ {row} |-> plan[a]]]
      /\ mint' = IF row \in DOMAIN mint THEN [mint EXCEPT ![row] = plan[row]] ELSE mint
      /\ UNCHANGED <<assets, sales, head, lib, stops>> /\ call[c].at = "loop"
  BY DEF Update
<1>4. \A a \in DOMAIN plan : Planned(c, a)
  BY <1>3 DEF MintInv, PlansArePlaces
<1>5. /\ row \in 1..Len(assets) /\ assets[row].template # NoTemplate /\ assets[row].block <= lib
      /\ plan[row] = Rank(row)
      /\ \A b \in UpTo(row) : mint[b] # 0 \/ b \in DOMAIN plan
  BY <1>2, <1>4 DEF Planned
<1>6. Rank(row) \in Nat \ {0}
  BY <1>0, <1>5, RankPositive
<1>7. \A b \in UpTo(row) : b # row => mint[b] # 0
  BY <1>0, <1>1, <1>2, <1>5 DEF UpTo
<1>8. mint' = [mint EXCEPT ![row] = Rank(row)]
  BY <1>0, <1>3, <1>5
<1> QED BY <1>2, <1>3, <1>4, <1>5, <1>6, <1>7, <1>8

LEMMA UpdatePreserves ==
  ASSUME MintInv, NEW c \in Callers, Update(c)
  PROVE  MintInv'
<1> DEFINE plan == call[c].plan
           row == Min(DOMAIN plan)
           rest == [a \in DOMAIN plan \ {row} |-> plan[a]]
           next == [call[c] EXCEPT !.plan = rest]
<1>0. /\ mint \in Seq(Nat) /\ Len(assets) \in Nat /\ DOMAIN mint = 1..Len(assets)
      /\ lib \in Nat /\ sales \in Seq(SaleRow) /\ Len(mint) = Len(assets)
      /\ \A i \in 1..Len(assets) : assets[i].block \in Nat /\ mint[i] \in Nat
  BY MintFacts
<1>1. /\ DOMAIN plan \in SUBSET Nat /\ plan \in [DOMAIN plan -> Nat]
      /\ call[c] \in Calls /\ call[c].lib \in Nat /\ stops \in Nat
  BY PlanOfCall DEF MintInv, TypeOK
<1>2. CASE DOMAIN plan = {}
  <2>1. call' = [call EXCEPT ![c] = Idle] /\ UNCHANGED <<assets, mint, sales, head, lib, stops>>
    BY <1>2 DEF Update
  <2>2. Idle \in Calls /\ Idle.lib <= lib /\ Idle.at = "idle" /\ stops' \in Nat
    BY <1>0, <1>1, <2>1, IdleCall DEF Idle
  <2> QED BY <2>1, <2>2, SessionMoves
<1>3. CASE DOMAIN plan # {}
  <2>1. /\ row \in DOMAIN plan /\ row \in 1..Len(assets)
        /\ mint' = [mint EXCEPT ![row] = Rank(row)] /\ Rank(row) \in Nat \ {0}
        /\ call[c].at = "loop" /\ call' = [call EXCEPT ![c].plan = rest]
        /\ UNCHANGED <<assets, sales, head, lib, stops>>
    BY <1>3, UpdateTakes
  <2>2. \A a \in DOMAIN plan : Planned(c, a)
    BY <1>3, UpdateTakes
  <2>3. assets[row].template # NoTemplate /\ assets[row].block <= lib
    BY <1>3, UpdateTakes
  <2>4. \A b \in UpTo(row) : b # row => mint[b] # 0
    BY <1>3, UpdateTakes
  <2> HIDE DEF row
  <2>8. /\ mint' \in Seq(Nat) /\ Len(mint)' = Len(assets)
        /\ mint'[row] = Rank(row)
        /\ \A i \in 1..Len(assets) : i # row => mint'[i] = mint[i]
    BY <1>0, <2>1, ExceptSeq
  \* Who had a number keeps it.
  <2>9. \A i \in 1..Len(assets) : mint[i] # 0 => mint'[i] = mint[i]
    BY <2>1, <2>8 DEF MintInv, MintsArePlaces, Numbered
  <2>10. \A i \in 1..Len(assets) : mint[i] # 0 => mint'[i] # 0
    BY <2>9
  <2>11. \A a \in Nat : UpTo(a)' = UpTo(a) /\ Rank(a)' = Rank(a)
    BY <2>1 DEF UpTo, Rank
  <2>12. /\ next \in Calls /\ next.lib = call[c].lib /\ next.plan = rest
         /\ DOMAIN rest = DOMAIN plan \ {row}
         /\ \A a \in DOMAIN rest : rest[a] = plan[a]
    <3>1. rest \in [DOMAIN plan \ {row} -> Nat] /\ DOMAIN plan \ {row} \in SUBSET Nat
      BY <1>1
    <3>2. rest \in Plans /\ DOMAIN rest = DOMAIN plan \ {row}
      BY <3>1, PlanDomain
    <3> QED BY <1>1, <3>2 DEF Calls, Plans
  <2>13. call' = [call EXCEPT ![c] = next]
    BY <2>1 DEF MintInv, TypeOK
  <2> HIDE DEF rest, next
  <2>14. /\ call' \in [Callers -> Calls] /\ call'[c] = next
         /\ \A d \in Callers : d # c => call'[d] = call[d]
    BY <2>12, <2>13 DEF MintInv, TypeOK
  <2>15. TypeOK' /\ Ordered'
    BY <2>1, <2>8, <2>14 DEF MintInv, TypeOK, Ordered
  <2>16. ASSUME NEW a \in 1..Len(assets)', mint'[a] # 0
         PROVE  Numbered(a)'
    <3>0. a \in 1..Len(assets) /\ a \in Nat
      BY <1>0, <2>1
    <3>1. UpTo(a) \subseteq 1..Len(assets)
      BY <1>0, <3>0 DEF UpTo
    <3>2. CASE a = row
      BY <2>1, <2>3, <2>4, <2>8, <2>10, <2>11, <2>16, <3>0, <3>1, <3>2 DEF Numbered
    <3>3. CASE a # row
      <4>1. Numbered(a)
        BY <2>8, <2>16, <3>0, <3>3 DEF MintInv, MintsArePlaces
      <4> QED BY <2>1, <2>8, <2>10, <2>11, <3>0, <3>1, <3>3, <4>1 DEF Numbered
    <3> QED BY <3>2, <3>3
  <2>17. ASSUME NEW d \in Callers, NEW a \in DOMAIN call'[d].plan, call'[d].at = "loop"
         PROVE  Planned(d, a)'
    <3>1. /\ Planned(d, a) /\ call'[d].plan[a] = call[d].plan[a]
          /\ \A b \in DOMAIN call[d].plan : b \in DOMAIN call'[d].plan \/ b = row
      <4>1. CASE d = c
        BY <2>2, <2>12, <2>14, <4>1
      <4>2. CASE d # c
        BY <2>14, <2>17, <4>2 DEF MintInv, PlansArePlaces
      <4> QED BY <4>1, <4>2
    <3>2. a \in 1..Len(assets) /\ a \in Nat
      BY <1>0, <3>1 DEF Planned
    <3>3. UpTo(a) \subseteq 1..Len(assets)
      BY <1>0, <3>2 DEF UpTo
    <3>4. mint'[row] # 0
      BY <2>1, <2>8
    <3>5. \A b \in UpTo(a) : mint'[b] # 0 \/ b \in DOMAIN call'[d].plan
      BY <2>10, <3>1, <3>3, <3>4 DEF Planned
    <3> QED BY <2>1, <2>11, <3>1, <3>2, <3>5 DEF Planned
  <2>18. MintsArePlaces'
    BY <2>16 DEF MintsArePlaces
  <2>19. PlansArePlaces'
    <3>1. \A d \in Callers : call'[d].lib <= lib'
      BY <2>1, <2>12, <2>14 DEF MintInv, PlansArePlaces
    <3> QED BY <2>17, <3>1 DEF PlansArePlaces
  <2>20. ASSUME NEW s \in 1..Len(sales)'
         PROVE  SaleOk(s)'
    <3>1. s \in 1..Len(sales) /\ sales'[s] = sales[s] /\ lib <= lib' /\ lib' \in Nat
      BY <1>0, <2>1
    <3>2. \A a \in sales[s].assets : a \in 1..Len(assets)
      BY <3>1 DEF MintInv, SalesFollowAssets
    <3>3. sales[s].range # <<>> =>
            \A a \in sales[s].assets : assets[a].template # NoTemplate => mint[a] # 0
      BY <3>1 DEF MintInv, RangesAreFinal, Resolvable
    <3>4. \A a \in sales[s].assets : /\ a \in 1..Len(assets)' /\ assets'[a] = assets[a]
                                     /\ sales[s].range # <<>> => mint'[a] = mint[a]
      BY <2>1, <2>3, <2>8, <2>9, <3>2, <3>3
    <3> QED BY <3>1, <3>4, SaleStays
  <2>21. SalesFollowAssets' /\ RangesAreFinal'
    BY <1>0, <2>1, <2>20, SalesOkNext
  <2> QED BY <2>15, <2>18, <2>19, <2>21 DEF MintInv
<1> QED BY <1>2, <1>3

-----------------------------------------------------------------------------
(* The invariant holds.                                                     *)

LEMMA InitHolds ==
  ASSUME MintInstance, Init
  PROVE  MintInv
<1>1. /\ assets = <<>> /\ mint = <<>> /\ sales = <<>> /\ head = 0 /\ lib = 0
      /\ call = [c \in Callers |-> Idle] /\ stops = 0
  BY DEF Init
<1>2. /\ assets \in Seq(AssetRow) /\ mint \in Seq(Nat) /\ sales \in Seq(SaleRow)
      /\ Len(assets) = 0 /\ Len(mint) = 0 /\ Len(sales) = 0
  BY <1>1, EmptySeq
<1>3. call \in [Callers -> Calls]
  BY <1>1, IdleCall
<1>4. TypeOK
  BY <1>1, <1>2, <1>3 DEF TypeOK, MintInstance
<1>5. \A c \in Callers : call[c].lib = 0 /\ call[c].at = "idle"
  BY <1>1 DEF Idle
<1>6. Ordered /\ MintsArePlaces /\ SalesFollowAssets /\ RangesAreFinal
  <2>1. DOMAIN sales = {}
    BY <1>1
  <2> QED BY <1>2, <2>1 DEF Ordered, MintsArePlaces, SalesFollowAssets, RangesAreFinal
<1>7. PlansArePlaces
  BY <1>1, <1>5 DEF PlansArePlaces
<1> QED BY <1>4, <1>6, <1>7 DEF MintInv

LEMMA NextHolds ==
  ASSUME MintInstance, MintInv, [Next]_mintVars
  PROVE  MintInv'
<1>1. CASE UNCHANGED mintVars
  <2>1. TypeOK' /\ Ordered'
    BY <1>1 DEF mintVars, MintInv, TypeOK, Ordered
  <2>2. MintsArePlaces'
    BY <1>1 DEF mintVars, MintInv, MintsArePlaces, Numbered, UpTo, Rank
  <2>3. PlansArePlaces'
    BY <1>1 DEF mintVars, MintInv, PlansArePlaces, Planned, UpTo, Rank
  <2>4. SalesFollowAssets' /\ RangesAreFinal'
    <3>1. UNCHANGED <<assets, mint, sales, lib>> /\ lib \in Nat /\ sales \in Seq(SaleRow)
      BY <1>1, MintFacts DEF mintVars
    <3>2. ASSUME NEW s \in 1..Len(sales)'
          PROVE  SaleOk(s)'
      <4>1. s \in 1..Len(sales) /\ sales'[s] = sales[s] /\ lib <= lib' /\ lib' \in Nat
        BY <3>1
      <4>2. \A a \in sales[s].assets : /\ a \in 1..Len(assets)' /\ assets'[a] = assets[a]
                                       /\ sales[s].range # <<>> => mint'[a] = mint[a]
        BY <3>1, <4>1 DEF MintInv, SalesFollowAssets
      <4> QED BY <4>1, <4>2, SaleStays
    <3> QED BY <3>1, <3>2, SalesOkNext
  <2> QED BY <2>1, <2>2, <2>3, <2>4 DEF MintInv
<1>2. ASSUME NEW templates \in SeqOf(Templates \cup {NoTemplate}, 2),
             NEW sold \in SUBSET (DOMAIN assets \cup (Len(assets) + 1)..(Len(assets) + Len(templates))),
             Block(templates, sold)
      PROVE  MintInv'
  BY <1>2, BlockPreserves
<1>3. ASSUME NEW b \in 1..MaxBlocks, Fork(b)
      PROVE  MintInv'
  <2>1. b \in Nat
    BY <1>3
  <2> QED BY <1>3, <2>1, ForkPreserves
<1>4. CASE AdvanceLib
  BY <1>4, LibPreserves
<1>5. CASE ResolveSales
  BY <1>5, ResolvePreserves
<1>6. ASSUME NEW c \in Callers, Call(c) \/ Query(c) \/ Update(c) \/ Cut(c)
      PROVE  MintInv'
  BY <1>6, CallPreserves, QueryPreserves, UpdatePreserves, CutPreserves
<1> QED BY <1>1, <1>2, <1>3, <1>4, <1>5, <1>6 DEF Next

\* The rows, what a session has selected of them, the numbers it is about to give
\* out and the blocks they came from agree, at every cut and under every fork.
THEOREM MintInvariant == ASSUME MintInstance PROVE Spec => []MintInv
<1>1. Init => MintInv
  BY InitHolds
<1>2. MintInv /\ [Next]_mintVars => MintInv'
  BY NextHolds
<1> QED BY <1>1, <1>2, PTL DEF Spec

\* The range of a sale, once given, is the one its assets' final numbers make.
THEOREM SaleRangesAreFinal == ASSUME MintInstance PROVE Spec => []RangesAreFinal
<1>1. MintInv => RangesAreFinal
  BY DEF MintInv
<1> QED BY <1>1, MintInvariant, PTL

-----------------------------------------------------------------------------
(* The procedure implements Numbering.                                      *)

DueOf(t) == {a \in OfTemplate(t) : Final(a)}
NumberedOf(t) == {b \in OfTemplate(t) : mint[b] # 0}
NumberOf(t) == [a \in NumberedOf(t) |-> mint[a]]

LEMMA DueFacts ==
  ASSUME MintInv
  PROVE  \A t : /\ DueOf(t) = {a \in 1..Len(assets) : assets[a].template = t /\ assets[a].block <= lib}
               /\ NumberedOf(t) = {a \in 1..Len(assets) : assets[a].template = t /\ mint[a] # 0}
  BY MintFacts DEF DueOf, NumberedOf, OfTemplate, Final

LEMMA SameCardinality ==
  ASSUME NEW S
  PROVE  Numbers!Cardinality(S) = Cardinality(S)
  BY DEF Numbers!Cardinality, Cardinality

LEMMA InitMaps ==
  ASSUME Init
  PROVE  Numbers!Init
<1>1. DOMAIN assets = {}
  BY DEF Init
<1>2. \A t \in Templates : DueOf(t) = {} /\ NumberedOf(t) = {}
  BY <1>1 DEF DueOf, NumberedOf, OfTemplate
<1>3. \A t \in Templates : NumberOf(t) = <<>>
  BY <1>2 DEF NumberOf
<1> QED BY <1>2, <1>3 DEF Numbers!Init, DueOf, NumberOf, NumberedOf

\* More assets become irreversible, those of a template in their order.
LEMMA DueGrows ==
  ASSUME MintInstance, MintInv, MintInv', NEW n \in 0..Len(assets), n <= Len(assets)', lib <= lib',
         \A i \in 1..n : assets'[i] = assets[i] /\ mint'[i] = mint[i],
         \A i \in (n + 1)..Len(assets)' : mint'[i] = 0,
         \A i \in 1..Len(assets) : assets[i].block <= lib => i <= n
  PROVE  Numbers!Due
<1>0. /\ Len(assets) \in Nat /\ lib \in Nat
      /\ \A i \in 1..Len(assets) : assets[i].block \in Nat
  BY MintFacts
<1>1. /\ Len(assets)' \in Nat /\ lib' \in Nat /\ Len(assets)' <= MaxAssets
  BY DEF MintInv, TypeOK
<1>2. \A t : /\ DueOf(t) = {a \in 1..Len(assets) : assets[a].template = t /\ assets[a].block <= lib}
            /\ NumberedOf(t) = {a \in 1..Len(assets) : assets[a].template = t /\ mint[a] # 0}
  BY DueFacts
<1>3. \A t \in Templates : /\ DueOf(t)' = {a \in 1..Len(assets)' : assets'[a].template = t /\ assets'[a].block <= lib'}
                          /\ NumberedOf(t)' = {a \in 1..Len(assets)' : assets'[a].template = t /\ mint'[a] # 0}
  <2>1. DOMAIN assets' = 1..Len(assets)'
    BY DEF MintInv, TypeOK
  <2> QED BY <2>1 DEF DueOf, NumberedOf, OfTemplate, Final
<1>4. \A a \in 1..Len(assets) : mint[a] # 0 => assets[a].block <= lib
  BY DEF MintInv, MintsArePlaces, Numbered
<1>5. ASSUME NEW t \in Templates
      PROVE  NumberOf(t)' = NumberOf(t)
  <2>1. NumberedOf(t)' = NumberedOf(t) /\ NumberedOf(t) \subseteq 1..n
    <3>1. ASSUME NEW a \in NumberedOf(t)'
          PROVE  a \in NumberedOf(t)
      <4>1. a \in 1..Len(assets)' /\ assets'[a].template = t /\ mint'[a] # 0
        BY <1>3
      <4>2. a \in 1..n
        BY <1>0, <1>1, <4>1
      <4> QED BY <1>0, <1>2, <4>1, <4>2
    <3>2. ASSUME NEW a \in NumberedOf(t)
          PROVE  a \in 1..n /\ a \in NumberedOf(t)'
      <4>1. a \in 1..Len(assets) /\ assets[a].template = t /\ mint[a] # 0
        BY <1>2
      <4>2. a \in 1..n
        BY <1>0, <1>4, <4>1
      <4>3. a \in 1..Len(assets)' /\ assets'[a] = assets[a] /\ mint'[a] = mint[a]
        BY <1>1, <4>2
      <4> QED BY <1>3, <4>1, <4>2, <4>3
    <3> QED BY <3>1, <3>2
  <2> QED BY <2>1 DEF NumberOf
<1>6. ASSUME NEW t \in Templates
      PROVE  /\ DueOf(t)' \in SUBSET (1..MaxAssets) /\ DueOf(t) \subseteq DueOf(t)'
             /\ \A new \in DueOf(t)' \ DueOf(t), old \in DueOf(t) : old < new
  <2>1. DueOf(t)' \in SUBSET (1..MaxAssets)
    BY <1>1, <1>3 DEF MintInstance
  <2>2. ASSUME NEW old \in DueOf(t)
        PROVE  old \in 1..n /\ old \in DueOf(t)'
    <3>1. old \in 1..Len(assets) /\ assets[old].block <= lib /\ assets[old].template = t
      BY <1>2, <2>2
    <3>2. old \in 1..n /\ old \in 1..Len(assets)'
      BY <1>0, <1>1, <3>1
    <3>3. assets'[old] = assets[old] /\ assets[old].block <= lib'
      BY <1>0, <1>1, <3>1, <3>2
    <3> QED BY <1>3, <3>1, <3>2, <3>3
  <2>3. ASSUME NEW new \in DueOf(t)' \ DueOf(t), NEW old \in DueOf(t)
        PROVE  old < new
    <3>1. old \in 1..n /\ old \in 1..Len(assets) /\ assets[old].block <= lib
      BY <1>2, <2>2
    <3>2. new \in 1..Len(assets)'
      BY <1>3, <2>3
    <3>3. CASE new \in 1..n
      <4>1. new \in 1..Len(assets) /\ assets'[new] = assets[new]
        BY <1>0, <3>3
      <4>2. ~ (assets[new].block <= lib)
        BY <1>2, <1>3, <2>3, <4>1
      <4>3. ~ (new <= old)
        BY <1>0, <3>1, <4>1, <4>2 DEF MintInv, Ordered
      <4> QED BY <3>1, <3>3, <4>3
    <3>4. CASE new \notin 1..n
      BY <1>0, <1>1, <3>1, <3>2, <3>4
    <3> QED BY <3>3, <3>4
  <2> QED BY <2>1, <2>2, <2>3
<1>7. \A t \in Templates : NumberOf(t)' = NumberOf(t)
  BY <1>5
<1>8. \A t \in Templates :
         /\ DueOf(t)' \in SUBSET (1..MaxAssets) /\ DueOf(t) \subseteq DueOf(t)'
         /\ \A new \in DueOf(t)' \ DueOf(t), old \in DueOf(t) : old < new
  BY <1>6
<1> QED BY <1>7, <1>8 DEF Numbers!Due, DueOf, NumberOf, NumberedOf

\* The loop numbers the first asset of its template that is due.
LEMMA UpdateNumbers ==
  ASSUME MintInstance, MintInv, NEW row \in 1..Len(assets),
         assets[row].template # NoTemplate, assets[row].block <= lib, mint[row] = 0,
         \A b \in UpTo(row) : b # row => mint[b] # 0,
         Rank(row) \in Nat \ {0}, mint' = [mint EXCEPT ![row] = Rank(row)],
         UNCHANGED <<assets, lib>>
  PROVE  \E t \in Templates : Numbers!NumberNext(t)
<1>0. /\ Len(assets) \in Nat /\ DOMAIN mint = 1..Len(assets)
      /\ \A i \in 1..Len(assets) : assets[i] \in AssetRow /\ mint[i] \in Nat
  BY MintFacts
<1>1. PICK t \in Templates : t = assets[row].template
  BY <1>0 DEF AssetRow
<1>2. \A g : /\ DueOf(g) = {a \in 1..Len(assets) : assets[a].template = g /\ assets[a].block <= lib}
            /\ NumberedOf(g) = {a \in 1..Len(assets) : assets[a].template = g /\ mint[a] # 0}
  BY DueFacts
<1>3. mint'[row] = Rank(row) /\ \A i \in 1..Len(assets) : i # row => mint'[i] = mint[i]
  BY <1>0
<1>4. \A g \in Templates : DueOf(g)' = DueOf(g)
  BY DEF DueOf, OfTemplate, Final
<1>5. \A g \in Templates :
        NumberedOf(g)' = {a \in 1..Len(assets) : assets[a].template = g /\ mint'[a] # 0}
  <2>1. DOMAIN assets = 1..Len(assets)
    BY MintFacts
  <2> QED BY <2>1 DEF NumberedOf, OfTemplate
<1>6. row \in DueOf(t) /\ row \notin NumberedOf(t)
  BY <1>1, <1>2
<1>7. ASSUME NEW other \in DueOf(t) \ NumberedOf(t)
      PROVE  row <= other
  <2>1. other \in 1..Len(assets) /\ assets[other].template = t /\ mint[other] = 0
    BY <1>2, <1>7
  <2> QED BY <1>0, <1>1, <2>1 DEF UpTo
<1>8. NumberedOf(t)' = NumberedOf(t) \cup {row}
  BY <1>1, <1>2, <1>3, <1>5
<1>9. Cardinality(NumberedOf(t)) + 1 = Rank(row)
  <2>1. NumberedOf(t) = UpTo(row) \ {row}
    <3>1. ASSUME NEW b \in NumberedOf(t)
          PROVE  b \in UpTo(row) \ {row}
      <4>1. b \in 1..Len(assets) /\ assets[b].template = t /\ mint[b] # 0
        BY <1>2
      <4>2. \A e \in UpTo(b) : mint[e] # 0
        BY <4>1 DEF MintInv, MintsArePlaces, Numbered
      <4>3. ~ (row <= b)
        BY <1>0, <1>1, <4>1, <4>2 DEF UpTo
      <4> QED BY <1>0, <1>1, <4>1, <4>3 DEF UpTo
    <3>2. ASSUME NEW b \in UpTo(row) \ {row}
          PROVE  b \in NumberedOf(t)
      BY <1>0, <1>1, <1>2, <3>2 DEF UpTo
    <3> QED BY <3>1, <3>2
  <2>2. IsFiniteSet(UpTo(row)) /\ row \in UpTo(row)
    <3>1. UpTo(row) \in SUBSET (1..row) /\ IsFiniteSet(1..row)
      BY <1>0, FS_Interval DEF UpTo
    <3> QED BY <1>0, <3>1, FS_Subset DEF UpTo
  <2>3. Cardinality(UpTo(row) \ {row}) = Cardinality(UpTo(row)) - 1
    BY <2>2, FS_RemoveElement
  <2> QED BY <2>1, <2>3 DEF Rank
<1>10. NumberOf(t)' = [k \in NumberedOf(t) \cup {row} |->
                         IF k = row THEN Cardinality(NumberedOf(t)) + 1 ELSE NumberOf(t)[k]]
  <2>1. NumberOf(t)' = [k \in NumberedOf(t) \cup {row} |-> mint'[k]]
    BY <1>8 DEF NumberOf
  <2>2. \A k \in NumberedOf(t) : NumberOf(t)[k] = mint[k] /\ k # row /\ k \in 1..Len(assets)
    BY <1>2, <1>6 DEF NumberOf
  <2>3. \A k \in NumberedOf(t) \cup {row} :
          mint'[k] = IF k = row THEN Cardinality(NumberedOf(t)) + 1 ELSE NumberOf(t)[k]
    BY <1>3, <1>9, <2>2
  <2> QED BY <2>1, <2>3
<1>11. ASSUME NEW g \in Templates, g # t
       PROVE  NumberOf(g)' = NumberOf(g)
  <2>1. NumberedOf(g)' = NumberedOf(g) /\ \A k \in NumberedOf(g) : mint'[k] = mint[k]
    BY <1>1, <1>2, <1>3, <1>5, <1>11
  <2> QED BY <2>1 DEF NumberOf
<1> DEFINE D == [g \in Templates |-> DueOf(g)]
           N == [g \in Templates |-> NumberOf(g)]
<1>12. DOMAIN N[t] = NumberedOf(t) /\ D[t] = DueOf(t) /\ N[t] = NumberOf(t)
  BY <1>1 DEF NumberOf
<1>13. D' = D
  BY <1>4
<1>14. N' = [N EXCEPT ![t] = [k \in DOMAIN @ \cup {row} |-> IF k = row THEN Cardinality(DOMAIN @) + 1 ELSE @[k]]]
  <2>1. \A g \in Templates : NumberOf(g)' = IF g = t THEN [k \in NumberedOf(t) \cup {row} |->
                         IF k = row THEN Cardinality(NumberedOf(t)) + 1 ELSE NumberOf(t)[k]]
                       ELSE NumberOf(g)
    BY <1>10, <1>11
  <2> QED BY <1>1, <1>12, <2>1
<1>15. row \in D[t] \ DOMAIN N[t] /\ \A other \in D[t] \ DOMAIN N[t] : row <= other
  BY <1>6, <1>7, <1>12
<1>16. Numbers!NumberNext(t)
  <2>1. Numbers!Cardinality(DOMAIN N[t]) = Cardinality(DOMAIN N[t])
    BY SameCardinality
  <2>2. \E thing \in D[t] \ DOMAIN N[t] :
          /\ \A other \in D[t] \ DOMAIN N[t] : thing <= other
          /\ N' = [N EXCEPT ![t] = [k \in DOMAIN N[t] \cup {thing} |->
                                      IF k = thing THEN Numbers!Cardinality(DOMAIN N[t]) + 1 ELSE N[t][k]]]
    <3> HIDE DEF D, N
    <3>1. N' = [N EXCEPT ![t] = [k \in DOMAIN N[t] \cup {row} |->
                                  IF k = row THEN Numbers!Cardinality(DOMAIN N[t]) + 1 ELSE N[t][k]]]
      BY <1>14, <2>1
    <3> QED BY <1>15, <3>1
  <2> QED BY <1>13, <2>2 DEF Numbers!NumberNext, DueOf, NumberOf, NumberedOf
<1> QED BY <1>1, <1>16

\* Every step of the sessions and of the chain is one of the numbering, or none.
LEMMA NextMaps ==
  ASSUME MintInstance, MintInv, MintInv', [Next]_mintVars
  PROVE  \/ Numbers!Next
         \/ UNCHANGED <<[t \in Templates |-> {a \in OfTemplate(t) : Final(a)}],
                        [t \in Templates |-> [a \in {b \in OfTemplate(t) : mint[b] # 0} |-> mint[a]]]>>
<1> DEFINE stutters ==
             UNCHANGED <<[t \in Templates |-> {a \in OfTemplate(t) : Final(a)}],
                         [t \in Templates |-> [a \in {b \in OfTemplate(t) : mint[b] # 0} |-> mint[a]]]>>
<1>0. /\ Len(assets) \in Nat /\ DOMAIN assets = 1..Len(assets) /\ lib \in Nat
      /\ mint \in Seq(Nat) /\ DOMAIN mint = 1..Len(assets)
      /\ \A i \in 1..Len(assets) : assets[i].block \in Nat /\ mint[i] \in Nat
  BY MintFacts
<1>1. assets' = assets /\ mint' = mint /\ lib' = lib => stutters
  BY DEF OfTemplate, Final
<1>2. ASSUME NEW templates \in SeqOf(Templates \cup {NoTemplate}, 2), NEW sold, Block(templates, sold)
      PROVE  Numbers!Due
  <2>1. /\ Len(assets)' = Len(assets) + Len(templates) /\ Len(templates) \in Nat
        /\ \A i \in 1..Len(assets) : assets'[i] = assets[i] /\ mint'[i] = mint[i]
        /\ \A i \in (Len(assets) + 1)..Len(assets)' : mint'[i] = 0
    BY <1>2, BlockAppends
  <2>2. Len(assets) \in 0..Len(assets) /\ Len(assets) <= Len(assets)' /\ lib <= lib'
    BY <1>0, <1>2, <2>1 DEF Block
  <2>3. \A i \in 1..Len(assets) : assets[i].block <= lib => i <= Len(assets)
    BY <1>0
  <2> QED BY <2>1, <2>2, <2>3, DueGrows
<1>3. ASSUME NEW b \in Nat, Fork(b)
      PROVE  Numbers!Due
  <2>1. /\ lib < b /\ assets' = Kept(assets, b) /\ mint' = SubSeq(mint, 1, Len(assets')) /\ lib' = lib
        /\ assets \in Seq(AssetRow)
    BY <1>3 DEF Fork, MintInv, TypeOK
  <2>2. /\ Len(assets)' \in 0..Len(assets)
        /\ \A i \in 1..Len(assets) : i <= Len(assets)' <=> assets[i].block < b
        /\ \A i \in 1..Len(assets)' : assets'[i] = assets[i]
    <3>1. \A i, j \in 1..Len(assets) : i <= j /\ assets[j].block < b => assets[i].block < b
      BY <1>0 DEF MintInv, Ordered
    <3> QED BY <1>0, <2>1, <3>1, KeptIsPrefix
  <2>3. \A i \in 1..Len(assets)' : mint'[i] = mint[i]
    BY <1>0, <2>1, <2>2
  <2>4. Len(assets)' <= Len(assets)' /\ lib <= lib'
    BY <1>0, <2>1, <2>2
  <2>5. \A i \in (Len(assets)' + 1)..Len(assets)' : mint'[i] = 0
    BY <2>2
  <2>6. \A i \in 1..Len(assets) : assets[i].block <= lib => i <= Len(assets)'
    BY <1>0, <1>3, <2>1, <2>2
  <2>7. \A i \in 1..Len(assets)' : assets'[i] = assets[i] /\ mint'[i] = mint[i]
    BY <2>2, <2>3
  <2> QED BY <2>2, <2>4, <2>5, <2>6, <2>7, DueGrows
<1>4. ASSUME AdvanceLib
      PROVE  Numbers!Due
  <2>1. UNCHANGED <<assets, mint>> /\ lib' = lib + 1
    BY <1>4 DEF AdvanceLib
  <2>2. Len(assets) \in 0..Len(assets) /\ Len(assets) <= Len(assets)' /\ lib <= lib'
    BY <1>0, <2>1
  <2>3. /\ \A i \in 1..Len(assets) : assets'[i] = assets[i] /\ mint'[i] = mint[i]
        /\ \A i \in (Len(assets) + 1)..Len(assets)' : mint'[i] = 0
        /\ \A i \in 1..Len(assets) : assets[i].block <= lib => i <= Len(assets)
    BY <1>0, <2>1
  <2> QED BY <2>2, <2>3, DueGrows
<1>5. ASSUME NEW c \in Callers, Update(c)
      PROVE  stutters \/ \E t \in Templates : Numbers!NumberNext(t)
  <2>1. CASE DOMAIN call[c].plan = {}
    BY <1>1, <1>5, <2>1 DEF Update
  <2>2. CASE DOMAIN call[c].plan # {}
    <3>1. PICK row : /\ row \in 1..Len(assets) /\ assets[row].template # NoTemplate
                     /\ assets[row].block <= lib
                     /\ \A b \in UpTo(row) : b # row => mint[b] # 0
                     /\ Rank(row) \in Nat \ {0}
                     /\ mint' = [mint EXCEPT ![row] = Rank(row)]
                     /\ UNCHANGED <<assets, lib>>
      BY <1>5, <2>2, UpdateTakes
    <3>2. CASE mint[row] = 0
      BY <3>1, <3>2, UpdateNumbers
    <3>3. CASE mint[row] # 0
      <4>1. mint[row] = Rank(row)
        BY <3>1, <3>3 DEF MintInv, MintsArePlaces, Numbered
      <4>2. mint' = mint
        BY <1>0, <3>1, <4>1
      <4> QED BY <1>1, <3>1, <4>2
    <3> QED BY <3>2, <3>3
  <2> QED BY <2>1, <2>2
<1>6. CASE UNCHANGED mintVars
  BY <1>1, <1>6 DEF mintVars
<1>7. CASE ResolveSales
  BY <1>1, <1>7 DEF ResolveSales
<1>8. ASSUME NEW c \in Callers, Call(c) \/ Query(c) \/ Cut(c)
      PROVE  stutters
  BY <1>1, <1>8 DEF Call, Query, Cut
<1>9. ASSUME NEW b \in 1..MaxBlocks, Fork(b)
      PROVE  Numbers!Due
  <2>1. b \in Nat
    OBVIOUS
  <2> QED BY <1>3, <1>9, <2>1
<1>10. CASE Next
  <2>1. CASE \E templates \in SeqOf(Templates \cup {NoTemplate}, 2) :
               \E sold \in SUBSET (DOMAIN assets \cup (Len(assets) + 1)..(Len(assets) + Len(templates))) :
                 Cardinality(sold) \in {0, 2} /\ Block(templates, sold)
    BY <1>2, <2>1 DEF Numbers!Next
  <2>2. CASE \E b \in 1..MaxBlocks : Fork(b)
    BY <1>9, <2>2 DEF Numbers!Next
  <2>3. CASE AdvanceLib
    BY <1>4, <2>3 DEF Numbers!Next
  <2>4. CASE \E c \in Callers : Call(c) \/ Query(c) \/ Cut(c)
    BY <1>8, <2>4
  <2>5. CASE \E c \in Callers : Update(c)
    BY <1>5, <2>5 DEF Numbers!Next
  <2> QED BY <1>7, <1>10, <2>1, <2>2, <2>3, <2>4, <2>5 DEF Next
<1> QED BY <1>6, <1>10

\* The procedure numbers the irreversible assets of each template 1, 2, 3, ... in
\* the order of their ids, and never changes a number, whatever sessions overlap,
\* are cut off or run while blocks are forked.
THEOREM MintsImplementNumbering == ASSUME MintInstance PROVE Spec => Numbers!Spec
<1>1. Init => Numbers!Init
  BY InitMaps
<1>2. MintInv /\ MintInv' /\ [Next]_mintVars =>
        [Numbers!Next]_<<[t \in Templates |-> {a \in OfTemplate(t) : Final(a)}],
                         [t \in Templates |-> [a \in {b \in OfTemplate(t) : mint[b] # 0} |-> mint[a]]]>>
  BY NextMaps
<1> QED BY <1>1, <1>2, MintInvariant, PTL DEF Spec, Numbers!Spec

=============================================================================
