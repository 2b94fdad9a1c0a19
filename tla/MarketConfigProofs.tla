------------------------- MODULE MarketConfigProofs -------------------------
(***************************************************************************)
(* What MarketConfig's reader keeps of sales, for any sales, tokens, group   *)
(* size, finality lag and number of branch switches and crashes.             *)
(*                                                                          *)
(* The invariant relates the tables to two blocks (Holds): k, the last one   *)
(* that was executed, and q, the last one whose writes they hold.  The two   *)
(* differ while a process that died replays; then the blocks in between are  *)
(* Quiet, and a sale that they act on is not as of k.  The undo log of a     *)
(* block holds the rows of the block below it.                              *)
(*                                                                          *)
(* A group goes over its blocks once per priority (Executes): ConfigRound    *)
(* takes the config to the last of them, CreateRound the new sales, and under *)
(* UpdateRound the sales follow the ledger.                                  *)
(***************************************************************************)
EXTENDS MarketConfig, WellFoundedInduction, TLAPS

-----------------------------------------------------------------------------
(* Induction: a set of naturals has a least element.                        *)

LEMMA Descent == OpToRel(<, Nat) = {ss \in Nat \X Nat : ss[1] < ss[2]}
BY DEF OpToRel

LEMMA LeastOf ==
  ASSUME NEW T \in SUBSET Nat, T # {}
  PROVE  \E n \in T : \A m \in T : n <= m
<1> DEFINE R == {ss \in Nat \X Nat : ss[1] < ss[2]}
<1>1. IsWellFoundedOn(R, Nat)
  BY NatLessThanWellFounded, Descent
<1> HIDE DEF R
<1>2. \E n \in T : \A m \in T : ~(<<m, n>> \in R)
  BY <1>1, WFMin
<1>3. PICK n \in T : \A m \in T : ~(<<m, n>> \in R)
  BY <1>2
<1>4. ASSUME NEW m \in T PROVE n <= m
  <2>1. ~(m < n)
    BY <1>3 DEF R
  <2> QED BY <2>1
<1> QED BY <1>4

\* What holds at a and is kept from one number to the next holds up to b.
LEMMA Upward ==
  ASSUME NEW a \in Nat, NEW b \in Nat, NEW T, a \in T,
         \A i \in (a + 1)..b : i - 1 \in T => i \in T
  PROVE  \A i \in a..b : i \in T
<1> SUFFICES ASSUME \E i \in a..b : i \notin T PROVE FALSE
  OBVIOUS
<1> DEFINE B == {i \in a..b : i \notin T}
<1>1. B \in SUBSET Nat /\ B # {}
  OBVIOUS
<1>2. PICK n \in B : \A m \in B : n <= m
  BY <1>1, LeastOf
<1>3. n \in (a + 1)..b /\ n - 1 \in a..b /\ n - 1 \notin B
  BY <1>2
<1> QED BY <1>3, <1>2

-----------------------------------------------------------------------------
(* The values a fold goes through, one per element.  No lemma takes the step  *)
(* of a fold as a parameter, so there is one for each fold of the model.    *)

\* The ledger after each action of a block.
IsBlockRun(f, l, n, b) ==
  /\ f = [i \in 0..Len(b) |-> f[i]] /\ f[0] = l
  /\ \A i \in 1..Len(b) : f[i] = Obey(n, f[i - 1], b[i])
  /\ AfterBlock(l, n, b) = f[Len(b)]

LEMMA BlockRun ==
  ASSUME NEW l, NEW n, NEW b \in Seq(Actions)
  PROVE  \E f : IsBlockRun(f, l, n, b)
<1> DEFINE N == Len(b)
           T == {k \in 0..N :
                  \E f : f = [i \in 0..k |-> IF i = 0 THEN l ELSE Obey(n, f[i - 1], b[i])]}
           g == CHOOSE f : f = [i \in 0..N |-> IF i = 0 THEN l ELSE Obey(n, f[i - 1], b[i])]
<1>0. N \in Nat
  OBVIOUS
<1>1. 0 \in T
  <2> DEFINE f == [i \in 0..0 |-> l]
  <2>1. \A i \in 0..0 : i = 0
    OBVIOUS
  <2>2. f = [i \in 0..0 |-> IF i = 0 THEN l ELSE Obey(n, f[i - 1], b[i])]
    BY <2>1
  <2>3. 0 \in 0..N
    BY <1>0
  <2> HIDE DEF f, N
  <2> QED BY <2>2, <2>3
<1>2. ASSUME NEW k \in (0 + 1)..N, k - 1 \in T PROVE k \in T
  <2>1. PICK f : f = [i \in 0..(k - 1) |-> IF i = 0 THEN l ELSE Obey(n, f[i - 1], b[i])]
    BY <1>2
  <2> DEFINE h == [i \in 0..k |-> IF i = k THEN Obey(n, f[k - 1], b[k]) ELSE f[i]]
             e == [i \in 0..k |-> IF i = 0 THEN l ELSE Obey(n, h[i - 1], b[i])]
  <2>2. k \in 0..N /\ k # 0 /\ k - 1 \in 0..(k - 1) /\ k \in Nat
    BY <1>0
  <2>3. ASSUME NEW i \in 0..k
        PROVE  h[i] = IF i = 0 THEN l ELSE Obey(n, h[i - 1], b[i])
    <3>1. CASE i = 0
      BY <2>1, <2>2, <3>1
    <3>2. CASE i # 0 /\ i # k
      <4>1. i \in 0..(k - 1) /\ i - 1 \in 0..k /\ i - 1 # k
        BY <3>2, <2>2
      <4>2. h[i - 1] = f[i - 1] /\ h[i] = f[i]
        BY <4>1, <3>2
      <4>3. f[i] = Obey(n, f[i - 1], b[i])
        BY <2>1, <4>1, <3>2
      <4> HIDE DEF h
      <4> QED BY <4>2, <4>3, <3>2
    <3>3. CASE i = k
      <4>1. k - 1 \in 0..k /\ k - 1 # k
        BY <2>2
      <4>2. h[k - 1] = f[k - 1] /\ h[k] = Obey(n, f[k - 1], b[k])
        BY <4>1
      <4> HIDE DEF h
      <4> QED BY <4>2, <3>3, <2>2
    <3> QED BY <3>1, <3>2, <3>3
  <2>4. \A i \in 0..k : h[i] = e[i]
    BY <2>3
  <2>5. h = [i \in 0..k |-> h[i]] /\ e = [i \in 0..k |-> e[i]]
    OBVIOUS
  <2>6. h = e
    <3> HIDE DEF h, e
    <3> QED BY <2>4, <2>5
  <2> HIDE DEF h, N
  <2> QED BY <2>2, <2>6 DEF e
<1>3. \A k \in (0 + 1)..N : k - 1 \in T => k \in T
  BY <1>2
<1>4. \A k \in 0..N : k \in T
  <2> HIDE DEF T, N
  <2> QED BY <1>0, <1>1, <1>3, Upward
<1>5. \E f : f = [i \in 0..N |-> IF i = 0 THEN l ELSE Obey(n, f[i - 1], b[i])]
  <2>1. N \in T
    <3> HIDE DEF T, N
    <3> QED BY <1>0, <1>4
  <2> QED BY <2>1
<1>6. g = [i \in 0..N |-> IF i = 0 THEN l ELSE Obey(n, g[i - 1], b[i])]
  <2>1. \E f : f = [i \in 0..N |-> IF i = 0 THEN l ELSE Obey(n, f[i - 1], b[i])]
    BY <1>5
  <2> QED BY <2>1
<1>7. AfterBlock(l, n, b) = g[N]
  BY DEF AfterBlock, Through
<1> HIDE DEF g, T
<1>8. g = [i \in 0..N |-> g[i]] /\ g[0] = l /\ \A i \in 1..N : g[i] = Obey(n, g[i - 1], b[i])
  <2>1. g = [i \in 0..N |-> g[i]]
    BY <1>6
  <2>2. \A i \in 0..N : g[i] = IF i = 0 THEN l ELSE Obey(n, g[i - 1], b[i])
    BY <1>6
  <2>3. 0 \in 0..N /\ \A i \in 1..N : i \in 0..N /\ i # 0
    BY <1>0
  <2> HIDE DEF N
  <2> QED BY <2>1, <2>2, <2>3
<1> QED BY <1>7, <1>8 DEF IsBlockRun

\* The ledger after each block of a chain.
IsChainRun(f, c) ==
  /\ f = [i \in 0..Len(c) |-> f[i]] /\ f[0] = Genesis
  /\ \A i \in 1..Len(c) : f[i] = AfterBlock(f[i - 1], i, c[i])
  /\ Ledger(c) = f[Len(c)]

LEMMA ChainRun ==
  ASSUME NEW c \in Seq(Seq(Actions))
  PROVE  \E f : IsChainRun(f, c)
<1> DEFINE N == Len(c)
           T == {k \in 0..N :
                  \E f : f = [i \in 0..k |-> IF i = 0 THEN Genesis ELSE AfterBlock(f[i - 1], i, c[i])]}
           ns == [n \in 1..Len(c) |-> n]
           g == CHOOSE f :
                  f = [i \in 0..Len(ns) |-> IF i = 0 THEN Genesis ELSE AfterBlock(f[i - 1], ns[i], c[ns[i]])]
<1>0. N \in Nat
  OBVIOUS
<1>1. 0 \in T
  <2> DEFINE f == [i \in 0..0 |-> Genesis]
  <2>1. \A i \in 0..0 : i = 0
    OBVIOUS
  <2>2. f = [i \in 0..0 |-> IF i = 0 THEN Genesis ELSE AfterBlock(f[i - 1], i, c[i])]
    BY <2>1
  <2>3. 0 \in 0..N
    BY <1>0
  <2> HIDE DEF f, N
  <2> QED BY <2>2, <2>3
<1>2. ASSUME NEW k \in (0 + 1)..N, k - 1 \in T PROVE k \in T
  <2>1. PICK f : f = [i \in 0..(k - 1) |-> IF i = 0 THEN Genesis ELSE AfterBlock(f[i - 1], i, c[i])]
    BY <1>2
  <2> DEFINE h == [i \in 0..k |-> IF i = k THEN AfterBlock(f[k - 1], k, c[k]) ELSE f[i]]
             e == [i \in 0..k |-> IF i = 0 THEN Genesis ELSE AfterBlock(h[i - 1], i, c[i])]
  <2>2. k \in 0..N /\ k # 0 /\ k - 1 \in 0..(k - 1) /\ k \in Nat
    BY <1>0
  <2>3. ASSUME NEW i \in 0..k
        PROVE  h[i] = IF i = 0 THEN Genesis ELSE AfterBlock(h[i - 1], i, c[i])
    <3>1. CASE i = 0
      BY <2>1, <2>2, <3>1
    <3>2. CASE i # 0 /\ i # k
      <4>1. i \in 0..(k - 1) /\ i - 1 \in 0..k /\ i - 1 # k
        BY <3>2, <2>2
      <4>2. h[i - 1] = f[i - 1] /\ h[i] = f[i]
        BY <4>1, <3>2
      <4>3. f[i] = AfterBlock(f[i - 1], i, c[i])
        BY <2>1, <4>1, <3>2
      <4> HIDE DEF h
      <4> QED BY <4>2, <4>3, <3>2
    <3>3. CASE i = k
      <4>1. k - 1 \in 0..k /\ k - 1 # k
        BY <2>2
      <4>2. h[k - 1] = f[k - 1] /\ h[k] = AfterBlock(f[k - 1], k, c[k])
        BY <4>1
      <4> HIDE DEF h
      <4> QED BY <4>2, <3>3, <2>2
    <3> QED BY <3>1, <3>2, <3>3
  <2>4. \A i \in 0..k : h[i] = e[i]
    BY <2>3
  <2>5. h = [i \in 0..k |-> h[i]] /\ e = [i \in 0..k |-> e[i]]
    OBVIOUS
  <2>6. h = e
    <3> HIDE DEF h, e
    <3> QED BY <2>4, <2>5
  <2> HIDE DEF h, N
  <2> QED BY <2>2, <2>6 DEF e
<1>3. \A k \in (0 + 1)..N : k - 1 \in T => k \in T
  BY <1>2
<1>4. \A k \in 0..N : k \in T
  <2> HIDE DEF T, N
  <2> QED BY <1>0, <1>1, <1>3, Upward
<1>5. \E f : f = [i \in 0..N |-> IF i = 0 THEN Genesis ELSE AfterBlock(f[i - 1], i, c[i])]
  <2>1. N \in T
    <3> HIDE DEF T, N
    <3> QED BY <1>0, <1>4
  <2> QED BY <2>1
<1>6. g = [i \in 0..N |-> IF i = 0 THEN Genesis ELSE AfterBlock(g[i - 1], i, c[i])]
  <2>1. PICK f : f = [i \in 0..N |-> IF i = 0 THEN Genesis ELSE AfterBlock(f[i - 1], i, c[i])]
    BY <1>5
  <2>2. Len(ns) = N /\ \A i \in 1..N : ns[i] = i
    BY <1>0
  <2>3. ASSUME NEW h
       PROVE  [i \in 0..Len(ns) |-> IF i = 0 THEN Genesis ELSE AfterBlock(h[i - 1], ns[i], c[ns[i]])]
                = [i \in 0..N |-> IF i = 0 THEN Genesis ELSE AfterBlock(h[i - 1], i, c[i])]
    <3> HIDE DEF ns, N
    <3>1. \A i \in 0..N : i # 0 => i \in 1..N
      BY <1>0
    <3> QED BY <2>2, <3>1
  <2>4. f = [i \in 0..Len(ns) |-> IF i = 0 THEN Genesis ELSE AfterBlock(f[i - 1], ns[i], c[ns[i]])]
    BY <2>1, <2>3, Zenon
  <2>5. g = [i \in 0..Len(ns) |-> IF i = 0 THEN Genesis ELSE AfterBlock(g[i - 1], ns[i], c[ns[i]])]
    BY <2>4
  <2> QED BY <2>5, <2>3, Zenon
<1>7. Ledger(c) = g[N]
  <2>1. Ledger(c) = g[Len(ns)]
    BY DEF Ledger, Through
  <2>2. Len(ns) = N
    BY <1>0
  <2> HIDE DEF g, ns, N
  <2> QED BY <2>1, <2>2
<1> HIDE DEF g, T, ns
<1>8. g = [i \in 0..N |-> g[i]] /\ g[0] = Genesis /\ \A i \in 1..N : g[i] = AfterBlock(g[i - 1], i, c[i])
  <2>1. g = [i \in 0..N |-> g[i]]
    BY <1>6
  <2>2. \A i \in 0..N : g[i] = IF i = 0 THEN Genesis ELSE AfterBlock(g[i - 1], i, c[i])
    BY <1>6
  <2>3. 0 \in 0..N /\ \A i \in 1..N : i \in 0..N /\ i # 0
    BY <1>0
  <2> HIDE DEF N
  <2> QED BY <2>1, <2>2, <2>3
<1> QED BY <1>7, <1>8 DEF IsChainRun

\* What is recorded of the new sales of a block.
IsCreateRun(f, b, n) ==
  /\ f = [i \in 0..Len(chain[n]) |-> f[i]] /\ f[0] = b
  /\ \A i \in 1..Len(chain[n]) : f[i] = Create(f[i - 1], chain[n][i])
  /\ RunCreate(b, n) = f[Len(chain[n])]

LEMMA CreateRun ==
  ASSUME NEW b, NEW n, chain[n] \in Seq(Actions)
  PROVE  \E f : IsCreateRun(f, b, n)
<1> DEFINE N == Len(chain[n])
           T == {k \in 0..N :
                  \E f : f = [i \in 0..k |-> IF i = 0 THEN b ELSE Create(f[i - 1], chain[n][i])]}
           g == CHOOSE f : f = [i \in 0..N |-> IF i = 0 THEN b ELSE Create(f[i - 1], chain[n][i])]
<1>0. N \in Nat
  OBVIOUS
<1>1. 0 \in T
  <2> DEFINE f == [i \in 0..0 |-> b]
  <2>1. \A i \in 0..0 : i = 0
    OBVIOUS
  <2>2. f = [i \in 0..0 |-> IF i = 0 THEN b ELSE Create(f[i - 1], chain[n][i])]
    BY <2>1
  <2>3. 0 \in 0..N
    BY <1>0
  <2> HIDE DEF f, N
  <2> QED BY <2>2, <2>3
<1>2. ASSUME NEW k \in (0 + 1)..N, k - 1 \in T PROVE k \in T
  <2>1. PICK f : f = [i \in 0..(k - 1) |-> IF i = 0 THEN b ELSE Create(f[i - 1], chain[n][i])]
    BY <1>2
  <2> DEFINE h == [i \in 0..k |-> IF i = k THEN Create(f[k - 1], chain[n][k]) ELSE f[i]]
             e == [i \in 0..k |-> IF i = 0 THEN b ELSE Create(h[i - 1], chain[n][i])]
  <2>2. k \in 0..N /\ k # 0 /\ k - 1 \in 0..(k - 1) /\ k \in Nat
    BY <1>0
  <2>3. ASSUME NEW i \in 0..k
        PROVE  h[i] = IF i = 0 THEN b ELSE Create(h[i - 1], chain[n][i])
    <3>1. CASE i = 0
      BY <2>1, <2>2, <3>1
    <3>2. CASE i # 0 /\ i # k
      <4>1. i \in 0..(k - 1) /\ i - 1 \in 0..k /\ i - 1 # k
        BY <3>2, <2>2
      <4>2. h[i - 1] = f[i - 1] /\ h[i] = f[i]
        BY <4>1, <3>2
      <4>3. f[i] = Create(f[i - 1], chain[n][i])
        BY <2>1, <4>1, <3>2
      <4> HIDE DEF h
      <4> QED BY <4>2, <4>3, <3>2
    <3>3. CASE i = k
      <4>1. k - 1 \in 0..k /\ k - 1 # k
        BY <2>2
      <4>2. h[k - 1] = f[k - 1] /\ h[k] = Create(f[k - 1], chain[n][k])
        BY <4>1
      <4> HIDE DEF h
      <4> QED BY <4>2, <3>3, <2>2
    <3> QED BY <3>1, <3>2, <3>3
  <2>4. \A i \in 0..k : h[i] = e[i]
    BY <2>3
  <2>5. h = [i \in 0..k |-> h[i]] /\ e = [i \in 0..k |-> e[i]]
    OBVIOUS
  <2>6. h = e
    <3> HIDE DEF h, e
    <3> QED BY <2>4, <2>5
  <2> HIDE DEF h, N
  <2> QED BY <2>2, <2>6 DEF e
<1>3. \A k \in (0 + 1)..N : k - 1 \in T => k \in T
  BY <1>2
<1>4. \A k \in 0..N : k \in T
  <2> HIDE DEF T, N
  <2> QED BY <1>0, <1>1, <1>3, Upward
<1>5. \E f : f = [i \in 0..N |-> IF i = 0 THEN b ELSE Create(f[i - 1], chain[n][i])]
  <2>1. N \in T
    <3> HIDE DEF T, N
    <3> QED BY <1>0, <1>4
  <2> QED BY <2>1
<1>6. g = [i \in 0..N |-> IF i = 0 THEN b ELSE Create(g[i - 1], chain[n][i])]
  <2>1. \E f : f = [i \in 0..N |-> IF i = 0 THEN b ELSE Create(f[i - 1], chain[n][i])]
    BY <1>5
  <2> QED BY <2>1
<1>7. RunCreate(b, n) = g[N]
  BY DEF RunCreate, Through
<1> HIDE DEF g, T
<1>8. g = [i \in 0..N |-> g[i]] /\ g[0] = b /\ \A i \in 1..N : g[i] = Create(g[i - 1], chain[n][i])
  <2>1. g = [i \in 0..N |-> g[i]]
    BY <1>6
  <2>2. \A i \in 0..N : g[i] = IF i = 0 THEN b ELSE Create(g[i - 1], chain[n][i])
    BY <1>6
  <2>3. 0 \in 0..N /\ \A i \in 1..N : i \in 0..N /\ i # 0
    BY <1>0
  <2> HIDE DEF N
  <2> QED BY <2>1, <2>2, <2>3
<1> QED BY <1>7, <1>8 DEF IsCreateRun

\* What is recorded of the changes of sales in a block.
IsUpdateRun(f, b, n) ==
  /\ f = [i \in 0..Len(chain[n]) |-> f[i]] /\ f[0] = b
  /\ \A i \in 1..Len(chain[n]) : f[i] = Update(f[i - 1], n, chain[n][i])
  /\ RunUpdate(b, n) = f[Len(chain[n])]

LEMMA UpdateRun ==
  ASSUME NEW b, NEW n, chain[n] \in Seq(Actions)
  PROVE  \E f : IsUpdateRun(f, b, n)
<1> DEFINE N == Len(chain[n])
           T == {k \in 0..N :
                  \E f : f = [i \in 0..k |-> IF i = 0 THEN b ELSE Update(f[i - 1], n, chain[n][i])]}
           g == CHOOSE f :
                  f = [i \in 0..N |-> IF i = 0 THEN b ELSE Update(f[i - 1], n, chain[n][i])]
<1>0. N \in Nat
  OBVIOUS
<1>1. 0 \in T
  <2> DEFINE f == [i \in 0..0 |-> b]
  <2>1. \A i \in 0..0 : i = 0
    OBVIOUS
  <2>2. f = [i \in 0..0 |-> IF i = 0 THEN b ELSE Update(f[i - 1], n, chain[n][i])]
    BY <2>1
  <2>3. 0 \in 0..N
    BY <1>0
  <2> HIDE DEF f, N
  <2> QED BY <2>2, <2>3
<1>2. ASSUME NEW k \in (0 + 1)..N, k - 1 \in T PROVE k \in T
  <2>1. PICK f : f = [i \in 0..(k - 1) |-> IF i = 0 THEN b ELSE Update(f[i - 1], n, chain[n][i])]
    BY <1>2
  <2> DEFINE h == [i \in 0..k |-> IF i = k THEN Update(f[k - 1], n, chain[n][k]) ELSE f[i]]
             e == [i \in 0..k |-> IF i = 0 THEN b ELSE Update(h[i - 1], n, chain[n][i])]
  <2>2. k \in 0..N /\ k # 0 /\ k - 1 \in 0..(k - 1) /\ k \in Nat
    BY <1>0
  <2>3. ASSUME NEW i \in 0..k
        PROVE  h[i] = IF i = 0 THEN b ELSE Update(h[i - 1], n, chain[n][i])
    <3>1. CASE i = 0
      BY <2>1, <2>2, <3>1
    <3>2. CASE i # 0 /\ i # k
      <4>1. i \in 0..(k - 1) /\ i - 1 \in 0..k /\ i - 1 # k
        BY <3>2, <2>2
      <4>2. h[i - 1] = f[i - 1] /\ h[i] = f[i]
        BY <4>1, <3>2
      <4>3. f[i] = Update(f[i - 1], n, chain[n][i])
        BY <2>1, <4>1, <3>2
      <4> HIDE DEF h
      <4> QED BY <4>2, <4>3, <3>2
    <3>3. CASE i = k
      <4>1. k - 1 \in 0..k /\ k - 1 # k
        BY <2>2
      <4>2. h[k - 1] = f[k - 1] /\ h[k] = Update(f[k - 1], n, chain[n][k])
        BY <4>1
      <4> HIDE DEF h
      <4> QED BY <4>2, <3>3, <2>2
    <3> QED BY <3>1, <3>2, <3>3
  <2>4. \A i \in 0..k : h[i] = e[i]
    BY <2>3
  <2>5. h = [i \in 0..k |-> h[i]] /\ e = [i \in 0..k |-> e[i]]
    OBVIOUS
  <2>6. h = e
    <3> HIDE DEF h, e
    <3> QED BY <2>4, <2>5
  <2> HIDE DEF h, N
  <2> QED BY <2>2, <2>6 DEF e
<1>3. \A k \in (0 + 1)..N : k - 1 \in T => k \in T
  BY <1>2
<1>4. \A k \in 0..N : k \in T
  <2> HIDE DEF T, N
  <2> QED BY <1>0, <1>1, <1>3, Upward
<1>5. \E f : f = [i \in 0..N |-> IF i = 0 THEN b ELSE Update(f[i - 1], n, chain[n][i])]
  <2>1. N \in T
    <3> HIDE DEF T, N
    <3> QED BY <1>0, <1>4
  <2> QED BY <2>1
<1>6. g = [i \in 0..N |-> IF i = 0 THEN b ELSE Update(g[i - 1], n, chain[n][i])]
  <2>1. \E f : f = [i \in 0..N |-> IF i = 0 THEN b ELSE Update(f[i - 1], n, chain[n][i])]
    BY <1>5
  <2> QED BY <2>1
<1>7. RunUpdate(b, n) = g[N]
  BY DEF RunUpdate, Through
<1> HIDE DEF g, T
<1>8. g = [i \in 0..N |-> g[i]] /\ g[0] = b /\ \A i \in 1..N : g[i] = Update(g[i - 1], n, chain[n][i])
  <2>1. g = [i \in 0..N |-> g[i]]
    BY <1>6
  <2>2. \A i \in 0..N : g[i] = IF i = 0 THEN b ELSE Update(g[i - 1], n, chain[n][i])
    BY <1>6
  <2>3. 0 \in 0..N /\ \A i \in 1..N : i \in 0..N /\ i # 0
    BY <1>0
  <2> HIDE DEF N
  <2> QED BY <2>1, <2>2, <2>3
<1> QED BY <1>7, <1>8 DEF IsUpdateRun

\* What is recorded of the config in a group of blocks.
IsConfigRun(f, b, first, last) ==
  /\ f = [i \in 0..(last - first + 1) |-> f[i]] /\ f[0] = b
  /\ \A i \in 1..(last - first + 1) : f[i] = RunConfig(f[i - 1], first + i - 1)
  /\ Through(RunConfig, b, [i \in 1..(last - first + 1) |-> first + i - 1]) = f[(last - first + 1)]

LEMMA ConfigRun ==
  ASSUME NEW b, NEW first \in Nat, NEW last \in Nat, first <= last
  PROVE  \E f : IsConfigRun(f, b, first, last)
<1> DEFINE N == (last - first + 1)
           T == {k \in 0..N :
                  \E f : f = [i \in 0..k |-> IF i = 0 THEN b ELSE RunConfig(f[i - 1], first + i - 1)]}
           ns == [i \in 1..(last - first + 1) |-> first + i - 1]
           g == CHOOSE f :
                  f = [i \in 0..Len(ns) |-> IF i = 0 THEN b ELSE RunConfig(f[i - 1], ns[i])]
<1>0. N \in Nat
  OBVIOUS
<1>1. 0 \in T
  <2> DEFINE f == [i \in 0..0 |-> b]
  <2>1. \A i \in 0..0 : i = 0
    OBVIOUS
  <2>2. f = [i \in 0..0 |-> IF i = 0 THEN b ELSE RunConfig(f[i - 1], first + i - 1)]
    BY <2>1
  <2>3. 0 \in 0..N
    BY <1>0
  <2> HIDE DEF f, N
  <2> QED BY <2>2, <2>3
<1>2. ASSUME NEW k \in (0 + 1)..N, k - 1 \in T PROVE k \in T
  <2>1. PICK f : f = [i \in 0..(k - 1) |-> IF i = 0 THEN b ELSE RunConfig(f[i - 1], first + i - 1)]
    BY <1>2
  <2> DEFINE h == [i \in 0..k |-> IF i = k THEN RunConfig(f[k - 1], first + k - 1) ELSE f[i]]
             e == [i \in 0..k |-> IF i = 0 THEN b ELSE RunConfig(h[i - 1], first + i - 1)]
  <2>2. k \in 0..N /\ k # 0 /\ k - 1 \in 0..(k - 1) /\ k \in Nat
    BY <1>0
  <2>3. ASSUME NEW i \in 0..k
        PROVE  h[i] = IF i = 0 THEN b ELSE RunConfig(h[i - 1], first + i - 1)
    <3>1. CASE i = 0
      BY <2>1, <2>2, <3>1
    <3>2. CASE i # 0 /\ i # k
      <4>1. i \in 0..(k - 1) /\ i - 1 \in 0..k /\ i - 1 # k
        BY <3>2, <2>2
      <4>2. h[i - 1] = f[i - 1] /\ h[i] = f[i]
        BY <4>1, <3>2
      <4>3. f[i] = RunConfig(f[i - 1], first + i - 1)
        BY <2>1, <4>1, <3>2
      <4> HIDE DEF h
      <4> QED BY <4>2, <4>3, <3>2
    <3>3. CASE i = k
      <4>1. k - 1 \in 0..k /\ k - 1 # k
        BY <2>2
      <4>2. h[k - 1] = f[k - 1] /\ h[k] = RunConfig(f[k - 1], first + k - 1)
        BY <4>1
      <4> HIDE DEF h
      <4> QED BY <4>2, <3>3, <2>2
    <3> QED BY <3>1, <3>2, <3>3
  <2>4. \A i \in 0..k : h[i] = e[i]
    BY <2>3
  <2>5. h = [i \in 0..k |-> h[i]] /\ e = [i \in 0..k |-> e[i]]
    OBVIOUS
  <2>6. h = e
    <3> HIDE DEF h, e
    <3> QED BY <2>4, <2>5
  <2> HIDE DEF h, N
  <2> QED BY <2>2, <2>6 DEF e
<1>3. \A k \in (0 + 1)..N : k - 1 \in T => k \in T
  BY <1>2
<1>4. \A k \in 0..N : k \in T
  <2> HIDE DEF T, N
  <2> QED BY <1>0, <1>1, <1>3, Upward
<1>5. \E f : f = [i \in 0..N |-> IF i = 0 THEN b ELSE RunConfig(f[i - 1], first + i - 1)]
  <2>1. N \in T
    <3> HIDE DEF T, N
    <3> QED BY <1>0, <1>4
  <2> QED BY <2>1
<1>6. g = [i \in 0..N |-> IF i = 0 THEN b ELSE RunConfig(g[i - 1], first + i - 1)]
  <2>1. PICK f : f = [i \in 0..N |-> IF i = 0 THEN b ELSE RunConfig(f[i - 1], first + i - 1)]
    BY <1>5
  <2>2. Len(ns) = N /\ \A i \in 1..N : ns[i] = first + i - 1
    BY <1>0
  <2>3. ASSUME NEW h
       PROVE  [i \in 0..Len(ns) |-> IF i = 0 THEN b ELSE RunConfig(h[i - 1], ns[i])]
                = [i \in 0..N |-> IF i = 0 THEN b ELSE RunConfig(h[i - 1], first + i - 1)]
    <3> HIDE DEF ns, N
    <3>1. \A i \in 0..N : i # 0 => i \in 1..N
      BY <1>0
    <3> QED BY <2>2, <3>1
  <2>4. f = [i \in 0..Len(ns) |-> IF i = 0 THEN b ELSE RunConfig(f[i - 1], ns[i])]
    BY <2>1, <2>3, Zenon
  <2>5. g = [i \in 0..Len(ns) |-> IF i = 0 THEN b ELSE RunConfig(g[i - 1], ns[i])]
    BY <2>4
  <2> QED BY <2>5, <2>3, Zenon
<1>7. Through(RunConfig, b, [i \in 1..(last - first + 1) |-> first + i - 1]) = g[N]
  <2>1. Through(RunConfig, b, [i \in 1..(last - first + 1) |-> first + i - 1]) = g[Len(ns)]
    BY DEF Through
  <2>2. Len(ns) = N
    BY <1>0
  <2> HIDE DEF g, ns, N
  <2> QED BY <2>1, <2>2
<1> HIDE DEF g, T, ns
<1>8. g = [i \in 0..N |-> g[i]] /\ g[0] = b /\ \A i \in 1..N : g[i] = RunConfig(g[i - 1], first + i - 1)
  <2>1. g = [i \in 0..N |-> g[i]]
    BY <1>6
  <2>2. \A i \in 0..N : g[i] = IF i = 0 THEN b ELSE RunConfig(g[i - 1], first + i - 1)
    BY <1>6
  <2>3. 0 \in 0..N /\ \A i \in 1..N : i \in 0..N /\ i # 0
    BY <1>0
  <2> HIDE DEF N
  <2> QED BY <2>1, <2>2, <2>3
<1> QED BY <1>7, <1>8 DEF IsConfigRun

\* What is recorded of the new sales in a group.
IsCreatesRun(f, b, first, last) ==
  /\ f = [i \in 0..(last - first + 1) |-> f[i]] /\ f[0] = b
  /\ \A i \in 1..(last - first + 1) : f[i] = RunCreate(f[i - 1], first + i - 1)
  /\ Through(RunCreate, b, [i \in 1..(last - first + 1) |-> first + i - 1]) = f[(last - first + 1)]

LEMMA CreatesRun ==
  ASSUME NEW b, NEW first \in Nat, NEW last \in Nat, first <= last
  PROVE  \E f : IsCreatesRun(f, b, first, last)
<1> DEFINE N == (last - first + 1)
           T == {k \in 0..N :
                  \E f : f = [i \in 0..k |-> IF i = 0 THEN b ELSE RunCreate(f[i - 1], first + i - 1)]}
           ns == [i \in 1..(last - first + 1) |-> first + i - 1]
           g == CHOOSE f :
                  f = [i \in 0..Len(ns) |-> IF i = 0 THEN b ELSE RunCreate(f[i - 1], ns[i])]
<1>0. N \in Nat
  OBVIOUS
<1>1. 0 \in T
  <2> DEFINE f == [i \in 0..0 |-> b]
  <2>1. \A i \in 0..0 : i = 0
    OBVIOUS
  <2>2. f = [i \in 0..0 |-> IF i = 0 THEN b ELSE RunCreate(f[i - 1], first + i - 1)]
    BY <2>1
  <2>3. 0 \in 0..N
    BY <1>0
  <2> HIDE DEF f, N
  <2> QED BY <2>2, <2>3
<1>2. ASSUME NEW k \in (0 + 1)..N, k - 1 \in T PROVE k \in T
  <2>1. PICK f : f = [i \in 0..(k - 1) |-> IF i = 0 THEN b ELSE RunCreate(f[i - 1], first + i - 1)]
    BY <1>2
  <2> DEFINE h == [i \in 0..k |-> IF i = k THEN RunCreate(f[k - 1], first + k - 1) ELSE f[i]]
             e == [i \in 0..k |-> IF i = 0 THEN b ELSE RunCreate(h[i - 1], first + i - 1)]
  <2>2. k \in 0..N /\ k # 0 /\ k - 1 \in 0..(k - 1) /\ k \in Nat
    BY <1>0
  <2>3. ASSUME NEW i \in 0..k
        PROVE  h[i] = IF i = 0 THEN b ELSE RunCreate(h[i - 1], first + i - 1)
    <3>1. CASE i = 0
      BY <2>1, <2>2, <3>1
    <3>2. CASE i # 0 /\ i # k
      <4>1. i \in 0..(k - 1) /\ i - 1 \in 0..k /\ i - 1 # k
        BY <3>2, <2>2
      <4>2. h[i - 1] = f[i - 1] /\ h[i] = f[i]
        BY <4>1, <3>2
      <4>3. f[i] = RunCreate(f[i - 1], first + i - 1)
        BY <2>1, <4>1, <3>2
      <4> HIDE DEF h
      <4> QED BY <4>2, <4>3, <3>2
    <3>3. CASE i = k
      <4>1. k - 1 \in 0..k /\ k - 1 # k
        BY <2>2
      <4>2. h[k - 1] = f[k - 1] /\ h[k] = RunCreate(f[k - 1], first + k - 1)
        BY <4>1
      <4> HIDE DEF h
      <4> QED BY <4>2, <3>3, <2>2
    <3> QED BY <3>1, <3>2, <3>3
  <2>4. \A i \in 0..k : h[i] = e[i]
    BY <2>3
  <2>5. h = [i \in 0..k |-> h[i]] /\ e = [i \in 0..k |-> e[i]]
    OBVIOUS
  <2>6. h = e
    <3> HIDE DEF h, e
    <3> QED BY <2>4, <2>5
  <2> HIDE DEF h, N
  <2> QED BY <2>2, <2>6 DEF e
<1>3. \A k \in (0 + 1)..N : k - 1 \in T => k \in T
  BY <1>2
<1>4. \A k \in 0..N : k \in T
  <2> HIDE DEF T, N
  <2> QED BY <1>0, <1>1, <1>3, Upward
<1>5. \E f : f = [i \in 0..N |-> IF i = 0 THEN b ELSE RunCreate(f[i - 1], first + i - 1)]
  <2>1. N \in T
    <3> HIDE DEF T, N
    <3> QED BY <1>0, <1>4
  <2> QED BY <2>1
<1>6. g = [i \in 0..N |-> IF i = 0 THEN b ELSE RunCreate(g[i - 1], first + i - 1)]
  <2>1. PICK f : f = [i \in 0..N |-> IF i = 0 THEN b ELSE RunCreate(f[i - 1], first + i - 1)]
    BY <1>5
  <2>2. Len(ns) = N /\ \A i \in 1..N : ns[i] = first + i - 1
    BY <1>0
  <2>3. ASSUME NEW h
       PROVE  [i \in 0..Len(ns) |-> IF i = 0 THEN b ELSE RunCreate(h[i - 1], ns[i])]
                = [i \in 0..N |-> IF i = 0 THEN b ELSE RunCreate(h[i - 1], first + i - 1)]
    <3> HIDE DEF ns, N
    <3>1. \A i \in 0..N : i # 0 => i \in 1..N
      BY <1>0
    <3> QED BY <2>2, <3>1
  <2>4. f = [i \in 0..Len(ns) |-> IF i = 0 THEN b ELSE RunCreate(f[i - 1], ns[i])]
    BY <2>1, <2>3, Zenon
  <2>5. g = [i \in 0..Len(ns) |-> IF i = 0 THEN b ELSE RunCreate(g[i - 1], ns[i])]
    BY <2>4
  <2> QED BY <2>5, <2>3, Zenon
<1>7. Through(RunCreate, b, [i \in 1..(last - first + 1) |-> first + i - 1]) = g[N]
  <2>1. Through(RunCreate, b, [i \in 1..(last - first + 1) |-> first + i - 1]) = g[Len(ns)]
    BY DEF Through
  <2>2. Len(ns) = N
    BY <1>0
  <2> HIDE DEF g, ns, N
  <2> QED BY <2>1, <2>2
<1> HIDE DEF g, T, ns
<1>8. g = [i \in 0..N |-> g[i]] /\ g[0] = b /\ \A i \in 1..N : g[i] = RunCreate(g[i - 1], first + i - 1)
  <2>1. g = [i \in 0..N |-> g[i]]
    BY <1>6
  <2>2. \A i \in 0..N : g[i] = IF i = 0 THEN b ELSE RunCreate(g[i - 1], first + i - 1)
    BY <1>6
  <2>3. 0 \in 0..N /\ \A i \in 1..N : i \in 0..N /\ i # 0
    BY <1>0
  <2> HIDE DEF N
  <2> QED BY <2>1, <2>2, <2>3
<1> QED BY <1>7, <1>8 DEF IsCreatesRun

\* What is recorded of the changes of sales in a group.
IsUpdatesRun(f, b, first, last) ==
  /\ f = [i \in 0..(last - first + 1) |-> f[i]] /\ f[0] = b
  /\ \A i \in 1..(last - first + 1) : f[i] = RunUpdate(f[i - 1], first + i - 1)
  /\ Through(RunUpdate, b, [i \in 1..(last - first + 1) |-> first + i - 1]) = f[(last - first + 1)]

LEMMA UpdatesRun ==
  ASSUME NEW b, NEW first \in Nat, NEW last \in Nat, first <= last
  PROVE  \E f : IsUpdatesRun(f, b, first, last)
<1> DEFINE N == (last - first + 1)
           T == {k \in 0..N :
                  \E f : f = [i \in 0..k |-> IF i = 0 THEN b ELSE RunUpdate(f[i - 1], first + i - 1)]}
           ns == [i \in 1..(last - first + 1) |-> first + i - 1]
           g == CHOOSE f :
                  f = [i \in 0..Len(ns) |-> IF i = 0 THEN b ELSE RunUpdate(f[i - 1], ns[i])]
<1>0. N \in Nat
  OBVIOUS
<1>1. 0 \in T
  <2> DEFINE f == [i \in 0..0 |-> b]
  <2>1. \A i \in 0..0 : i = 0
    OBVIOUS
  <2>2. f = [i \in 0..0 |-> IF i = 0 THEN b ELSE RunUpdate(f[i - 1], first + i - 1)]
    BY <2>1
  <2>3. 0 \in 0..N
    BY <1>0
  <2> HIDE DEF f, N
  <2> QED BY <2>2, <2>3
<1>2. ASSUME NEW k \in (0 + 1)..N, k - 1 \in T PROVE k \in T
  <2>1. PICK f : f = [i \in 0..(k - 1) |-> IF i = 0 THEN b ELSE RunUpdate(f[i - 1], first + i - 1)]
    BY <1>2
  <2> DEFINE h == [i \in 0..k |-> IF i = k THEN RunUpdate(f[k - 1], first + k - 1) ELSE f[i]]
             e == [i \in 0..k |-> IF i = 0 THEN b ELSE RunUpdate(h[i - 1], first + i - 1)]
  <2>2. k \in 0..N /\ k # 0 /\ k - 1 \in 0..(k - 1) /\ k \in Nat
    BY <1>0
  <2>3. ASSUME NEW i \in 0..k
        PROVE  h[i] = IF i = 0 THEN b ELSE RunUpdate(h[i - 1], first + i - 1)
    <3>1. CASE i = 0
      BY <2>1, <2>2, <3>1
    <3>2. CASE i # 0 /\ i # k
      <4>1. i \in 0..(k - 1) /\ i - 1 \in 0..k /\ i - 1 # k
        BY <3>2, <2>2
      <4>2. h[i - 1] = f[i - 1] /\ h[i] = f[i]
        BY <4>1, <3>2
      <4>3. f[i] = RunUpdate(f[i - 1], first + i - 1)
        BY <2>1, <4>1, <3>2
      <4> HIDE DEF h
      <4> QED BY <4>2, <4>3, <3>2
    <3>3. CASE i = k
      <4>1. k - 1 \in 0..k /\ k - 1 # k
        BY <2>2
      <4>2. h[k - 1] = f[k - 1] /\ h[k] = RunUpdate(f[k - 1], first + k - 1)
        BY <4>1
      <4> HIDE DEF h
      <4> QED BY <4>2, <3>3, <2>2
    <3> QED BY <3>1, <3>2, <3>3
  <2>4. \A i \in 0..k : h[i] = e[i]
    BY <2>3
  <2>5. h = [i \in 0..k |-> h[i]] /\ e = [i \in 0..k |-> e[i]]
    OBVIOUS
  <2>6. h = e
    <3> HIDE DEF h, e
    <3> QED BY <2>4, <2>5
  <2> HIDE DEF h, N
  <2> QED BY <2>2, <2>6 DEF e
<1>3. \A k \in (0 + 1)..N : k - 1 \in T => k \in T
  BY <1>2
<1>4. \A k \in 0..N : k \in T
  <2> HIDE DEF T, N
  <2> QED BY <1>0, <1>1, <1>3, Upward
<1>5. \E f : f = [i \in 0..N |-> IF i = 0 THEN b ELSE RunUpdate(f[i - 1], first + i - 1)]
  <2>1. N \in T
    <3> HIDE DEF T, N
    <3> QED BY <1>0, <1>4
  <2> QED BY <2>1
<1>6. g = [i \in 0..N |-> IF i = 0 THEN b ELSE RunUpdate(g[i - 1], first + i - 1)]
  <2>1. PICK f : f = [i \in 0..N |-> IF i = 0 THEN b ELSE RunUpdate(f[i - 1], first + i - 1)]
    BY <1>5
  <2>2. Len(ns) = N /\ \A i \in 1..N : ns[i] = first + i - 1
    BY <1>0
  <2>3. ASSUME NEW h
       PROVE  [i \in 0..Len(ns) |-> IF i = 0 THEN b ELSE RunUpdate(h[i - 1], ns[i])]
                = [i \in 0..N |-> IF i = 0 THEN b ELSE RunUpdate(h[i - 1], first + i - 1)]
    <3> HIDE DEF ns, N
    <3>1. \A i \in 0..N : i # 0 => i \in 1..N
      BY <1>0
    <3> QED BY <2>2, <3>1
  <2>4. f = [i \in 0..Len(ns) |-> IF i = 0 THEN b ELSE RunUpdate(f[i - 1], ns[i])]
    BY <2>1, <2>3, Zenon
  <2>5. g = [i \in 0..Len(ns) |-> IF i = 0 THEN b ELSE RunUpdate(g[i - 1], ns[i])]
    BY <2>4
  <2> QED BY <2>5, <2>3, Zenon
<1>7. Through(RunUpdate, b, [i \in 1..(last - first + 1) |-> first + i - 1]) = g[N]
  <2>1. Through(RunUpdate, b, [i \in 1..(last - first + 1) |-> first + i - 1]) = g[Len(ns)]
    BY DEF Through
  <2>2. Len(ns) = N
    BY <1>0
  <2> HIDE DEF g, ns, N
  <2> QED BY <2>1, <2>2
<1> HIDE DEF g, T, ns
<1>8. g = [i \in 0..N |-> g[i]] /\ g[0] = b /\ \A i \in 1..N : g[i] = RunUpdate(g[i - 1], first + i - 1)
  <2>1. g = [i \in 0..N |-> g[i]]
    BY <1>6
  <2>2. \A i \in 0..N : g[i] = IF i = 0 THEN b ELSE RunUpdate(g[i - 1], first + i - 1)
    BY <1>6
  <2>3. 0 \in 0..N /\ \A i \in 1..N : i \in 0..N /\ i # 0
    BY <1>0
  <2> HIDE DEF N
  <2> QED BY <2>1, <2>2, <2>3
<1> QED BY <1>7, <1>8 DEF IsUpdatesRun

-----------------------------------------------------------------------------
(* The ledger of the contract.                                              *)

SaleLedgers == [state: {"none"} \cup SaleStates, bundle: BOOLEAN, at: Nat]
Ledgers == [version: Versions, flip: Nat, tokens: SUBSET Tokens, sales: [Sales -> SaleLedgers]]

IsConfig(a) == a.name \in ConfigActions
On(a, s) == ~IsConfig(a) /\ a.sale = s

LEMMA ActionKinds ==
  ASSUME NEW a \in Actions
  PROVE  \/ a.name = "setversion"
         \/ a.name = "addconftoken" /\ a.token \in Tokens
         \/ a.name = "lognewsale" /\ a.sale \in Sales /\ a.bundle \in BOOLEAN
         \/ a.name = "logsalestart" /\ a.sale \in Sales
         \/ a.name = "cancelsale" /\ a.sale \in Sales
         \/ a.name = "purchasesale" /\ a.sale \in Sales
BY DEF Actions

LEMMA ObeyType ==
  ASSUME NEW l \in Ledgers, NEW n \in Nat, NEW a \in Actions
  PROVE  Obey(n, l, a) \in Ledgers
<1>1. CASE a.name = "setversion"
  <2>1. Obey(n, l, a) = [l EXCEPT !.version = 2, !.flip = n]
    BY <1>1 DEF Obey
  <2>2. Obey(n, l, a) = [version |-> 2, flip |-> n, tokens |-> l.tokens, sales |-> l.sales]
    BY <2>1 DEF Ledgers
  <2> QED BY <2>2 DEF Ledgers, Versions
<1>2. CASE a.name = "addconftoken" /\ a.token \in Tokens
  BY <1>2 DEF Obey, Ledgers
<1>3. CASE a.name = "lognewsale" /\ a.sale \in Sales /\ a.bundle \in BOOLEAN
  <2>1. [state |-> "WAITING", bundle |-> a.bundle, at |-> 0] \in SaleLedgers
    BY <1>3 DEF SaleLedgers, SaleStates
  <2>2. Obey(n, l, a) = [l EXCEPT !.sales[a.sale] = [state |-> "WAITING", bundle |-> a.bundle, at |-> 0]]
    BY <1>3 DEF Obey
  <2> QED BY <1>3, <2>1, <2>2 DEF Ledgers
<1>4. CASE a.name = "logsalestart" /\ a.sale \in Sales
  <2>1. Obey(n, l, a) = [l EXCEPT !.sales[a.sale].state = "LISTED"]
    BY <1>4 DEF Obey
  <2> QED BY <1>4, <2>1 DEF Ledgers, SaleLedgers, SaleStates
<1>5. CASE a.name = "cancelsale" /\ a.sale \in Sales
  <2>1. Obey(n, l, a) = [l EXCEPT !.sales[a.sale].state = "CANCELED"]
    BY <1>5 DEF Obey
  <2> QED BY <1>5, <2>1 DEF Ledgers, SaleLedgers, SaleStates
<1>6. CASE a.name = "purchasesale" /\ a.sale \in Sales
  <2> DEFINE settled == [state |-> IF l.version = 2 /\ l.sales[a.sale].bundle THEN "CANCELED" ELSE "SOLD",
                         bundle |-> l.sales[a.sale].bundle, at |-> n]
  <2>1. Obey(n, l, a) = [l EXCEPT !.sales[a.sale] = settled]
    BY <1>6 DEF Obey
  <2>2. settled \in SaleLedgers
    BY <1>6 DEF Ledgers, SaleLedgers, SaleStates
  <2> HIDE DEF settled
  <2> QED BY <1>6, <2>1, <2>2 DEF Ledgers
<1> QED BY <1>1, <1>2, <1>3, <1>4, <1>5, <1>6, ActionKinds

\* What an action that the contract allows does to the sales.
LEMMA ObeySales ==
  ASSUME NEW l \in Ledgers, NEW n \in Nat, NEW a \in Actions, Allowed(l, a), NEW s \in Sales
  PROVE  /\ ~On(a, s) => Obey(n, l, a).sales[s] = l.sales[s]
         /\ a.name = "lognewsale" /\ a.sale = s =>
              /\ l.sales[s].state = "none"
              /\ Obey(n, l, a).sales[s] = [state |-> "WAITING", bundle |-> a.bundle, at |-> 0]
         /\ a.name = "logsalestart" /\ a.sale = s =>
              /\ l.sales[s].state = "WAITING"
              /\ Obey(n, l, a).sales[s].state = "LISTED" /\ Obey(n, l, a).sales[s].bundle = l.sales[s].bundle
         /\ a.name = "cancelsale" /\ a.sale = s =>
              /\ l.sales[s].state \in {"WAITING", "LISTED"}
              /\ Obey(n, l, a).sales[s].state = "CANCELED" /\ Obey(n, l, a).sales[s].bundle = l.sales[s].bundle
         /\ a.name = "purchasesale" /\ a.sale = s =>
              /\ \/ l.sales[s].state = "LISTED"
                 \/ l.sales[s].state = "WAITING" /\ l.version = 2 /\ l.sales[s].bundle
              /\ Obey(n, l, a).sales[s].state = IF l.version = 2 /\ l.sales[s].bundle THEN "CANCELED" ELSE "SOLD"
              /\ Obey(n, l, a).sales[s].bundle = l.sales[s].bundle
              /\ Obey(n, l, a).sales[s].at = n
<1>1. CASE a.name = "setversion" \/ (a.name = "addconftoken" /\ a.token \in Tokens)
  BY <1>1 DEF Obey, Ledgers, On, IsConfig, ConfigActions
<1>2. CASE a.name = "lognewsale" /\ a.sale \in Sales
  BY <1>2 DEF Obey, Allowed, Ledgers, On, IsConfig, ConfigActions
<1>3. CASE a.name = "logsalestart" /\ a.sale \in Sales
  BY <1>3 DEF Obey, Allowed, Ledgers, SaleLedgers, On, IsConfig, ConfigActions
<1>4. CASE a.name = "cancelsale" /\ a.sale \in Sales
  BY <1>4 DEF Obey, Allowed, Ledgers, SaleLedgers, On, IsConfig, ConfigActions
<1>5. CASE a.name = "purchasesale" /\ a.sale \in Sales
  BY <1>5 DEF Obey, Allowed, Ledgers, SaleLedgers, On, IsConfig, ConfigActions
<1>6. \/ a.name = "setversion"
      \/ a.name = "addconftoken" /\ a.token \in Tokens
      \/ a.name = "lognewsale" /\ a.sale \in Sales
      \/ a.name = "logsalestart" /\ a.sale \in Sales
      \/ a.name = "cancelsale" /\ a.sale \in Sales
      \/ a.name = "purchasesale" /\ a.sale \in Sales
  BY ActionKinds, Zenon
<1> QED BY <1>1, <1>2, <1>3, <1>4, <1>5, <1>6, Zenon

LEMMA ObeyVersion ==
  ASSUME NEW l \in Ledgers, NEW n \in Nat, NEW a \in Actions, Allowed(l, a)
  PROVE  /\ a.name = "setversion" =>
              l.version = 1 /\ Obey(n, l, a).version = 2 /\ Obey(n, l, a).flip = n
         /\ a.name # "setversion" => Obey(n, l, a).version = l.version /\ Obey(n, l, a).flip = l.flip
BY ActionKinds DEF Obey, Allowed, Ledgers

LEMMA PrefixOf ==
  ASSUME NEW S, NEW b \in Seq(S), NEW k \in 0..Len(b)
  PROVE  /\ SubSeq(b, 1, k) \in Seq(S) /\ Len(SubSeq(b, 1, k)) = k
         /\ \A i \in 1..k : SubSeq(b, 1, k)[i] = b[i]
OBVIOUS

LEMMA BlockPoints ==
  ASSUME NEW l \in Ledgers, NEW n \in Nat, NEW b \in Seq(Actions)
  PROVE  \E f \in [0..Len(b) -> Ledgers] :
           /\ f[0] = l /\ f[Len(b)] = AfterBlock(l, n, b)
           /\ \A i \in 1..Len(b) : f[i] = Obey(n, f[i - 1], b[i])
           /\ \A i \in 0..Len(b) : f[i] = AfterBlock(l, n, SubSeq(b, 1, i))
<1>1. PICK f : IsBlockRun(f, l, n, b)
  BY BlockRun
<1>0. Len(b) \in Nat /\ 0 \in 0..Len(b) /\ \A i \in 1..Len(b) : i - 1 \in 0..Len(b) /\ i \in 0..Len(b)
  OBVIOUS
<1>2. \A i \in 0..Len(b) : f[i] \in Ledgers
  <2> DEFINE T == {i \in 0..Len(b) : f[i] \in Ledgers}
  <2>1. 0 \in T
    BY <1>0, <1>1 DEF IsBlockRun
  <2>2. ASSUME NEW i \in (0 + 1)..Len(b), i - 1 \in T PROVE i \in T
    <3>1. i \in 1..Len(b) /\ b[i] \in Actions
      BY <1>0
    <3> QED BY <1>0, <1>1, <2>2, <3>1, ObeyType DEF IsBlockRun
  <2>3. \A i \in 0..Len(b) : i \in T
    <3> HIDE DEF T
    <3> QED BY <1>0, <2>1, <2>2, Upward
  <2> QED BY <2>3
<1>3. ASSUME NEW k \in 0..Len(b)
      PROVE  f[k] = AfterBlock(l, n, SubSeq(b, 1, k))
  <2> DEFINE p == SubSeq(b, 1, k)
  <2>1. /\ p \in Seq(Actions) /\ Len(p) = k
        /\ \A i \in 1..k : p[i] = b[i]
    BY PrefixOf
  <2> HIDE DEF p
  <2>2. PICK g : IsBlockRun(g, l, n, p)
    BY <2>1, BlockRun
  <2> DEFINE T == {i \in 0..k : g[i] = f[i]}
  <2>3. 0 \in T
    BY <1>1, <2>2 DEF IsBlockRun
  <2>4. ASSUME NEW i \in (0 + 1)..k, i - 1 \in T PROVE i \in T
    <3>1. i \in 1..Len(p) /\ i \in 1..Len(b) /\ i \in 0..k /\ g[i - 1] = f[i - 1] /\ p[i] = b[i]
      BY <2>1, <2>4
    <3> QED BY <1>1, <2>2, <3>1 DEF IsBlockRun
  <2>5. \A i \in 0..k : i \in T
    <3> HIDE DEF T
    <3>1. k \in Nat
      OBVIOUS
    <3> QED BY <2>3, <2>4, <3>1, Upward
  <2>6. k \in T /\ Len(p) = k
    BY <2>1, <2>5
  <2>7. f[k] = AfterBlock(l, n, p)
    BY <2>2, <2>6 DEF IsBlockRun
  <2> QED BY <2>7 DEF p
<1>4. f \in [0..Len(b) -> Ledgers]
  BY <1>1, <1>2 DEF IsBlockRun
<1> QED BY <1>1, <1>3, <1>4 DEF IsBlockRun

LEMMA GenesisType == Genesis \in Ledgers
BY DEF Genesis, Ledgers, SaleLedgers, Versions, Unset

LEMMA AfterBlockType ==
  ASSUME NEW l \in Ledgers, NEW n \in Nat, NEW b \in Seq(Actions)
  PROVE  AfterBlock(l, n, b) \in Ledgers
BY BlockPoints

\* The ledger after k blocks.
At(c, k) == Ledger(SubSeq(c, 1, k))

LEMMA ChainPoints ==
  ASSUME NEW c \in Seq(Seq(Actions))
  PROVE  /\ At(c, 0) = Genesis /\ At(c, Len(c)) = Ledger(c)
         /\ \A k \in 0..Len(c) : At(c, k) \in Ledgers
         /\ \A k \in 1..Len(c) : At(c, k) = AfterBlock(At(c, k - 1), k, c[k])
<1>0. Len(c) \in Nat /\ 0 \in 0..Len(c) /\ Len(c) \in 0..Len(c) /\ SubSeq(c, 1, Len(c)) = c
  OBVIOUS
<1>1. PICK f : IsChainRun(f, c)
  BY ChainRun
<1>2. ASSUME NEW k \in 0..Len(c)
      PROVE  f[k] = At(c, k)
  <2> DEFINE p == SubSeq(c, 1, k)
  <2>1. /\ p \in Seq(Seq(Actions)) /\ Len(p) = k
        /\ \A i \in 1..k : p[i] = c[i]
    BY PrefixOf
  <2> HIDE DEF p
  <2>2. PICK g : IsChainRun(g, p)
    BY <2>1, ChainRun
  <2> DEFINE T == {i \in 0..k : g[i] = f[i]}
  <2>3. 0 \in T
    BY <1>1, <2>2 DEF IsChainRun
  <2>4. ASSUME NEW i \in (0 + 1)..k, i - 1 \in T PROVE i \in T
    <3>1. i \in 1..Len(p) /\ i \in 1..Len(c) /\ i \in 0..k /\ g[i - 1] = f[i - 1] /\ p[i] = c[i]
      BY <2>1, <2>4
    <3> QED BY <1>1, <2>2, <3>1 DEF IsChainRun
  <2>5. \A i \in 0..k : i \in T
    <3> HIDE DEF T
    <3>1. k \in Nat
      OBVIOUS
    <3> QED BY <2>3, <2>4, <3>1, Upward
  <2>6. k \in T /\ Len(p) = k
    BY <2>1, <2>5
  <2>7. f[k] = Ledger(p)
    BY <2>2, <2>6 DEF IsChainRun
  <2> QED BY <2>7 DEF p, At
<1>3. \A i \in 0..Len(c) : f[i] \in Ledgers
  <2> DEFINE T == {i \in 0..Len(c) : f[i] \in Ledgers}
  <2>1. 0 \in T
    BY <1>0, <1>1, GenesisType DEF IsChainRun
  <2>2. ASSUME NEW i \in (0 + 1)..Len(c), i - 1 \in T PROVE i \in T
    <3>0. i \in 1..Len(c) /\ i \in Nat
      BY <1>0
    <3>1. i \in 1..Len(c) /\ c[i] \in Seq(Actions) /\ i \in Nat
      BY <3>0
    <3>2. f[i - 1] \in Ledgers /\ i \in 0..Len(c)
      BY <2>2, <3>1
    <3>3. AfterBlock(f[i - 1], i, c[i]) \in Ledgers
      BY <3>1, <3>2, AfterBlockType
    <3>4. f[i] = AfterBlock(f[i - 1], i, c[i])
      BY <1>1, <3>1 DEF IsChainRun
    <3> QED BY <3>2, <3>3, <3>4
  <2>3. \A i \in 0..Len(c) : i \in T
    <3> HIDE DEF T
    <3> QED BY <1>0, <2>1, <2>2, Upward
  <2> QED BY <2>3
<1>4. At(c, 0) = Genesis /\ At(c, Len(c)) = Ledger(c)
  BY <1>0, <1>1, <1>2 DEF At, IsChainRun
<1>5. ASSUME NEW k \in 1..Len(c) PROVE At(c, k) = AfterBlock(At(c, k - 1), k, c[k])
  <2>1. k \in 0..Len(c) /\ k - 1 \in 0..Len(c)
    OBVIOUS
  <2>2. f[k] = At(c, k) /\ f[k - 1] = At(c, k - 1)
    BY <1>2, <2>1
  <2> QED BY <1>1, <2>2 DEF IsChainRun
<1>6. \A k \in 0..Len(c) : At(c, k) \in Ledgers
  BY <1>2, <1>3
<1> QED BY <1>4, <1>5, <1>6

LEMMA SamePrefix ==
  ASSUME NEW c \in Seq(Seq(Actions)), NEW d \in Seq(Seq(Actions)), NEW k \in 0..Len(c), k <= Len(d),
         \A i \in 1..k : c[i] = d[i]
  PROVE  SubSeq(c, 1, k) = SubSeq(d, 1, k) /\ At(c, k) = At(d, k)
<1>1. SubSeq(c, 1, k) = SubSeq(d, 1, k)
  <2>1. k \in 0..Len(d)
    OBVIOUS
  <2>2. /\ SubSeq(c, 1, k) = [i \in 1..k |-> c[i]]
        /\ SubSeq(d, 1, k) = [i \in 1..k |-> d[i]]
    BY <2>1
  <2> QED BY <2>2
<1> QED BY <1>1 DEF At

-----------------------------------------------------------------------------
(* How a ledger moves: its sales are created once and keep their bundle, and *)
(* it flips once.                                                            *)

Leads(l, m) ==
  /\ \A s \in Sales : l.sales[s].state # "none" =>
       m.sales[s].state # "none" /\ m.sales[s].bundle = l.sales[s].bundle
  /\ l.version = 2 => m.version = 2 /\ m.flip = l.flip

\* Of a ledger that has come to block n.
Dated(l, n) ==
  /\ l.version = 2 => l.flip # Unset /\ l.flip <= n
  /\ l.version = 1 => l.flip = Unset

\* The ledgers f between the actions of a block b on top of l.
Points(f, l, n, b) ==
  /\ f \in [0..Len(b) -> Ledgers] /\ f[0] = l /\ f[Len(b)] = AfterBlock(l, n, b)
  /\ \A i \in 1..Len(b) : f[i] = Obey(n, f[i - 1], b[i]) /\ Allowed(f[i - 1], b[i])

Legal(c) == \A k \in 1..Len(c) : c[k] \in Blocks(At(c, k - 1), k)

LEMMA ObeyLeads ==
  ASSUME NEW l \in Ledgers, NEW n \in Nat, NEW a \in Actions, Allowed(l, a)
  PROVE  Leads(l, Obey(n, l, a))
<1>1. l.version = 2 => Obey(n, l, a).version = 2 /\ Obey(n, l, a).flip = l.flip
  BY ObeyVersion
<1>2. ASSUME NEW s \in Sales, l.sales[s].state # "none"
      PROVE  Obey(n, l, a).sales[s].state # "none" /\ Obey(n, l, a).sales[s].bundle = l.sales[s].bundle
  <2>1. CASE ~On(a, s)
    BY <1>2, <2>1, ObeySales
  <2>2. CASE On(a, s)
    <3>1. a.sale = s /\ a.name \in {"lognewsale", "logsalestart", "cancelsale", "purchasesale"}
      BY <2>2, ActionKinds DEF On, IsConfig, ConfigActions
    <3> QED BY ZenonT(60), <1>2, <3>1, ObeySales
  <2> QED BY <2>1, <2>2
<1> QED BY <1>1, <1>2 DEF Leads

LEMMA ObeyOthers ==
  ASSUME NEW l \in Ledgers, NEW n \in Nat, NEW a \in Actions, Allowed(l, a), NEW s \in Sales, ~On(a, s)
  PROVE  Obey(n, l, a).sales[s] = l.sales[s]
BY ObeySales

LEMMA BlockOf ==
  ASSUME NEW l, NEW n, NEW b \in Blocks(l, n)
  PROVE  /\ b \in Seq(Actions)
         /\ \A i \in 1..Len(b) : Allowed(AfterBlock(l, n, SubSeq(b, 1, i - 1)), b[i])
<1>1. b \in Seq(Actions)
  BY DEF Blocks
<1> QED BY <1>1 DEF Blocks

LEMMA LegalPoints ==
  ASSUME NEW l \in Ledgers, NEW n \in Nat, NEW b \in Blocks(l, n)
  PROVE  \E f : Points(f, l, n, b)
<1>1. b \in Seq(Actions) /\ \A i \in 1..Len(b) : Allowed(AfterBlock(l, n, SubSeq(b, 1, i - 1)), b[i])
  BY BlockOf
<1>2. PICK f \in [0..Len(b) -> Ledgers] :
           /\ f[0] = l /\ f[Len(b)] = AfterBlock(l, n, b)
           /\ \A i \in 1..Len(b) : f[i] = Obey(n, f[i - 1], b[i])
           /\ \A i \in 0..Len(b) : f[i] = AfterBlock(l, n, SubSeq(b, 1, i))
  BY <1>1, BlockPoints
<1>3. \A i \in 1..Len(b) : Allowed(f[i - 1], b[i])
  <2>1. \A i \in 1..Len(b) : i - 1 \in 0..Len(b)
    BY <1>1
  <2> QED BY <1>1, <1>2, <2>1
<1> QED BY <1>2, <1>3 DEF Points

LEMMA PointsLead ==
  ASSUME NEW l \in Ledgers, NEW n \in Nat, NEW b \in Seq(Actions), NEW f, Points(f, l, n, b),
         NEW i \in 0..Len(b), NEW j \in i..Len(b)
  PROVE  Leads(f[i], f[j])
<1> DEFINE T == {k \in i..Len(b) : Leads(f[i], f[k])}
<1>0. Len(b) \in Nat /\ i \in Nat /\ i \in i..Len(b)
  OBVIOUS
<1>1. i \in T
  BY <1>0 DEF Leads
<1>2. ASSUME NEW k \in (i + 1)..Len(b), k - 1 \in T PROVE k \in T
  <2>1. k \in 1..Len(b) /\ k - 1 \in 0..Len(b) /\ b[k] \in Actions /\ f[k - 1] \in Ledgers
    BY <1>0 DEF Points
  <2>2. Leads(f[k - 1], f[k])
    BY <2>1, ObeyLeads DEF Points
  <2>3. Leads(f[i], f[k - 1])
    BY <1>2
  <2>4. Leads(f[i], f[k])
    BY <2>2, <2>3 DEF Leads
  <2> QED BY <1>0, <2>4
<1>3. \A k \in i..Len(b) : k \in T
  <2> HIDE DEF T
  <2> QED BY <1>0, <1>1, <1>2, Upward
<1> QED BY <1>3

\* The flip is the block of the setversion, and nothing but the actions on a
\* sale moves it.
LEMMA PointsMove ==
  ASSUME NEW l \in Ledgers, NEW n \in Nat \ {0}, NEW b \in Seq(Actions), NEW f, Points(f, l, n, b),
         Dated(l, n - 1), NEW i \in 0..Len(b)
  PROVE  /\ Dated(f[i], n)
         /\ l.version = 1 => f[i].version = 1 \/ (f[i].flip = n /\ \E k \in 1..i : b[k].name = "setversion")
         /\ \A s \in Sales : (\A k \in 1..i : ~On(b[k], s)) => f[i].sales[s] = l.sales[s]
<1> DEFINE P(k) == /\ Dated(f[k], n)
                   /\ l.version = 1 => f[k].version = 1 \/ (f[k].flip = n /\ \E h \in 1..k : b[h].name = "setversion")
                   /\ \A s \in Sales : (\A h \in 1..k : ~On(b[h], s)) => f[k].sales[s] = l.sales[s]
           T == {k \in 0..Len(b) : P(k)}
<1>0. Len(b) \in Nat /\ 0 \in 0..Len(b) /\ n \in Nat /\ n # 0
  OBVIOUS
<1>1. 0 \in T
  <2>1. f[0] = l /\ l.flip \in Nat
    BY DEF Points, Ledgers
  <2>2. Dated(l, n)
    BY <1>0, <2>1 DEF Dated, Unset
  <2>3. P(0)
    BY <2>1, <2>2
  <2> QED BY <1>0, <2>3
<1>2. ASSUME NEW k \in (0 + 1)..Len(b), k - 1 \in T PROVE k \in T
  <2>1. k \in 1..Len(b) /\ k - 1 \in 0..Len(b) /\ b[k] \in Actions /\ f[k - 1] \in Ledgers
    BY <1>0 DEF Points
  <2>2. f[k] = Obey(n, f[k - 1], b[k]) /\ Allowed(f[k - 1], b[k])
    BY <2>1 DEF Points
  <2>3. P(k - 1)
    BY <1>2
  <2>4. /\ b[k].name = "setversion" => f[k - 1].version = 1 /\ f[k].version = 2 /\ f[k].flip = n
        /\ b[k].name # "setversion" => f[k].version = f[k - 1].version /\ f[k].flip = f[k - 1].flip
    BY <1>0, <2>1, <2>2, ObeyVersion
  <2>5. Dated(f[k], n)
    BY <1>0, <2>3, <2>4 DEF Dated, Unset
  <2>6. \A h \in 1..(k - 1) : h \in 1..k
    BY <2>1
  <2>7. k \in 1..k
    BY <2>1
  <2>8. l.version = 1 => f[k].version = 1 \/ (f[k].flip = n /\ \E h \in 1..k : b[h].name = "setversion")
    <3>1. CASE b[k].name = "setversion"
      BY <2>4, <2>7, <3>1
    <3>2. CASE b[k].name # "setversion"
      BY <2>3, <2>4, <2>6, <3>2
    <3> QED BY <3>1, <3>2
  <2>9. ASSUME NEW s \in Sales, \A h \in 1..k : ~On(b[h], s) PROVE f[k].sales[s] = l.sales[s]
    <3>0. ~On(b[k], s)
      BY <2>7, <2>9
    <3>1. f[k].sales[s] = f[k - 1].sales[s]
      BY <1>0, <2>1, <2>2, <3>0, ObeyOthers
    <3> QED BY <2>3, <2>6, <2>9, <3>1
  <2>10. P(k)
    BY <2>5, <2>8, <2>9
  <2> QED BY <2>1, <2>10
<1>3. \A k \in 0..Len(b) : k \in T
  <2> HIDE DEF T
  <2> QED BY <1>0, <1>1, <1>2, Upward
<1> QED BY <1>3

\* The same of the blocks of a chain.
Acted(d, k, q, s) == \E j \in (k + 1)..q : \E i \in DOMAIN d[j] : On(d[j][i], s)

LEMMA LegalBlock ==
  ASSUME NEW c \in Seq(Seq(Actions)), Legal(c), NEW k \in 1..Len(c)
  PROVE  /\ At(c, k - 1) \in Ledgers /\ At(c, k) = AfterBlock(At(c, k - 1), k, c[k])
         /\ c[k] \in Seq(Actions) /\ k \in Nat \ {0}
         /\ \E f : Points(f, At(c, k - 1), k, c[k])
<1>1. k - 1 \in 0..Len(c) /\ k \in Nat \ {0} /\ c[k] \in Seq(Actions)
  OBVIOUS
<1>2. At(c, k - 1) \in Ledgers /\ At(c, k) = AfterBlock(At(c, k - 1), k, c[k])
  BY <1>1, ChainPoints
<1>3. c[k] \in Blocks(At(c, k - 1), k)
  BY DEF Legal
<1> QED BY <1>1, <1>2, <1>3, LegalPoints

LEMMA AtDated ==
  ASSUME NEW c \in Seq(Seq(Actions)), Legal(c), NEW k \in 0..Len(c)
  PROVE  Dated(At(c, k), k)
<1> DEFINE T == {i \in 0..Len(c) : Dated(At(c, i), i)}
<1>0. Len(c) \in Nat
  OBVIOUS
<1>1. 0 \in T
  BY <1>0, ChainPoints DEF Dated, Genesis
<1>2. ASSUME NEW i \in (0 + 1)..Len(c), i - 1 \in T PROVE i \in T
  <2>0. i \in 1..Len(c) /\ i \in 0..Len(c)
    BY <1>0
  <2>1. /\ At(c, i - 1) \in Ledgers /\ At(c, i) = AfterBlock(At(c, i - 1), i, c[i])
        /\ c[i] \in Seq(Actions) /\ i \in Nat \ {0}
    BY <2>0, LegalBlock
  <2>2. PICK f : Points(f, At(c, i - 1), i, c[i])
    BY <2>0, LegalBlock
  <2>3. Dated(At(c, i - 1), i - 1)
    BY <1>2
  <2>4. Len(c[i]) \in 0..Len(c[i])
    BY <2>1
  <2>5. Dated(f[Len(c[i])], i)
    BY <2>1, <2>2, <2>3, <2>4, PointsMove
  <2>6. f[Len(c[i])] = At(c, i)
    BY <2>1, <2>2 DEF Points
  <2> QED BY <2>0, <2>5, <2>6
<1>3. \A i \in 0..Len(c) : i \in T
  <2> HIDE DEF T
  <2> QED BY <1>0, <1>1, <1>2, Upward
<1> QED BY <1>3

\* What a block does to the ledger.
LEMMA AtMoves ==
  ASSUME NEW c \in Seq(Seq(Actions)), Legal(c), NEW k \in 1..Len(c)
  PROVE  /\ Leads(At(c, k - 1), At(c, k))
         /\ At(c, k - 1).version = 1 =>
              \/ At(c, k).version = 1
              \/ At(c, k).flip = k /\ \E i \in DOMAIN c[k] : c[k][i].name = "setversion"
         /\ \A s \in Sales : ~Acted(c, k - 1, k, s) => At(c, k).sales[s] = At(c, k - 1).sales[s]
<1>1. /\ At(c, k - 1) \in Ledgers /\ At(c, k) = AfterBlock(At(c, k - 1), k, c[k])
      /\ c[k] \in Seq(Actions) /\ k \in Nat \ {0}
  BY LegalBlock
<1>2. PICK f : Points(f, At(c, k - 1), k, c[k])
  BY LegalBlock
<1>3. k - 1 \in 0..Len(c) /\ k = (k - 1) + 1 /\ k \in k..k
  OBVIOUS
<1>4. Dated(At(c, k - 1), k - 1)
  BY <1>3, AtDated
<1>5. Len(c[k]) \in 0..Len(c[k]) /\ DOMAIN c[k] = 1..Len(c[k]) /\ 0 \in 0..Len(c[k])
  BY <1>1
<1>6. f[0] = At(c, k - 1) /\ f[Len(c[k])] = At(c, k)
  BY <1>1, <1>2 DEF Points
<1>7. Leads(At(c, k - 1), At(c, k))
  BY <1>1, <1>2, <1>5, <1>6, PointsLead
<1>8. /\ At(c, k - 1).version = 1 =>
           \/ At(c, k).version = 1
           \/ At(c, k).flip = k /\ \E i \in 1..Len(c[k]) : c[k][i].name = "setversion"
      /\ \A s \in Sales : (\A i \in 1..Len(c[k]) : ~On(c[k][i], s)) => At(c, k).sales[s] = At(c, k - 1).sales[s]
  <2> DEFINE L == At(c, k - 1)
             B == c[k]
             K == Len(c[k])
  <2>1. L \in Ledgers /\ k \in Nat \ {0} /\ B \in Seq(Actions) /\ Points(f, L, k, B) /\ Dated(L, k - 1)
    BY <1>1, <1>2, <1>4
  <2>2. K \in 0..Len(B)
    BY <1>5
  <2> HIDE DEF L, B, K
  <2>3. /\ L.version = 1 => f[K].version = 1 \/ (f[K].flip = k /\ \E h \in 1..K : B[h].name = "setversion")
        /\ \A s \in Sales : (\A h \in 1..K : ~On(B[h], s)) => f[K].sales[s] = L.sales[s]
    BY <2>1, <2>2, PointsMove
  <2> QED BY <1>6, <2>3 DEF L, B, K
<1>9. ASSUME NEW s \in Sales, ~Acted(c, k - 1, k, s)
      PROVE  \A i \in 1..Len(c[k]) : ~On(c[k][i], s)
  BY <1>3, <1>5, <1>9 DEF Acted
<1> QED BY <1>5, <1>7, <1>8, <1>9

LEMMA AtLeads ==
  ASSUME NEW c \in Seq(Seq(Actions)), Legal(c), NEW i \in 0..Len(c), NEW j \in i..Len(c)
  PROVE  /\ Leads(At(c, i), At(c, j))
         /\ At(c, i).version = 1 => At(c, j).version = 1 \/ At(c, j).flip > i
         /\ \A s \in Sales : ~Acted(c, i, j, s) => At(c, j).sales[s] = At(c, i).sales[s]
<1> DEFINE P(k) == /\ Leads(At(c, i), At(c, k))
                   /\ At(c, i).version = 1 => At(c, k).version = 1 \/ At(c, k).flip > i
                   /\ \A s \in Sales : ~Acted(c, i, k, s) => At(c, k).sales[s] = At(c, i).sales[s]
           T == {k \in i..Len(c) : P(k)}
<1>0. Len(c) \in Nat /\ i \in Nat /\ i \in i..Len(c)
  OBVIOUS
<1>1. i \in T
  BY <1>0 DEF Leads
<1>2. ASSUME NEW k \in (i + 1)..Len(c), k - 1 \in T PROVE k \in T
  <2>1. k \in 1..Len(c) /\ k \in i..Len(c) /\ k - 1 \in 0..Len(c) /\ k > i /\ k \in Nat
    BY <1>0
  <2>2. P(k - 1)
    BY <1>2
  <2>3. /\ Leads(At(c, k - 1), At(c, k))
        /\ At(c, k - 1).version = 1 => At(c, k).version = 1 \/ At(c, k).flip = k
        /\ \A s \in Sales : ~Acted(c, k - 1, k, s) => At(c, k).sales[s] = At(c, k - 1).sales[s]
    BY <2>1, AtMoves
  <2>4. At(c, k - 1) \in Ledgers /\ At(c, k - 1).version \in 1..2
    BY <2>1, ChainPoints DEF Ledgers, Versions
  <2>5. Leads(At(c, i), At(c, k))
    BY <2>2, <2>3 DEF Leads
  <2>6. At(c, i).version = 1 => At(c, k).version = 1 \/ At(c, k).flip > i
    <3>1. CASE At(c, k - 1).version = 1
      BY <2>1, <2>3, <3>1
    <3>2. CASE At(c, k - 1).version = 2
      BY <2>2, <2>3, <3>2 DEF Leads
    <3> QED BY <2>4, <3>1, <3>2
  <2>7. ASSUME NEW s \in Sales, ~Acted(c, i, k, s) PROVE At(c, k).sales[s] = At(c, i).sales[s]
    <3>1. \A j1 \in ((k - 1) + 1)..k : j1 \in (i + 1)..k
      BY <2>1, <1>0
    <3>2. \A j1 \in (i + 1)..(k - 1) : j1 \in (i + 1)..k
      BY <2>1, <1>0
    <3>3. ~Acted(c, k - 1, k, s) /\ ~Acted(c, i, k - 1, s)
      BY <2>7, <3>1, <3>2 DEF Acted
    <3> QED BY <2>2, <2>3, <3>3
  <2>8. P(k)
    BY <2>5, <2>6, <2>7
  <2> QED BY <2>1, <2>8
<1>3. \A k \in i..Len(c) : k \in T
  <2> HIDE DEF T
  <2> QED BY <1>0, <1>1, <1>2, Upward
<1> QED BY <1>3

-----------------------------------------------------------------------------
(* One action on the tables of a transaction.                               *)

SaleRows == [state: SaleStates, offer: BOOLEAN, bundle: BOOLEAN]
RowSet == [version: Versions, marker: Nat, tokens: SUBSET Tokens, sales: [Sales -> SaleRows \cup {NoSale}]]
MemSet == [version: Versions, marker: Nat, tokens: SUBSET Tokens]
States == [rows: RowSet, mem: MemSet, begun: BOOLEAN, failed: BOOLEAN]

Remembers(r, m) ==
  m.version = r.version /\ m.marker = r.marker /\ (m.marker # Unset => m.version = 2)

\* All but the sales.
SameBut(b, e) ==
  /\ e.mem = b.mem /\ e.failed = b.failed
  /\ e.rows.version = b.rows.version /\ e.rows.marker = b.rows.marker /\ e.rows.tokens = b.rows.tokens

WithSale(b, e, s, row, begun) ==
  /\ e \in States /\ SameBut(b, e) /\ e.begun = begun
  /\ e.rows.sales[s] = row
  /\ \A t \in Sales : t # s => e.rows.sales[t] = b.rows.sales[t]

LEMMA PutSale ==
  ASSUME NEW b \in States, NEW s \in Sales, NEW row \in SaleRows
  PROVE  /\ WithSale(b, [b EXCEPT !.rows.sales[s] = row], s, row, b.begun)
         /\ WithSale(b, [b EXCEPT !.begun = TRUE, !.rows.sales[s] = row], s, row, TRUE)
<1>1. b.rows \in RowSet /\ b.rows.sales \in [Sales -> SaleRows \cup {NoSale}]
  BY DEF States, RowSet
<1> DEFINE r == [b.rows EXCEPT !.sales = [b.rows.sales EXCEPT ![s] = row]]
<1>2. /\ r \in RowSet /\ r.sales[s] = row /\ \A t \in Sales : t # s => r.sales[t] = b.rows.sales[t]
      /\ r.version = b.rows.version /\ r.marker = b.rows.marker /\ r.tokens = b.rows.tokens
  BY <1>1 DEF RowSet
<1>3. /\ [b EXCEPT !.rows.sales[s] = row] = [b EXCEPT !.rows = r]
      /\ [b EXCEPT !.begun = TRUE, !.rows.sales[s] = row] = [b EXCEPT !.begun = TRUE, !.rows = r]
  BY <1>1 DEF States, RowSet
<1> HIDE DEF r
<1> QED BY <1>2, <1>3 DEF WithSale, SameBut, States

LEMMA LogNewSaleDoes ==
  ASSUME NEW b \in States, NEW a \in Actions, a.name = "lognewsale"
  PROVE  /\ a.sale \in Sales /\ a.bundle \in BOOLEAN
         /\ WithSale(b, LogNewSale(b, a), a.sale,
                     [state |-> "WAITING", offer |-> FALSE, bundle |-> a.bundle], b.begun)
<1>1. a.sale \in Sales /\ a.bundle \in BOOLEAN
  BY ActionKinds
<1>2. [state |-> "WAITING", offer |-> FALSE, bundle |-> a.bundle] \in SaleRows
  BY <1>1 DEF SaleRows, SaleStates
<1> QED BY <1>1, <1>2, PutSale DEF LogNewSale

LEMMA LogSaleStartDoes ==
  ASSUME NEW b \in States, NEW a \in Actions, a.name = "logsalestart", b.rows.sales[a.sale] # NoSale
  PROVE  WithSale(b, LogSaleStart(b, a), a.sale,
                  [state |-> "LISTED", offer |-> TRUE, bundle |-> b.rows.sales[a.sale].bundle], b.begun)
<1>1. a.sale \in Sales
  BY ActionKinds
<1>2. b.rows.sales[a.sale] \in SaleRows
  BY <1>1 DEF States, RowSet
<1>3. [state |-> "LISTED", offer |-> TRUE, bundle |-> b.rows.sales[a.sale].bundle] \in SaleRows
  BY <1>2 DEF SaleRows, SaleStates
<1> QED BY <1>1, <1>3, PutSale DEF LogSaleStart

LEMMA CancelSaleDoes ==
  ASSUME NEW b \in States, NEW a \in Actions, a.name = "cancelsale", b.rows.sales[a.sale] # NoSale
  PROVE  WithSale(b, CancelSale(b, a), a.sale, [b.rows.sales[a.sale] EXCEPT !.state = "CANCELED"], b.begun)
<1>1. a.sale \in Sales
  BY ActionKinds
<1>2. b.rows.sales[a.sale] \in SaleRows
  BY <1>1 DEF States, RowSet
<1>3. [b.rows.sales[a.sale] EXCEPT !.state = "CANCELED"] \in SaleRows
  BY <1>2 DEF SaleRows, SaleStates
<1>4. CancelSale(b, a) = [b EXCEPT !.rows.sales[a.sale] = [b.rows.sales[a.sale] EXCEPT !.state = "CANCELED"]]
  BY <1>1 DEF CancelSale, States, RowSet
<1> QED BY <1>1, <1>3, <1>4, PutSale

LEMMA PurchaseSaleDoes ==
  ASSUME NEW b \in States, NEW n, NEW a \in Actions, a.name = "purchasesale", b.rows.sales[a.sale] # NoSale
  PROVE  LET sale == b.rows.sales[a.sale]
         IN  WithSale(b, PurchaseSale(b, n, a), a.sale,
               [state |-> IF sale.state # "SOLD" /\ Dissolves(b.mem, n) /\ (sale.offer => sale.bundle)
                            THEN "CANCELED" ELSE "SOLD",
                offer |-> sale.offer, bundle |-> sale.bundle], TRUE)
<1> DEFINE sale == b.rows.sales[a.sale]
           new == [state |-> IF sale.state # "SOLD" /\ Dissolves(b.mem, n) /\ (sale.offer => sale.bundle)
                            THEN "CANCELED" ELSE "SOLD",
                   offer |-> sale.offer, bundle |-> sale.bundle]
           dissolved == Dissolves(b.mem, n) /\ (sale.offer => sale.bundle)
           cur == [sale EXCEPT !.state = IF @ # "SOLD" /\ dissolved THEN "CANCELED" ELSE "SOLD"]
<1>1. a.sale \in Sales
  BY ActionKinds
<1>2. sale \in SaleRows
  BY <1>1 DEF States, RowSet
<1>3. new \in SaleRows
  BY <1>2 DEF SaleRows, SaleStates
<1>4. cur = new
  <2> HIDE DEF sale
  <2> QED BY <1>2 DEF SaleRows
<1>5. PurchaseSale(b, n, a) = [b EXCEPT !.begun = TRUE, !.rows.sales[a.sale] = new]
  <2>1. PurchaseSale(b, n, a) = [b EXCEPT !.begun = TRUE, !.rows.sales[a.sale] = cur]
    BY DEF PurchaseSale
  <2> HIDE DEF cur, new
  <2> QED BY <1>4, <2>1
<1>6. WithSale(b, PurchaseSale(b, n, a), a.sale, new, TRUE)
  <2> HIDE DEF new
  <2> QED BY <1>1, <1>3, <1>5, PutSale
<1> QED BY <1>6

\* What the row of a sale is when it follows the contract, where the block of
\* the flip is flip.
Fits(row, sale, flip) ==
  /\ sale.state = "WAITING" => row.state = "WAITING" /\ ~row.offer
  /\ sale.state = "LISTED" => row.state = "LISTED" /\ row.offer
  /\ sale.state = "SOLD" => row.state = "SOLD"
  /\ sale.state = "CANCELED" =>
       row.state = "CANCELED" \/ (row.state = "SOLD" /\ flip # Unset /\ sale.at = flip)

\* After the creations between the ledgers l0 and l, from b0 on.
CreatedBetween(b0, b, l0, l) ==
  /\ b \in States /\ SameBut(b0, b) /\ b.begun = b0.begun
  /\ \A s \in Sales :
       b.rows.sales[s] =
         IF l0.sales[s].state = "none" /\ l.sales[s].state # "none"
           THEN [state |-> "WAITING", offer |-> FALSE, bundle |-> l.sales[s].bundle]
           ELSE b0.rows.sales[s]

LEMMA CreateStep ==
  ASSUME NEW b0 \in States, NEW b, NEW l0 \in Ledgers, NEW l \in Ledgers, Leads(l0, l),
         CreatedBetween(b0, b, l0, l), NEW n \in Nat, NEW a \in Actions, Allowed(l, a)
  PROVE  CreatedBetween(b0, Create(b, a), l0, Obey(n, l, a))
<1> DEFINE e == Create(b, a)
           m == Obey(n, l, a)
<1>0. b \in States
  BY DEF CreatedBetween
<1>1. CASE a.name = "lognewsale"
  <2>1. /\ a.sale \in Sales
        /\ WithSale(b, e, a.sale, [state |-> "WAITING", offer |-> FALSE, bundle |-> a.bundle], b.begun)
    BY <1>0, <1>1, LogNewSaleDoes DEF Create
  <2>2. /\ l.sales[a.sale].state = "none"
        /\ m.sales[a.sale] = [state |-> "WAITING", bundle |-> a.bundle, at |-> 0]
    BY <1>1, <2>1, ObeySales
  <2>3. l0.sales[a.sale].state = "none"
    BY <2>1, <2>2 DEF Leads
  <2>4. ASSUME NEW t \in Sales, t # a.sale PROVE m.sales[t] = l.sales[t]
    BY <1>1, <2>4, ObeyOthers DEF On
  <2> HIDE DEF e, m
  <2>5. e \in States /\ SameBut(b0, e) /\ e.begun = b0.begun
    BY <2>1 DEF WithSale, CreatedBetween, SameBut
  <2>6. ASSUME NEW t \in Sales
        PROVE  e.rows.sales[t] =
                 IF l0.sales[t].state = "none" /\ m.sales[t].state # "none"
                   THEN [state |-> "WAITING", offer |-> FALSE, bundle |-> m.sales[t].bundle]
                   ELSE b0.rows.sales[t]
    <3>1. CASE t = a.sale
      <4>1. e.rows.sales[t] = [state |-> "WAITING", offer |-> FALSE, bundle |-> a.bundle]
        BY <2>1, <3>1 DEF WithSale
      <4>2. m.sales[t].state # "none" /\ m.sales[t].bundle = a.bundle
        BY <2>2, <3>1
      <4> QED BY <2>3, <3>1, <4>1, <4>2
    <3>2. CASE t # a.sale
      BY <2>1, <2>4, <3>2 DEF WithSale, CreatedBetween
    <3> QED BY <3>1, <3>2
  <2> QED BY <2>5, <2>6 DEF CreatedBetween, e, m
<1>2. CASE a.name # "lognewsale"
  <2>1. e = b
    BY <1>2 DEF Create
  <2>2. ASSUME NEW t \in Sales
        PROVE  /\ m.sales[t].state = "none" <=> l.sales[t].state = "none"
               /\ m.sales[t].state # "none" => m.sales[t].bundle = l.sales[t].bundle
    <3>1. CASE ~On(a, t)
      BY <3>1, ObeyOthers
    <3>2. CASE On(a, t)
      <4>1. a.sale = t /\ a.name \in {"logsalestart", "cancelsale", "purchasesale"}
        BY <1>2, <3>2, ActionKinds DEF On, IsConfig, ConfigActions
      <4>2. l.sales[t].state # "none"
        BY <4>1, ObeySales
      <4>3. Leads(l, m)
        BY ObeyLeads
      <4> QED BY <4>2, <4>3 DEF Leads
    <3> QED BY <3>1, <3>2
  <2> HIDE DEF e, m
  <2> QED BY <2>1, <2>2 DEF CreatedBetween, e, m
<1> QED BY <1>1, <1>2

\* The transaction b, with the memory m, as of the ledger l, on the way to the
\* ledger last of its group and to the ledger z of what is indexed: sales that
\* have an action to come may have a row that is ahead.
Tracks(b, m, l, last, z, left) ==
  /\ b \in States /\ b.mem = m /\ b.rows.marker = m.marker /\ b.rows.version = m.version
  /\ \A s \in Sales :
       /\ z.sales[s].state # "none" =>
            b.rows.sales[s] # NoSale /\ b.rows.sales[s].bundle = z.sales[s].bundle
       /\ l.sales[s].state = "none" /\ last.sales[s].state # "none" =>
            b.rows.sales[s].state = "WAITING" /\ ~b.rows.sales[s].offer
       /\ Fits(b.rows.sales[s], l.sales[s], m.marker) \/ s \in left

\* One sale changes.
LEMMA TracksSale ==
  ASSUME NEW b, NEW m, NEW l \in Ledgers, NEW last, NEW z, NEW left, Tracks(b, m, l, last, z, left),
         NEW k, NEW s \in Sales, NEW e, NEW row, NEW begun, WithSale(b, e, s, row, begun),
         NEW after,
         k.sales[s].state # "none",
         \A t \in Sales : t # s => k.sales[t] = l.sales[t],
         row # NoSale, row.bundle = b.rows.sales[s].bundle,
         Fits(row, k.sales[s], m.marker),
         \A t \in left : t # s => t \in after
  PROVE  Tracks(e, m, k, last, z, after)
<1>1. e \in States /\ e.mem = m /\ e.rows.marker = m.marker /\ e.rows.version = m.version
  BY DEF Tracks, WithSale, SameBut
<1>2. ASSUME NEW t \in Sales
      PROVE  /\ z.sales[t].state # "none" =>
                  e.rows.sales[t] # NoSale /\ e.rows.sales[t].bundle = z.sales[t].bundle
             /\ k.sales[t].state = "none" /\ last.sales[t].state # "none" =>
                  e.rows.sales[t].state = "WAITING" /\ ~e.rows.sales[t].offer
             /\ Fits(e.rows.sales[t], k.sales[t], m.marker) \/ t \in after
  <2>1. CASE t = s
    <3>1. e.rows.sales[t] = row
      BY <2>1 DEF WithSale
    <3>2. z.sales[t].state # "none" => b.rows.sales[t].bundle = z.sales[t].bundle
      BY DEF Tracks
    <3> QED BY <2>1, <3>1, <3>2
  <2>2. CASE t # s
    <3>1. e.rows.sales[t] = b.rows.sales[t] /\ k.sales[t] = l.sales[t]
      BY <2>2 DEF WithSale
    <3>2. t \in left => t \in after
      BY <2>2
    <3> QED BY <3>1, <3>2 DEF Tracks
  <2> QED BY <2>1, <2>2
<1> QED BY <1>1, <1>2 DEF Tracks

\* Whether the market dissolves bundles, as the ledger l of block n has it and
\* as the memory does.
Agree(l, m, n) ==
  /\ l.version = 2 => m.version = 2 /\ m.marker # Unset /\ m.marker <= n
  /\ m.marker # Unset /\ m.marker < n => l.version = 2

LEMMA ObeyOwn ==
  ASSUME NEW l \in Ledgers, NEW n \in Nat, NEW a \in Actions, Allowed(l, a), ~IsConfig(a)
  PROVE  /\ a.sale \in Sales /\ Obey(n, l, a).sales[a.sale].state # "none"
         /\ a.name = "lognewsale" =>
              l.sales[a.sale].state = "none" /\ Obey(n, l, a).sales[a.sale].state = "WAITING"
<1>1. a.sale \in Sales /\ a.name \in {"lognewsale", "logsalestart", "cancelsale", "purchasesale"}
  BY ActionKinds DEF IsConfig, ConfigActions
<1>2. a.name = "lognewsale" =>
        l.sales[a.sale].state = "none" /\ Obey(n, l, a).sales[a.sale].state = "WAITING"
  BY <1>1 DEF Obey, Allowed, Ledgers
<1>3. a.name # "lognewsale" => Obey(n, l, a).sales[a.sale].state # "none"
  BY <1>1, ObeySales
<1> QED BY <1>1, <1>2, <1>3

LEMMA ObeyPurchase ==
  ASSUME NEW l \in Ledgers, NEW n \in Nat, NEW a \in Actions, Allowed(l, a), a.name = "purchasesale"
  PROVE  LET s == a.sale
             k == Obey(n, l, a)
         IN  /\ \/ l.sales[s].state = "LISTED"
                \/ l.sales[s].state = "WAITING" /\ l.version = 2 /\ l.sales[s].bundle
             /\ k.sales[s].state = IF l.version = 2 /\ l.sales[s].bundle THEN "CANCELED" ELSE "SOLD"
             /\ k.sales[s].at = n /\ k.sales[s].bundle = l.sales[s].bundle
<1>1. a.sale \in Sales
  BY ActionKinds
<1> QED BY <1>1, ObeySales

LEMMA UpdateStep ==
  ASSUME NEW b, NEW m \in MemSet, NEW l \in Ledgers, NEW last \in Ledgers, NEW z \in Ledgers, NEW left,
         Tracks(b, m, l, last, z, left),
         NEW n \in Nat, NEW a \in Actions, Allowed(l, a), Agree(l, m, n),
         Leads(Obey(n, l, a), last), Leads(Obey(n, l, a), z),
         NEW after, \A t \in left : ~On(a, t) => t \in after,
         a.name = "purchasesale" => a.sale \notin left
  PROVE  /\ Tracks(Update(b, n, a), m, Obey(n, l, a), last, z, after)
         /\ b.begun \/ a.name = "purchasesale" => Update(b, n, a).begun
<1> DEFINE e == Update(b, n, a)
           k == Obey(n, l, a)
           s == a.sale
           sale == b.rows.sales[a.sale]
<1>0. b \in States /\ b.mem = m
  BY DEF Tracks
<1>1. ASSUME ~IsConfig(a)
      PROVE  /\ s \in Sales /\ \A t \in Sales : t # s => k.sales[t] = l.sales[t]
             /\ \A t \in left : t # s => t \in after
             /\ k.sales[s].state # "none" /\ last.sales[s].state # "none" /\ z.sales[s].state # "none"
             /\ sale # NoSale /\ sale \in SaleRows
  <2>1. s \in Sales /\ a.name \in {"lognewsale", "logsalestart", "cancelsale", "purchasesale"}
    BY <1>1, ActionKinds DEF IsConfig, ConfigActions
  <2>2. \A t \in Sales : t # s => k.sales[t] = l.sales[t]
    BY ObeyOthers DEF On
  <2>3. k.sales[s].state # "none"
    BY <1>1, ObeyOwn
  <2>4. last.sales[s].state # "none" /\ z.sales[s].state # "none"
    BY <2>1, <2>3 DEF Leads
  <2>5. sale # NoSale
    BY <2>1, <2>4 DEF Tracks
  <2>6. sale \in SaleRows
    BY <1>0, <2>1, <2>5 DEF States, RowSet
  <2>7. \A t \in left : t # s => t \in after
    BY DEF On
  <2> QED BY <2>1, <2>2, <2>3, <2>4, <2>5, <2>6, <2>7
<1>2. CASE IsConfig(a)
  <2>1. e = b
    BY <1>2 DEF Update, IsConfig, ConfigActions
  <2>2. \A t \in Sales : k.sales[t] = l.sales[t] /\ ~On(a, t)
    BY <1>2, ObeyOthers DEF On
  <2>3. a.name # "purchasesale"
    BY <1>2 DEF IsConfig, ConfigActions
  <2> HIDE DEF e, k
  <2>4. Tracks(e, m, k, last, z, after)
    BY <2>1, <2>2 DEF Tracks
  <2> QED BY <2>1, <2>3, <2>4 DEF e, k
<1>3. CASE a.name = "lognewsale"
  <2>1. e = b
    BY <1>3 DEF Update
  <2>2. ~IsConfig(a)
    BY <1>3 DEF IsConfig, ConfigActions
  <2>3. l.sales[s].state = "none" /\ k.sales[s].state = "WAITING"
    BY <1>3, <2>2, ObeyOwn
  <2>4. Fits(b.rows.sales[s], k.sales[s], m.marker)
    BY <1>1, <2>2, <2>3 DEF Tracks, Fits
  <2>5. ASSUME NEW t \in Sales
        PROVE  /\ k.sales[t].state = "none" => l.sales[t].state = "none"
               /\ Fits(b.rows.sales[t], k.sales[t], m.marker) \/ t \in after
    <3>1. CASE t = s
      BY <2>3, <2>4, <3>1
    <3>2. CASE t # s
      BY <1>1, <2>2, <3>2 DEF Tracks
    <3> QED BY <3>1, <3>2
  <2> HIDE DEF e, k
  <2>6. Tracks(e, m, k, last, z, after)
    BY <2>1, <2>5 DEF Tracks
  <2> QED BY <1>3, <2>1, <2>6 DEF e, k
<1>4. CASE a.name = "logsalestart"
  <2>1. ~IsConfig(a) /\ e = LogSaleStart(b, a)
    BY <1>4 DEF IsConfig, ConfigActions, Update
  <2>2. WithSale(b, e, s, [state |-> "LISTED", offer |-> TRUE, bundle |-> sale.bundle], b.begun)
    BY <1>0, <1>1, <1>4, <2>1, LogSaleStartDoes
  <2>3. k.sales[s].state = "LISTED"
    BY ZenonT(60), <1>1, <1>4, <2>1, ObeySales
  <2> DEFINE row == [state |-> "LISTED", offer |-> TRUE, bundle |-> sale.bundle]
  <2>4. row # NoSale /\ row.bundle = sale.bundle /\ Fits(row, k.sales[s], m.marker)
    BY <2>3 DEF NoSale, Fits
  <2>5. Tracks(e, m, k, last, z, after)
    <3> HIDE DEF row, e, k
    <3> QED BY <1>1, <2>1, <2>2, <2>4, TracksSale DEF row
  <2> QED BY <1>4, <2>2, <2>5 DEF WithSale
<1>5. CASE a.name = "cancelsale"
  <2> DEFINE row == [sale EXCEPT !.state = "CANCELED"]
  <2>1. ~IsConfig(a) /\ e = CancelSale(b, a)
    BY <1>5 DEF IsConfig, ConfigActions, Update
  <2>2. WithSale(b, e, s, row, b.begun)
    BY <1>0, <1>1, <1>5, <2>1, CancelSaleDoes
  <2>3. k.sales[s].state = "CANCELED"
    BY ZenonT(60), <1>1, <1>5, <2>1, ObeySales
  <2>4. row.state = "CANCELED" /\ row.bundle = sale.bundle /\ row # NoSale
    BY <1>1, <2>1 DEF SaleRows, NoSale
  <2>5. Fits(row, k.sales[s], m.marker)
    <3> HIDE DEF row, k
    <3> QED BY <2>3, <2>4 DEF Fits
  <2>6. Tracks(e, m, k, last, z, after)
    <3> HIDE DEF row, e, k
    <3> QED BY <1>1, <2>1, <2>2, <2>4, <2>5, TracksSale
  <2> QED BY <1>5, <2>2, <2>6 DEF WithSale
<1>6. CASE a.name = "purchasesale"
  <2> DEFINE row == [state |-> IF sale.state # "SOLD" /\ Dissolves(b.mem, n) /\ (sale.offer => sale.bundle)
                                 THEN "CANCELED" ELSE "SOLD",
                     offer |-> sale.offer, bundle |-> sale.bundle]
  <2>1. ~IsConfig(a) /\ e = PurchaseSale(b, n, a)
    BY <1>6 DEF IsConfig, ConfigActions, Update
  <2>2. WithSale(b, e, s, row, TRUE)
    BY <1>0, <1>1, <1>6, <2>1, PurchaseSaleDoes
  <2>3. /\ \/ l.sales[s].state = "LISTED"
           \/ l.sales[s].state = "WAITING" /\ l.version = 2 /\ l.sales[s].bundle
        /\ k.sales[s].state = IF l.version = 2 /\ l.sales[s].bundle THEN "CANCELED" ELSE "SOLD"
        /\ k.sales[s].at = n /\ k.sales[s].bundle = l.sales[s].bundle
    BY <1>6, ObeyPurchase
  <2>4. Fits(sale, l.sales[s], m.marker)
    BY <1>1, <1>6, <2>1 DEF Tracks
  <2>5. sale.bundle = l.sales[s].bundle
    <3>1. sale.bundle = z.sales[s].bundle
      BY <1>1, <2>1 DEF Tracks
    <3>2. z.sales[s].bundle = k.sales[s].bundle
      BY <1>1, <2>1 DEF Leads
    <3> QED BY <2>3, <3>1, <3>2
  <2>6. sale.state # "SOLD" /\ (sale.offer <=> l.sales[s].state = "LISTED")
    BY <2>3, <2>4 DEF Fits
  <2>7. m.marker \in Nat /\ m.version \in 1..2 /\ l.version \in 1..2
    BY DEF MemSet, Ledgers, Versions
  <2>8. Dissolves(b.mem, n) <=> m.version = 2 /\ m.marker # Unset /\ m.marker < n
    BY <1>0, <2>7 DEF Dissolves
  <2>9. row.state = IF Dissolves(b.mem, n) /\ (sale.offer => sale.bundle) THEN "CANCELED" ELSE "SOLD"
    BY <2>6
  <2>10. row.bundle = sale.bundle /\ row # NoSale
    BY DEF NoSale
  <2>11. Fits(row, k.sales[s], m.marker)
    <3> HIDE DEF row, k, sale
    <3>1. CASE l.version = 1
      <4>1. ~Dissolves(b.mem, n)
        BY <2>8, <3>1 DEF Agree
      <4> QED BY <2>3, <2>9, <3>1, <4>1 DEF Fits
    <3>2. CASE l.version = 2 /\ m.marker = n
      <4>1. ~Dissolves(b.mem, n)
        BY <2>7, <2>8, <3>2
      <4>2. row.state = "SOLD" /\ m.marker # Unset
        BY <2>9, <3>2, <4>1 DEF Agree
      <4> QED BY <2>3, <3>2, <4>2 DEF Fits
    <3>3. CASE l.version = 2 /\ m.marker # n
      <4>1. Dissolves(b.mem, n)
        BY <2>7, <2>8, <3>3 DEF Agree
      <4>2. row.state = IF l.sales[s].bundle THEN "CANCELED" ELSE "SOLD"
        BY <2>3, <2>5, <2>6, <2>9, <4>1
      <4> QED BY <2>3, <3>3, <4>2 DEF Fits
    <3> QED BY <2>7, <3>1, <3>2, <3>3
  <2>12. Tracks(e, m, k, last, z, after)
    <3>1. k.sales[s].state # "none" /\ \A t \in Sales : t # s => k.sales[t] = l.sales[t]
      BY <1>1, <2>1
    <3>2. s \in Sales /\ \A t \in left : t # s => t \in after
      BY <1>1, <2>1
    <3> HIDE DEF row, e, k
    <3>3. WithSale(b, e, s, row, e.begun)
      BY <2>2 DEF WithSale
    <3> QED BY <3>1, <3>2, <3>3, <2>10, <2>11, TracksSale
  <2> QED BY <2>2, <2>12 DEF WithSale
<1> QED BY <1>2, <1>3, <1>4, <1>5, <1>6, ActionKinds DEF IsConfig, ConfigActions

-----------------------------------------------------------------------------
(* The three rounds of a group of blocks.                                   *)

\* The config as of block n, in the row and in memory.
ConfigAsOf(b, n) ==
  b \in States /\ Remembers(b.rows, b.mem) /\ b.rows.marker = At(chain, n).flip

HasConfig(n) == \E i \in DOMAIN chain[n] : IsConfig(chain[n][i])

LEMMA ConfigStep ==
  ASSUME chain \in Seq(Seq(Actions)), Legal(chain), NEW n \in 1..Len(chain),
         NEW b, ConfigAsOf(b, n - 1)
  PROVE  LET e == RunConfig(b, n)
         IN  /\ ConfigAsOf(e, n) /\ e.rows.sales = b.rows.sales
             /\ b.begun \/ (HasConfig(n) /\ At(chain, n).version = 2) => e.begun
<1> DEFINE p == At(chain, n - 1)
           c == At(chain, n)
<1>0. n - 1 \in 0..Len(chain) /\ n \in 0..Len(chain) /\ n \in Nat /\ n # 0
  OBVIOUS
<1>1. p \in Ledgers /\ c \in Ledgers /\ Dated(p, n - 1) /\ Dated(c, n)
  BY <1>0, ChainPoints, AtDated
<1>2. /\ Leads(p, c)
      /\ p.version = 1 =>
           \/ c.version = 1
           \/ c.flip = n /\ \E i \in DOMAIN chain[n] : chain[n][i].name = "setversion"
  BY AtMoves
<1>3. p.version \in 1..2 /\ c.version \in 1..2 /\ p.flip \in Nat /\ c.flip \in Nat /\ c.tokens \in SUBSET Tokens
  BY <1>1 DEF Ledgers, Versions
<1>4. HasConfig(n) <=> \E i \in DOMAIN chain[n] : chain[n][i].name \in ConfigActions
  BY DEF HasConfig, IsConfig
<1>5. b \in States /\ Remembers(b.rows, b.mem) /\ b.rows.marker = p.flip
  BY DEF ConfigAsOf
<1>6. /\ b.rows \in RowSet /\ b.mem \in MemSet /\ b.begun \in BOOLEAN /\ b.failed \in BOOLEAN
      /\ b.mem.version = b.rows.version /\ b.mem.marker = b.rows.marker
      /\ b.mem.marker # Unset => b.mem.version = 2
  BY <1>5 DEF States, Remembers
<1>7. CASE ~HasConfig(n)
  <2>1. RunConfig(b, n) = b
    BY <1>4, <1>7 DEF RunConfig
  <2>2. ~\E i \in DOMAIN chain[n] : chain[n][i].name = "setversion"
    BY <1>4, <1>7 DEF ConfigActions
  <2>3. c.flip = p.flip
    <3>1. CASE p.version = 1
      BY <1>1, <1>2, <2>2, <3>1 DEF Dated
    <3>2. CASE p.version = 2
      BY <1>2, <3>2 DEF Leads
    <3> QED BY <1>3, <3>1, <3>2
  <2> HIDE DEF p, c
  <2>4. ConfigAsOf(b, n)
    BY <1>5, <2>3 DEF ConfigAsOf, c
  <2> QED BY <1>7, <2>1, <2>4
<1>8. CASE HasConfig(n)
  <2> DEFINE e == ConfigDelta(b, n, c)
             added == IF Cardinality(b.mem.tokens) = Cardinality(c.tokens) THEN {} ELSE c.tokens \ b.mem.tokens
             marker == FirstMarker(b.rows.marker, n)
  <2>1. RunConfig(b, n) = e
    BY <1>4, <1>8 DEF RunConfig, At
  <2>2. added \in SUBSET Tokens
    BY <1>3
  <2>3. /\ e.rows = [version |-> IF b.mem.version # c.version THEN c.version ELSE b.rows.version,
                     marker |-> IF c.version >= 2 THEN marker ELSE b.rows.marker,
                     tokens |-> b.rows.tokens \cup added, sales |-> b.rows.sales]
        /\ e.mem = [version |-> c.version, marker |-> IF c.version >= 2 THEN marker ELSE b.mem.marker,
                    tokens |-> c.tokens]
        /\ e.begun = (b.begun \/ c.version >= 2)
        /\ e.failed = (b.failed \/ added \cap b.rows.tokens # {})
        /\ e = [rows |-> e.rows, mem |-> e.mem, begun |-> e.begun, failed |-> e.failed]
    BY DEF ConfigDelta
  <2>4. c.version >= 2 <=> c.version = 2
    BY <1>3
  <2>5. marker \in Nat /\ (c.version = 2 => marker = c.flip /\ marker # Unset)
    <3>1. CASE p.version = 1
      <4>1. b.rows.marker = Unset
        BY <1>1, <1>5, <3>1 DEF Dated
      <4>2. marker = n
        BY <4>1 DEF FirstMarker
      <4> QED BY <1>0, <1>2, <3>1, <4>2 DEF Unset
    <3>2. CASE p.version = 2
      <4>1. b.rows.marker # Unset /\ c.flip = p.flip
        BY <1>1, <1>2, <1>5, <3>2 DEF Dated, Leads
      <4>2. marker = p.flip
        BY <1>5, <4>1 DEF FirstMarker
      <4> QED BY <1>3, <1>5, <4>1, <4>2
    <3> QED BY <1>3, <3>1, <3>2
  <2>6. c.version = 1 => b.rows.marker = Unset /\ c.flip = Unset
    <3>1. ASSUME c.version = 1 PROVE p.version = 1
      BY <1>2, <1>3, <3>1 DEF Leads
    <3> QED BY <1>1, <1>5, <3>1 DEF Dated
  <2> HIDE DEF e, added, marker, c
  <2>7. e.rows \in RowSet
    BY <1>3, <1>6, <2>2, <2>3, <2>5 DEF RowSet, Versions
  <2>8. e.mem \in MemSet
    BY <1>3, <1>6, <2>2, <2>3, <2>5 DEF MemSet, Versions
  <2>9. e \in States
    <3>1. e.begun \in BOOLEAN /\ e.failed \in BOOLEAN
      BY <2>3
    <3> QED BY <2>3, <2>7, <2>8, <3>1 DEF States
  <2>10. e.rows.marker = c.flip /\ e.rows.sales = b.rows.sales
    BY <1>3, <2>3, <2>4, <2>5, <2>6
  <2>11. Remembers(e.rows, e.mem)
    BY <1>3, <1>6, <2>3, <2>4, <2>5, <2>6 DEF Remembers
  <2>12. b.begun \/ c.version = 2 => e.begun
    BY <2>3, <2>4
  <2> QED BY <2>1, <2>9, <2>10, <2>11, <2>12 DEF ConfigAsOf, c
<1> QED BY <1>7, <1>8

LEMMA ConfigRound ==
  ASSUME chain \in Seq(Seq(Actions)), Legal(chain), NEW first \in 1..Len(chain),
         NEW last \in first..Len(chain), NEW b, ConfigAsOf(b, first - 1)
  PROVE  LET e == Through(RunConfig, b, [i \in 1..(last - first + 1) |-> first + i - 1])
         IN  /\ ConfigAsOf(e, last) /\ e.rows.sales = b.rows.sales
             /\ b.begun => e.begun
             /\ \A n \in first..last : HasConfig(n) /\ At(chain, n).version = 2 => e.begun
<1> DEFINE N == last - first + 1
           P(f, i) == /\ ConfigAsOf(f[i], first + i - 1) /\ f[i].rows.sales = b.rows.sales
                      /\ b.begun => f[i].begun
                      /\ \A n \in first..(first + i - 1) :
                           HasConfig(n) /\ At(chain, n).version = 2 => f[i].begun
<1>0. first \in Nat /\ last \in Nat /\ first <= last /\ Len(chain) \in Nat /\ N \in Nat /\ first # 0
  OBVIOUS
<1>1. PICK f : IsConfigRun(f, b, first, last)
  BY <1>0, ConfigRun
<1> DEFINE T == {i \in 0..N : P(f, i)}
<1>2. 0 \in T
  <2>1. f[0] = b
    BY <1>1 DEF IsConfigRun
  <2>2. first + 0 - 1 = first - 1 /\ first..(first - 1) = {} /\ 0 \in 0..N
    BY <1>0
  <2> QED BY <2>1, <2>2
<1>3. ASSUME NEW i \in (0 + 1)..N, i - 1 \in T PROVE i \in T
  <2> DEFINE n == first + i - 1
  <2>1. /\ i \in 1..N /\ i \in 0..N /\ n \in 1..Len(chain) /\ first + (i - 1) - 1 = n - 1
        /\ \A k \in first..n : k \in first..(n - 1) \/ k = n
    BY <1>0
  <2>2. f[i] = RunConfig(f[i - 1], n)
    BY <1>1, <2>1 DEF IsConfigRun
  <2>3. P(f, i - 1)
    BY <1>3
  <2>4. ConfigAsOf(f[i - 1], n - 1)
    BY <2>1, <2>3
  <2> HIDE DEF n
  <2>5. /\ ConfigAsOf(f[i], n) /\ f[i].rows.sales = f[i - 1].rows.sales
        /\ f[i - 1].begun \/ (HasConfig(n) /\ At(chain, n).version = 2) => f[i].begun
    BY <2>1, <2>2, <2>4, ConfigStep
  <2>6. P(f, i)
    BY <2>1, <2>3, <2>5 DEF n
  <2> QED BY <2>1, <2>6
<1>4. \A i \in 0..N : i \in T
  <2> HIDE DEF T, N
  <2> QED BY <1>0, <1>2, <1>3, Upward
<1>5. P(f, N) /\ first + N - 1 = last
  BY <1>0, <1>4
<1>6. Through(RunConfig, b, [i \in 1..N |-> first + i - 1]) = f[N]
  BY <1>1 DEF IsConfigRun
<1> QED BY <1>5, <1>6

LEMMA CreateBlock ==
  ASSUME chain \in Seq(Seq(Actions)), Legal(chain), NEW n \in 1..Len(chain),
         NEW b0 \in States, NEW b, NEW l0 \in Ledgers, Leads(l0, At(chain, n - 1)),
         CreatedBetween(b0, b, l0, At(chain, n - 1))
  PROVE  CreatedBetween(b0, RunCreate(b, n), l0, At(chain, n))
<1> DEFINE L == At(chain, n - 1)
           B == chain[n]
<1>1. /\ L \in Ledgers /\ At(chain, n) = AfterBlock(L, n, B)
      /\ B \in Seq(Actions) /\ n \in Nat \ {0}
  BY LegalBlock
<1>2. PICK f : Points(f, L, n, B)
  BY LegalBlock
<1>3. PICK g : IsCreateRun(g, b, n)
  BY <1>1, CreateRun
<1> HIDE DEF L
<1> DEFINE T == {i \in 0..Len(B) : CreatedBetween(b0, g[i], l0, f[i])}
<1>0. Len(B) \in Nat /\ 0 \in 0..Len(B) /\ Len(B) \in 0..Len(B)
  BY <1>1
<1>4. 0 \in T
  <2>1. g[0] = b /\ f[0] = L
    BY <1>2, <1>3 DEF IsCreateRun, Points
  <2> QED BY <1>0, <2>1 DEF L
<1>5. ASSUME NEW i \in (0 + 1)..Len(B), i - 1 \in T PROVE i \in T
  <2>1. i \in 1..Len(B) /\ i \in 0..Len(B) /\ i - 1 \in 0..Len(B)
    BY <1>0
  <2>2. B[i] \in Actions
    BY <1>1, <2>1
  <2>3. /\ g[i] = Create(g[i - 1], B[i]) /\ f[i] = Obey(n, f[i - 1], B[i])
        /\ Allowed(f[i - 1], B[i]) /\ f[i - 1] \in Ledgers
    BY <1>2, <1>3, <2>1 DEF IsCreateRun, Points
  <2>4. Leads(l0, f[i - 1])
    <3>1. Leads(f[0], f[i - 1]) /\ f[0] = L
      BY <1>0, <1>1, <1>2, <2>1, PointsLead DEF Points
    <3>2. Leads(l0, L)
      BY DEF L
    <3> QED BY <3>1, <3>2 DEF Leads
  <2>5. CreatedBetween(b0, g[i - 1], l0, f[i - 1])
    BY <1>5
  <2> HIDE DEF B
  <2>6. CreatedBetween(b0, Create(g[i - 1], B[i]), l0, Obey(n, f[i - 1], B[i]))
    BY <1>1, <2>2, <2>3, <2>4, <2>5, CreateStep
  <2> QED BY <2>1, <2>3, <2>6
<1>6. \A i \in 0..Len(B) : i \in T
  <2> HIDE DEF T, B
  <2> QED BY <1>0, <1>4, <1>5, Upward
<1>7. CreatedBetween(b0, g[Len(B)], l0, f[Len(B)])
  BY <1>0, <1>6
<1>8. g[Len(B)] = RunCreate(b, n) /\ f[Len(B)] = At(chain, n)
  BY <1>1, <1>2, <1>3 DEF IsCreateRun, Points
<1> QED BY <1>7, <1>8

LEMMA CreateRound ==
  ASSUME chain \in Seq(Seq(Actions)), Legal(chain), NEW first \in 1..Len(chain),
         NEW last \in first..Len(chain), NEW b \in States
  PROVE  CreatedBetween(b, Through(RunCreate, b, [i \in 1..(last - first + 1) |-> first + i - 1]),
                        At(chain, first - 1), At(chain, last))
<1> DEFINE N == last - first + 1
           L == At(chain, first - 1)
           P(f, i) == CreatedBetween(b, f[i], L, At(chain, first + i - 1))
<1>0. first \in Nat /\ last \in Nat /\ first <= last /\ Len(chain) \in Nat /\ N \in Nat /\ first # 0
      /\ first - 1 \in 0..Len(chain)
  OBVIOUS
<1>1. PICK f : IsCreatesRun(f, b, first, last)
  BY <1>0, CreatesRun
<1> DEFINE T == {i \in 0..N : P(f, i)}
<1>2. 0 \in T
  <2>1. f[0] = b
    BY <1>1 DEF IsCreatesRun
  <2>2. first + 0 - 1 = first - 1 /\ 0 \in 0..N
    BY <1>0
  <2>3. CreatedBetween(b, b, L, L)
    BY DEF CreatedBetween, SameBut
  <2> QED BY <2>1, <2>2, <2>3
<1>3. ASSUME NEW i \in (0 + 1)..N, i - 1 \in T PROVE i \in T
  <2> DEFINE n == first + i - 1
  <2>1. /\ i \in 1..N /\ i \in 0..N /\ n \in 1..Len(chain) /\ first + (i - 1) - 1 = n - 1
        /\ n - 1 \in (first - 1)..Len(chain)
    BY <1>0
  <2>2. f[i] = RunCreate(f[i - 1], n)
    BY <1>1, <2>1 DEF IsCreatesRun
  <2>3. CreatedBetween(b, f[i - 1], L, At(chain, n - 1))
    BY <1>3, <2>1
  <2>4. L \in Ledgers
    BY <1>0, ChainPoints
  <2>5. Leads(L, At(chain, n - 1))
    BY <1>0, <2>1, AtLeads
  <2> HIDE DEF n, L
  <2>6. CreatedBetween(b, RunCreate(f[i - 1], n), L, At(chain, n))
    BY <2>1, <2>3, <2>4, <2>5, CreateBlock
  <2> QED BY <2>1, <2>2, <2>6 DEF n
<1>4. \A i \in 0..N : i \in T
  <2> HIDE DEF T, N
  <2> QED BY <1>0, <1>2, <1>3, Upward
<1>5. P(f, N) /\ first + N - 1 = last
  BY <1>0, <1>4
<1>6. Through(RunCreate, b, [i \in 1..N |-> first + i - 1]) = f[N]
  BY <1>1 DEF IsCreatesRun
<1> QED BY <1>5, <1>6

ActedOn(k, q) == {s \in Sales : Acted(chain, k, q, s)}
HasPurchase(n) == \E i \in DOMAIN chain[n] : chain[n][i].name = "purchasesale"

LEMMA UpdateBlock ==
  ASSUME chain \in Seq(Seq(Actions)), Legal(chain), NEW n \in 1..Len(chain), NEW last \in n..Len(chain),
         NEW q \in 0..Len(chain), n <= q => ~HasPurchase(n),
         NEW m \in MemSet, m.marker = At(chain, last).flip, m.marker # Unset => m.version = 2,
         NEW z \in Ledgers, Leads(At(chain, n), z),
         NEW b, Tracks(b, m, At(chain, n - 1), At(chain, last), z, ActedOn(n - 1, q))
  PROVE  /\ Tracks(RunUpdate(b, n), m, At(chain, n), At(chain, last), z, ActedOn(n, q))
         /\ b.begun \/ HasPurchase(n) => RunUpdate(b, n).begun
<1> DEFINE L == At(chain, n - 1)
           M == At(chain, last)
           B == chain[n]
           left(i) == {s \in Sales : (n <= q /\ \E h \in (i + 1)..Len(B) : On(B[h], s)) \/ Acted(chain, n, q, s)}
<1>0. /\ L \in Ledgers /\ At(chain, n) = AfterBlock(L, n, B)
      /\ B \in Seq(Actions) /\ n \in Nat \ {0} /\ n - 1 \in 0..Len(chain) /\ last \in 0..Len(chain)
      /\ last \in (n - 1)..Len(chain) /\ n \in 0..Len(chain) /\ n \in Nat /\ q \in Nat
  <2>1. /\ L \in Ledgers /\ At(chain, n) = AfterBlock(L, n, B)
        /\ B \in Seq(Actions) /\ n \in Nat \ {0}
    BY LegalBlock
  <2> QED BY <2>1
<1>1. PICK f : Points(f, L, n, B)
  BY LegalBlock
<1>2. PICK g : IsUpdateRun(g, b, n)
  BY <1>0, UpdateRun
<1>3. Len(B) \in Nat /\ 0 \in 0..Len(B) /\ Len(B) \in 0..Len(B) /\ DOMAIN B = 1..Len(B)
  BY <1>0
<1>4. M \in Ledgers /\ Dated(M, last) /\ Dated(L, n - 1)
  BY <1>0, ChainPoints, AtDated
<1>5. /\ Leads(At(chain, n), M)
      /\ L.version = 1 => M.version = 1 \/ M.flip > n - 1
  <2>1. Leads(At(chain, n), M)
    BY <1>0, AtLeads
  <2>2. L.version = 1 => M.version = 1 \/ M.flip > n - 1
    BY <1>0, AtLeads
  <2> QED BY <2>1, <2>2
<1>6. left(0) = ActedOn(n - 1, q)
  <2>1. ASSUME NEW s \in Sales
        PROVE  ((n <= q /\ \E h \in (0 + 1)..Len(B) : On(B[h], s)) \/ Acted(chain, n, q, s)) <=> Acted(chain, n - 1, q, s)
    <3>1. \A j : j \in ((n - 1) + 1)..q <=> ((n <= q /\ j = n) \/ j \in (n + 1)..q)
      BY <1>0
    <3>2. 0 + 1 = 1
      OBVIOUS
    <3> HIDE DEF B
    <3>3. Acted(chain, n - 1, q, s) <=> \E j : j \in ((n - 1) + 1)..q /\ \E i \in DOMAIN chain[j] : On(chain[j][i], s)
      BY DEF Acted
    <3>4. Acted(chain, n, q, s) <=> \E j : j \in (n + 1)..q /\ \E i \in DOMAIN chain[j] : On(chain[j][i], s)
      BY DEF Acted
    <3>5. (\E h \in (0 + 1)..Len(B) : On(B[h], s)) <=> \E i \in DOMAIN chain[n] : On(chain[n][i], s)
      BY <1>3, <3>2 DEF B
    <3> HIDE DEF Acted
    <3> QED BY <3>1, <3>3, <3>4, <3>5, Zenon
  <2> QED BY <2>1 DEF ActedOn
<1>7. left(Len(B)) = ActedOn(n, q)
  <2>1. (Len(B) + 1)..Len(B) = {}
    BY <1>3
  <2> QED BY <2>1 DEF ActedOn
<1>8. ASSUME NEW i \in 0..Len(B) PROVE Agree(f[i], m, n) /\ f[i] \in Ledgers /\ Leads(f[i], M) /\ Leads(f[i], z)
  <2>1. f[i] \in Ledgers /\ f[0] = L /\ f[Len(B)] = At(chain, n)
    BY <1>0, <1>1 DEF Points
  <2>2. Leads(f[i], f[Len(B)])
    <3>1. Len(B) \in i..Len(B)
      BY <1>3
    <3> QED BY <1>0, <1>1, <3>1, PointsLead
  <2>3. Leads(f[0], f[i])
    <3>1. i \in 0..Len(B) /\ 0 \in 0..Len(B)
      BY <1>3
    <3> QED BY <1>0, <1>1, <3>1, PointsLead
  <2>4. Dated(f[i], n)
    BY <1>0, <1>1, <1>4, PointsMove
  <2> HIDE DEF L, M, B
  <2>5. Leads(f[i], M) /\ Leads(f[i], z)
    BY <1>5, <2>1, <2>2 DEF Leads
  <2>6. f[i].version \in 1..2 /\ M.flip \in Nat /\ L.version \in 1..2
    BY <1>0, <1>4, <2>1 DEF Ledgers, Versions
  <2>7. m.marker = M.flip
    BY DEF M
  <2>8. f[i].version = 2 => m.version = 2 /\ m.marker # Unset /\ m.marker <= n
    BY <2>4, <2>5, <2>7 DEF Leads, Dated
  <2>9. ASSUME m.marker # Unset, m.marker < n PROVE f[i].version = 2
    <3>1. SUFFICES ASSUME f[i].version = 1 PROVE FALSE
      BY <2>6
    <3>2. L.version = 1
      BY <2>1, <2>3, <2>6, <3>1 DEF Leads
    <3>3. M.flip > n - 1
      BY <1>4, <1>5, <2>7, <2>9, <3>2 DEF Dated
    <3> QED BY <1>0, <2>6, <2>7, <2>9, <3>3
  <2> QED BY <2>1, <2>5, <2>8, <2>9 DEF Agree
<1> DEFINE P(i) == /\ Tracks(g[i], m, f[i], M, z, left(i))
                   /\ b.begun \/ (\E h \in 1..i : B[h].name = "purchasesale") => g[i].begun
           T == {i \in 0..Len(B) : P(i)}
<1>9. 0 \in T
  <2>1. g[0] = b /\ f[0] = L
    BY <1>1, <1>2 DEF IsUpdateRun, Points
  <2>2. Tracks(b, m, L, M, z, ActedOn(n - 1, q))
    OBVIOUS
  <2>3. 1..0 = {}
    OBVIOUS
  <2> HIDE DEF L, M, B, left
  <2> QED BY <1>3, <1>6, <2>1, <2>2, <2>3
<1>10. ASSUME NEW i \in (0 + 1)..Len(B), i - 1 \in T PROVE i \in T
  <2>1. i \in 1..Len(B) /\ i \in 0..Len(B) /\ i - 1 \in 0..Len(B) /\ i \in Nat
    BY <1>3
  <2>2. B[i] \in Actions
    BY <1>0, <2>1
  <2>3. /\ g[i] = Update(g[i - 1], n, B[i]) /\ f[i] = Obey(n, f[i - 1], B[i])
        /\ Allowed(f[i - 1], B[i])
    BY <1>1, <1>2, <2>1 DEF IsUpdateRun, Points
  <2>4. Agree(f[i - 1], m, n) /\ f[i - 1] \in Ledgers /\ Leads(f[i], M) /\ Leads(f[i], z)
    BY <1>8, <2>1
  <2>5. P(i - 1)
    BY <1>10
  <2>6. \A t \in left(i - 1) : ~On(B[i], t) => t \in left(i)
    <3>1. \A h \in ((i - 1) + 1)..Len(B) : h = i \/ h \in (i + 1)..Len(B)
      BY <2>1
    <3> HIDE DEF B
    <3> QED BY <3>1, Zenon
  <2>7. ASSUME B[i].name = "purchasesale" PROVE B[i].sale \notin left(i - 1)
    <3>0. HasPurchase(n)
      <4>1. i \in DOMAIN chain[n] /\ chain[n][i].name = "purchasesale"
        BY <1>3, <2>1, <2>7
      <4> QED BY <4>1 DEF HasPurchase
    <3>1. n > q
      BY <1>0, <3>0
    <3>2. (n + 1)..q = {}
      BY <1>0, <3>1
    <3>3. ~(n <= q)
      BY <1>0, <3>1
    <3>4. \A s : ~Acted(chain, n, q, s)
      BY <3>2 DEF Acted
    <3> QED BY <3>3, <3>4
  <2>8. /\ Tracks(Update(g[i - 1], n, B[i]), m, Obey(n, f[i - 1], B[i]), M, z, left(i))
        /\ g[i - 1].begun \/ B[i].name = "purchasesale" => Update(g[i - 1], n, B[i]).begun
    <3> DEFINE x == g[i - 1]
               y == f[i - 1]
               a == B[i]
               lft == left(i - 1)
               aft == left(i)
    <3>1. /\ Tracks(x, m, y, M, z, lft) /\ y \in Ledgers /\ a \in Actions /\ Allowed(y, a) /\ Agree(y, m, n)
          /\ Leads(Obey(n, y, a), M) /\ Leads(Obey(n, y, a), z)
      BY <2>2, <2>3, <2>4, <2>5
    <3>2. \A t \in lft : ~On(a, t) => t \in aft
      BY <2>6
    <3>3. a.name = "purchasesale" => a.sale \notin lft
      BY <2>7
    <3> HIDE DEF x, y, a, lft, aft, M
    <3>4. /\ Tracks(Update(x, n, a), m, Obey(n, y, a), M, z, aft)
          /\ x.begun \/ a.name = "purchasesale" => Update(x, n, a).begun
      BY <1>0, <1>4, <3>1, <3>2, <3>3, UpdateStep
    <3> QED BY <3>4 DEF x, y, a, aft
  <2>9. \A h \in 1..i : h = i \/ h \in 1..(i - 1)
    BY <2>1
  <2> HIDE DEF L, M, B, left
  <2>10. b.begun \/ (\E h \in 1..i : B[h].name = "purchasesale") => g[i].begun
    BY <2>3, <2>5, <2>8, <2>9
  <2> QED BY <2>1, <2>3, <2>8, <2>10
<1>11. \A i \in 0..Len(B) : i \in T
  <2> HIDE DEF T, B
  <2> QED BY <1>3, <1>9, <1>10, Upward
<1>12. P(Len(B))
  BY <1>3, <1>11
<1>13. g[Len(B)] = RunUpdate(b, n) /\ f[Len(B)] = At(chain, n)
  BY <1>0, <1>1, <1>2 DEF IsUpdateRun, Points
<1>14. HasPurchase(n) => \E h \in 1..Len(B) : B[h].name = "purchasesale"
  BY <1>3 DEF HasPurchase
<1> HIDE DEF L, M, B, left
<1> QED BY <1>7, <1>12, <1>13, <1>14 DEF M

LEMMA UpdateRound ==
  ASSUME chain \in Seq(Seq(Actions)), Legal(chain), NEW first \in 1..Len(chain),
         NEW last \in first..Len(chain), NEW q \in 0..Len(chain),
         \A n \in first..q : ~HasPurchase(n),
         NEW m \in MemSet, m.marker = At(chain, last).flip, m.marker # Unset => m.version = 2,
         NEW z \in Ledgers, Leads(At(chain, last), z),
         NEW b, Tracks(b, m, At(chain, first - 1), At(chain, last), z, ActedOn(first - 1, q))
  PROVE  LET e == Through(RunUpdate, b, [i \in 1..(last - first + 1) |-> first + i - 1])
         IN  /\ Tracks(e, m, At(chain, last), At(chain, last), z, ActedOn(last, q))
             /\ b.begun => e.begun
             /\ \A n \in first..last : HasPurchase(n) => e.begun
<1> DEFINE N == last - first + 1
           M == At(chain, last)
           P(f, i) == /\ Tracks(f[i], m, At(chain, first + i - 1), M, z, ActedOn(first + i - 1, q))
                      /\ b.begun => f[i].begun
                      /\ \A n \in first..(first + i - 1) : HasPurchase(n) => f[i].begun
<1>0. first \in Nat /\ last \in Nat /\ first <= last /\ Len(chain) \in Nat /\ N \in Nat /\ first # 0
      /\ last \in 0..Len(chain) /\ q \in Nat
  OBVIOUS
<1>1. PICK f : IsUpdatesRun(f, b, first, last)
  BY <1>0, UpdatesRun
<1> DEFINE T == {i \in 0..N : P(f, i)}
<1>2. 0 \in T
  <2>1. f[0] = b
    BY <1>1 DEF IsUpdatesRun
  <2>2. first + 0 - 1 = first - 1 /\ first..(first - 1) = {} /\ 0 \in 0..N
    BY <1>0
  <2> QED BY <2>1, <2>2
<1>3. ASSUME NEW i \in (0 + 1)..N, i - 1 \in T PROVE i \in T
  <2> DEFINE n == first + i - 1
  <2>1. /\ i \in 1..N /\ i \in 0..N /\ n \in 1..Len(chain) /\ first + (i - 1) - 1 = n - 1
        /\ \A k \in first..n : k \in first..(n - 1) \/ k = n
        /\ last \in n..Len(chain) /\ n \in 0..Len(chain) /\ n \in first..last
    <3>1. i \in 1..N /\ i \in 0..N /\ n \in 1..Len(chain) /\ first + (i - 1) - 1 = n - 1
      BY <1>0
    <3>2. last \in n..Len(chain) /\ n \in 0..Len(chain) /\ n \in first..last
      BY <1>0
    <3>3. \A k \in first..n : k \in first..(n - 1) \/ k = n
      BY <1>0, <3>1
    <3> QED BY <3>1, <3>2, <3>3
  <2>2. f[i] = RunUpdate(f[i - 1], n)
    BY <1>1, <2>1 DEF IsUpdatesRun
  <2>3. P(f, i - 1)
    BY <1>3
  <2>4. Tracks(f[i - 1], m, At(chain, n - 1), M, z, ActedOn(n - 1, q))
    BY <2>1, <2>3
  <2>5. n <= q => ~HasPurchase(n)
    <3>1. n <= q => n \in first..q
      BY <1>0, <2>1
    <3> QED BY <3>1
  <2>6. Leads(At(chain, n), z)
    <3>1. Leads(At(chain, n), M)
      BY <2>1, AtLeads
    <3> QED BY <3>1 DEF Leads
  <2> HIDE DEF n
  <2>7. /\ Tracks(RunUpdate(f[i - 1], n), m, At(chain, n), M, z, ActedOn(n, q))
        /\ f[i - 1].begun \/ HasPurchase(n) => RunUpdate(f[i - 1], n).begun
    BY <2>1, <2>4, <2>5, <2>6, UpdateBlock
  <2>8. P(f, i)
    BY <2>1, <2>2, <2>3, <2>7 DEF n
  <2> QED BY <2>1, <2>8
<1>4. \A i \in 0..N : i \in T
  <2> HIDE DEF T, N
  <2> QED BY <1>0, <1>2, <1>3, Upward
<1>5. P(f, N) /\ first + N - 1 = last
  BY <1>0, <1>4
<1>6. Through(RunUpdate, b, [i \in 1..N |-> first + i - 1]) = f[N]
  BY <1>1 DEF IsUpdatesRun
<1> QED BY <1>5, <1>6

-----------------------------------------------------------------------------
(* A group of blocks.  The rows r are as of block k, where blocks up to q     *)
(* were indexed before: a replay has the blocks between before it, which then *)
(* hold no purchase and no config of version 2.                              *)

Holds(r, c, k, q) ==
  /\ r.marker = At(c, q).flip /\ (r.marker # Unset => r.version = 2)
  /\ \A s \in Sales :
       /\ At(c, q).sales[s].state # "none" =>
            r.sales[s] # NoSale /\ r.sales[s].bundle = At(c, q).sales[s].bundle
       /\ Fits(r.sales[s], At(c, k).sales[s], r.marker) \/ Acted(c, k, q, s)

Quiet(c, k, q) ==
  \A j \in (k + 1)..q : \A i \in DOMAIN c[j] :
    c[j][i].name # "purchasesale" /\ (IsConfig(c[j][i]) => At(c, j).version = 1)

LEMMA QuietFlip ==
  ASSUME NEW c \in Seq(Seq(Actions)), Legal(c), NEW k \in 0..Len(c), NEW q \in k..Len(c), Quiet(c, k, q)
  PROVE  At(c, q).flip = At(c, k).flip
<1> DEFINE T == {j \in k..q : At(c, j).flip = At(c, k).flip}
<1>0. k \in Nat /\ q \in Nat /\ k \in k..q /\ q \in k..q /\ Len(c) \in Nat /\ q <= Len(c)
  OBVIOUS
<1>1. k \in T
  BY <1>0
<1>2. ASSUME NEW j \in (k + 1)..q, j - 1 \in T PROVE j \in T
  <2>1. j \in 1..Len(c) /\ j \in k..q /\ j - 1 \in 0..Len(c) /\ j \in 0..Len(c) /\ j # 0
    BY <1>0
  <2>2. /\ Leads(At(c, j - 1), At(c, j))
        /\ At(c, j - 1).version = 1 =>
             \/ At(c, j).version = 1
             \/ At(c, j).flip = j /\ \E i \in DOMAIN c[j] : c[j][i].name = "setversion"
    BY <2>1, AtMoves
  <2>3. At(c, j - 1).version \in 1..2
    BY <2>1, ChainPoints DEF Ledgers, Versions
  <2>4. Dated(At(c, j - 1), j - 1) /\ Dated(At(c, j), j)
    BY <2>1, AtDated
  <2>5. (\E i \in DOMAIN c[j] : c[j][i].name = "setversion") => At(c, j).version = 1
    BY DEF Quiet, IsConfig, ConfigActions
  <2>6. At(c, j).flip = At(c, j - 1).flip
    <3>1. CASE At(c, j - 1).version = 1
      <4>1. At(c, j).version = 1
        BY <2>2, <2>5, <3>1
      <4> QED BY <2>4, <3>1, <4>1 DEF Dated
    <3>2. CASE At(c, j - 1).version = 2
      BY <2>2, <3>2 DEF Leads
    <3> QED BY <2>3, <3>1, <3>2
  <2> QED BY <1>2, <2>1, <2>6
<1>3. \A j \in k..q : j \in T
  <2> HIDE DEF T
  <2> QED BY <1>0, <1>1, <1>2, Upward
<1> QED BY <1>0, <1>3

LEMMA Executes ==
  ASSUME chain \in Seq(Seq(Actions)), Legal(chain), NEW first \in 1..Len(chain),
         NEW last \in first..Len(chain), NEW q \in (first - 1)..Len(chain), Quiet(chain, first - 1, q),
         NEW r \in RowSet, NEW m \in MemSet, Remembers(r, m), Holds(r, chain, first - 1, q)
  PROVE  LET e == Executed(Opened(r, m), first, last)
         IN  /\ e \in States /\ Remembers(e.rows, e.mem)
             /\ Holds(e.rows, chain, last, IF last <= q THEN q ELSE last)
             /\ ~e.begun => Quiet(chain, first - 1, last)
<1> DEFINE group == [i \in 1..(last - first + 1) |-> first + i - 1]
           N == IF last <= q THEN q ELSE last
           b0 == Opened(r, m)
           b1 == Through(RunConfig, b0, group)
           b2 == Through(RunCreate, b1, group)
           b3 == Through(RunUpdate, b2, group)
           L0 == At(chain, first - 1)
           L == At(chain, last)
           Q == At(chain, q)
           Z == At(chain, N)
           m1 == b1.mem
<1>0. /\ first \in Nat /\ last \in Nat /\ q \in Nat /\ Len(chain) \in Nat /\ first # 0
      /\ first <= last /\ last <= Len(chain) /\ q <= Len(chain) /\ first - 1 <= q /\ first - 1 \in Nat
  OBVIOUS
<1>1. /\ first - 1 \in 0..Len(chain) /\ last \in 0..Len(chain) /\ q \in 0..Len(chain)
      /\ N \in 0..Len(chain) /\ N \in Nat /\ last <= N /\ q <= N
      /\ q \in (first - 1)..Len(chain) /\ last \in (first - 1)..Len(chain)
      /\ N \in last..Len(chain) /\ N \in q..Len(chain)
  BY <1>0
<1>2. L0 \in Ledgers /\ L \in Ledgers /\ Q \in Ledgers /\ Z \in Ledgers /\ Dated(L0, first - 1)
  BY <1>1, ChainPoints, AtDated
<1>3. Leads(L0, Q) /\ Leads(L0, L) /\ Leads(L, Z) /\ Leads(Q, Z)
  <2>1. Leads(L0, Q) /\ Leads(L0, L)
    BY <1>1, AtLeads
  <2>2. Leads(L, Z) /\ Leads(Q, Z)
    BY <1>1, AtLeads
  <2> QED BY <2>1, <2>2
<1>4. Executed(Opened(r, m), first, last) = b3
  BY DEF Executed
<1>5. b0 \in States /\ b0.rows = r /\ b0.mem = m /\ ~b0.begun
  BY DEF Opened, States
<1>6. Q.flip = L0.flip
  BY <1>1, QuietFlip
<1>7. ConfigAsOf(b0, first - 1)
  BY <1>5, <1>6 DEF ConfigAsOf, Holds
<1>8. /\ ConfigAsOf(b1, last) /\ b1.rows.sales = r.sales
      /\ \A n \in first..last : HasConfig(n) /\ At(chain, n).version = 2 => b1.begun
  <2> HIDE DEF b0
  <2>1. /\ ConfigAsOf(b1, last) /\ b1.rows.sales = b0.rows.sales
        /\ \A n \in first..last : HasConfig(n) /\ At(chain, n).version = 2 => b1.begun
    BY <1>7, ConfigRound
  <2> QED BY <1>5, <2>1
<1> HIDE DEF b1
<1>9. b1 \in States /\ b1.rows.marker = L.flip /\ Remembers(b1.rows, m1) /\ m1 \in MemSet
  BY <1>8 DEF ConfigAsOf, States
<1>10. CreatedBetween(b1, b2, L0, L)
  BY <1>9, CreateRound
<1> HIDE DEF b2
<1>11. \A n \in first..q : ~HasPurchase(n)
  BY <1>0 DEF Quiet, HasPurchase
<1>12. m1.marker = L.flip /\ (m1.marker # Unset => m1.version = 2)
  BY <1>9 DEF Remembers
<1>13. Tracks(b2, m1, L0, L, Z, ActedOn(first - 1, q))
  <2>1. /\ b2 \in States /\ b2.mem = m1 /\ b2.rows.marker = m1.marker /\ b2.rows.version = m1.version
    BY <1>9, <1>10 DEF CreatedBetween, SameBut, Remembers
  <2>2. ASSUME NEW s \in Sales
        PROVE  /\ Z.sales[s].state # "none" =>
                    b2.rows.sales[s] # NoSale /\ b2.rows.sales[s].bundle = Z.sales[s].bundle
               /\ L0.sales[s].state = "none" /\ L.sales[s].state # "none" =>
                    b2.rows.sales[s].state = "WAITING" /\ ~b2.rows.sales[s].offer
               /\ Fits(b2.rows.sales[s], L0.sales[s], m1.marker) \/ s \in ActedOn(first - 1, q)
    <3>1. /\ Q.sales[s].state # "none" =>
               r.sales[s] # NoSale /\ r.sales[s].bundle = Q.sales[s].bundle
          /\ Fits(r.sales[s], L0.sales[s], r.marker) \/ Acted(chain, first - 1, q, s)
          /\ r.marker = L0.flip
      BY <1>6 DEF Holds
    <3>2. CASE L0.sales[s].state = "none" /\ L.sales[s].state # "none"
      <4>1. b2.rows.sales[s] = [state |-> "WAITING", offer |-> FALSE, bundle |-> L.sales[s].bundle]
        BY <1>10, <3>2 DEF CreatedBetween
      <4>2. Z.sales[s].bundle = L.sales[s].bundle
        BY <1>3, <3>2 DEF Leads
      <4>3. Fits(b2.rows.sales[s], L0.sales[s], m1.marker)
        BY <3>2 DEF Fits
      <4>4. b2.rows.sales[s] # NoSale
        BY <4>1 DEF NoSale
      <4> QED BY <4>1, <4>2, <4>3, <4>4
    <3>3. CASE ~(L0.sales[s].state = "none" /\ L.sales[s].state # "none")
      <4>1. b2.rows.sales[s] = r.sales[s]
        BY <1>8, <1>10, <3>3 DEF CreatedBetween
      <4>2. Z.sales[s].state # "none" => Q.sales[s].state # "none"
        <5>1. CASE last <= q
          BY <5>1
        <5>2. CASE ~(last <= q)
          <6>1. Z = L
            BY <5>2
          <6> QED BY <1>3, <3>3, <6>1 DEF Leads
        <5> QED BY <5>1, <5>2
      <4>3. Q.sales[s].state # "none" => Z.sales[s].bundle = Q.sales[s].bundle
        BY <1>3 DEF Leads
      <4>4. r.marker # Unset => m1.marker = r.marker
        <5>1. ASSUME r.marker # Unset PROVE L0.version = 2
          BY <1>2, <3>1, <5>1 DEF Dated, Ledgers, Versions
        <5> QED BY <1>3, <1>12, <3>1, <5>1 DEF Leads
      <4>5. Fits(r.sales[s], L0.sales[s], r.marker) => Fits(r.sales[s], L0.sales[s], m1.marker)
        <5> HIDE DEF L0, m1
        <5> QED BY <4>4 DEF Fits
      <4> QED BY <3>1, <3>3, <4>1, <4>2, <4>3, <4>5 DEF ActedOn
    <3> QED BY <3>2, <3>3
  <2> HIDE DEF L0, L, Z, m1
  <2> QED BY <2>1, <2>2 DEF Tracks
<1>14. /\ Tracks(b3, m1, L, L, Z, ActedOn(last, q))
       /\ b2.begun => b3.begun
       /\ \A n \in first..last : HasPurchase(n) => b3.begun
  <2>1. Leads(At(chain, last), Z)
    BY <1>3
  <2> HIDE DEF m1, Z
  <2> QED BY <1>1, <1>2, <1>9, <1>11, <1>12, <1>13, <2>1, UpdateRound
<1> HIDE DEF b3
<1>15. b3 \in States /\ Remembers(b3.rows, b3.mem)
  BY <1>12, <1>14 DEF Tracks, Remembers
<1>16. Z.flip = L.flip
  <2>1. CASE last <= q
    <3>1. Quiet(chain, last, q)
      <4>1. \A j \in (last + 1)..q : j \in ((first - 1) + 1)..q
        BY <1>0
      <4> QED BY <4>1 DEF Quiet
    <3>2. q \in last..Len(chain)
      BY <1>0, <2>1
    <3> QED BY <1>1, <2>1, <3>1, <3>2, QuietFlip
  <2>2. CASE ~(last <= q)
    BY <2>2
  <2> QED BY <2>1, <2>2
<1>17. Holds(b3.rows, chain, last, N)
  <2>1. b3.rows.marker = Z.flip /\ (b3.rows.marker # Unset => b3.rows.version = 2)
    BY <1>12, <1>14, <1>16 DEF Tracks
  <2>2. ASSUME NEW s \in Sales
        PROVE  /\ Z.sales[s].state # "none" =>
                    b3.rows.sales[s] # NoSale /\ b3.rows.sales[s].bundle = Z.sales[s].bundle
               /\ Fits(b3.rows.sales[s], L.sales[s], b3.rows.marker) \/ Acted(chain, last, N, s)
    <3>1. /\ Z.sales[s].state # "none" =>
               b3.rows.sales[s] # NoSale /\ b3.rows.sales[s].bundle = Z.sales[s].bundle
          /\ Fits(b3.rows.sales[s], L.sales[s], b3.rows.marker) \/ Acted(chain, last, q, s)
      BY <1>14 DEF Tracks, ActedOn
    <3>2. \A j \in (last + 1)..q : j \in (last + 1)..N
      BY <1>0, <1>1
    <3>3. Acted(chain, last, q, s) => Acted(chain, last, N, s)
      <4> HIDE DEF N
      <4> QED BY <3>2 DEF Acted
    <3> QED BY <3>1, <3>3
  <2> HIDE DEF N
  <2> QED BY <2>1, <2>2 DEF Holds
<1>18. ASSUME ~b3.begun PROVE Quiet(chain, first - 1, last)
  <2>1. ~b2.begun /\ ~b1.begun
    BY <1>10, <1>14, <1>18 DEF CreatedBetween
  <2>2. ASSUME NEW j \in ((first - 1) + 1)..last, NEW i \in DOMAIN chain[j]
        PROVE  chain[j][i].name # "purchasesale" /\ (IsConfig(chain[j][i]) => At(chain, j).version = 1)
    <3>1. j \in first..last /\ j \in 0..Len(chain)
      BY <1>0
    <3>2. ~HasPurchase(j) /\ (HasConfig(j) => At(chain, j).version # 2)
      BY <1>8, <1>14, <1>18, <2>1, <3>1
    <3>3. At(chain, j).version \in 1..2
      BY <3>1, ChainPoints DEF Ledgers, Versions
    <3> QED BY <3>2, <3>3 DEF HasPurchase, HasConfig
  <2> QED BY <2>2 DEF Quiet
<1> QED BY <1>4, <1>15, <1>17, <1>18

-----------------------------------------------------------------------------
(* The invariant.                                                           *)

Same(c, d, k) == k <= Len(c) /\ k <= Len(d) /\ \A i \in 1..k : c[i] = d[i]

MarketTypes ==
  /\ chain \in Seq(Seq(Actions)) /\ idx \in Seq(Seq(Actions)) /\ lib \in 0..Len(chain)
  /\ position \in Nat /\ read \in Nat /\ position <= read /\ read <= Len(idx)
  /\ rows \in RowSet /\ mem \in MemSet

\* The indexed blocks are those of the chain up to a final one; the others can
\* be undone.
Base ==
  \E f \in 0..lib :
    /\ f <= Len(idx) /\ \A i \in 1..f : idx[i] = chain[i]
    /\ \A i \in (f + 1)..Len(idx) : i \in DOMAIN undo
Undone ==
  \A n \in DOMAIN undo : n \in 1..Len(idx) /\ undo[n] \in RowSet /\ Holds(undo[n], idx, n - 1, n - 1)

\* Blocks that were indexed above the position were final and quiet.
Replayed ==
  /\ position < Len(idx) => Len(idx) <= lib /\ Same(idx, chain, Len(idx))
  /\ Quiet(idx, position, Len(idx))

MarketInv ==
  /\ MarketTypes /\ Legal(chain) /\ Legal(idx)
  /\ Base /\ Undone /\ Replayed
  /\ Remembers(rows, mem) /\ Holds(rows, idx, read, Len(idx))

LEMMA SameAt ==
  ASSUME NEW c \in Seq(Seq(Actions)), NEW d \in Seq(Seq(Actions)), NEW q \in Nat, Same(c, d, q),
         NEW k \in 0..q
  PROVE  At(c, k) = At(d, k)
<1>1. k \in 0..Len(c) /\ k <= Len(d) /\ \A i \in 1..k : c[i] = d[i]
  BY DEF Same
<1> QED BY <1>1, SamePrefix

LEMMA SameHolds ==
  ASSUME NEW c \in Seq(Seq(Actions)), NEW d \in Seq(Seq(Actions)), NEW q \in Nat, Same(c, d, q),
         NEW k \in 0..q
  PROVE  /\ \A r : Holds(r, c, k, q) => Holds(r, d, k, q)
         /\ Quiet(c, k, q) => Quiet(d, k, q)
<1>1. q \in 0..q /\ k \in Nat
  OBVIOUS
<1>2. At(c, k) = At(d, k) /\ At(c, q) = At(d, q)
  BY <1>1, SameAt
<1>3. \A j \in (k + 1)..q : c[j] = d[j] /\ j \in 0..q
  BY <1>1 DEF Same
<1>4. \A s : Acted(c, k, q, s) => Acted(d, k, q, s)
  BY <1>3 DEF Acted
<1>5. ASSUME NEW j \in (k + 1)..q PROVE At(c, j) = At(d, j)
  BY <1>3, SameAt
<1>6. \A r : Holds(r, c, k, q) => Holds(r, d, k, q)
  BY <1>2, <1>4 DEF Holds
<1>7. Quiet(c, k, q) => Quiet(d, k, q)
  BY <1>3, <1>5 DEF Quiet
<1> QED BY <1>6, <1>7

LEMMA PrefixSame ==
  ASSUME NEW c \in Seq(Seq(Actions)), NEW n \in 0..Len(c)
  PROVE  LET d == SubSeq(c, 1, n)
         IN  d \in Seq(Seq(Actions)) /\ Len(d) = n /\ Same(c, d, n) /\ Same(d, c, n)
<1> DEFINE d == SubSeq(c, 1, n)
<1>1. d \in Seq(Seq(Actions)) /\ Len(d) = n /\ \A i \in 1..n : d[i] = c[i]
  BY PrefixOf
<1> HIDE DEF d
<1>2. Same(c, d, n) /\ Same(d, c, n)
  BY <1>1 DEF Same
<1> QED BY <1>1, <1>2 DEF d

LEMMA SameLegal ==
  ASSUME NEW c \in Seq(Seq(Actions)), NEW d \in Seq(Seq(Actions)), Legal(c), Same(c, d, Len(d))
  PROVE  Legal(d)
<1>1. ASSUME NEW k \in 1..Len(d) PROVE d[k] \in Blocks(At(d, k - 1), k)
  <2>1. k \in 1..Len(c) /\ k - 1 \in 0..Len(d) /\ c[k] = d[k] /\ Len(d) \in Nat
    BY DEF Same
  <2>2. At(c, k - 1) = At(d, k - 1)
    BY <2>1, SameAt
  <2>3. c[k] \in Blocks(At(c, k - 1), k)
    BY <2>1 DEF Legal
  <2> QED BY <2>1, <2>2, <2>3
<1> QED BY <1>1 DEF Legal

LEMMA SameWhole ==
  ASSUME NEW c \in Seq(Seq(Actions)), NEW d \in Seq(Seq(Actions)), Same(c, d, Len(c))
  PROVE  c = SubSeq(d, 1, Len(c))
<1>1. Len(c) \in 0..Len(d) /\ \A i \in 1..Len(c) : c[i] = d[i]
  BY DEF Same
<1>2. SubSeq(d, 1, Len(c)) = [i \in 1..Len(c) |-> d[i]]
  BY <1>1
<1>3. c = [i \in 1..Len(c) |-> c[i]]
  OBVIOUS
<1> QED BY <1>1, <1>2, <1>3

LEMMA MarketStart == Init => MarketInv
<1> SUFFICES ASSUME Init PROVE MarketInv
  OBVIOUS
<1>1. chain = <<>> /\ idx = <<>> /\ lib = 0 /\ position = 0 /\ read = 0 /\ undo = <<>> /\ mem = Loaded(rows)
  BY DEF Init
<1>2. PICK v \in Versions, ts \in SUBSET Tokens : rows = NoRows(v, ts)
  BY DEF Init, Versions
<1>3. <<>> \in Seq(Seq(Actions)) /\ Len(<<>>) = 0 /\ DOMAIN <<>> = {}
  OBVIOUS
<1>4. rows = [version |-> v, marker |-> 0, tokens |-> ts, sales |-> [s \in Sales |-> NoSale]]
  BY <1>2 DEF NoRows, Unset
<1>5. rows \in RowSet /\ mem = [version |-> v, marker |-> 0, tokens |-> ts]
  BY <1>1, <1>4 DEF RowSet, Loaded
<1>6. mem \in MemSet /\ Remembers(rows, mem)
  BY <1>4, <1>5 DEF MemSet, Remembers, Unset
<1>7. MarketTypes
  BY <1>1, <1>3, <1>5, <1>6 DEF MarketTypes
<1>8. Legal(<<>>)
  BY <1>3 DEF Legal
<1>9. At(<<>>, 0) = Genesis
  BY <1>3, ChainPoints
<1>10. Holds(rows, idx, read, Len(idx))
  BY <1>1, <1>3, <1>4, <1>9 DEF Holds, Genesis, Fits, Unset
<1>11. Base /\ Undone /\ Replayed
  BY <1>1, <1>3 DEF Base, Undone, Replayed, Quiet
<1> QED BY <1>1, <1>6, <1>7, <1>8, <1>10, <1>11 DEF MarketInv

\* A process that starts again has the rows of its position, or of a block
\* above it that it will read again.
LEMMA RestartKeeps ==
  ASSUME MarketInv, Restarted, UNCHANGED <<chain, lib>>
  PROVE  MarketInv'
<1>1. read' = position /\ mem' = Loaded(rows) /\ UNCHANGED <<rows, undo, idx, position, chain, lib>>
  BY DEF Restarted
<1> DEFINE q == Len(idx)
<1>2. MarketTypes /\ Legal(idx) /\ Holds(rows, idx, read, q)
  BY DEF MarketInv
<1>3. /\ position \in 0..Len(idx) /\ read \in position..Len(idx) /\ q \in Nat
      /\ position \in Nat /\ read \in Nat /\ position <= read /\ read <= q
  BY <1>2 DEF MarketTypes
<1>4. Holds(rows, idx, position, q)
  <2>1. ASSUME NEW s \in Sales
        PROVE  Fits(rows.sales[s], At(idx, position).sales[s], rows.marker) \/ Acted(idx, position, q, s)
    <3>1. Fits(rows.sales[s], At(idx, read).sales[s], rows.marker) \/ Acted(idx, read, q, s)
      BY <1>2 DEF Holds
    <3>2. CASE Acted(idx, position, read, s)
      <4>1. \A j \in (position + 1)..read : j \in (position + 1)..q
        BY <1>3
      <4> QED BY <3>2, <4>1 DEF Acted
    <3>3. CASE ~Acted(idx, position, read, s)
      <4>1. At(idx, read).sales[s] = At(idx, position).sales[s]
        BY <1>2, <1>3, <3>3, AtLeads DEF MarketTypes
      <4>2. \A j \in (read + 1)..q : j \in (position + 1)..q
        BY <1>3
      <4>3. Acted(idx, read, q, s) => Acted(idx, position, q, s)
        BY <4>2 DEF Acted
      <4> QED BY <3>1, <4>1, <4>3
    <3> QED BY <3>2, <3>3
  <2> QED BY <1>2, <2>1 DEF Holds
<1>5. /\ mem' \in MemSet /\ Remembers(rows, mem')
  <2>1. rows \in RowSet
    BY <1>2 DEF MarketTypes
  <2>2. mem' = [version |-> rows.version, marker |-> rows.marker, tokens |-> rows.tokens]
    BY <1>1 DEF Loaded
  <2>3. rows.marker # Unset => rows.version = 2
    BY <1>2 DEF Holds
  <2> QED BY <2>1, <2>2, <2>3 DEF RowSet, MemSet, Remembers
<1>6. MarketTypes'
  BY <1>1, <1>2, <1>3, <1>5 DEF MarketTypes
<1>7. (Base /\ Undone /\ Replayed)'
  BY <1>1 DEF MarketInv, Base, Undone, Replayed
<1>8. (Legal(chain) /\ Legal(idx))'
  BY <1>1 DEF MarketInv
<1>9. (Remembers(rows, mem) /\ Holds(rows, idx, read, Len(idx)))'
  BY <1>1, <1>4, <1>5
<1> QED BY <1>6, <1>7, <1>8, <1>9 DEF MarketInv

-----------------------------------------------------------------------------
(* The chain moves above what is final.                                      *)

LEMMA MinedAbove ==
  ASSUME chain \in Seq(Seq(Actions)), Legal(chain), NEW n \in 1..(Len(chain) + 1), Mined(n)
  PROVE  chain' \in Seq(Seq(Actions)) /\ Len(chain') = n /\ Legal(chain') /\ Same(chain, chain', n - 1)
<1>0. n - 1 \in 0..Len(chain) /\ n \in Nat /\ n # 0 /\ Len(chain) \in Nat
  OBVIOUS
<1> DEFINE d == SubSeq(chain, 1, n - 1)
<1>1. d \in Seq(Seq(Actions)) /\ Len(d) = n - 1 /\ Same(chain, d, n - 1)
  BY <1>0, PrefixSame
<1>2. PICK b \in Blocks(Ledger(d), n) : chain' = Append(d, b)
  BY DEF Mined
<1> HIDE DEF d
<1>3. b \in Seq(Actions)
  BY <1>2, BlockOf
<1>4. /\ chain' \in Seq(Seq(Actions)) /\ Len(chain') = n /\ chain'[n] = b
      /\ \A i \in 1..(n - 1) : chain'[i] = d[i]
  BY <1>0, <1>1, <1>2, <1>3
<1>5. Same(chain, chain', n - 1)
  <2>1. n - 1 <= Len(chain) /\ n - 1 <= n
    BY <1>0
  <2> QED BY <1>1, <1>4, <2>1 DEF Same
<1>6. ASSUME NEW k \in 1..n PROVE chain'[k] \in Blocks(At(chain', k - 1), k)
  <2>1. k - 1 \in 0..(n - 1) /\ n - 1 \in Nat
    BY <1>0
  <2>2. At(chain, k - 1) = At(chain', k - 1)
    BY <1>4, <1>5, <2>1, SameAt
  <2>3. CASE k = n
    BY <1>2, <1>4, <2>2, <2>3 DEF d, At
  <2>4. CASE k # n
    <3>1. k \in 1..(n - 1) /\ k \in 1..Len(chain)
      BY <1>0, <2>4
    <3>2. chain'[k] = chain[k]
      BY <1>5, <3>1 DEF Same
    <3> QED BY <2>2, <3>1, <3>2 DEF Legal
  <2> QED BY <2>3, <2>4
<1> QED BY <1>4, <1>5, <1>6 DEF Legal

LEMMA ChainKeeps ==
  ASSUME MarketInv, NEW n \in (lib + 1)..(Len(chain) + 1), Mined(n),
         UNCHANGED <<lib, rows, undo, idx, position, read, mem>>
  PROVE  MarketInv'
<1>0. MarketTypes /\ Legal(chain) /\ Legal(idx)
  BY DEF MarketInv
<1>1. lib \in Nat /\ n \in Nat /\ Len(chain) \in Nat /\ lib <= n - 1 /\ n \in 1..(Len(chain) + 1) /\ lib <= Len(chain)
  BY <1>0 DEF MarketTypes
<1>2. chain' \in Seq(Seq(Actions)) /\ Len(chain') = n /\ Legal(chain') /\ Same(chain, chain', n - 1)
  BY <1>0, <1>1, MinedAbove DEF MarketTypes
<1>3. \A i \in 1..lib : chain'[i] = chain[i]
  BY <1>1, <1>2 DEF Same
<1>4. MarketTypes'
  BY <1>0, <1>1, <1>2 DEF MarketTypes
<1>5. Base'
  <2>1. PICK f \in 0..lib :
          /\ f <= Len(idx) /\ \A i \in 1..f : idx[i] = chain[i]
          /\ \A i \in (f + 1)..Len(idx) : i \in DOMAIN undo
    BY DEF MarketInv, Base
  <2>2. \A i \in 1..f : i \in 1..lib
    BY <1>1
  <2> QED BY <1>3, <2>1, <2>2 DEF Base
<1>6. Replayed'
  <2>1. ASSUME position < Len(idx) PROVE Len(idx) <= lib /\ Same(idx, chain', Len(idx))
    <3>1. Len(idx) <= lib /\ Same(idx, chain, Len(idx)) /\ Len(idx) \in Nat
      BY <1>0, <2>1 DEF MarketInv, Replayed, MarketTypes
    <3>2. \A i \in 1..Len(idx) : i \in 1..lib
      BY <1>1, <3>1
    <3> QED BY <1>1, <1>2, <1>3, <3>1, <3>2 DEF Same
  <2> QED BY <2>1 DEF MarketInv, Replayed
<1>7. Undone' /\ Legal(idx)' /\ Legal(chain)' /\ (Remembers(rows, mem) /\ Holds(rows, idx, read, Len(idx)))'
  BY <1>0, <1>2 DEF MarketInv, Undone
<1> QED BY <1>4, <1>5, <1>6, <1>7 DEF MarketInv

LEMMA LibKeeps == MarketInv /\ AdvanceLib => MarketInv'
<1> SUFFICES ASSUME MarketInv, AdvanceLib PROVE MarketInv'
  OBVIOUS
<1>1. lib < Len(chain) /\ lib' = lib + 1 /\ UNCHANGED <<chain, rows, undo, idx, position, read, mem>>
  BY DEF AdvanceLib
<1>2. MarketTypes /\ lib \in Nat /\ Len(idx) \in Nat
  BY DEF MarketInv, MarketTypes
<1>3. MarketTypes'
  BY <1>1, <1>2 DEF MarketTypes
<1>4. Base'
  <2>1. \A f \in 0..lib : f \in 0..lib'
    BY <1>1, <1>2
  <2> QED BY <1>1, <2>1 DEF MarketInv, Base
<1>5. Replayed'
  <2>1. Len(idx) <= lib => Len(idx) <= lib'
    BY <1>1, <1>2
  <2> QED BY <1>1, <2>1 DEF MarketInv, Replayed
<1>6. Undone' /\ Legal(idx)' /\ Legal(chain)' /\ (Remembers(rows, mem) /\ Holds(rows, idx, read, Len(idx)))'
  BY <1>1 DEF MarketInv, Undone
<1> QED BY <1>3, <1>4, <1>5, <1>6 DEF MarketInv

-----------------------------------------------------------------------------
(* The next block that the node serves.                                     *)

LEMMA AgreesSame ==
  ASSUME MarketTypes, NEW n \in 0..Len(idx)
  PROVE  Agrees(n) <=> Same(idx, chain, n)
<1>0. n \in Nat /\ Len(chain) \in Nat /\ Len(idx) \in Nat /\ n <= Len(idx)
      /\ chain \in Seq(Seq(Actions)) /\ idx \in Seq(Seq(Actions))
  BY DEF MarketTypes
<1>1. ASSUME n <= Len(chain) PROVE SubSeq(idx, 1, n) = SubSeq(chain, 1, n) <=> \A i \in 1..n : idx[i] = chain[i]
  <2>1. /\ SubSeq(idx, 1, n) = [i \in 1..n |-> idx[i]]
        /\ SubSeq(chain, 1, n) = [i \in 1..n |-> chain[i]]
    BY <1>0, <1>1
  <2> QED BY <2>1
<1> QED BY <1>0, <1>1 DEF Agrees, Same

LEMMA NextIs ==
  ASSUME MarketTypes
  PROVE  \/ Agrees(read) /\ NextBlock = read + 1
         \/ ~Agrees(read) /\ NextBlock \in 1..read /\ Agrees(NextBlock - 1) /\ ~Agrees(NextBlock)
<1>0. read \in Nat /\ read <= Len(idx) /\ Len(idx) \in Nat
  BY DEF MarketTypes
<1>1. CASE Agrees(read)
  BY <1>1 DEF NextBlock
<1>2. CASE ~Agrees(read)
  <2> DEFINE T == {k \in 0..read : Agrees(k)}
  <2>1. Agrees(0)
    <3>1. Same(idx, chain, 0) /\ 0 \in 0..Len(idx)
      BY <1>0 DEF MarketTypes, Same
    <3> QED BY <3>1, AgreesSame
  <2>2. \E k \in 1..read : Agrees(k - 1) /\ ~Agrees(k)
    <3> SUFFICES ASSUME \A k \in 1..read : Agrees(k - 1) => Agrees(k) PROVE FALSE
      OBVIOUS
    <3>1. 0 \in T
      BY <1>0, <2>1
    <3>2. \A k \in (0 + 1)..read : k - 1 \in T => k \in T
      BY <1>0
    <3> HIDE DEF T
    <3>3. \A k \in 0..read : k \in T
      BY <1>0, <3>1, <3>2, Upward
    <3> QED BY <1>0, <1>2, <3>3 DEF T
  <2>3. NextBlock = CHOOSE n \in 1..read : Agrees(n - 1) /\ ~Agrees(n)
    BY <1>2 DEF NextBlock
  <2> QED BY <1>2, <2>2, <2>3
<1> QED BY <1>1, <1>2

-----------------------------------------------------------------------------
(* A commit, on rows of block first - 1 where those up to q were indexed.   *)

LEMMA CommitDoes ==
  ASSUME MarketInv, NEW first \in 1..Len(chain), NEW last \in first..Len(chain),
         NEW q \in (first - 1)..Len(chain), Same(idx, chain, q), Quiet(idx, first - 1, q),
         NEW r \in RowSet, NEW m \in MemSet, Remembers(r, m), Holds(r, idx, first - 1, q),
         NEW u, Committed(r, m, u, first, last, TRUE)
  PROVE  \/ Restarted
         \/ /\ rows' \in RowSet /\ mem' \in MemSet /\ Remembers(rows', mem')
            /\ undo' = u /\ read' = last
            /\ idx' = IF last <= Len(idx) /\ first > read THEN idx ELSE SubSeq(chain, 1, last)
            /\ Holds(rows', chain, last, IF last <= q THEN q ELSE last)
            /\ position' = last \/ (position' = position /\ Quiet(chain, first - 1, last))
<1> DEFINE e == Executed(Opened(r, m), first, last)
<1>1. /\ chain \in Seq(Seq(Actions)) /\ idx \in Seq(Seq(Actions)) /\ Legal(chain)
      /\ first - 1 \in 0..q /\ q \in Nat
  BY DEF MarketInv, MarketTypes
<1>2. Holds(r, chain, first - 1, q) /\ Quiet(chain, first - 1, q)
  BY <1>1, SameHolds
<1>3. /\ e \in States /\ Remembers(e.rows, e.mem)
      /\ Holds(e.rows, chain, last, IF last <= q THEN q ELSE last)
      /\ ~e.begun => Quiet(chain, first - 1, last)
  BY <1>1, <1>2, Executes
<1>4. \/ Restarted
      \/ /\ rows' = e.rows /\ mem' = e.mem /\ undo' = u /\ read' = last
         /\ idx' = IF last <= Len(idx) /\ first > read THEN idx ELSE SubSeq(chain, 1, last)
         /\ position' = last \/ (position' = position /\ ~e.begun)
  <2> HIDE DEF e
  <2> QED BY DEF Committed, e
<1> HIDE DEF e
<1>5. e.rows \in RowSet /\ e.mem \in MemSet
  BY <1>3 DEF States
<1> QED BY <1>3, <1>4, <1>5

\* Without a fork the indexed blocks are those of the chain.
LEMMA NextOnTop ==
  ASSUME MarketInv, NextBlock = read + 1
  PROVE  Same(idx, chain, Len(idx)) /\ Quiet(idx, read, Len(idx))
<1>1. MarketTypes /\ position \in Nat /\ read \in Nat /\ Len(idx) \in Nat /\ position <= read /\ read <= Len(idx)
  BY DEF MarketInv, MarketTypes
<1>2. Agrees(read)
  BY <1>1, NextIs
<1>3. Same(idx, chain, Len(idx))
  <2>1. CASE read = Len(idx)
    <3>1. read \in 0..Len(idx)
      BY <1>1
    <3> QED BY <1>1, <1>2, <2>1, <3>1, AgreesSame
  <2>2. CASE read # Len(idx)
    BY <1>1, <2>2 DEF MarketInv, Replayed
  <2> QED BY <2>1, <2>2
<1>4. Quiet(idx, read, Len(idx))
  <2>1. \A j \in (read + 1)..Len(idx) : j \in (position + 1)..Len(idx)
    BY <1>1
  <2>2. Quiet(idx, position, Len(idx))
    BY DEF MarketInv, Replayed
  <2> QED BY <2>1, <2>2 DEF Quiet
<1> QED BY <1>3, <1>4

LEMMA GroupKeeps == MarketInv /\ ProcessGroup => MarketInv'
<1> SUFFICES ASSUME MarketInv, ProcessGroup PROVE MarketInv'
  OBVIOUS
<1>1. PICK k \in 1..DbGroupBlocks :
        read + k <= lib /\ Committed(rows, mem, undo, read + 1, read + k, TRUE)
  BY DEF ProcessGroup
<1>2. NextBlock = read + 1 /\ UNCHANGED <<chain, lib>>
  BY DEF ProcessGroup
<1> DEFINE first == read + 1
           last == read + k
           q == Len(idx)
           N == IF last <= q THEN q ELSE last
<1>3. MarketTypes /\ Legal(chain) /\ Legal(idx) /\ Remembers(rows, mem) /\ Holds(rows, idx, read, q)
  BY DEF MarketInv
<1>4. /\ chain \in Seq(Seq(Actions)) /\ idx \in Seq(Seq(Actions)) /\ lib \in Nat /\ lib <= Len(chain)
      /\ position \in Nat /\ read \in Nat /\ position <= read /\ read <= q /\ q \in Nat /\ Len(chain) \in Nat
      /\ rows \in RowSet /\ mem \in MemSet
  BY <1>3 DEF MarketTypes
<1>5. Same(idx, chain, q) /\ Quiet(idx, read, q)
  BY <1>2, NextOnTop
<1>6. q <= Len(chain)
  BY <1>5 DEF Same
<1>7. /\ k \in Nat /\ k >= 1 /\ last \in Nat /\ last <= lib /\ read < last
      /\ first \in 1..Len(chain) /\ last \in first..Len(chain) /\ q \in (first - 1)..Len(chain)
      /\ first - 1 = read /\ first > read
  BY <1>1, <1>4, <1>6
<1>8. \/ Restarted
      \/ /\ rows' \in RowSet /\ mem' \in MemSet /\ Remembers(rows', mem')
         /\ undo' = undo /\ read' = last
         /\ idx' = IF last <= q THEN idx ELSE SubSeq(chain, 1, last)
         /\ Holds(rows', chain, last, N)
         /\ position' = last \/ (position' = position /\ Quiet(chain, read, last))
  <2>1. Committed(rows, mem, undo, first, last, TRUE)
    BY <1>1
  <2>2. Quiet(idx, first - 1, q) /\ Holds(rows, idx, first - 1, q)
    BY <1>3, <1>5, <1>7
  <2> HIDE DEF first, last, q
  <2>3. \/ Restarted
        \/ /\ rows' \in RowSet /\ mem' \in MemSet /\ Remembers(rows', mem')
           /\ undo' = undo /\ read' = last
           /\ idx' = IF last <= Len(idx) /\ first > read THEN idx ELSE SubSeq(chain, 1, last)
           /\ Holds(rows', chain, last, IF last <= q THEN q ELSE last)
           /\ position' = last \/ (position' = position /\ Quiet(chain, first - 1, last))
    BY <1>3, <1>4, <1>5, <1>7, <2>1, <2>2, CommitDoes
  <2> QED BY <1>7, <2>3 DEF q
<1>9. CASE Restarted
  BY <1>2, <1>9, RestartKeeps
<1>10. CASE ~Restarted
  <2>1. /\ rows' \in RowSet /\ mem' \in MemSet /\ Remembers(rows', mem')
        /\ undo' = undo /\ read' = last
        /\ idx' = IF last <= q THEN idx ELSE SubSeq(chain, 1, last)
        /\ Holds(rows', chain, last, N)
        /\ position' = last \/ (position' = position /\ Quiet(chain, read, last))
    BY <1>8, <1>10
  <2> HIDE DEF last
  \* What is indexed, and where it comes from.
  <2>2. /\ idx' \in Seq(Seq(Actions)) /\ Len(idx') = N
        /\ Same(chain, idx', N) /\ Same(idx', chain, N) /\ Same(idx, idx', q)
    <3>1. CASE last <= q
      <4>1. Same(chain, idx, q) /\ Same(idx, idx, q)
        BY <1>5 DEF Same
      <4> QED BY <1>4, <1>5, <2>1, <3>1, <4>1
    <3>2. CASE ~(last <= q)
      <4>1. last \in 0..Len(chain)
        BY <1>7
      <4>2. idx' \in Seq(Seq(Actions)) /\ Len(idx') = last /\ Same(chain, idx', last) /\ Same(idx', chain, last)
        BY <1>4, <2>1, <3>2, <4>1, PrefixSame
      <4>3. \A i \in 1..q : i \in 1..last
        BY <1>4, <1>7, <3>2
      <4>4. \A i \in 1..q : idx[i] = chain[i]
        BY <1>5 DEF Same
      <4>5. \A i \in 1..last : chain[i] = idx'[i]
        BY <4>2 DEF Same
      <4>6. q <= Len(idx) /\ q <= Len(idx')
        BY <1>4, <1>7, <3>2, <4>2
      <4> HIDE DEF q
      <4>7. Same(idx, idx', q)
        BY <4>3, <4>4, <4>5, <4>6 DEF Same
      <4> QED BY <3>2, <4>2, <4>7 DEF q
    <3> QED BY <3>1, <3>2
  <2>3. N \in Nat /\ last <= N /\ q <= N /\ last \in 0..N /\ N <= Len(chain) /\ read \in 0..N
    BY <1>4, <1>6, <1>7
  <2>4. MarketTypes'
    <3>1. position' \in Nat /\ position' <= last
      BY <1>4, <1>7, <2>1
    <3> QED BY <1>2, <1>3, <1>7, <2>1, <2>2, <2>3, <3>1 DEF MarketTypes
  <2>5. Legal(chain)' /\ Legal(idx)'
    BY <1>2, <1>3, <1>4, <2>2, SameLegal
  <2>6. Holds(rows', idx', last, N)
    BY <1>4, <2>1, <2>2, <2>3, SameHolds
  <2>7. Base'
    <3>1. PICK f \in 0..lib :
            /\ f <= Len(idx) /\ \A i \in 1..f : idx[i] = chain[i]
            /\ \A i \in (f + 1)..Len(idx) : i \in DOMAIN undo
      BY DEF MarketInv, Base
    <3>2. CASE last <= q
      BY <1>2, <2>1, <3>1, <3>2 DEF Base
    <3>3. CASE ~(last <= q)
      <4>1. N = last /\ last \in 0..lib /\ \A i \in 1..last : idx'[i] = chain[i]
        BY <1>4, <1>7, <2>2, <3>3 DEF Same
      <4>2. \A i \in (last + 1)..last : FALSE
        BY <1>7
      <4> QED BY <1>2, <2>1, <2>2, <2>3, <4>1, <4>2 DEF Base
    <3> QED BY <3>2, <3>3
  <2>8. Undone'
    <3>1. ASSUME NEW n \in DOMAIN undo
          PROVE  n \in 1..N /\ undo[n] \in RowSet /\ Holds(undo[n], idx', n - 1, n - 1)
      <4>1. n \in 1..q /\ undo[n] \in RowSet /\ Holds(undo[n], idx, n - 1, n - 1)
        BY DEF MarketInv, Undone
      <4>2. n - 1 \in Nat /\ n - 1 \in 0..(n - 1) /\ n \in 1..N
        BY <1>4, <2>3, <4>1
      <4>3. Same(idx, idx', n - 1)
        <5>1. \A i \in 1..(n - 1) : i \in 1..q
          BY <1>4, <4>1
        <5>2. n - 1 <= q /\ n - 1 <= N
          <6> HIDE DEF N, q
          <6> QED BY <1>4, <2>3, <4>1, <4>2
        <5> HIDE DEF N
        <5> QED BY <2>2, <5>1, <5>2 DEF Same
      <4>4. Holds(undo[n], idx', n - 1, n - 1)
        BY <1>4, <2>2, <4>1, <4>2, <4>3, SameHolds
      <4> QED BY <4>1, <4>2, <4>4
    <3> HIDE DEF N
    <3> QED BY <2>1, <2>2, <3>1 DEF Undone
  <2>9. Quiet(idx', position', N)
    <3>1. Quiet(idx', read, q)
      BY <1>4, <1>5, <2>2, <2>3, SameHolds
    <3>2. Quiet(idx', position, q)
      <4>1. position \in 0..q
        BY <1>4
      <4>2. Quiet(idx, position, q)
        BY DEF MarketInv, Replayed
      <4> QED BY <1>4, <2>2, <4>1, <4>2, SameHolds
    <3>3. CASE position' = last
      <4>1. \A j \in (last + 1)..N : j \in (read + 1)..q
        BY <1>4, <1>7
      <4> HIDE DEF N
      <4> QED BY <3>1, <3>3, <4>1 DEF Quiet
    <3>4. CASE position' = position /\ Quiet(chain, read, last)
      <4>1. Same(chain, idx', last)
        <5>1. \A i \in 1..last : i \in 1..N
          BY <1>7, <2>3
        <5>2. last <= Len(chain) /\ last <= N
          BY <1>7, <2>3
        <5> HIDE DEF N
        <5> QED BY <2>2, <5>1, <5>2 DEF Same
      <4>2. Quiet(idx', read, last)
        <5>1. read \in 0..last
          BY <1>4, <1>7
        <5> QED BY <1>4, <1>7, <2>2, <3>4, <4>1, <5>1, SameHolds
      <4>3. \A j \in (position + 1)..N : j \in (position + 1)..q \/ j \in (read + 1)..last
        BY <1>4, <1>7
      <4> HIDE DEF N
      <4> QED BY <3>2, <3>4, <4>2, <4>3 DEF Quiet
    <3> QED BY <2>1, <3>3, <3>4
  <2>10. position' < N => N <= lib /\ Same(idx', chain, N)
    <3>1. ASSUME position' < N PROVE N <= lib
      <4>1. CASE last <= q
        <5>1. position < q
          BY <1>4, <1>7, <2>1, <3>1, <4>1
        <5> QED BY <4>1, <5>1 DEF MarketInv, Replayed
      <4>2. CASE ~(last <= q)
        BY <1>7, <4>2
      <4> QED BY <4>1, <4>2
    <3> QED BY <2>2, <3>1
  <2>11. Replayed'
    <3> HIDE DEF N
    <3> QED BY <1>2, <2>2, <2>9, <2>10 DEF Replayed
  <2>12. Holds(rows', idx', read', Len(idx')) /\ Remembers(rows', mem')
    BY <2>1, <2>2, <2>6
  <2> QED BY <2>4, <2>5, <2>7, <2>8, <2>11, <2>12 DEF MarketInv
<1> QED BY <1>9, <1>10

\* One block n, on the rows r that block n - 1 left.
LEMMA BlockKeeps ==
  ASSUME MarketInv, UNCHANGED <<chain, lib>>,
         NEW n \in 1..Len(chain), n - 1 <= Len(idx), Same(idx, chain, n - 1),
         NEW r \in RowSet, NEW m \in MemSet, Remembers(r, m), Holds(r, idx, n - 1, n - 1),
         \A i \in (lib + 1)..(n - 1) : i \in DOMAIN undo,
         n <= Len(idx) => n <= read,
         Committed(r, m, Logged(r, n), n, n, FALSE)
  PROVE  MarketInv'
<1>0. /\ chain \in Seq(Seq(Actions)) /\ idx \in Seq(Seq(Actions)) /\ Legal(chain)
      /\ n \in Nat /\ n # 0 /\ n - 1 \in Nat /\ n \in n..Len(chain) /\ n - 1 \in (n - 1)..Len(chain)
      /\ lib \in Nat /\ lib <= Len(chain) /\ Len(idx) \in Nat /\ read \in Nat /\ Len(chain) \in Nat
      /\ n - 1 \in 0..(n - 1)
  BY DEF MarketInv, MarketTypes
<1> DEFINE u == Logged(r, n)
<1>1. /\ Committed(r, m, u, n, n, TRUE)
      /\ Restarted \/ position' = n
  BY DEF Committed
<1>2. DOMAIN u = {i \in DOMAIN undo : lib < i /\ i < n} \cup {n}
  BY DEF Logged
<1>3. \A i \in DOMAIN u : u[i] = IF i = n THEN r ELSE undo[i]
  BY DEF Logged
<1> HIDE DEF u
<1>4. Quiet(idx, n - 1, n - 1)
  <2>1. \A j \in ((n - 1) + 1)..(n - 1) : FALSE
    BY <1>0
  <2> QED BY <2>1 DEF Quiet
<1>5. \/ Restarted
      \/ /\ rows' \in RowSet /\ mem' \in MemSet /\ Remembers(rows', mem')
         /\ undo' = u /\ read' = n
         /\ idx' = SubSeq(chain, 1, n)
         /\ Holds(rows', chain, n, n)
  <2>1. \/ Restarted
        \/ /\ rows' \in RowSet /\ mem' \in MemSet /\ Remembers(rows', mem')
           /\ undo' = u /\ read' = n
           /\ idx' = IF n <= Len(idx) /\ n > read THEN idx ELSE SubSeq(chain, 1, n)
           /\ Holds(rows', chain, n, IF n <= n - 1 THEN n - 1 ELSE n)
           /\ position' = n \/ (position' = position /\ Quiet(chain, n - 1, n))
    BY <1>0, <1>1, <1>4, CommitDoes
  <2>2. ~(n <= Len(idx) /\ n > read) /\ ~(n <= n - 1)
    BY <1>0
  <2> QED BY <2>1, <2>2
<1>6. CASE Restarted
  BY <1>6, RestartKeeps
<1>7. CASE ~Restarted
  <2>1. /\ rows' \in RowSet /\ mem' \in MemSet /\ Remembers(rows', mem')
        /\ undo' = u /\ read' = n /\ position' = n
        /\ idx' = SubSeq(chain, 1, n)
        /\ Holds(rows', chain, n, n)
    BY <1>1, <1>5, <1>7
  <2>2. idx' \in Seq(Seq(Actions)) /\ Len(idx') = n /\ Same(chain, idx', n) /\ Same(idx', chain, n)
    <3>1. n \in 0..Len(chain)
      BY <1>0
    <3> QED BY <1>0, <2>1, <3>1, PrefixSame
  <2>3. MarketTypes'
    <3>1. MarketTypes
      BY DEF MarketInv
    <3> QED BY <1>0, <2>1, <2>2, <3>1 DEF MarketTypes
  <2>4. Legal(chain)' /\ Legal(idx)'
    BY <1>0, <2>2, SameLegal
  <2>5. Holds(rows', idx', n, n)
    <3>1. n \in 0..n
      BY <1>0
    <3> QED BY <1>0, <2>1, <2>2, <3>1, SameHolds
  <2>6. Base'
    <3>1. CASE n <= lib
      <4>1. n \in 0..lib /\ n <= n /\ \A i \in 1..n : idx'[i] = chain[i]
        BY <1>0, <2>2, <3>1 DEF Same
      <4>2. \A i \in (n + 1)..n : FALSE
        BY <1>0
      <4> QED BY <2>2, <4>1, <4>2 DEF Base
    <3>2. CASE ~(n <= lib)
      <4>1. lib \in 0..lib /\ lib <= n
        BY <1>0, <3>2
      <4>2. \A i \in 1..lib : i \in 1..n
        BY <1>0, <3>2
      <4>3. \A i \in 1..lib : idx'[i] = chain[i]
        BY <2>2, <4>2 DEF Same
      <4>4. \A i \in (lib + 1)..n : i = n \/ (i \in (lib + 1)..(n - 1) /\ lib < i /\ i < n)
        BY <1>0
      <4>5. \A i \in (lib + 1)..n : i \in DOMAIN u
        BY <1>2, <4>4
      <4> QED BY <2>1, <2>2, <4>1, <4>3, <4>5 DEF Base
    <3> QED BY <3>1, <3>2
  <2>7. Undone'
    <3>1. ASSUME NEW i \in DOMAIN u
          PROVE  i \in 1..n /\ u[i] \in RowSet /\ Holds(u[i], idx', i - 1, i - 1)
      <4>1. i = n \/ (i \in DOMAIN undo /\ i < n)
        BY <1>2
      <4>2. i \in 1..n /\ u[i] \in RowSet /\ Holds(u[i], idx, i - 1, i - 1)
        <5>1. CASE i = n
          BY <1>0, <1>3, <5>1
        <5>2. CASE i # n
          <6>1. i \in 1..Len(idx) /\ undo[i] \in RowSet /\ Holds(undo[i], idx, i - 1, i - 1)
            BY <4>1, <5>2 DEF MarketInv, Undone
          <6>2. u[i] = undo[i] /\ i \in 1..n
            BY <1>0, <1>3, <4>1, <5>2, <6>1
          <6> QED BY <6>1, <6>2
        <5> QED BY <5>1, <5>2
      <4>3. i - 1 \in Nat /\ i - 1 \in 0..(i - 1) /\ i - 1 <= Len(idx) /\ i - 1 <= n
        BY <1>0, <4>2
      <4>4. \A j \in 1..(i - 1) : j \in 1..(n - 1) /\ j \in 1..n
        BY <1>0, <4>2
      <4>5. Same(idx, idx', i - 1)
        BY <2>2, <4>3, <4>4 DEF Same
      <4>6. Holds(u[i], idx', i - 1, i - 1)
        BY <1>0, <2>2, <4>2, <4>3, <4>5, SameHolds
      <4> QED BY <4>2, <4>6
    <3> QED BY <2>1, <2>2, <3>1 DEF Undone
  <2>8. Replayed'
    <3>1. \A j \in (n + 1)..n : FALSE
      BY <1>0
    <3>2. ~(n < n)
      BY <1>0
    <3> QED BY <2>1, <2>2, <3>1, <3>2 DEF Replayed, Quiet
  <2>9. Holds(rows', idx', read', Len(idx')) /\ Remembers(rows', mem')
    BY <2>1, <2>2, <2>5
  <2> QED BY <2>3, <2>4, <2>6, <2>7, <2>8, <2>9 DEF MarketInv
<1> QED BY <1>6, <1>7

LEMMA ReversibleKeeps == MarketInv /\ ProcessReversible => MarketInv'
<1> SUFFICES ASSUME MarketInv, ProcessReversible PROVE MarketInv'
  OBVIOUS
<1> DEFINE n == NextBlock
           q == Len(idx)
<1>1. /\ n = read + 1 /\ lib < n /\ n <= Len(chain) /\ UNCHANGED <<chain, lib>>
      /\ Committed(rows, mem, Logged(rows, n), n, n, FALSE)
  BY DEF ProcessReversible
<1> HIDE DEF n
<1>2. /\ lib \in Nat /\ read \in Nat /\ read <= q /\ position <= read /\ q \in Nat /\ position \in Nat
      /\ rows \in RowSet /\ mem \in MemSet
      /\ Remembers(rows, mem) /\ Holds(rows, idx, read, q)
  BY DEF MarketInv, MarketTypes
<1>3. Same(idx, chain, q)
  BY <1>1, NextOnTop DEF n
<1>4. read = q
  <2>1. position < q => q <= lib
    BY DEF MarketInv, Replayed
  <2> QED BY <1>1, <1>2, <2>1
<1>5. n \in 1..Len(chain) /\ n - 1 = q /\ (n <= q => n <= read)
  BY <1>1, <1>2, <1>4
<1>6. \A i \in (lib + 1)..(n - 1) : i \in DOMAIN undo
  <2>1. PICK f \in 0..lib : \A i \in (f + 1)..q : i \in DOMAIN undo
    BY DEF MarketInv, Base
  <2>2. \A i \in (lib + 1)..q : i \in (f + 1)..q
    BY <1>2
  <2> QED BY <1>5, <2>1, <2>2
<1>7. n - 1 <= Len(idx) /\ Same(idx, chain, n - 1) /\ Holds(rows, idx, n - 1, n - 1)
  BY <1>2, <1>3, <1>4, <1>5
<1> QED BY <1>1, <1>2, <1>5, <1>6, <1>7, BlockKeeps

LEMMA ForkKeeps == MarketInv /\ ProcessFork => MarketInv'
<1> SUFFICES ASSUME MarketInv, ProcessFork PROVE MarketInv'
  OBVIOUS
<1> DEFINE n == NextBlock
           q == Len(idx)
           m == Reread(undo[n], mem)
<1>1. /\ n <= read /\ n <= Len(chain) /\ UNCHANGED <<chain, lib>>
      /\ Committed(undo[n], m, Logged(undo[n], n), n, n, FALSE)
  BY DEF ProcessFork
<1>2. /\ MarketTypes /\ lib \in Nat /\ read \in Nat /\ read <= q /\ position <= read /\ q \in Nat /\ position \in Nat
      /\ lib <= Len(chain) /\ Len(chain) \in Nat /\ mem \in MemSet
  BY DEF MarketInv, MarketTypes
<1>3. ~Agrees(read) /\ n \in 1..read /\ Agrees(n - 1) /\ ~Agrees(n)
  BY <1>1, <1>2, NextIs
<1> HIDE DEF n, m
<1>4. n \in Nat /\ n \in 1..q /\ n \in 1..Len(chain) /\ n - 1 \in 0..q /\ n \in 0..q /\ read \in 0..q
  BY <1>1, <1>2, <1>3
<1>5. Same(idx, chain, n - 1) /\ ~Same(idx, chain, n) /\ ~Same(idx, chain, read)
  BY <1>2, <1>3, <1>4, AgreesSame
<1>6. read = q
  <2>1. CASE position < q
    <3>1. Same(idx, chain, q)
      BY <2>1 DEF MarketInv, Replayed
    <3>2. \A i \in 1..read : i \in 1..q
      BY <1>2
    <3>3. Same(idx, chain, read)
      BY <1>2, <3>1, <3>2 DEF Same
    <3> QED BY <1>5, <3>3
  <2> QED BY <1>2, <2>1
<1>7. PICK f \in 0..lib :
        /\ f <= q /\ \A i \in 1..f : idx[i] = chain[i]
        /\ \A i \in (f + 1)..q : i \in DOMAIN undo
  BY DEF MarketInv, Base
<1>8. f < n
  <2> SUFFICES ASSUME n <= f PROVE FALSE
    BY <1>2, <1>4, <1>7
  <2>1. \A i \in 1..n : i \in 1..f
    BY <1>4, <1>7
  <2>2. n <= Len(idx) /\ n <= Len(chain)
    BY <1>4
  <2> QED BY <1>5, <1>7, <2>1, <2>2 DEF Same
<1>9. n \in DOMAIN undo /\ \A i \in (lib + 1)..(n - 1) : i \in DOMAIN undo
  <2>1. n \in (f + 1)..q /\ \A i \in (lib + 1)..(n - 1) : i \in (f + 1)..q
    BY <1>2, <1>4, <1>7, <1>8
  <2> QED BY <1>7, <2>1
<1>10. undo[n] \in RowSet /\ Holds(undo[n], idx, n - 1, n - 1)
  BY <1>9 DEF MarketInv, Undone
<1>11. m \in MemSet /\ Remembers(undo[n], m)
  <2>1. m = [mem EXCEPT !.version = undo[n].version, !.marker = undo[n].marker]
    BY DEF Reread, m
  <2>2. undo[n].marker # Unset => undo[n].version = 2
    BY <1>10 DEF Holds
  <2> QED BY <1>2, <1>10, <2>1, <2>2 DEF RowSet, MemSet, Remembers
<1>12. n - 1 <= Len(idx) /\ (n <= Len(idx) => n <= read)
  BY <1>2, <1>4, <1>6
<1> QED BY <1>1, <1>4, <1>5, <1>9, <1>10, <1>11, <1>12, BlockKeeps

-----------------------------------------------------------------------------
(* The theorems.                                                            *)

LEMMA MarketStep == MarketInv /\ [Next]_vars => MarketInv'
<1> SUFFICES ASSUME MarketInv, [Next]_vars PROVE MarketInv'
  OBVIOUS
<1>0. MarketTypes
  BY DEF MarketInv
<1>1. CASE Extend
  <2>1. Len(chain) + 1 \in (lib + 1)..(Len(chain) + 1)
    BY <1>0 DEF MarketTypes
  <2> QED BY <1>1, <2>1, ChainKeeps DEF Extend
<1>2. CASE Fork
  <2>1. PICK n \in (lib + 1)..Len(chain) : Mined(n)
    BY <1>2 DEF Fork
  <2>2. n \in (lib + 1)..(Len(chain) + 1)
    BY <1>0 DEF MarketTypes
  <2>3. UNCHANGED <<lib, rows, undo, idx, position, read, mem>>
    BY <1>2 DEF Fork
  <2> QED BY <2>1, <2>2, <2>3, ChainKeeps
<1>3. CASE Crash
  BY <1>3, RestartKeeps DEF Crash
<1>4. CASE AdvanceLib
  BY <1>4, LibKeeps
<1>5. CASE ProcessGroup
  BY <1>5, GroupKeeps
<1>6. CASE ProcessReversible
  BY <1>6, ReversibleKeeps
<1>7. CASE ProcessFork
  BY <1>7, ForkKeeps
<1>8. CASE UNCHANGED vars
  BY <1>8 DEF vars, MarketInv, MarketTypes, Base, Undone, Replayed
<1> QED BY <1>1, <1>2, <1>3, <1>4, <1>5, <1>6, <1>7, <1>8 DEF Next

\* What the invariant says once every indexed block has been read.
LEMMA MarketKeeps == MarketInv => SettlementsAreKept /\ BundlesAreDissolved /\ MarkerIsFlip
<1> SUFFICES ASSUME MarketInv, read = Len(idx)
             PROVE  SettlementsAreKept /\ BundlesAreDissolved /\ MarkerIsFlip
  BY DEF SettlementsAreKept, BundlesAreDissolved, MarkerIsFlip, UpToDate
<1>1. idx \in Seq(Seq(Actions)) /\ read \in Nat /\ Remembers(rows, mem) /\ Holds(rows, idx, read, read)
  BY DEF MarketInv, MarketTypes
<1>2. At(idx, read) = Indexed
  BY <1>1, ChainPoints DEF Indexed
<1>3. \A s \in Sales : Fits(rows.sales[s], Indexed.sales[s], rows.marker)
  <2>1. \A j \in (read + 1)..read : FALSE
    BY <1>1
  <2> QED BY <1>1, <1>2, <2>1 DEF Holds, Acted
<1>4. rows.marker = Indexed.flip
  BY <1>1, <1>2 DEF Holds
<1>5. SettlementsAreKept
  BY <1>3 DEF SettlementsAreKept, Fits
<1>6. BundlesAreDissolved
  BY <1>3, <1>4 DEF BundlesAreDissolved, Fits
<1>7. MarkerIsFlip
  BY <1>1, <1>4 DEF MarkerIsFlip, Remembers
<1> QED BY <1>5, <1>6, <1>7
=============================================================================
