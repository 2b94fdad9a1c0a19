---------------------------- MODULE DecodedProofs ----------------------------
(***************************************************************************)
(* What the cache of ABIs guarantees, for blocks of any length and number,   *)
(* any number of them decoded ahead, and any number of forks and restarts;   *)
(* and what the notifications do, for any number of channels, blocks, forks  *)
(* and failures, messages of any size and any number of reads.              *)
(*                                                                          *)
(* A setabi is passed once its block was received and has none left to       *)
(* process.  What was passed is in contract_abis and is not above what the   *)
(* cache or an answer under way holds; what is in contract_abis and not yet  *)
(* passed was left by an earlier process, and is above the block processed.  *)
(*                                                                          *)
(* What was published, followed by what is left to publish, tells of the     *)
(* committed chain; the batch that is collected leads from it to the applied  *)
(* one.  The lemmas before it say what the filter of a batch, the messages    *)
(* it is cut into and their encoding do to what a listener knows.            *)
(***************************************************************************)
EXTENDS MCDecoded, FiniteSetTheorems, WellFoundedInduction, TLAPS

\* The ABIs along a chain c: where one is set, the one in force after a
\* block, and after the last of some blocks.
SetsAt(c, n) == n \in 1..Len(c) /\ Abi!Sets(c[n])
V(c, n) == IF n = 0 THEN Abi!First ELSE Abi!Last0(c[n], Abi!First)
ByLast(c, S) == IF S = {} THEN Abi!First ELSE V(c, Abi!LastOf(S))

\* Of the chain c, of which SHIP sends block m next, with the blocks bs under
\* way: the heights of setabis that were passed, and that were received before
\* the block at i, below it.
Undone(b) == \E k \in DOMAIN b.body : k > b.done /\ b.body[k] # Abi!Use
Pending(bs, n, i) == \E j \in DOMAIN bs : j >= i /\ bs[j].num = n /\ Undone(bs[j])
PassedIn(c, m, bs) == {n \in 1..Len(c) : SetsAt(c, n) /\ n < m /\ ~Pending(bs, n, 1)}
BeforeIn(c, m, bs, i) == {n \in 1..Len(c) : SetsAt(c, n) /\ n < m /\ n < bs[i].num /\ ~Pending(bs, n, i)}
Passed == PassedIn(active, next, blocks)
Before(i) == BeforeIn(active, next, blocks, i)

\* An entry of the cache that names its block holds the ABI of that block.
Right(c, abi) ==
  abi.block_num \in Nat =>
    abi.version = V(c, abi.block_num) /\ (abi.block_num = 0 \/ SetsAt(c, abi.block_num))

Abis == [version : Int, block_num : {n \in Int : n >= -2}]
Blocks == [num : Nat \ {0}, body : AbiBodies, start : Int, estimates : Seq(Abis), prepared : Nat, done : Nat]
Fetches == [at : {"idle", "query", "next", "rpc", "answered"}, abi : Abis]

Types ==
  /\ active \in Seq(AbiBodies) /\ abiForks \in Nat /\ restarts \in Nat
  /\ DOMAIN table \subseteq Nat /\ abis \in Abis
  /\ next \in Nat \ {0} /\ next <= Len(active) + 1
  /\ blocks \in Seq(Blocks) /\ fetch \in [Abi!Stages -> Fetches]
  /\ inserting \in Int /\ done \in Nat

\* A stage has an action to decode.
Preparing(bs) ==
  /\ bs # <<>> /\ bs[Len(bs)].prepared < Len(bs[Len(bs)].body)
  /\ bs[Len(bs)].body[bs[Len(bs)].prepared + 1] = Abi!Use
Processing(bs) ==
  /\ bs # <<>> /\ bs[1].prepared = Len(bs[1].body) /\ bs[1].done < Len(bs[1].body)
  /\ bs[1].body[bs[1].done + 1] = Abi!Use

Progress ==
  /\ \A i \in DOMAIN blocks :
       /\ blocks[i].done <= blocks[i].prepared /\ blocks[i].prepared <= Len(blocks[i].body)
       /\ Len(blocks[i].estimates) = blocks[i].prepared
       /\ i > 1 => blocks[i].done = 0
       /\ i < Len(blocks) => blocks[i].prepared = Len(blocks[i].body)
  /\ fetch["prepare"].at # "idle" => Preparing(blocks)
  /\ fetch["process"].at # "idle" => inserting = -1 /\ Processing(blocks)
  /\ inserting # -1 =>
       /\ blocks # <<>> /\ blocks[1].prepared = Len(blocks[1].body) /\ blocks[1].done < Len(blocks[1].body)
       /\ inserting = blocks[1].body[blocks[1].done + 1] /\ inserting # Abi!Use

\* The blocks under way.
SettingBlocks ==
  \A i \in DOMAIN blocks : Abi!Sets(blocks[i].body) =>
    /\ SetsAt(active, blocks[i].num) /\ active[blocks[i].num] = blocks[i].body /\ blocks[i].num < next
    /\ \A j \in DOMAIN blocks : j > i => blocks[j].num > blocks[i].num
Starts == \A i \in DOMAIN blocks : blocks[i].start = ByLast(active, Before(i))
PassedBelow ==
  \A n \in Passed :
    /\ n \in DOMAIN table
    /\ \A i \in DOMAIN blocks :
         n < blocks[i].num \/ (i = 1 /\ n = blocks[1].num /\ blocks[1].body = active[n])
ForkFree ==
  abiForks = 0 =>
    /\ done < next
    /\ \A i \in DOMAIN blocks : done < blocks[i].num /\ blocks[i].num < next
    /\ \A i, j \in DOMAIN blocks : i < j => blocks[i].num < blocks[j].num

\* contract_abis.
Rows ==
  /\ 0 \in DOMAIN table => table[0] = Abi!First
  /\ \A n \in DOMAIN table \ {0} :
       /\ SetsAt(active, n) /\ table[n] = V(active, n)
       /\ n \notin Passed => restarts # 0 /\ Abi!AbiFirst(active[n]) /\ (n >= next \/ Pending(blocks, n, 1))
       /\ \A i \in DOMAIN blocks :
            /\ blocks[i].num = n => blocks[i].body = active[n]
            /\ blocks[i].num > n => next > n /\ \A j \in DOMAIN blocks : j > i => blocks[j].num > n

\* The cache and the answers under way.
Unseen == 0 \notin DOMAIN table
CachedAs(abi) ==
  /\ abi.block_num = -2 => abi = Abi!NoAbi
  /\ Right(active, abi)
  /\ abi.block_num \in Nat => \A n \in Passed : n <= abi.block_num
  /\ abi.block_num = -1 => Passed = {} /\ Unseen
  /\ inserting # -1 => abi.block_num >= blocks[1].num
  /\ abi.block_num \in Nat => abi.block_num \in DOMAIN table \/ (inserting # -1 /\ abi.block_num = blocks[1].num)
Cached == CachedAs(abis)

Answered(s) ==
  LET abi == fetch[s].abi
  IN  /\ fetch[s].at \in {"next", "rpc"} \/ (fetch[s].at = "answered" /\ abi.block_num < 0) =>
           Unseen /\ \A n \in Passed : s = "prepare" /\ n <= abis.block_num
      /\ fetch[s].at = "answered" /\ abi.block_num = -2 => abi = Abi!NoAbi
      /\ fetch[s].at = "answered" /\ abi.block_num \in Nat =>
           /\ abi.block_num \in DOMAIN table /\ Right(active, abi)
           /\ s = "process" => abi.block_num <= blocks[1].num
           /\ \A n \in Passed : n <= abi.block_num \/ (s = "prepare" /\ n <= abis.block_num)
Estimates ==
  \A i \in DOMAIN blocks : \A k \in DOMAIN blocks[i].estimates :
    Right(active, blocks[i].estimates[k]) /\ (blocks[i].estimates[k].block_num = -2 => blocks[i].estimates[k] = Abi!NoAbi)

AbiInv ==
  /\ Types /\ Progress
  /\ SettingBlocks /\ Starts /\ PassedBelow /\ ForkFree
  /\ Rows /\ Cached /\ (\A s \in Abi!Stages : Answered(s)) /\ Estimates
  /\ Abi!DecodedByAbiInForce

-----------------------------------------------------------------------------
(* The last of a set of heights, and the ABI it leaves in force.            *)

LEMMA LeastNat ==
  ASSUME NEW S \in SUBSET Nat, S # {}
  PROVE  \E m \in S : \A k \in S : m <= k
<1> DEFINE R == OpToRel(<, Nat)
<1>1. IsWellFoundedOn(R, Nat)
  BY NatLessThanWellFounded
<1>2. PICK x \in S : \A y \in S : ~ (<<y, x>> \in R)
  BY <1>1, WFMin
<1>3. \A y \in S : <<y, x>> \in R <=> y < x
  BY DEF OpToRel
<1>4. \A y \in S : ~ (y < x)
  BY <1>2, <1>3, Zenon
<1> HIDE DEF R
<1> QED BY <1>4

LEMMA LastIs ==
  ASSUME NEW S \in SUBSET Int, NEW m \in S, \A k \in S : k <= m
  PROVE  Abi!LastOf(S) = m
<1>1. \A x \in S : (\A k \in S : k <= x) => x = m
  OBVIOUS
<1>2. Abi!LastOf(S) \in S /\ \A k \in S : k <= Abi!LastOf(S)
  BY Zenon DEF Abi!LastOf
<1> QED BY <1>1, <1>2

LEMMA LastOfSet ==
  ASSUME NEW n \in Nat, NEW S \in SUBSET (0..n), S # {}
  PROVE  Abi!LastOf(S) \in S /\ \A k \in S : k <= Abi!LastOf(S)
<1> DEFINE over == {m \in Nat : \A k \in S : k <= m}
<1>1. n \in over
  OBVIOUS
<1>2. PICK m \in over : \A k \in over : m <= k
  BY <1>1, LeastNat
<1>3. m \in S
  <2>1. SUFFICES ASSUME m \notin S PROVE FALSE
    OBVIOUS
  <2>2. m # 0
    <3>1. PICK k \in S : TRUE
      OBVIOUS
    <3> QED BY <1>2, <2>1, <3>1
  <2>3. \A k \in S : k <= m - 1
    BY <1>2, <2>1
  <2>4. m - 1 \in over
    BY <1>2, <2>2, <2>3
  <2> QED BY <1>2, <2>4
<1>4. \A k \in S : k <= m
  BY <1>2
<1> HIDE DEF over
<1>5. Abi!LastOf(S) = m
  BY <1>3, <1>4, LastIs
<1> QED BY <1>3, <1>4, <1>5

\* A body holds one setabi at most.
LEMMA OneSetAbiIn ==
  ASSUME NEW body \in AbiBodies
  PROVE  /\ body \in Seq(Nat)
         /\ \A k, l \in DOMAIN body : body[k] # Abi!Use /\ body[l] # Abi!Use => k = l
BY AbiAssumption DEF Abi!Use

LEMMA VersionOf ==
  ASSUME NEW body \in AbiBodies, NEW d, NEW k \in DOMAIN body, body[k] # Abi!Use
  PROVE  Abi!Sets(body) /\ Abi!Last0(body, d) = body[k]
<1> DEFINE S == {l \in DOMAIN body : body[l] # Abi!Use}
<1>1. S = {k} /\ k \in Int
  BY OneSetAbiIn
<1>2. Abi!LastOf(S) = k
  <2> HIDE DEF S
  <2> QED BY <1>1, LastIs
<1> QED BY <1>2 DEF Abi!Last0, Abi!Sets

\* What of a body is processed.
LEMMA VersionOfPrefix ==
  ASSUME NEW body \in AbiBodies, NEW d, NEW m \in 0..Len(body)
  PROVE  /\ (\A k \in 1..m : body[k] = Abi!Use) => Abi!Last0(SubSeq(body, 1, m), d) = d
         /\ \A k \in 1..m : body[k] # Abi!Use => Abi!Last0(SubSeq(body, 1, m), d) = Abi!Last0(body, d)
<1>1. body \in Seq(Nat)
  BY OneSetAbiIn
<1> DEFINE s == SubSeq(body, 1, m)
<1>2. s \in Seq(Nat) /\ Len(s) = m /\ DOMAIN s = 1..m /\ \A l \in 1..m : s[l] = body[l]
  BY <1>1
<1>3. 1..m \subseteq DOMAIN body
  BY <1>1
<1>4. ASSUME \A k \in 1..m : body[k] = Abi!Use PROVE Abi!Last0(s, d) = d
  BY <1>2, <1>4 DEF Abi!Last0, Abi!Sets
<1>5. ASSUME NEW k \in 1..m, body[k] # Abi!Use PROVE Abi!Last0(s, d) = Abi!Last0(body, d)
  <2> DEFINE S == {l \in DOMAIN s : s[l] # Abi!Use}
  <2>1. S = {k} /\ k \in Int
    BY <1>2, <1>3, <1>5, OneSetAbiIn
  <2>2. Abi!LastOf(S) = k
    <3> HIDE DEF S, s
    <3> QED BY <2>1, LastIs
  <2>3. Abi!Last0(s, d) = body[k]
    BY <1>2, <1>5, <2>2 DEF Abi!Last0, Abi!Sets
  <2> QED BY <1>3, <1>5, <2>3, VersionOf
<1> HIDE DEF s
<1> QED BY <1>4, <1>5 DEF s

LEMMA ByLastIs ==
  ASSUME NEW c, NEW S \in SUBSET Int, NEW m \in S, \A k \in S : k <= m
  PROVE  ByLast(c, S) = V(c, m)
BY LastIs DEF ByLast

\* The ABI that a prefix of the chain leaves in force.
LEMMA PrefixInForce ==
  ASSUME NEW c \in Seq(AbiBodies), NEW m \in 0..Len(c)
  PROVE  Abi!InForce(SubSeq(c, 1, m)) = ByLast(c, {n \in 1..m : Abi!Sets(c[n])})
<1> DEFINE s == SubSeq(c, 1, m)
           S == {n \in 1..m : Abi!Sets(c[n])}
<1>1. Len(c) \in Nat
  OBVIOUS
<1>2. DOMAIN s = 1..m /\ \A n \in 1..m : s[n] = c[n]
  BY <1>1
<1>3. {n \in DOMAIN s : Abi!Sets(s[n])} = S
  BY <1>2
<1>4. CASE S = {}
  BY <1>3, <1>4 DEF Abi!InForce, ByLast
<1>5. CASE S # {}
  <2>1. Abi!LastOf(S) \in S
    <3>1. S \in SUBSET (0..m) /\ m \in Nat
      BY <1>1
    <3> HIDE DEF S
    <3> QED BY <1>5, <3>1, LastOfSet
  <2>2. s[Abi!LastOf(S)] = c[Abi!LastOf(S)] /\ Abi!LastOf(S) # 0
    BY <1>2, <2>1
  <2>3. Abi!InForce(s) = Abi!Last0(s[Abi!LastOf(S)], Abi!First)
    <3> HIDE DEF S, s
    <3> QED BY <1>3, <1>5 DEF Abi!InForce
  <2>4. ByLast(c, S) = Abi!Last0(c[Abi!LastOf(S)], Abi!First)
    <3> HIDE DEF S, s
    <3> QED BY <1>5, <2>2 DEF ByLast, V
  <2>5. Abi!InForce(s) = ByLast(c, S)
    <3> HIDE DEF S, s
    <3> QED BY <2>2, <2>3, <2>4
  <2> QED BY <2>5
<1> QED BY <1>4, <1>5

\* Versions are numbers.
LEMMA VIsInt ==
  ASSUME NEW c \in Seq(AbiBodies), NEW n, n = 0 \/ SetsAt(c, n)
  PROVE  V(c, n) \in Int
<1>1. CASE n = 0
  BY <1>1 DEF V, Abi!First
<1>2. CASE n # 0
  <2>1. c[n] \in AbiBodies /\ Abi!Sets(c[n])
    BY <1>2 DEF SetsAt
  <2>2. PICK k \in DOMAIN c[n] : c[n][k] # Abi!Use
    BY <2>1 DEF Abi!Sets
  <2>3. c[n][k] \in Nat /\ Abi!Last0(c[n], Abi!First) = c[n][k]
    BY <2>1, <2>2, OneSetAbiIn, VersionOf
  <2> QED BY <1>2, <2>3 DEF V
<1> QED BY <1>1, <1>2

LEMMA ByLastIsInt ==
  ASSUME NEW c \in Seq(AbiBodies), NEW m \in 0..Len(c)
  PROVE  ByLast(c, {n \in 1..m : Abi!Sets(c[n])}) \in Int
<1> DEFINE S == {n \in 1..m : Abi!Sets(c[n])}
<1>1. CASE S = {}
  BY <1>1 DEF ByLast, Abi!First
<1>2. CASE S # {}
  <2>1. PICK n \in S : Abi!LastOf(S) = n
    <3>1. S \in SUBSET (0..m) /\ m \in Nat
      OBVIOUS
    <3> HIDE DEF S
    <3> QED BY <1>2, <3>1, LastOfSet
  <2>2. SetsAt(c, n)
    BY DEF SetsAt
  <2> HIDE DEF S
  <2>3. ByLast(c, S) = V(c, n)
    BY <1>2, <2>1 DEF ByLast
  <2> QED BY <2>2, <2>3, VIsInt DEF S
<1> QED BY <1>1, <1>2

-----------------------------------------------------------------------------
(* What a step of the chain or of a stage leaves as it was.                 *)

\* The chain c, read up to m, turns into d, read up to n, with all setabis kept.
Keeps(c, m, d, n) ==
  /\ \A k : SetsAt(c, k) => SetsAt(d, k) /\ d[k] = c[k]
  /\ \A k : SetsAt(c, k) /\ k < m <=> SetsAt(d, k) /\ k < n

LEMMA VKept ==
  ASSUME NEW c, NEW m, NEW d, NEW n, Keeps(c, m, d, n), NEW k, k = 0 \/ SetsAt(c, k)
  PROVE  V(d, k) = V(c, k)
BY DEF Keeps, V

LEMMA RightKept ==
  ASSUME NEW c, NEW m, NEW d, NEW n, Keeps(c, m, d, n), NEW abi, Right(c, abi)
  PROVE  Right(d, abi)
<1>1. SUFFICES ASSUME abi.block_num \in Nat
               PROVE  /\ abi.version = V(d, abi.block_num)
                      /\ abi.block_num = 0 \/ SetsAt(d, abi.block_num)
  BY DEF Right
<1>2. abi.version = V(c, abi.block_num) /\ (abi.block_num = 0 \/ SetsAt(c, abi.block_num))
  BY <1>1 DEF Right
<1>3. V(d, abi.block_num) = V(c, abi.block_num)
  BY <1>2, VKept
<1>4. SetsAt(c, abi.block_num) => SetsAt(d, abi.block_num)
  BY DEF Keeps
<1> QED BY <1>2, <1>3, <1>4

LEMMA ByLastKept ==
  ASSUME NEW c \in Seq(AbiBodies), NEW m, NEW d, NEW n, Keeps(c, m, d, n),
         NEW S \in SUBSET {k \in 1..Len(c) : SetsAt(c, k)}
  PROVE  ByLast(d, S) = ByLast(c, S)
<1>1. CASE S = {}
  BY <1>1 DEF ByLast
<1>2. CASE S # {}
  <2>1. Abi!LastOf(S) \in S
    <3>1. Len(c) \in Nat /\ S \subseteq 0..Len(c)
      OBVIOUS
    <3> QED BY <1>2, <3>1, LastOfSet
  <2> QED BY ZenonT(60), <1>2, <2>1, VKept DEF ByLast
<1> QED BY <1>1, <1>2

LEMMA SetsKept ==
  ASSUME NEW c, NEW m, NEW d, NEW n, Keeps(c, m, d, n), NEW bs
  PROVE  /\ PassedIn(d, n, bs) = PassedIn(c, m, bs)
         /\ \A i : BeforeIn(d, n, bs, i) = BeforeIn(c, m, bs, i)
BY DEF Keeps, PassedIn, BeforeIn, SetsAt

\* The blocks bs turn into cs, with no setabi processed.
Same(bs, cs) ==
  /\ Len(cs) = Len(bs) /\ DOMAIN cs = DOMAIN bs
  /\ \A i \in DOMAIN bs :
       /\ cs[i].num = bs[i].num /\ cs[i].body = bs[i].body /\ cs[i].start = bs[i].start
       /\ Undone(cs[i]) <=> Undone(bs[i])

LEMMA PendingSame ==
  ASSUME NEW bs, NEW cs, Same(bs, cs), NEW n, NEW i
  PROVE  Pending(cs, n, i) <=> Pending(bs, n, i)
BY DEF Same, Pending

LEMMA SetsSame ==
  ASSUME NEW bs, NEW cs, Same(bs, cs), NEW c, NEW m
  PROVE  /\ PassedIn(c, m, cs) = PassedIn(c, m, bs)
         /\ \A i \in DOMAIN bs : BeforeIn(c, m, cs, i) = BeforeIn(c, m, bs, i)
<1>1. \A n, i : Pending(cs, n, i) <=> Pending(bs, n, i)
  BY PendingSame
<1>2. \A i \in DOMAIN bs : cs[i].num = bs[i].num
  BY DEF Same
<1> QED BY <1>1, <1>2 DEF PassedIn, BeforeIn

\* What the chain decides, and what the blocks under way do.
Follows == SettingBlocks /\ Starts /\ PassedBelow /\ ForkFree /\ Rows

LEMMA FollowsChain ==
  ASSUME Types, Types', Follows, Keeps(active, next, active', next'),
         UNCHANGED <<blocks, table, restarts, done>>,
         (abiForks' = abiForks /\ next' = next) \/ abiForks' # 0
  PROVE  Follows' /\ Passed' = Passed
<1>1. /\ \A k : SetsAt(active, k) => SetsAt(active', k) /\ active'[k] = active[k]
      /\ \A k : SetsAt(active, k) => (k < next <=> k < next')
  BY DEF Keeps
<1>2. /\ PassedIn(active', next', blocks') = PassedIn(active, next, blocks)
      /\ \A i : BeforeIn(active', next', blocks', i) = BeforeIn(active, next, blocks, i)
  <2>1. blocks' = blocks
    OBVIOUS
  <2> QED BY <2>1, SetsKept
<1>3. Passed' = Passed
  BY <1>2 DEF Passed
<1>4. SettingBlocks'
  BY <1>1 DEF Follows, SettingBlocks
<1>5. Starts'
  <2>1. active \in Seq(AbiBodies)
    BY DEF Types
  <2>2. \A i : ByLast(active', Before(i)) = ByLast(active, Before(i))
    <3>1. \A i : Before(i) \in SUBSET {k \in 1..Len(active) : SetsAt(active, k)}
      BY DEF Before, BeforeIn
    <3> QED BY <2>1, <3>1, ByLastKept
  <2>3. \A i : BeforeIn(active', next', blocks', i) = Before(i)
    BY <1>2 DEF Before
  <2>4. blocks' = blocks
    OBVIOUS
  <2> QED BY <2>2, <2>3, <2>4 DEF Follows, Starts, Before
<1>6. PassedBelow'
  <2>1. \A n \in Passed : active'[n] = active[n]
    BY <1>1 DEF Passed, PassedIn
  <2> QED BY <1>3, <2>1 DEF Follows, PassedBelow
<1>7. ForkFree'
  BY DEF Follows, ForkFree
<1>8. Rows'
  <2>1. next \in Nat /\ next' \in Nat /\ DOMAIN table \subseteq Nat
    BY DEF Types
  <2>2. ASSUME NEW n \in DOMAIN table, n # 0, SetsAt(active, n)
        PROVE  /\ V(active', n) = V(active, n) /\ SetsAt(active', n)
               /\ active'[n] = active[n] /\ (n < next <=> n < next')
    BY <1>1, <2>2, VKept
  <2>3. blocks' = blocks /\ table' = table /\ restarts' = restarts
    OBVIOUS
  <2>4. \A n \in DOMAIN table : (n >= next <=> ~(n < next)) /\ (n >= next' <=> ~(n < next'))
                             /\ (next > n <=> n < next) /\ (next' > n <=> n < next')
    BY <2>1
  <2> QED BY <1>3, <2>2, <2>3, <2>4 DEF Follows, Rows
<1> QED BY <1>3, <1>4, <1>5, <1>6, <1>7, <1>8 DEF Follows

LEMMA FollowsBlocks ==
  ASSUME Follows, Same(blocks, blocks'),
         UNCHANGED <<active, next, abiForks, table, restarts, done>>
  PROVE  Follows' /\ Passed' = Passed
<1>1. /\ DOMAIN blocks' = DOMAIN blocks
      /\ \A i \in DOMAIN blocks :
           /\ blocks'[i].num = blocks[i].num /\ blocks'[i].body = blocks[i].body
           /\ blocks'[i].start = blocks[i].start
  BY DEF Same
<1>2. /\ PassedIn(active', next', blocks') = PassedIn(active, next, blocks)
      /\ \A i \in DOMAIN blocks : BeforeIn(active', next', blocks', i) = BeforeIn(active, next, blocks, i)
  BY SetsSame
<1>3. Passed' = Passed
  BY <1>2 DEF Passed
<1>4. SettingBlocks'
  BY <1>1 DEF Follows, SettingBlocks
<1>5. Starts'
  BY <1>1, <1>2 DEF Follows, Starts, Before
<1>6. PassedBelow'
  <2>1. ASSUME NEW n \in Passed, NEW i \in DOMAIN blocks
        PROVE  n < blocks'[i].num \/ (i = 1 /\ n = blocks'[1].num /\ blocks'[1].body = active[n])
    BY <1>1, <2>1 DEF Follows, PassedBelow
  <2> QED BY <1>1, <1>3, <2>1 DEF Follows, PassedBelow
<1>7. ForkFree'
  BY <1>1 DEF Follows, ForkFree
<1>8. Rows'
  <2>1. \A n : Pending(blocks', n, 1) <=> Pending(blocks, n, 1)
    BY PendingSame
  <2> QED BY <1>1, <1>3, <2>1 DEF Follows, Rows
<1> QED BY <1>3, <1>4, <1>5, <1>6, <1>7, <1>8 DEF Follows

\* The cache and an answer under way, where nothing is passed.
LEMMA CachedKept ==
  ASSUME Cached, UNCHANGED <<abis, table, inserting>>, Passed' = Passed,
         NEW m, NEW n, Keeps(active, m, active', n), inserting # -1 => blocks'[1].num = blocks[1].num
  PROVE  Cached'
<1>1. Right(active', abis)
  BY RightKept DEF Cached, CachedAs
<1>2. abis' = abis /\ table' = table /\ inserting' = inserting
  OBVIOUS
<1> QED BY <1>1, <1>2 DEF Cached, CachedAs, Unseen

LEMMA AnsweredKept ==
  ASSUME NEW s \in Abi!Stages, Answered(s), fetch'[s] = fetch[s],
         UNCHANGED table, Passed' = Passed,
         \A n \in Passed : n <= abis.block_num => n <= abis'.block_num,
         NEW k, NEW l, Keeps(active, k, active', l),
         s = "process" /\ fetch[s].at # "idle" => blocks'[1].num = blocks[1].num
  PROVE  Answered(s)'
<1>1. Right(active, fetch[s].abi) => Right(active', fetch[s].abi)
  BY RightKept
<1> QED BY <1>1 DEF Answered, Unseen

LEMMA StagesAre ==
  ASSUME Types
  PROVE  /\ Abi!Working("prepare") /\ Abi!Item("prepare") = Abi!Use <=> Preparing(blocks)
         /\ (Abi!Working("process") /\ Abi!Item("process") = Abi!Use) <=> (inserting = -1 /\ Processing(blocks))
         /\ Abi!BlockNum("prepare") = blocks[Len(blocks)].num /\ Abi!BlockNum("process") = blocks[1].num
         /\ Abi!Stages = {"prepare", "process"}
<1>1. Len(blocks) \in Nat
  BY DEF Types
<1>2. Abi!At("prepare") = Len(blocks) /\ Abi!At("process") = 1
  BY DEF Abi!At
<1>3. ASSUME blocks # <<>>
      PROVE  /\ blocks[Len(blocks)].prepared \in Nat /\ blocks[1].done \in Nat
             /\ Abi!Last(blocks) = blocks[Len(blocks)]
  <2>1. blocks \in Seq(Blocks) /\ 1 \in DOMAIN blocks /\ Len(blocks) \in DOMAIN blocks
    BY <1>1, <1>3 DEF Types
  <2>2. blocks[1] \in Blocks /\ blocks[Len(blocks)] \in Blocks
    BY <2>1
  <2> QED BY <2>2 DEF Blocks, Abi!Last
<1>4. Abi!Working("prepare") /\ Abi!Item("prepare") = Abi!Use <=> Preparing(blocks)
  BY <1>2, <1>3 DEF Abi!Working, Abi!Item, Preparing
<1>5. (Abi!Working("process") /\ Abi!Item("process") = Abi!Use) <=> (inserting = -1 /\ Processing(blocks))
  BY <1>2, <1>3 DEF Abi!Working, Abi!Item, Processing, Abi!None
<1> QED BY <1>2, <1>4, <1>5 DEF Abi!BlockNum, Abi!Stages

LEMMA ChainStep ==
  ASSUME AbiInv, Types', Keeps(active, next, active', next'),
         UNCHANGED <<table, abis, blocks, fetch, inserting, restarts, done, decoded>>,
         (abiForks' = abiForks /\ next' = next) \/ abiForks' # 0
  PROVE  AbiInv'
<1>1. Follows' /\ Passed' = Passed
  BY FollowsChain DEF AbiInv, Follows
<1>2. Progress'
  BY DEF AbiInv, Progress
<1>3. Cached'
  BY <1>1, CachedKept DEF AbiInv
<1>4. ASSUME NEW s \in Abi!Stages PROVE Answered(s)'
  <2>1. Answered(s) /\ fetch' = fetch /\ abis' = abis /\ blocks' = blocks
    BY DEF AbiInv
  <2> QED BY <1>1, <2>1, AnsweredKept
<1>5. Estimates'
  <2>1. \A abi : Right(active, abi) => Right(active', abi)
    BY RightKept
  <2> QED BY <2>1 DEF AbiInv, Estimates
<1>6. Abi!DecodedByAbiInForce'
  BY DEF AbiInv, Abi!DecodedByAbiInForce
<1> QED BY <1>1, <1>2, <1>3, <1>4, <1>5, <1>6 DEF AbiInv, Follows, Abi!Stages

LEMMA ExtendInv ==
  ASSUME AbiInv, Abi!Extend
  PROVE  AbiInv'
<1>1. active \in Seq(AbiBodies) /\ next \in Nat /\ next <= Len(active) + 1
  BY DEF AbiInv, Types
<1>2. PICK body \in AbiBodies : active' = Append(active, body)
  BY DEF Abi!Extend
<1>3. /\ active' \in Seq(AbiBodies) /\ Len(active') = Len(active) + 1 /\ Len(active) \in Nat
      /\ \A n \in 1..Len(active) : active'[n] = active[n]
  BY <1>1, <1>2
<1>4. UNCHANGED <<table, abis, blocks, fetch, inserting, restarts, done, decoded>> /\ next' = next /\ abiForks' = abiForks
  BY DEF Abi!Extend
<1>5. Types'
  BY <1>1, <1>3, <1>4 DEF AbiInv, Types
<1>6. Keeps(active, next, active', next')
  <2>1. ASSUME NEW k, SetsAt(active, k) PROVE SetsAt(active', k) /\ active'[k] = active[k]
    BY <1>3, <2>1 DEF SetsAt
  <2>2. ASSUME NEW k, SetsAt(active', k), k < next PROVE SetsAt(active, k)
    BY <1>1, <1>3, <2>2 DEF SetsAt
  <2> QED BY <1>4, <2>1, <2>2 DEF Keeps
<1> QED BY <1>4, <1>5, <1>6, ChainStep

LEMMA ForkInv ==
  ASSUME AbiInv, Abi!Fork
  PROVE  AbiInv'
<1>1. active \in Seq(AbiBodies) /\ next \in Nat \ {0} /\ next <= Len(active) + 1 /\ abiForks \in Nat
  BY DEF AbiInv, Types
<1>2. PICK k \in 0..Len(active) - 1 :
        /\ \A n \in k + 1..Len(active) : ~Abi!Sets(active[n])
        /\ active' = SubSeq(active, 1, k)
        /\ next' = IF next > k + 1 THEN k + 1 ELSE next
  BY DEF Abi!Fork
<1>3. /\ active' \in Seq(AbiBodies) /\ Len(active') = k /\ Len(active) \in Nat
      /\ \A n \in 1..k : active'[n] = active[n]
  BY <1>1, <1>2
<1>4. UNCHANGED <<table, abis, blocks, fetch, inserting, restarts, done, decoded>> /\ abiForks' = abiForks + 1
  BY DEF Abi!Fork
<1>5. Types'
  BY <1>1, <1>2, <1>3, <1>4 DEF AbiInv, Types
<1>6. Keeps(active, next, active', next')
  <2>1. ASSUME NEW n, SetsAt(active, n) PROVE SetsAt(active', n) /\ active'[n] = active[n] /\ n <= k /\ n \in Nat
    <3>1. n \in 1..Len(active) /\ n \notin k + 1..Len(active)
      BY <1>2, <2>1 DEF SetsAt
    <3>2. n \in 1..k
      BY <1>3, <3>1
    <3> QED BY <1>3, <2>1, <3>2 DEF SetsAt
  <2>2. ASSUME NEW n, SetsAt(active', n) PROVE SetsAt(active, n)
    BY <1>3, <2>2 DEF SetsAt
  <2>3. \A n : SetsAt(active, n) => (n < next <=> n < next')
    BY <1>1, <1>2, <2>1
  <2> QED BY <2>1, <2>2, <2>3 DEF Keeps
<1>7. abiForks' # 0
  BY <1>1, <1>4
<1> QED BY <1>4, <1>5, <1>6, <1>7, ChainStep

LEMMA ReceiveInv ==
  ASSUME AbiInv, Abi!Receive
  PROVE  AbiInv'
<1> DEFINE L == Len(blocks) + 1
           b == [num |-> next, body |-> active[next], start |-> Abi!InForce(SubSeq(active, 1, next - 1)),
                 estimates |-> <<>>, prepared |-> 0, done |-> 0]
<1>1. /\ active \in Seq(AbiBodies) /\ next \in Nat \ {0} /\ next <= Len(active) + 1
      /\ blocks \in Seq(Blocks) /\ DOMAIN table \subseteq Nat /\ done \in Nat /\ restarts \in Nat
  BY DEF AbiInv, Types
<1>2. /\ next <= Len(active) /\ blocks' = Append(blocks, b) /\ next' = next + 1
      /\ blocks # <<>> => blocks[Len(blocks)].prepared = Len(blocks[Len(blocks)].body)
      /\ UNCHANGED <<active, abiForks, restarts, table, abis, fetch, inserting, done, decoded>>
  BY DEF Abi!Receive, Abi!Last
<1>3. /\ L - 1 \in Nat /\ L - 1 = Len(blocks) /\ DOMAIN blocks = 1..L - 1
      /\ Len(blocks') = L /\ DOMAIN blocks' = 1..L
      /\ blocks'[L] = b /\ \A i \in DOMAIN blocks : blocks'[i] = blocks[i]
  BY <1>1, <1>2
<1>4. active[next] \in AbiBodies
  BY <1>1, <1>2
<1>5. /\ b.num = next /\ b.body = active[next] /\ b.done = 0 /\ b.prepared = 0 /\ b.estimates = <<>>
      /\ b.start = ByLast(active, {n \in 1..next - 1 : Abi!Sets(active[n])})
  <2>1. next - 1 \in 0..Len(active)
    BY <1>1, <1>2
  <2> QED BY <1>1, <2>1, PrefixInForce
<1> HIDE DEF b
<1>6. ASSUME Abi!Sets(active[next]) PROVE Undone(b)
  BY <1>1, <1>4, <1>5, <1>6, OneSetAbiIn DEF Abi!Sets, Undone
<1>7. SetsAt(active, next) => Pending(blocks', next, 1) /\ \A i \in DOMAIN blocks : Pending(blocks', next, i)
  BY <1>3, <1>5, <1>6 DEF SetsAt, Pending
<1>8. ASSUME NEW n, n # next, NEW i \in 1..L PROVE Pending(blocks', n, i) <=> Pending(blocks, n, i)
  BY <1>3, <1>5, <1>8 DEF Pending
<1>9. Passed' = Passed
  <2>1. \A n \in 1..Len(active) : SetsAt(active, n) /\ n < next' /\ ~Pending(blocks', n, 1)
                               <=> SetsAt(active, n) /\ n < next /\ ~Pending(blocks, n, 1)
    BY <1>1, <1>2, <1>3, <1>7, <1>8
  <2> QED BY <1>2, <2>1 DEF Passed, PassedIn
<1>10. ASSUME NEW i \in DOMAIN blocks
       PROVE  BeforeIn(active, next', blocks', i) = BeforeIn(active, next, blocks, i)
  <2>1. \A n \in 1..Len(active) : SetsAt(active, n) /\ n < next' /\ ~Pending(blocks', n, i)
                               <=> SetsAt(active, n) /\ n < next /\ ~Pending(blocks, n, i)
    BY <1>1, <1>2, <1>3, <1>7, <1>8
  <2> QED BY <1>3, <2>1 DEF BeforeIn
<1>11. BeforeIn(active, next', blocks', L) = {n \in 1..next - 1 : Abi!Sets(active[n])}
  <2>1. \A n : n < next => ~Pending(blocks', n, L)
    BY <1>1, <1>3, <1>5 DEF Pending
  <2>2. blocks'[L].num = next
    BY <1>3, <1>5
  <2> QED BY <1>1, <1>2, <2>1, <2>2 DEF BeforeIn, SetsAt
<1>12. Types'
  <2>1. b \in Blocks
    <3>1. b.start \in Int
      <4>1. next - 1 \in 0..Len(active)
        BY <1>1, <1>2
      <4> QED BY <1>1, <1>5, <4>1, ByLastIsInt
    <3> QED BY <1>1, <1>4, <1>5, <3>1 DEF b, Blocks
  <2>2. blocks' \in Seq(Blocks)
    BY <1>1, <1>2, <2>1
  <2> QED BY <1>1, <1>2, <2>2 DEF AbiInv, Types
<1>13. Progress'
  <2>1. ASSUME NEW i \in DOMAIN blocks'
        PROVE  /\ blocks'[i].done <= blocks'[i].prepared /\ blocks'[i].prepared <= Len(blocks'[i].body)
               /\ Len(blocks'[i].estimates) = blocks'[i].prepared
               /\ i > 1 => blocks'[i].done = 0
               /\ i < Len(blocks') => blocks'[i].prepared = Len(blocks'[i].body)
    <3>1. CASE i = L
      BY <1>3, <1>4, <1>5, <3>1, OneSetAbiIn
    <3>2. CASE i # L
      <4>1. i \in DOMAIN blocks /\ blocks'[i] = blocks[i] /\ blocks # <<>>
        BY <1>3, <3>2
      <4>2. i < L - 1 \/ i = L - 1
        BY <1>3, <4>1
      <4> QED BY <1>2, <1>3, <4>1, <4>2 DEF AbiInv, Progress
    <3> QED BY <3>1, <3>2
  <2>2. fetch["prepare"].at = "idle"
    <3>1. SUFFICES ASSUME fetch["prepare"].at # "idle" PROVE FALSE
      OBVIOUS
    <3>2. blocks # <<>> /\ blocks[Len(blocks)].prepared < Len(blocks[Len(blocks)].body)
      BY <3>1 DEF AbiInv, Progress, Preparing
    <3>3. Len(blocks[Len(blocks)].body) \in Nat
      <4>1. blocks[Len(blocks)] \in Blocks
        BY <1>1, <1>3, <3>2
      <4> QED BY <4>1, OneSetAbiIn DEF Blocks
    <3> QED BY <1>2, <3>2, <3>3
  <2>3. blocks # <<>> => blocks' # <<>> /\ blocks'[1] = blocks[1]
    BY <1>3
  <2> QED BY <1>2, <2>1, <2>2, <2>3 DEF AbiInv, Progress, Processing
<1>14. SettingBlocks'
  <2>1. ASSUME NEW i \in DOMAIN blocks', Abi!Sets(blocks'[i].body)
        PROVE  /\ SetsAt(active, blocks'[i].num) /\ active[blocks'[i].num] = blocks'[i].body
               /\ blocks'[i].num < next'
               /\ \A j \in DOMAIN blocks' : j > i => blocks'[j].num > blocks'[i].num
    <3>1. CASE i = L
      BY <1>1, <1>2, <1>3, <1>5, <2>1, <3>1 DEF SetsAt
    <3>2. CASE i # L
      <4>1. i \in DOMAIN blocks /\ blocks'[i] = blocks[i]
        BY <1>3, <3>2
      <4>2. /\ SetsAt(active, blocks[i].num) /\ active[blocks[i].num] = blocks[i].body
            /\ blocks[i].num < next /\ blocks[i].num \in Nat
            /\ \A j \in DOMAIN blocks : j > i => blocks[j].num > blocks[i].num
        BY <2>1, <4>1 DEF AbiInv, SettingBlocks, SetsAt
      <4>3. ASSUME NEW j \in DOMAIN blocks', j > i PROVE blocks'[j].num > blocks[i].num
        <5>1. CASE j = L
          BY <1>1, <1>3, <1>5, <4>2, <5>1
        <5>2. CASE j # L
          BY <1>3, <4>2, <4>3, <5>2
        <5> QED BY <5>1, <5>2
      <4> QED BY <1>1, <1>2, <4>1, <4>2, <4>3
    <3> QED BY <3>1, <3>2
  <2>2. active' = active
    BY <1>2
  <2> QED BY <2>1, <2>2 DEF SettingBlocks
<1>15. Starts'
  <2>1. ASSUME NEW i \in DOMAIN blocks' PROVE blocks'[i].start = ByLast(active, BeforeIn(active, next', blocks', i))
    <3>1. CASE i = L
      BY <1>3, <1>5, <1>11, <3>1
    <3>2. CASE i # L
      <4>1. i \in DOMAIN blocks /\ blocks'[i] = blocks[i]
        BY <1>3, <3>2
      <4> QED BY <1>10, <4>1 DEF AbiInv, Starts, Before
    <3> QED BY <3>1, <3>2
  <2> QED BY <1>2, <2>1 DEF Starts, Before
<1>16. PassedBelow'
  <2>1. ASSUME NEW n \in Passed
        PROVE  /\ n \in DOMAIN table
               /\ \A i \in DOMAIN blocks' :
                    n < blocks'[i].num \/ (i = 1 /\ n = blocks'[1].num /\ blocks'[1].body = active[n])
    <3>1. n < next
      BY DEF Passed, PassedIn
    <3>2. ASSUME NEW i \in DOMAIN blocks'
          PROVE  n < blocks'[i].num \/ (i = 1 /\ n = blocks'[1].num /\ blocks'[1].body = active[n])
      <4>1. CASE i = L
        BY <1>3, <1>5, <3>1, <4>1
      <4>2. CASE i # L
        <5>1. i \in DOMAIN blocks /\ blocks'[i] = blocks[i]
          BY <1>3, <4>2
        <5> QED BY <5>1 DEF AbiInv, PassedBelow
      <4> QED BY <4>1, <4>2
    <3> QED BY <3>2 DEF AbiInv, PassedBelow
  <2> QED BY <1>2, <1>9, <2>1 DEF PassedBelow
<1>17. ForkFree'
  <2>1. SUFFICES ASSUME abiForks = 0 PROVE ForkFree'
    BY <1>2 DEF ForkFree
  <2>2. /\ done < next
        /\ \A i \in DOMAIN blocks : done < blocks[i].num /\ blocks[i].num < next
        /\ \A i, j \in DOMAIN blocks : i < j => blocks[i].num < blocks[j].num
    BY <2>1 DEF AbiInv, ForkFree
  <2>3. \A i \in DOMAIN blocks : blocks[i].num \in Nat
    <3>1. \A i \in DOMAIN blocks : blocks[i] \in Blocks
      BY <1>1
    <3> QED BY <3>1 DEF Blocks
  <2>4. \A i \in DOMAIN blocks' : done < blocks'[i].num /\ blocks'[i].num < next + 1
    BY <1>1, <1>3, <1>5, <2>2, <2>3
  <2>5. ASSUME NEW i \in DOMAIN blocks', NEW j \in DOMAIN blocks', i < j
        PROVE  blocks'[i].num < blocks'[j].num
    <3>1. i \in DOMAIN blocks /\ blocks'[i] = blocks[i]
      BY <1>3, <2>5
    <3>2. CASE j = L
      BY <1>3, <1>5, <2>2, <3>1, <3>2
    <3>3. CASE j # L
      <4>1. j \in DOMAIN blocks /\ blocks'[j] = blocks[j]
        BY <1>3, <3>3
      <4> QED BY <2>2, <2>5, <3>1, <4>1
    <3> QED BY <3>2, <3>3
  <2>6. done < next + 1
    BY <1>1, <2>2
  <2> QED BY <1>2, <2>4, <2>5, <2>6 DEF ForkFree
<1>18. Rows'
  <2>1. ASSUME NEW n \in DOMAIN table, n # 0
        PROVE  /\ n \notin Passed => restarts # 0 /\ Abi!AbiFirst(active[n]) /\ (n >= next' \/ Pending(blocks', n, 1))
               /\ \A i \in DOMAIN blocks' :
                    /\ blocks'[i].num = n => blocks'[i].body = active[n]
                    /\ blocks'[i].num > n => next' > n /\ \A j \in DOMAIN blocks' : j > i => blocks'[j].num > n
    <3>1. /\ n \notin Passed => restarts # 0 /\ Abi!AbiFirst(active[n]) /\ (n >= next \/ Pending(blocks, n, 1))
          /\ \A i \in DOMAIN blocks :
               /\ blocks[i].num = n => blocks[i].body = active[n]
               /\ blocks[i].num > n => next > n /\ \A j \in DOMAIN blocks : j > i => blocks[j].num > n
          /\ SetsAt(active, n) /\ n \in Nat
      BY <1>1, <2>1 DEF AbiInv, Rows
    <3>2. n >= next \/ Pending(blocks, n, 1) => n >= next' \/ Pending(blocks', n, 1)
      <4>1. CASE n = next
        BY <1>7, <3>1, <4>1
      <4>2. CASE n # next
        <5>1. 1 \in 1..L
          BY <1>3
        <5>2. Pending(blocks', n, 1) <=> Pending(blocks, n, 1)
          BY <1>8, <4>2, <5>1
        <5>3. n >= next => n >= next + 1
          BY <1>1, <3>1, <4>2
        <5> QED BY <1>2, <5>2, <5>3
      <4> QED BY <4>1, <4>2
    <3>3. ASSUME NEW i \in DOMAIN blocks'
          PROVE  /\ blocks'[i].num = n => blocks'[i].body = active[n]
                 /\ blocks'[i].num > n => next' > n /\ \A j \in DOMAIN blocks' : j > i => blocks'[j].num > n
      <4>1. CASE i = L
        <5>1. blocks'[i].num = next /\ blocks'[i].body = active[next] /\ \A j \in DOMAIN blocks' : ~(j > i)
          BY <1>3, <1>5, <4>1
        <5> QED BY <1>1, <1>2, <3>1, <5>1
      <4>2. CASE i # L
        <5>1. i \in DOMAIN blocks /\ blocks'[i] = blocks[i]
          BY <1>3, <4>2
        <5>2. ASSUME NEW j \in DOMAIN blocks', j > i, blocks[i].num > n PROVE blocks'[j].num > n
          <6>1. CASE j = L
            BY <1>1, <1>3, <1>5, <3>1, <5>1, <5>2, <6>1
          <6>2. CASE j # L
            BY <1>3, <3>1, <5>1, <5>2, <6>2
          <6> QED BY <6>1, <6>2
        <5>3. next > n => next + 1 > n
          BY <1>1, <3>1
        <5> QED BY <1>2, <3>1, <5>1, <5>2, <5>3
      <4> QED BY <4>1, <4>2
    <3> QED BY <3>1, <3>2, <3>3
  <2>2. /\ 0 \in DOMAIN table => table[0] = Abi!First
        /\ \A n \in DOMAIN table \ {0} : SetsAt(active, n) /\ table[n] = V(active, n)
    BY DEF AbiInv, Rows
  <2>3. active' = active /\ table' = table /\ restarts' = restarts
    BY <1>2
  <2> HIDE DEF L
  <2> QED BY <1>9, <2>1, <2>2, <2>3 DEF Rows
<1>19. Keeps(active, next, active', next)
  BY <1>2 DEF Keeps
<1>20. blocks # <<>> => blocks'[1] = blocks[1]
  BY <1>3
<1>21. Cached'
  <2>1. inserting # -1 => blocks'[1].num = blocks[1].num
    BY <1>20 DEF AbiInv, Progress
  <2> QED BY <1>2, <1>9, <1>19, <2>1, CachedKept DEF AbiInv
<1>22. ASSUME NEW s \in Abi!Stages PROVE Answered(s)'
  <2>1. s = "process" /\ fetch[s].at # "idle" => blocks'[1].num = blocks[1].num
    BY <1>20 DEF AbiInv, Progress, Processing
  <2>2. Answered(s) /\ fetch' = fetch /\ abis' = abis /\ table' = table
    BY <1>2 DEF AbiInv
  <2> QED BY <1>9, <1>19, <2>1, <2>2, AnsweredKept
<1>23. Estimates'
  <2>1. ASSUME NEW i \in DOMAIN blocks', NEW k \in DOMAIN blocks'[i].estimates
        PROVE  /\ Right(active, blocks'[i].estimates[k])
               /\ blocks'[i].estimates[k].block_num = -2 => blocks'[i].estimates[k] = Abi!NoAbi
    <3>1. i # L
      BY <1>3, <1>5, <2>1
    <3>2. i \in DOMAIN blocks /\ blocks'[i] = blocks[i]
      BY <1>3, <3>1
    <3> QED BY <3>2 DEF AbiInv, Estimates
  <2> QED BY <1>2, <2>1 DEF Estimates
<1>24. Abi!DecodedByAbiInForce'
  BY <1>2 DEF AbiInv, Abi!DecodedByAbiInForce
<1> QED BY <1>12, <1>13, <1>14, <1>15, <1>16, <1>17, <1>18, <1>21, <1>22, <1>23, <1>24 DEF AbiInv, Abi!Stages

-----------------------------------------------------------------------------
(* The stages go on.                                                        *)

LEMMA BlockTypes ==
  ASSUME Types, NEW i \in DOMAIN blocks
  PROVE  /\ blocks[i] \in Blocks /\ blocks[i].num \in Nat \ {0} /\ blocks[i].body \in AbiBodies
         /\ blocks[i].body \in Seq(Nat) /\ Len(blocks[i].body) \in Nat /\ DOMAIN blocks[i].body = 1..Len(blocks[i].body)
         /\ blocks[i].start \in Int /\ blocks[i].estimates \in Seq(Abis)
         /\ blocks[i].prepared \in Nat /\ blocks[i].done \in Nat
         /\ i \in Nat /\ 1 <= i /\ i <= Len(blocks) /\ Len(blocks) \in Nat
<1>1. blocks \in Seq(Blocks)
  BY DEF Types
<1>2. blocks[i] \in Blocks
  BY <1>1
<1>3. blocks[i].body \in AbiBodies
  BY <1>2 DEF Blocks
<1>4. blocks[i].body \in Seq(Nat)
  BY <1>3, OneSetAbiIn
<1> QED BY SMTT(30), <1>1, <1>2, <1>3, <1>4 DEF Blocks

LEMMA PreparedBlocks ==
  ASSUME Types, Progress, blocks # <<>>, blocks[Len(blocks)].prepared < Len(blocks[Len(blocks)].body),
         NEW abi \in Abis, Abi!Prepared(abi)
  PROVE  /\ blocks' \in Seq(Blocks) /\ Same(blocks, blocks')
         /\ \A i \in DOMAIN blocks : i # Len(blocks) => blocks'[i] = blocks[i]
         /\ LET last == Len(blocks)
            IN  /\ blocks'[last].done = blocks[last].done
                /\ blocks'[last].prepared = blocks[last].prepared + 1
                /\ blocks'[last].estimates = Append(blocks[last].estimates, abi)
<1> DEFINE last == Len(blocks)
           b == [blocks[last] EXCEPT !.estimates = Append(blocks[last].estimates, abi), !.prepared = blocks[last].prepared + 1]
<1>1. last \in DOMAIN blocks /\ last \in Nat /\ blocks \in Seq(Blocks)
  BY DEF Types
<1>2. /\ blocks[last] \in Blocks /\ blocks[last].estimates \in Seq(Abis) /\ blocks[last].prepared \in Nat
  BY <1>1, BlockTypes
<1>3. blocks' = [blocks EXCEPT ![last] = b]
  BY <1>1, <1>2 DEF Abi!Prepared, Blocks
<1>4. /\ b \in Blocks /\ b.num = blocks[last].num /\ b.body = blocks[last].body /\ b.start = blocks[last].start
      /\ b.done = blocks[last].done /\ b.prepared = blocks[last].prepared + 1
      /\ b.estimates = Append(blocks[last].estimates, abi)
  <2>1. PICK r \in Blocks : r = blocks[last]
    BY <1>2
  <2>2. PICK e \in Seq(Abis) : e = Append(blocks[last].estimates, abi)
    <3>1. Append(blocks[last].estimates, abi) \in Seq(Abis)
      BY <1>2
    <3> QED BY <3>1
  <2>3. PICK n \in Nat : n = blocks[last].prepared + 1
    BY <1>2
  <2>4. b = [r EXCEPT !.estimates = e, !.prepared = n]
    BY <2>1, <2>2, <2>3
  <2>5. /\ b \in Blocks /\ b.num = r.num /\ b.body = r.body /\ b.start = r.start
        /\ b.done = r.done /\ b.prepared = n /\ b.estimates = e
    <3> HIDE DEF b
    <3> QED BY <2>4 DEF Blocks
  <2> QED BY <2>1, <2>2, <2>3, <2>5
<1> HIDE DEF b
<1>5. Undone(b) <=> Undone(blocks[last])
  BY <1>4 DEF Undone
<1>6. /\ blocks' \in Seq(Blocks) /\ Len(blocks') = last /\ DOMAIN blocks' = DOMAIN blocks
      /\ blocks'[last] = b /\ \A i \in DOMAIN blocks : i # last => blocks'[i] = blocks[i]
  BY <1>1, <1>3, <1>4
<1> HIDE DEF last
<1>7. Same(blocks, blocks')
  <2>1. ASSUME NEW i \in DOMAIN blocks
        PROVE  /\ blocks'[i].num = blocks[i].num /\ blocks'[i].body = blocks[i].body
               /\ blocks'[i].start = blocks[i].start /\ (Undone(blocks'[i]) <=> Undone(blocks[i]))
    BY <1>4, <1>5, <1>6
  <2> QED BY <1>6, <2>1 DEF Same, last
<1> QED BY <1>4, <1>6, <1>7 DEF last

LEMMA DoneBlocks ==
  ASSUME Types, Progress, blocks # <<>>, blocks' = [blocks EXCEPT ![1].done = blocks[1].done + 1]
  PROVE  /\ blocks' \in Seq(Blocks) /\ DOMAIN blocks' = DOMAIN blocks /\ Len(blocks') = Len(blocks)
         /\ \A i \in DOMAIN blocks : i # 1 => blocks'[i] = blocks[i]
         /\ 1 \in DOMAIN blocks /\ blocks'[1] = [blocks[1] EXCEPT !.done = blocks[1].done + 1]
         /\ blocks'[1].num = blocks[1].num /\ blocks'[1].body = blocks[1].body /\ blocks'[1].start = blocks[1].start
         /\ blocks'[1].estimates = blocks[1].estimates /\ blocks'[1].prepared = blocks[1].prepared
         /\ blocks'[1].done = blocks[1].done + 1
<1> DEFINE b == [blocks[1] EXCEPT !.done = blocks[1].done + 1]
<1>1. 1 \in DOMAIN blocks /\ blocks \in Seq(Blocks)
  BY DEF Types
<1>2. blocks[1] \in Blocks /\ blocks[1].done \in Nat
  BY <1>1, BlockTypes
<1>3. blocks' = [blocks EXCEPT ![1] = b]
  BY <1>1, <1>2 DEF Blocks
<1>4. /\ b \in Blocks /\ b.num = blocks[1].num /\ b.body = blocks[1].body /\ b.start = blocks[1].start
      /\ b.estimates = blocks[1].estimates /\ b.prepared = blocks[1].prepared /\ b.done = blocks[1].done + 1
  BY <1>2 DEF Blocks
<1> HIDE DEF b
<1>5. /\ blocks' \in Seq(Blocks) /\ Len(blocks') = Len(blocks) /\ DOMAIN blocks' = DOMAIN blocks
      /\ blocks'[1] = b /\ \A i \in DOMAIN blocks : i # 1 => blocks'[i] = blocks[i]
  BY <1>1, <1>3, <1>4
<1> QED BY <1>1, <1>4, <1>5 DEF b

\* Deserialization goes on with an ABI.
LEMMA PrepareGoesOn ==
  ASSUME AbiInv, blocks # <<>>, blocks[Len(blocks)].prepared < Len(blocks[Len(blocks)].body),
         NEW abi \in Abis, Abi!Prepared(abi),
         Right(active, abi), abi.block_num = -2 => abi = Abi!NoAbi,
         UNCHANGED <<active, abiForks, restarts, table, next, inserting, done>>,
         fetch' \in [Abi!Stages -> Fetches], fetch'["prepare"].at = "idle", fetch'["process"] = fetch["process"],
         NEW a \in Abis, abis' = a, CachedAs(a),
         \A n \in Passed : n <= abis.block_num => n <= a.block_num
  PROVE  AbiInv'
<1> DEFINE last == Len(blocks)
<1>1. /\ blocks' \in Seq(Blocks) /\ Same(blocks, blocks')
      /\ \A i \in DOMAIN blocks : i # last => blocks'[i] = blocks[i]
      /\ blocks'[last].done = blocks[last].done
      /\ blocks'[last].prepared = blocks[last].prepared + 1
      /\ blocks'[last].estimates = Append(blocks[last].estimates, abi)
  BY PreparedBlocks DEF AbiInv
<1>2. /\ Len(blocks') = last /\ DOMAIN blocks' = DOMAIN blocks /\ last \in DOMAIN blocks
      /\ \A i \in DOMAIN blocks : blocks'[i].num = blocks[i].num /\ blocks'[i].body = blocks[i].body
  BY <1>1 DEF Same, AbiInv, Types
<1>3. Follows' /\ Passed' = Passed
  BY <1>1, FollowsBlocks DEF AbiInv, Follows
<1>4. Types'
  BY <1>1 DEF AbiInv, Types
<1>5. Progress'
  <2>1. ASSUME NEW i \in DOMAIN blocks
        PROVE  /\ blocks'[i].done <= blocks'[i].prepared /\ blocks'[i].prepared <= Len(blocks'[i].body)
               /\ Len(blocks'[i].estimates) = blocks'[i].prepared
               /\ i > 1 => blocks'[i].done = 0
               /\ i < last => blocks'[i].prepared = Len(blocks'[i].body)
    <3>1. /\ blocks[i].done <= blocks[i].prepared /\ blocks[i].prepared <= Len(blocks[i].body)
          /\ Len(blocks[i].estimates) = blocks[i].prepared
          /\ i > 1 => blocks[i].done = 0
          /\ i < last => blocks[i].prepared = Len(blocks[i].body)
      BY DEF AbiInv, Progress
    <3>2. CASE i = last
      <4>1. /\ blocks[last].prepared \in Nat /\ blocks[last].done \in Nat /\ Len(blocks[last].body) \in Nat
            /\ blocks[last].estimates \in Seq(Abis) /\ i \in Nat
        BY <1>2, BlockTypes DEF AbiInv
      <4>2. Len(Append(blocks[last].estimates, abi)) = Len(blocks[last].estimates) + 1
        BY <4>1
      <4> HIDE DEF last
      <4> QED BY SMTT(30), <1>1, <1>2, <3>1, <3>2, <4>1, <4>2
    <3>3. CASE i # last
      BY <1>1, <3>1, <3>3
    <3> QED BY <3>2, <3>3
  <2>2. blocks[1].prepared = Len(blocks[1].body) => blocks'[1] = blocks[1] /\ blocks' # <<>>
    <3>1. 1 \in DOMAIN blocks
      BY DEF AbiInv, Types
    <3>2. blocks[1].prepared = Len(blocks[1].body) => last # 1
      BY <3>1, BlockTypes DEF AbiInv
    <3> QED BY <1>1, <1>2, <3>1, <3>2
  <2>3. fetch["process"].at # "idle" => inserting = -1 /\ Processing(blocks)
    BY DEF AbiInv, Progress
  <2>4. Processing(blocks) => Processing(blocks')
    BY <2>2 DEF Processing
  <2>5. inserting # -1 =>
          /\ blocks # <<>> /\ blocks[1].prepared = Len(blocks[1].body) /\ blocks[1].done < Len(blocks[1].body)
          /\ inserting = blocks[1].body[blocks[1].done + 1] /\ inserting # Abi!Use
    BY DEF AbiInv, Progress
  <2> QED BY <1>2, <2>1, <2>2, <2>3, <2>4, <2>5 DEF Progress
<1>6. ASSUME NEW s \in Abi!Stages PROVE Answered(s)'
  <2>1. CASE s = "prepare"
    BY <2>1 DEF Answered
  <2>2. CASE s = "process"
    <3>1. fetch["process"].at # "idle" => blocks'[1].num = blocks[1].num
      BY <1>2 DEF AbiInv, Types
    <3>2. Answered(s) /\ fetch'[s] = fetch[s] /\ table' = table
      BY <2>2 DEF AbiInv
    <3>3. Keeps(active, next, active', next')
      BY DEF Keeps
    <3> QED BY <1>3, <2>2, <3>1, <3>2, <3>3, AnsweredKept
  <2> QED BY <2>1, <2>2 DEF Abi!Stages
<1>7. Estimates'
  <2>1. ASSUME NEW i \in DOMAIN blocks', NEW k \in DOMAIN blocks'[i].estimates
        PROVE  /\ Right(active, blocks'[i].estimates[k])
               /\ blocks'[i].estimates[k].block_num = -2 => blocks'[i].estimates[k] = Abi!NoAbi
    <3>1. \A l \in DOMAIN blocks[i].estimates :
             /\ Right(active, blocks[i].estimates[l])
             /\ blocks[i].estimates[l].block_num = -2 => blocks[i].estimates[l] = Abi!NoAbi
      BY <1>2 DEF AbiInv, Estimates
    <3>2. blocks[i].estimates \in Seq(Abis)
      BY <1>2, BlockTypes DEF AbiInv
    <3>3. CASE i # last
      BY <1>1, <1>2, <3>1, <3>3
    <3>4. CASE i = last
      <4>1. blocks'[i].estimates = Append(blocks[i].estimates, abi)
        BY <1>1, <3>4
      <4>2. blocks'[i].estimates[k] = abi \/ (k \in DOMAIN blocks[i].estimates /\ blocks'[i].estimates[k] = blocks[i].estimates[k])
        BY <2>1, <3>2, <4>1
      <4> QED BY <3>1, <4>2
    <3> QED BY <3>3, <3>4
  <2> QED BY <2>1 DEF Estimates
<1>8. Abi!DecodedByAbiInForce'
  BY DEF AbiInv, Abi!DecodedByAbiInForce, Abi!Prepared
<1>9. Cached'
  <2>1. inserting # -1 => blocks'[1].num = blocks[1].num
    BY <1>2 DEF AbiInv, Types, Progress
  <2> QED BY <1>3, <2>1 DEF Cached, CachedAs, Unseen
<1> QED BY <1>3, <1>4, <1>5, <1>6, <1>7, <1>8, <1>9 DEF AbiInv, Follows

\* Of the block processed, the ABI in force is the last one passed.
LEMMA WantedIs ==
  ASSUME AbiInv, Processing(blocks)
  PROVE  Abi!Wanted(blocks[1]) = ByLast(active, Passed)
<1> DEFINE b == blocks[1]
<1>1. 1 \in DOMAIN blocks /\ Types
  BY DEF AbiInv, Types, Processing
<1>2. /\ b.body \in AbiBodies /\ DOMAIN b.body = 1..Len(b.body) /\ b.done \in 0..Len(b.body)
      /\ b.num \in Nat \ {0} /\ Len(b.body) \in Nat /\ Len(active) \in Nat
  BY <1>1, BlockTypes DEF Processing, Types
<1>3. Abi!Wanted(b) = Abi!Last0(SubSeq(b.body, 1, b.done), b.start)
  BY DEF Abi!Wanted
<1>4. \A n \in Passed : SetsAt(active, n) /\ n < next /\ ~Pending(blocks, n, 1) /\ n \in Nat
  BY <1>2 DEF Passed, PassedIn
<1>5. \A n \in Passed : n < b.num \/ (n = b.num /\ b.body = active[n])
  BY <1>1 DEF AbiInv, PassedBelow
<1> HIDE DEF b
<1>6. CASE \E k \in 1..b.done : b.body[k] # Abi!Use
  <2>1. PICK k \in 1..b.done : b.body[k] # Abi!Use
    BY <1>6
  <2>2. k \in DOMAIN b.body
    BY <1>2, <2>1
  <2>3. Abi!Sets(b.body) /\ ~Undone(b)
    BY SMTT(30), <1>2, <2>1, <2>2, OneSetAbiIn DEF Abi!Sets, Undone
  <2>4. /\ SetsAt(active, b.num) /\ active[b.num] = b.body /\ b.num < next
        /\ \A j \in DOMAIN blocks : j > 1 => blocks[j].num > b.num
    BY <1>1, <2>3 DEF AbiInv, SettingBlocks, b
  <2>5. ~Pending(blocks, b.num, 1)
    <3>1. ASSUME NEW j \in DOMAIN blocks, j >= 1, blocks[j].num = b.num, Undone(blocks[j]) PROVE FALSE
      <4>1. j = 1 \/ j > 1
        BY <1>1, <3>1 DEF Types
      <4> QED BY <1>2, <2>3, <2>4, <3>1, <4>1 DEF b
    <3> QED BY <3>1 DEF Pending
  <2>6. b.num \in Passed
    BY <2>4, <2>5 DEF Passed, PassedIn, SetsAt
  <2>7. \A n \in Passed : n <= b.num
    BY <1>2, <1>4, <1>5
  <2>8. ByLast(active, Passed) = V(active, b.num)
    <3>1. Passed \in SUBSET Int
      BY <1>4
    <3> QED BY <2>6, <2>7, <3>1, ByLastIs
  <2>9. V(active, b.num) = b.body[k]
    BY <1>2, <2>1, <2>2, <2>4, VersionOf DEF V
  <2>10. Abi!Last0(SubSeq(b.body, 1, b.done), b.start) = b.body[k]
    BY <1>2, <2>1, <2>2, VersionOfPrefix, VersionOf
  <2> QED BY <1>3, <2>8, <2>9, <2>10 DEF b
<1>7. CASE \A k \in 1..b.done : b.body[k] = Abi!Use
  <2>1. Abi!Wanted(b) = b.start
    BY <1>2, <1>3, <1>7, VersionOfPrefix
  <2>2. b.start = ByLast(active, Before(1))
    BY <1>1 DEF AbiInv, Starts, b
  <2>3. ASSUME NEW n \in Passed PROVE n < b.num
    <3>1. SUFFICES ASSUME n = b.num, b.body = active[n] PROVE FALSE
      BY <1>5
    <3>2. PICK k \in DOMAIN b.body : b.body[k] # Abi!Use
      BY <1>4, <3>1 DEF SetsAt, Abi!Sets
    <3>3. k > b.done
      BY <1>2, <1>7, <3>2
    <3>4. Undone(b)
      BY <3>2, <3>3 DEF Undone
    <3>5. Pending(blocks, n, 1)
      BY <1>1, <3>1, <3>4 DEF Pending, b
    <3> QED BY <1>4, <3>5
  <2>4. Before(1) = Passed
    <3>1. Before(1) = {n \in Passed : n < b.num}
      BY DEF Before, BeforeIn, Passed, PassedIn, b
    <3> QED BY <2>3, <3>1
  <2> QED BY <2>1, <2>2, <2>4 DEF b
<1> QED BY <1>6, <1>7

\* Rows up to the block processed are passed, whatever an earlier process left.
LEMMA RowsArePassed ==
  ASSUME AbiInv, Processing(blocks), NEW n \in DOMAIN table, n # 0, n <= blocks[1].num
  PROVE  n \in Passed
<1>1. SUFFICES ASSUME n \notin Passed PROVE FALSE
  OBVIOUS
<1>2. 1 \in DOMAIN blocks /\ Types /\ n \in Nat /\ next \in Nat /\ blocks[1].num \in Nat
  <2>1. 1 \in DOMAIN blocks
    BY DEF AbiInv, Types, Processing
  <2> QED BY <2>1, BlockTypes DEF AbiInv, Types
<1>3. /\ SetsAt(active, n) /\ Abi!AbiFirst(active[n]) /\ (n >= next \/ Pending(blocks, n, 1))
      /\ blocks[1].num = n => blocks[1].body = active[n]
      /\ blocks[1].num > n => next > n /\ \A j \in DOMAIN blocks : j > 1 => blocks[j].num > n
  BY <1>1, <1>2 DEF AbiInv, Rows
<1>4. ASSUME next > n, \A j \in DOMAIN blocks : j > 1 => blocks[j].num > n PROVE blocks[1].num = n /\ Undone(blocks[1])
  <2>1. Pending(blocks, n, 1)
    BY <1>2, <1>3, <1>4
  <2>2. PICK j \in DOMAIN blocks : j >= 1 /\ blocks[j].num = n /\ Undone(blocks[j])
    BY <2>1 DEF Pending
  <2>3. ~(j > 1)
    BY <1>2, <1>4, <2>2
  <2>4. j = 1
    BY <1>2, <2>2, <2>3 DEF Types
  <2> QED BY <2>2, <2>4
<1>5. CASE n < blocks[1].num
  BY <1>2, <1>3, <1>4, <1>5
<1>6. CASE n = blocks[1].num
  <2>1. blocks[1].body = active[n]
    BY <1>3, <1>6
  <2>2. Abi!Sets(blocks[1].body)
    BY <1>3, <2>1 DEF SetsAt
  <2>3. blocks[1].num < next /\ \A j \in DOMAIN blocks : j > 1 => blocks[j].num > blocks[1].num
    BY <1>2, <2>2 DEF AbiInv, SettingBlocks
  <2>4. Undone(blocks[1])
    BY <1>2, <1>4, <1>6, <2>3
  <2>5. PICK k \in DOMAIN blocks[1].body : k > blocks[1].done /\ blocks[1].body[k] # Abi!Use
    BY <2>4 DEF Undone
  <2>6. blocks[1].done \in Nat /\ DOMAIN blocks[1].body = 1..Len(blocks[1].body) /\ Len(blocks[1].body) \in Nat
    BY <1>2, BlockTypes
  <2>7. ~(k \in 2..Len(blocks[1].body))
    BY <1>3, <2>1, <2>5 DEF Abi!AbiFirst
  <2>8. k = 1 /\ blocks[1].done = 0
    BY <2>5, <2>6, <2>7
  <2> QED BY <2>5, <2>8 DEF Processing
<1> QED BY <1>2, <1>5, <1>6

LEMMA InForceIs ==
  ASSUME AbiInv, Processing(blocks), NEW m \in DOMAIN table, m <= blocks[1].num, \A n \in Passed : n <= m
  PROVE  ByLast(active, Passed) = V(active, m)
<1>1. \A n \in Passed : n \in Nat \ {0}
  BY DEF Passed, PassedIn
<1>2. m \in Nat
  BY DEF AbiInv, Types
<1>3. CASE m = 0
  BY <1>1, <1>3 DEF ByLast, V
<1>4. CASE m # 0
  <2>1. m \in Passed
    BY <1>4, RowsArePassed
  <2>2. Passed \in SUBSET Int
    BY <1>1
  <2> QED BY <2>1, <2>2, ByLastIs
<1> QED BY <1>3, <1>4

\* One more item of the block processed is done, which may be its setabi.
LEMMA DoneProgress ==
  ASSUME Types, Progress, blocks # <<>>, blocks[1].prepared = Len(blocks[1].body),
         blocks[1].done < Len(blocks[1].body),
         blocks' = [blocks EXCEPT ![1].done = blocks[1].done + 1],
         fetch'["prepare"] = fetch["prepare"], fetch'["process"].at = "idle", inserting' = -1
  PROVE  Progress'
<1>1. /\ DOMAIN blocks' = DOMAIN blocks /\ Len(blocks') = Len(blocks)
      /\ \A i \in DOMAIN blocks : i # 1 => blocks'[i] = blocks[i]
      /\ 1 \in DOMAIN blocks /\ blocks'[1].body = blocks[1].body /\ blocks'[1].estimates = blocks[1].estimates
      /\ blocks'[1].prepared = blocks[1].prepared /\ blocks'[1].done = blocks[1].done + 1
  BY DoneBlocks
<1>2. /\ blocks[1].done \in Nat /\ blocks[1].prepared \in Nat /\ Len(blocks[1].body) \in Nat
      /\ Len(blocks) \in Nat /\ Len(blocks) \in DOMAIN blocks
  <2>1. Len(blocks) \in Nat /\ Len(blocks) \in DOMAIN blocks
    BY DEF Types
  <2> QED BY <1>1, <2>1, BlockTypes
<1>3. ASSUME NEW i \in DOMAIN blocks'
      PROVE  /\ blocks'[i].done <= blocks'[i].prepared /\ blocks'[i].prepared <= Len(blocks'[i].body)
             /\ Len(blocks'[i].estimates) = blocks'[i].prepared
             /\ i > 1 => blocks'[i].done = 0
             /\ i < Len(blocks') => blocks'[i].prepared = Len(blocks'[i].body)
  <2>1. /\ blocks[i].done <= blocks[i].prepared /\ blocks[i].prepared <= Len(blocks[i].body)
        /\ Len(blocks[i].estimates) = blocks[i].prepared
        /\ i > 1 => blocks[i].done = 0
        /\ i < Len(blocks) => blocks[i].prepared = Len(blocks[i].body)
    BY <1>1 DEF Progress
  <2>2. CASE i = 1
    BY <1>1, <1>2, <2>1, <2>2
  <2>3. CASE i # 1
    BY <1>1, <2>1, <2>3
  <2> QED BY <2>2, <2>3
<1>4. Preparing(blocks) => Preparing(blocks')
  <2>1. CASE Len(blocks) = 1
    BY <1>2, <2>1 DEF Preparing
  <2>2. CASE Len(blocks) # 1
    <3>1. blocks'[Len(blocks)] = blocks[Len(blocks)] /\ blocks' # <<>>
      BY <1>1, <1>2, <2>2
    <3> QED BY <1>1, <3>1 DEF Preparing
  <2> QED BY <2>1, <2>2
<1>5. fetch["prepare"].at # "idle" => Preparing(blocks)
  BY DEF Progress
<1> QED BY <1>3, <1>4, <1>5 DEF Progress

\* Processing goes on with an ABI: the one in force, or one of unknown age
\* where none is known from before the block.
LEMMA ProcessGoesOn ==
  ASSUME AbiInv, Processing(blocks), inserting = -1,
         NEW abi \in Abis, Abi!Processed(abi),
         abi.block_num \in Nat =>
           /\ abi.block_num \in DOMAIN table /\ Right(active, abi) /\ abi.block_num <= blocks[1].num
           /\ \A n \in Passed : n <= abi.block_num,
         abi.block_num < 0 => Unseen /\ Passed = {},
         UNCHANGED <<active, abiForks, restarts, table, next, inserting, done>>,
         fetch' \in [Abi!Stages -> Fetches], fetch'["process"].at = "idle", fetch'["prepare"] = fetch["prepare"],
         NEW a \in Abis, abis' = a, CachedAs(a),
         \A n \in Passed : n <= abis.block_num => n <= a.block_num
  PROVE  AbiInv'
<1>1. blocks' = [blocks EXCEPT ![1].done = blocks[1].done + 1]
  BY DEF Abi!Processed
<1>2. /\ blocks' \in Seq(Blocks) /\ DOMAIN blocks' = DOMAIN blocks /\ Len(blocks') = Len(blocks)
      /\ \A i \in DOMAIN blocks : i # 1 => blocks'[i] = blocks[i]
      /\ 1 \in DOMAIN blocks
      /\ blocks'[1].num = blocks[1].num /\ blocks'[1].body = blocks[1].body /\ blocks'[1].start = blocks[1].start
      /\ blocks'[1].estimates = blocks[1].estimates /\ blocks'[1].done = blocks[1].done + 1
  BY <1>1, DoneBlocks DEF AbiInv, Processing
<1>3. Undone(blocks'[1]) <=> Undone(blocks[1])
  <2>1. blocks[1].done \in Nat /\ blocks[1].body[blocks[1].done + 1] = Abi!Use
    BY <1>2, BlockTypes DEF AbiInv, Processing
  <2>2. \A k \in DOMAIN blocks[1].body : k \in Nat
    BY <1>2, BlockTypes DEF AbiInv
  <2>3. \A k \in DOMAIN blocks[1].body :
           k > blocks[1].done /\ blocks[1].body[k] # Abi!Use <=> k > blocks[1].done + 1 /\ blocks[1].body[k] # Abi!Use
    BY <2>1, <2>2
  <2> QED BY <1>2, <2>3 DEF Undone
<1>4. Same(blocks, blocks')
  <2>1. ASSUME NEW i \in DOMAIN blocks
        PROVE  /\ blocks'[i].num = blocks[i].num /\ blocks'[i].body = blocks[i].body
               /\ blocks'[i].start = blocks[i].start /\ (Undone(blocks'[i]) <=> Undone(blocks[i]))
    BY <1>2, <1>3
  <2> QED BY <1>2, <2>1 DEF Same
<1>5. Follows' /\ Passed' = Passed
  BY <1>4, FollowsBlocks DEF AbiInv, Follows
<1>6. Types'
  BY <1>2 DEF AbiInv, Types
<1>7. Progress'
  BY <1>1, DoneProgress DEF AbiInv, Processing
<1>8. ASSUME NEW s \in Abi!Stages PROVE Answered(s)'
  <2>1. CASE s = "process"
    BY <2>1 DEF Answered
  <2>2. CASE s = "prepare"
    <3>1. Answered(s) /\ fetch'[s] = fetch[s] /\ table' = table /\ s # "process"
      BY <2>2 DEF AbiInv
    <3>2. Keeps(active, next, active', next')
      BY DEF Keeps
    <3> QED BY <1>5, <3>1, <3>2, AnsweredKept
  <2> QED BY <2>1, <2>2 DEF Abi!Stages
<1>9. Estimates'
  <2>1. \A i \in DOMAIN blocks : blocks'[i].estimates = blocks[i].estimates
    BY <1>2
  <2> QED BY <1>2, <2>1 DEF AbiInv, Estimates
<1>10. Abi!DecodedByAbiInForce'
  <2> DEFINE e == blocks[1].estimates[blocks[1].done + 1]
             used == IF Abi!UseEstimate(e, abi) THEN e.version ELSE abi.version
  <2>1. decoded' = [used |-> used, wanted |-> Abi!Wanted(blocks[1]),
                    unseen |-> 0 \notin DOMAIN table /\ Abi!Wanted(blocks[1]) = Abi!First]
    BY DEF Abi!Processed
  <2>2. Abi!Wanted(blocks[1]) = ByLast(active, Passed)
    BY WantedIs
  <2>3. CASE abi.block_num \in Nat
    <3>1. Abi!Wanted(blocks[1]) = V(active, abi.block_num) /\ abi.version = V(active, abi.block_num)
      BY <2>2, <2>3, InForceIs DEF Right
    <3>2. Right(active, e)
      <4>1. blocks[1].done + 1 \in DOMAIN blocks[1].estimates
        <5>1. /\ blocks[1].estimates \in Seq(Abis) /\ blocks[1].done \in Nat /\ Len(blocks[1].body) \in Nat
          BY <1>2, BlockTypes DEF AbiInv
        <5>2. Len(blocks[1].estimates) = Len(blocks[1].body) /\ blocks[1].done < Len(blocks[1].body)
          BY <1>2 DEF AbiInv, Progress, Processing
        <5> QED BY <5>1, <5>2
      <4> QED BY <1>2, <4>1 DEF AbiInv, Estimates
    <3>3. Abi!UseEstimate(e, abi) => e.version = V(active, abi.block_num)
      BY <2>3, <3>2 DEF Abi!UseEstimate, Right
    <3>4. used = Abi!Wanted(blocks[1])
      BY <3>1, <3>3
    <3> HIDE DEF used
    <3> QED BY <2>1, <3>4 DEF Abi!DecodedByAbiInForce
  <2>4. CASE abi.block_num < 0
    <3>1. Abi!Wanted(blocks[1]) = Abi!First /\ 0 \notin DOMAIN table
      BY <2>2, <2>4 DEF ByLast, Unseen
    <3> HIDE DEF used
    <3> QED BY <2>1, <3>1 DEF Abi!DecodedByAbiInForce
  <2>5. abi.block_num \in Int
    BY DEF Abis
  <2> QED BY <2>3, <2>4, <2>5
<1>11. Cached'
  BY <1>2, <1>5 DEF Cached, CachedAs, Unseen
<1> QED BY <1>5, <1>6, <1>7, <1>8, <1>9, <1>10, <1>11 DEF AbiInv, Follows

-----------------------------------------------------------------------------
(* The lookup of an ABI.                                                    *)

\* The block a stage is at.
LEMMA StageBlock ==
  ASSUME AbiInv, NEW s \in Abi!Stages, fetch[s].at # "idle"
  PROVE  \E i \in DOMAIN blocks :
           /\ Abi!BlockNum(s) = blocks[i].num
           /\ s = "process" => i = 1 /\ inserting = -1 /\ Processing(blocks)
           /\ s = "prepare" => i = Len(blocks) /\ Preparing(blocks)
<1>1. Types /\ Abi!Stages = {"prepare", "process"}
  BY DEF AbiInv, Abi!Stages
<1>2. /\ s = "process" => inserting = -1 /\ Processing(blocks)
      /\ s = "prepare" => Preparing(blocks)
  BY DEF AbiInv, Progress
<1>3. blocks # <<>>
  BY <1>1, <1>2 DEF Preparing, Processing
<1>4. 1 \in DOMAIN blocks /\ Len(blocks) \in DOMAIN blocks
  BY <1>1, <1>3 DEF Types
<1>5. Abi!BlockNum("prepare") = blocks[Len(blocks)].num /\ Abi!BlockNum("process") = blocks[1].num
  BY <1>1, StagesAre
<1> QED BY <1>1, <1>2, <1>4, <1>5

LEMMA FetchType ==
  ASSUME NEW state \in {"idle", "query", "next", "rpc", "answered"}, NEW v \in Int, NEW n \in Int, n >= -2
  PROVE  [at |-> state, abi |-> [version |-> v, block_num |-> n]] \in Fetches
BY DEF Fetches, Abis

LEMMA NoAbiType ==
  ASSUME NEW state \in {"idle", "query", "next", "rpc", "answered"}
  PROVE  /\ Abi!NoAbi \in Abis
         /\ [at |-> state, abi |-> Abi!NoAbi] \in Fetches
<1>1. Abi!NoAbi \in Abis
  BY DEF Abis, Abi!NoAbi, Abi!Abi, Abi!None, Abi!Undefined
<1> QED BY <1>1 DEF Fetches

\* A step of one stage's lookup.
LEMMA FetchStep ==
  ASSUME AbiInv, NEW s \in Abi!Stages, NEW f \in Fetches, fetch' = [fetch EXCEPT ![s] = f],
         fetch[s].at # "idle" \/ (s = "prepare" /\ Preparing(blocks)) \/ (s = "process" /\ inserting = -1 /\ Processing(blocks)),
         Passed' = Passed => Answered(s)',
         UNCHANGED <<active, abiForks, restarts, table, abis, next, blocks, inserting, done, decoded>>
  PROVE  AbiInv'
<1>1. Passed' = Passed
  BY DEF Passed
<1>2. fetch \in [Abi!Stages -> Fetches] /\ fetch' \in [Abi!Stages -> Fetches]
      /\ fetch'[s] = f /\ \A r \in Abi!Stages \ {s} : fetch'[r] = fetch[r]
  BY DEF AbiInv, Types
<1>3. Types'
  BY <1>2 DEF AbiInv, Types
<1>4. Progress'
  <2>1. \A r \in Abi!Stages : fetch'[r].at # "idle" =>
           fetch[r].at # "idle" \/ (r = "prepare" /\ Preparing(blocks)) \/ (r = "process" /\ inserting = -1 /\ Processing(blocks))
    BY <1>2
  <2>2. "prepare" \in Abi!Stages /\ "process" \in Abi!Stages
    BY DEF Abi!Stages
  <2>3. fetch'["prepare"].at # "idle" => Preparing(blocks)
    BY <2>1, <2>2 DEF AbiInv, Progress
  <2>4. fetch'["process"].at # "idle" => inserting = -1 /\ Processing(blocks)
    BY <2>1, <2>2 DEF AbiInv, Progress
  <2> QED BY <2>3, <2>4 DEF AbiInv, Progress
<1>5. SettingBlocks' /\ ForkFree'
  BY DEF AbiInv, SettingBlocks, ForkFree
<1>6. Starts'
  BY DEF AbiInv, Starts, Before
<1>7. PassedBelow' /\ Rows'
  BY <1>1 DEF AbiInv, PassedBelow, Rows
<1>8. Cached'
  BY <1>1 DEF AbiInv, Cached, CachedAs, Unseen
<1>9. ASSUME NEW r \in Abi!Stages PROVE Answered(r)'
  <2>1. CASE r = s
    BY <1>1, <2>1
  <2>2. CASE r # s
    BY <1>1, <1>2, <2>2 DEF AbiInv, Answered, Unseen
  <2> QED BY <2>1, <2>2
<1>10. Estimates' /\ Abi!DecodedByAbiInForce'
  BY DEF AbiInv, Estimates, Abi!DecodedByAbiInForce
<1> QED BY <1>3, <1>4, <1>5, <1>6, <1>7, <1>8, <1>9, <1>10 DEF AbiInv, Abi!Stages

LEMMA QueryAbiInv ==
  ASSUME AbiInv, NEW s \in Abi!Stages, Abi!QueryAbi(s)
  PROVE  AbiInv'
<1> DEFINE held == {n \in DOMAIN table : n <= Abi!BlockNum(s)}
<1>1. /\ fetch[s].at = "query"
      /\ IF held = {} THEN Abi!Answer(s, "next", Abi!NoAbi)
         ELSE Abi!Answer(s, "answered", Abi!Abi(table[Abi!LastOf(held)], Abi!LastOf(held)))
      /\ UNCHANGED <<active, abiForks, restarts, table, abis, next, blocks, inserting, done, decoded>>
  <2>1. Abi!Rows(s, TRUE) = held
    BY DEF Abi!Rows
  <2> QED BY <2>1 DEF Abi!QueryAbi
<1>2. PICK i \in DOMAIN blocks :
        Abi!BlockNum(s) = blocks[i].num /\ (s = "process" => i = 1)
  BY <1>1, StageBlock
<1>3. blocks[i].num \in Nat /\ DOMAIN table \subseteq Nat
  BY <1>2, BlockTypes DEF AbiInv, Types
<1>4. \A n \in Passed : n \in held
  <2>1. ASSUME NEW n \in Passed PROVE n \in DOMAIN table /\ n <= blocks[i].num
    <3>1. n \in DOMAIN table /\ (n < blocks[i].num \/ (i = 1 /\ n = blocks[1].num))
      BY DEF AbiInv, PassedBelow
    <3> QED BY <1>3, <3>1
  <2> QED BY <1>2, <2>1
<1>5. CASE held = {}
  <2>1. Unseen
    BY <1>2, <1>3, <1>5 DEF Unseen
  <2>2. PICK f \in Fetches : f = [at |-> "next", abi |-> Abi!NoAbi]
    <3>1. [at |-> "next", abi |-> Abi!NoAbi] \in Fetches
      BY NoAbiType
    <3> QED BY <3>1
  <2>3. fetch' = [fetch EXCEPT ![s] = f]
    BY <1>1, <1>5, <2>2 DEF Abi!Answer
  <2>4. fetch'[s] = f
    BY <2>3 DEF AbiInv, Types
  <2>5. Passed' = Passed => Answered(s)'
    <3> HIDE DEF held
    <3> QED BY <1>1, <1>4, <1>5, <2>1, <2>2, <2>4 DEF Answered, Unseen
  <2> QED BY <1>1, <2>3, <2>5, FetchStep
<1>6. CASE held # {}
  <2> DEFINE m == Abi!LastOf(held)
  <2>1. m \in held /\ \A n \in held : n <= m
    <3>1. held \in SUBSET (0..blocks[i].num)
      BY <1>2, <1>3
    <3> HIDE DEF held
    <3> QED BY <1>3, <1>6, <3>1, LastOfSet
  <2>2. m \in DOMAIN table /\ m <= blocks[i].num /\ m \in Nat
    BY <1>2, <1>3, <2>1
  <2> HIDE DEF m, held
  <2>3. table[m] = V(active, m) /\ (m = 0 \/ SetsAt(active, m))
    <3>1. CASE m = 0
      BY <2>2, <3>1 DEF AbiInv, Rows, V
    <3>2. CASE m # 0
      BY <2>2, <3>2 DEF AbiInv, Rows
    <3> QED BY <3>1, <3>2
  <2>4. table[m] \in Int
    <3>1. active \in Seq(AbiBodies)
      BY DEF AbiInv, Types
    <3> QED BY <2>3, <3>1, VIsInt
  <2>5. PICK f \in Fetches : f = [at |-> "answered", abi |-> [version |-> table[m], block_num |-> m]]
    <3>1. [at |-> "answered", abi |-> [version |-> table[m], block_num |-> m]] \in Fetches
      BY <2>2, <2>4, FetchType
    <3> QED BY <3>1
  <2>6. fetch' = [fetch EXCEPT ![s] = f]
    BY <1>1, <1>6, <2>5 DEF Abi!Answer, Abi!Abi, m
  <2>7. fetch'[s] = f
    BY <2>6 DEF AbiInv, Types
  <2>8. Right(active, f.abi) /\ f.abi.block_num = m /\ f.at = "answered"
    BY <2>3, <2>5 DEF Right
  <2>9. \A n \in Passed : n <= m
    BY <1>4, <2>1
  <2>10. Passed' = Passed => Answered(s)'
    BY <1>1, <1>2, <2>2, <2>7, <2>8, <2>9 DEF Answered
  <2> QED BY <1>1, <2>6, <2>10, FetchStep
<1> QED BY <1>5, <1>6

LEMMA AnsweredOfUnknownAge ==
  ASSUME AbiInv, NEW s \in Abi!Stages, fetch[s].at \in {"next", "rpc"},
         NEW f \in Fetches, f.at \in {"rpc", "answered"}, f.abi.block_num = -1 \/ f.abi = Abi!NoAbi,
         fetch' = [fetch EXCEPT ![s] = f],
         UNCHANGED <<active, abiForks, restarts, table, abis, next, blocks, inserting, done, decoded>>
  PROVE  AbiInv'
<1>1. Unseen /\ \A n \in Passed : s = "prepare" /\ n <= abis.block_num
  BY DEF AbiInv, Answered
<1>2. f.abi.block_num \notin Nat
  BY DEF Abi!NoAbi, Abi!Abi, Abi!Undefined
<1>3. fetch'[s] = f
  BY DEF AbiInv, Types
<1>4. f.abi.block_num = -2 => f.abi = Abi!NoAbi
  OBVIOUS
<1>5. Passed' = Passed => Answered(s)'
  BY <1>1, <1>2, <1>3, <1>4 DEF Answered, Unseen
<1> QED BY <1>5, FetchStep

LEMMA QueryNextAbiInv ==
  ASSUME AbiInv, NEW s \in Abi!Stages, Abi!QueryNextAbi(s)
  PROVE  AbiInv'
<1> DEFINE held == {n \in DOMAIN table : ~(n <= Abi!BlockNum(s))}
           m == CHOOSE n \in held : \A k \in held : n <= k
<1>1. /\ fetch[s].at = "next"
      /\ IF held = {} THEN Abi!Answer(s, "rpc", Abi!NoAbi)
         ELSE Abi!Answer(s, "answered", Abi!Abi(table[m], -1))
      /\ UNCHANGED <<active, abiForks, restarts, table, abis, next, blocks, inserting, done, decoded>>
  <2>1. Abi!Rows(s, FALSE) = held
    BY DEF Abi!Rows
  <2> QED BY <2>1 DEF Abi!QueryNextAbi
<1>2. CASE held = {}
  <2>1. PICK f \in Fetches : f = [at |-> "rpc", abi |-> Abi!NoAbi]
    <3>1. [at |-> "rpc", abi |-> Abi!NoAbi] \in Fetches
      BY NoAbiType
    <3> QED BY <3>1
  <2>2. fetch' = [fetch EXCEPT ![s] = f]
    BY <1>1, <1>2, <2>1 DEF Abi!Answer
  <2> QED BY <1>1, <2>1, <2>2, AnsweredOfUnknownAge
<1>3. CASE held # {}
  <2>1. m \in held
    <3>1. held \in SUBSET Nat
      BY DEF AbiInv, Types
    <3>2. \E n \in held : \A k \in held : n <= k
      BY <1>3, <3>1, LeastNat
    <3> QED BY <3>2
  <2>2. m \in DOMAIN table
    BY <2>1
  <2> HIDE DEF m, held
  <2>3. table[m] \in Int
    <3>1. active \in Seq(AbiBodies)
      BY DEF AbiInv, Types
    <3>2. CASE m = 0
      BY <2>2, <3>2 DEF AbiInv, Rows, Abi!First
    <3>3. CASE m # 0
      BY <2>2, <3>1, <3>3, VIsInt DEF AbiInv, Rows
    <3> QED BY <3>2, <3>3
  <2>4. PICK f \in Fetches : f = [at |-> "answered", abi |-> [version |-> table[m], block_num |-> -1]]
    <3>1. [at |-> "answered", abi |-> [version |-> table[m], block_num |-> -1]] \in Fetches
      BY <2>3, FetchType
    <3> QED BY <3>1
  <2>5. fetch' = [fetch EXCEPT ![s] = f]
    BY <1>1, <1>3, <2>4 DEF Abi!Answer, Abi!Abi
  <2> QED BY <1>1, <2>4, <2>5, AnsweredOfUnknownAge
<1> QED BY <1>2, <1>3

LEMMA GetAbiInv ==
  ASSUME AbiInv, NEW s \in Abi!Stages, Abi!GetAbi(s)
  PROVE  AbiInv'
<1>1. /\ fetch[s].at = "rpc"
      /\ UNCHANGED <<active, abiForks, restarts, table, abis, next, blocks, inserting, done, decoded>>
  BY DEF Abi!GetAbi
<1>2. CASE Abi!Answer(s, "answered", Abi!Abi(Abi!InForce(active), -1))
  <2>1. Abi!InForce(active) \in Int
    <3>1. active \in Seq(AbiBodies) /\ Len(active) \in 0..Len(active) /\ SubSeq(active, 1, Len(active)) = active
      BY DEF AbiInv, Types
    <3> QED BY <3>1, PrefixInForce, ByLastIsInt
  <2>2. PICK f \in Fetches : f = [at |-> "answered", abi |-> [version |-> Abi!InForce(active), block_num |-> -1]]
    <3>1. [at |-> "answered", abi |-> [version |-> Abi!InForce(active), block_num |-> -1]] \in Fetches
      BY <2>1, FetchType
    <3> QED BY <3>1
  <2>3. fetch' = [fetch EXCEPT ![s] = f]
    BY <1>2, <2>2 DEF Abi!Answer, Abi!Abi
  <2> QED BY <1>1, <2>2, <2>3, AnsweredOfUnknownAge
<1>3. CASE Abi!Answer(s, "answered", Abi!NoAbi)
  <2>1. PICK f \in Fetches : f = [at |-> "answered", abi |-> Abi!NoAbi]
    <3>1. [at |-> "answered", abi |-> Abi!NoAbi] \in Fetches
      BY NoAbiType
    <3> QED BY <3>1
  <2>2. fetch' = [fetch EXCEPT ![s] = f]
    BY <1>3, <2>1 DEF Abi!Answer
  <2> QED BY <1>1, <2>1, <2>2, AnsweredOfUnknownAge
<1> QED BY <1>2, <1>3 DEF Abi!GetAbi

LEMMA LookupInv ==
  ASSUME AbiInv, NEW s \in Abi!Stages, Abi!Lookup(s)
  PROVE  AbiInv'
<1>1. /\ Abi!Working(s) /\ Abi!Item(s) = Abi!Use /\ fetch[s].at = "idle"
      /\ UNCHANGED <<active, abiForks, restarts, table, abis, next, inserting, done>>
  BY DEF Abi!Lookup
<1>2. /\ s = "prepare" \/ s = "process"
      /\ s = "prepare" => Preparing(blocks)
      /\ s = "process" => inserting = -1 /\ Processing(blocks) /\ Abi!BlockNum(s) = blocks[1].num
  <2>1. Types
    BY DEF AbiInv
  <2> QED BY <1>1, <2>1, StagesAre
<1>3. CASE Abi!CacheHit(Abi!BlockNum(s))
  <2>1. Abi!GoOn(s, abis) /\ fetch' = fetch
    BY <1>3 DEF Abi!Lookup
  <2>2. PICK a \in Abis : a = abis
    BY DEF AbiInv, Types
  <2>3. Cached /\ fetch \in [Abi!Stages -> Fetches]
    BY DEF AbiInv, Types
  <2>4. CachedAs(a) /\ Right(active, a) /\ (a.block_num = -2 => a = Abi!NoAbi) /\ a.block_num # -2
    BY <1>3, <2>2, <2>3 DEF Cached, CachedAs, Abi!CacheHit, Abi!AtMost, Abi!Undefined
  <2>5. CASE s = "prepare"
    <3>1. Abi!Prepared(a)
      BY <2>1, <2>2, <2>5 DEF Abi!GoOn
    <3> QED BY <1>1, <1>2, <2>1, <2>2, <2>3, <2>4, <2>5, <3>1, PrepareGoesOn DEF Preparing
  <2>6. CASE s = "process"
    <3>1. Abi!Processed(a)
      BY <2>1, <2>2, <2>6 DEF Abi!GoOn
    <3>2. a.block_num <= blocks[1].num
      BY <1>2, <1>3, <2>2, <2>6 DEF Abi!CacheHit, Abi!AtMost
    <3>3. a.block_num \in Nat => a.block_num \in DOMAIN table /\ \A n \in Passed : n <= a.block_num
      BY <1>2, <2>4, <2>6 DEF CachedAs
    <3>4. a.block_num < 0 => Unseen /\ Passed = {}
      <4>1. a.block_num \in Int /\ a.block_num >= -2
        BY DEF Abis
      <4>2. a.block_num < 0 => a.block_num = -1
        BY <2>4, <4>1
      <4> QED BY <2>4, <4>2 DEF CachedAs
    <3> QED BY <1>1, <1>2, <2>1, <2>2, <2>3, <2>4, <2>6, <3>1, <3>2, <3>3, <3>4, ProcessGoesOn
  <2> QED BY <1>2, <2>5, <2>6
<1>4. CASE ~Abi!CacheHit(Abi!BlockNum(s))
  <2>1. fetch' = [fetch EXCEPT ![s].at = "query"] /\ UNCHANGED <<blocks, decoded>>
    BY <1>4 DEF Abi!Lookup
  <2>2. fetch \in [Abi!Stages -> Fetches]
    BY DEF AbiInv, Types
  <2>3. PICK f \in Fetches : f = [fetch[s] EXCEPT !.at = "query"]
    <3>1. fetch[s] \in Fetches
      BY <2>2
    <3>2. [fetch[s] EXCEPT !.at = "query"] \in Fetches
      BY <3>1 DEF Fetches
    <3> QED BY <3>2
  <2>4. f.at = "query"
    BY <2>2, <2>3 DEF Fetches
  <2>5. fetch' = [fetch EXCEPT ![s] = f] /\ fetch'[s] = f
    BY <2>1, <2>2, <2>3
  <2>6. Answered(s)'
    BY <2>4, <2>5 DEF Answered
  <2> QED BY <1>1, <1>2, <2>1, <2>5, <2>6, FetchStep
<1> QED BY <1>3, <1>4

LEMMA ResumeInv ==
  ASSUME AbiInv, NEW s \in Abi!Stages, Abi!Resume(s)
  PROVE  AbiInv'
<1>1. PICK abi : abi = fetch[s].abi
  OBVIOUS
<1>2. /\ fetch[s].at = "answered" /\ abis' = IF Abi!Replaces(abi) THEN abi ELSE abis
      /\ Abi!GoOn(s, abi) /\ fetch' = [fetch EXCEPT ![s] = Abi!Idle]
      /\ UNCHANGED <<active, abiForks, restarts, table, next, inserting, done>>
  BY <1>1 DEF Abi!Resume
<1>3. /\ fetch \in [Abi!Stages -> Fetches] /\ abi \in Abis /\ abi.block_num \in Int /\ abi.block_num >= -2
      /\ abis \in Abis /\ abis.block_num \in Int /\ abis.block_num >= -2 /\ Types
  <2>1. fetch \in [Abi!Stages -> Fetches] /\ abis \in Abis /\ Types
    BY DEF AbiInv, Types
  <2>2. fetch[s] \in Fetches
    BY <2>1
  <2>3. abi \in Abis
    BY <1>1, <2>2 DEF Fetches
  <2> QED BY <2>1, <2>3 DEF Abis
<1>4. /\ fetch' \in [Abi!Stages -> Fetches] /\ fetch'[s].at = "idle"
      /\ \A r \in Abi!Stages \ {s} : fetch'[r] = fetch[r]
  <2>1. Abi!Idle \in Fetches /\ Abi!Idle.at = "idle"
    BY NoAbiType DEF Abi!Idle
  <2> QED BY <1>2, <1>3, <2>1
<1>5. /\ abi.block_num < 0 => Unseen /\ \A n \in Passed : s = "prepare" /\ n <= abis.block_num
      /\ abi.block_num = -2 => abi = Abi!NoAbi
      /\ abi.block_num \in Nat =>
           /\ abi.block_num \in DOMAIN table /\ Right(active, abi)
           /\ s = "process" => abi.block_num <= blocks[1].num
           /\ \A n \in Passed : n <= abi.block_num \/ (s = "prepare" /\ n <= abis.block_num)
  BY <1>1, <1>2 DEF AbiInv, Answered
<1>6. PICK i \in DOMAIN blocks :
        /\ s = "process" => i = 1 /\ inserting = -1 /\ Processing(blocks)
        /\ s = "prepare" => i = Len(blocks) /\ Preparing(blocks)
  BY <1>2, StageBlock
<1>7. CachedAs(abis) /\ (inserting # -1 => blocks[1].num \in Nat \ {0})
  <2>1. inserting # -1 => 1 \in DOMAIN blocks
    BY DEF AbiInv, Progress, Types
  <2> QED BY <1>3, <2>1, BlockTypes DEF AbiInv, Cached
<1>8. \A n \in Passed : n \in Nat \ {0}
  BY DEF Passed, PassedIn
<1>9. Abi!Replaces(abi) => abis.block_num = -2 \/ (abis.block_num # -2 /\ abi.block_num # -2 /\ abis.block_num <= abi.block_num)
  BY DEF Abi!Replaces, Abi!AtMost, Abi!NoAbi, Abi!Abi, Abi!Undefined
<1>10. Abi!Replaces(abi) => CachedAs(abi)
  <2>1. SUFFICES ASSUME Abi!Replaces(abi) PROVE CachedAs(abi)
    OBVIOUS
  <2>2. Right(active, abi)
    BY <1>5 DEF Right
  <2>3. abi.block_num \in Nat => \A n \in Passed : n <= abi.block_num
    <3>1. SUFFICES ASSUME abi.block_num \in Nat, NEW n \in Passed PROVE n <= abi.block_num
      OBVIOUS
    <3>2. n <= abi.block_num \/ n <= abis.block_num
      BY <1>5, <3>1
    <3> QED BY <1>3, <1>8, <1>9, <2>1, <3>1, <3>2
  <2>4. abi.block_num = -1 => Passed = {} /\ Unseen
    <3>1. SUFFICES ASSUME abi.block_num = -1 PROVE Passed = {} /\ Unseen
      OBVIOUS
    <3>2. Unseen /\ \A n \in Passed : n <= abis.block_num
      BY <1>5, <3>1
    <3>3. abis.block_num <= -1
      BY <1>9, <2>1, <3>1
    <3> QED BY <1>3, <1>8, <3>2, <3>3
  <2>5. inserting # -1 => abi.block_num >= blocks[1].num
    <3>1. inserting # -1 => abis.block_num >= blocks[1].num /\ blocks[1].num \in Nat \ {0}
      BY <1>7 DEF CachedAs
    <3> QED BY <1>3, <1>9, <2>1, <3>1
  <2> QED BY <1>5, <2>2, <2>3, <2>4, <2>5 DEF CachedAs
<1>11. PICK a \in Abis : a = IF Abi!Replaces(abi) THEN abi ELSE abis
  BY <1>3
<1>12. abis' = a /\ CachedAs(a)
  BY <1>2, <1>7, <1>10, <1>11
<1>13. \A n \in Passed : n <= abis.block_num => n <= a.block_num
  BY <1>3, <1>8, <1>9, <1>11
<1>14. CASE s = "prepare"
  <2>1. Abi!Prepared(abi)
    BY <1>2, <1>14 DEF Abi!GoOn
  <2>2. Right(active, abi)
    BY <1>5 DEF Right
  <2>3. fetch'["prepare"].at = "idle" /\ fetch'["process"] = fetch["process"]
    BY <1>4, <1>14 DEF Abi!Stages
  <2> QED BY <1>2, <1>3, <1>4, <1>5, <1>6, <1>12, <1>13, <1>14, <2>1, <2>2, <2>3, PrepareGoesOn DEF Preparing
<1>15. CASE s = "process"
  <2>1. Abi!Processed(abi)
    BY <1>2, <1>15 DEF Abi!GoOn
  <2>2. fetch'["process"].at = "idle" /\ fetch'["prepare"] = fetch["prepare"]
    BY <1>4, <1>15 DEF Abi!Stages
  <2>3. abi.block_num < 0 => Unseen /\ Passed = {}
    BY <1>5, <1>15
  <2>4. abi.block_num \in Nat =>
           /\ abi.block_num \in DOMAIN table /\ Right(active, abi) /\ abi.block_num <= blocks[1].num
           /\ \A n \in Passed : n <= abi.block_num
    BY <1>5, <1>15
  <2> QED BY <1>2, <1>3, <1>4, <1>6, <1>12, <1>13, <1>15, <2>1, <2>2, <2>3, <2>4, ProcessGoesOn
<1> QED BY <1>14, <1>15 DEF Abi!Stages

LEMMA FetchInv ==
  ASSUME AbiInv, NEW s \in Abi!Stages, Abi!Fetch(s)
  PROVE  AbiInv'
BY LookupInv, QueryAbiInv, QueryNextAbiInv, GetAbiInv, ResumeInv DEF Abi!Fetch

LEMMA PrepareSetAbiInv ==
  ASSUME AbiInv, Abi!PrepareSetAbi
  PROVE  AbiInv'
<1>1. /\ Abi!Working("prepare") /\ Abi!Item("prepare") # Abi!Use /\ Abi!Prepared(Abi!NoAbi)
      /\ UNCHANGED <<active, abiForks, restarts, table, abis, next, fetch, inserting, done>>
  BY DEF Abi!PrepareSetAbi
<1>2. /\ Types /\ Progress /\ abis \in Abis /\ fetch \in [Abi!Stages -> Fetches] /\ CachedAs(abis)
  BY DEF AbiInv, Types, Cached
<1>3. /\ blocks # <<>> /\ blocks[Len(blocks)].prepared < Len(blocks[Len(blocks)].body)
      /\ fetch["prepare"].at = "idle"
  <2>1. blocks # <<>> /\ Abi!Last(blocks) = blocks[Len(blocks)] /\ Abi!At("prepare") = Len(blocks)
    BY <1>1 DEF Abi!Working, Abi!Last, Abi!At
  <2>2. blocks[Len(blocks)].prepared < Len(blocks[Len(blocks)].body)
    BY <1>1, <2>1 DEF Abi!Working
  <2>3. ~Preparing(blocks)
    BY <1>1, <1>2, StagesAre
  <2> QED BY <1>2, <2>1, <2>2, <2>3 DEF Progress
<1>4. PICK abi \in Abis : abi = Abi!NoAbi
  BY NoAbiType
<1>5. Right(active, abi)
  BY <1>4 DEF Right, Abi!NoAbi, Abi!Abi, Abi!Undefined
<1>6. PICK a \in Abis : a = abis
  BY <1>2
<1>7. abis' = a /\ CachedAs(a) /\ \A n \in Passed : n <= abis.block_num => n <= a.block_num
  BY <1>1, <1>2, <1>6
<1> QED BY <1>1, <1>2, <1>3, <1>4, <1>5, <1>7, PrepareGoesOn

-----------------------------------------------------------------------------
(* setabi, the end of a block, and of the process.                          *)

LEMMA SettingBlock ==
  ASSUME AbiInv, blocks # <<>>, blocks[1].done < Len(blocks[1].body),
         blocks[1].body[blocks[1].done + 1] # Abi!Use
  PROVE  LET n == blocks[1].num
         IN  /\ n \in Nat \ {0} /\ SetsAt(active, n) /\ active[n] = blocks[1].body /\ n < next
             /\ V(active, n) = blocks[1].body[blocks[1].done + 1]
             /\ V(active, n) \in Nat
             /\ \A j \in DOMAIN blocks : j > 1 => blocks[j].num > n
             /\ \A k \in Passed : k <= n
             /\ \A k \in DOMAIN blocks[1].body : k > blocks[1].done + 1 => blocks[1].body[k] = Abi!Use
             /\ fetch["process"].at = "idle"
<1> DEFINE b == blocks[1]
           k == b.done + 1
<1>1. Types /\ 1 \in DOMAIN blocks
  BY DEF AbiInv, Types
<1>2. /\ b.num \in Nat \ {0} /\ b.body \in AbiBodies /\ b.body \in Seq(Nat) /\ k \in DOMAIN b.body /\ k \in Nat
      /\ DOMAIN b.body = 1..Len(b.body) /\ Len(b.body) \in Nat
  <2>1. b.done \in Nat /\ b.num \in Nat \ {0} /\ b.body \in AbiBodies /\ b.body \in Seq(Nat)
        /\ DOMAIN b.body = 1..Len(b.body) /\ Len(b.body) \in Nat
    BY <1>1, BlockTypes
  <2> QED BY <2>1
<1>3. Abi!Sets(b.body)
  BY <1>2 DEF Abi!Sets
<1>4. /\ SetsAt(active, b.num) /\ active[b.num] = b.body /\ b.num < next
      /\ \A j \in DOMAIN blocks : j > 1 => blocks[j].num > b.num
  BY <1>1, <1>3 DEF AbiInv, SettingBlocks
<1>5. V(active, b.num) = b.body[k] /\ b.body[k] \in Nat
  BY <1>2, <1>4, VersionOf DEF V
<1>6. \A n \in Passed : n <= b.num
  <2>1. \A n \in Passed : n \in Nat /\ (n < b.num \/ n = b.num)
    BY <1>1 DEF AbiInv, PassedBelow, Passed, PassedIn
  <2> QED BY <1>2, <2>1
<1>7. \A l \in DOMAIN b.body : l > k => b.body[l] = Abi!Use
  BY <1>2, OneSetAbiIn
<1>8. fetch["process"].at = "idle"
  BY DEF AbiInv, Progress, Processing
<1> QED BY <1>2, <1>4, <1>5, <1>6, <1>7, <1>8

LEMMA HandleAbiUpdateInv ==
  ASSUME AbiInv, Abi!HandleAbiUpdate
  PROVE  AbiInv'
<1> DEFINE n == blocks[1].num
           v == blocks[1].body[blocks[1].done + 1]
<1>1. /\ blocks # <<>> /\ blocks[1].prepared = Len(blocks[1].body) /\ blocks[1].done < Len(blocks[1].body)
      /\ v # Abi!Use /\ abis' = [version |-> v, block_num |-> n] /\ inserting' = v
      /\ UNCHANGED <<active, abiForks, restarts, table, next, blocks, fetch, done, decoded>>
  <2>1. /\ blocks # <<>> /\ blocks[1].prepared = Len(blocks[1].body) /\ blocks[1].done < Len(blocks[1].body)
        /\ Abi!Item("process") # Abi!Use
        /\ abis' = [version |-> Abi!Item("process"), block_num |-> n] /\ inserting' = Abi!Item("process")
        /\ UNCHANGED <<active, abiForks, restarts, table, next, blocks, fetch, done, decoded>>
    BY DEF Abi!HandleAbiUpdate, Abi!Working, Abi!At, Abi!BlockNum, Abi!Abi
  <2>2. Abi!Item("process") = v
    <3>1. 1 \in DOMAIN blocks
      BY <2>1 DEF AbiInv, Types
    <3>2. blocks[1].done \in Nat
      BY <3>1, BlockTypes DEF AbiInv
    <3> QED BY <3>2 DEF Abi!Item, Abi!At
  <2> QED BY <2>1, <2>2
<1>2. /\ n \in Nat \ {0} /\ SetsAt(active, n) /\ V(active, n) = v /\ v \in Nat
      /\ \A k \in Passed : k <= n
      /\ fetch["process"].at = "idle"
  BY <1>1, SettingBlock
<1> HIDE DEF v, n
<1>3. abis'.version = v /\ abis'.block_num = n /\ abis' \in Abis
  BY <1>1, <1>2 DEF Abis
<1>4. Types'
  BY <1>1, <1>2, <1>3 DEF AbiInv, Types
<1>5. Progress'
  BY <1>1, <1>2 DEF AbiInv, Progress, v
<1>6. Follows' /\ Passed' = Passed
  <2>1. Same(blocks, blocks')
    BY <1>1 DEF Same
  <2> QED BY <1>1, <2>1, FollowsBlocks DEF AbiInv, Follows
<1>7. Cached'
  <2>1. Right(active, abis')
    BY <1>2, <1>3 DEF Right
  <2>2. n \in Nat /\ n # -1 /\ n # -2 /\ n >= n
    BY <1>2
  <2> QED BY <1>1, <1>2, <1>3, <1>6, <2>1, <2>2 DEF Cached, CachedAs, n
<1>8. ASSUME NEW s \in Abi!Stages PROVE Answered(s)'
  <2>1. CASE s = "process"
    BY <1>1, <1>2, <2>1 DEF Answered
  <2>2. CASE s = "prepare"
    <3>1. Answered(s) /\ s # "process"
      BY <2>2 DEF AbiInv
    <3> QED BY <1>1, <1>2, <1>3, <1>6, <2>2, <3>1 DEF Answered, Unseen
  <2> QED BY <2>1, <2>2 DEF Abi!Stages
<1>9. Estimates' /\ Abi!DecodedByAbiInForce'
  BY <1>1 DEF AbiInv, Estimates, Abi!DecodedByAbiInForce
<1> QED BY <1>4, <1>5, <1>6, <1>7, <1>8, <1>9 DEF AbiInv, Follows

LEMMA InsertAbiInv ==
  ASSUME AbiInv, Abi!InsertAbi
  PROVE  AbiInv'
<1> DEFINE n == blocks[1].num
<1>1. /\ inserting # -1 /\ inserting' = -1
      /\ table' = [m \in DOMAIN table \cup {n} |-> IF m \in DOMAIN table THEN table[m] ELSE inserting]
      /\ blocks' = [blocks EXCEPT ![1].done = blocks[1].done + 1]
      /\ UNCHANGED <<active, abiForks, restarts, abis, next, fetch, done, decoded>>
  BY DEF Abi!InsertAbi, Abi!RowNum, Abi!BlockNum, Abi!At, Abi!None
<1>2. /\ blocks # <<>> /\ blocks[1].prepared = Len(blocks[1].body) /\ blocks[1].done < Len(blocks[1].body)
      /\ inserting = blocks[1].body[blocks[1].done + 1] /\ inserting # Abi!Use
      /\ Types /\ Progress
  BY <1>1 DEF AbiInv, Progress
<1>3. /\ n \in Nat \ {0} /\ SetsAt(active, n) /\ active[n] = blocks[1].body /\ n < next
      /\ V(active, n) = inserting
      /\ \A j \in DOMAIN blocks : j > 1 => blocks[j].num > n
      /\ \A k \in DOMAIN blocks[1].body : k > blocks[1].done + 1 => blocks[1].body[k] = Abi!Use
      /\ fetch["process"].at = "idle"
  BY <1>2, SettingBlock
<1>4. /\ blocks' \in Seq(Blocks) /\ DOMAIN blocks' = DOMAIN blocks /\ Len(blocks') = Len(blocks) /\ 1 \in DOMAIN blocks
      /\ \A i \in DOMAIN blocks : i # 1 => blocks'[i] = blocks[i]
      /\ blocks'[1].body = blocks[1].body /\ blocks'[1].done = blocks[1].done + 1
      /\ \A i \in DOMAIN blocks :
           /\ blocks'[i].num = blocks[i].num /\ blocks'[i].body = blocks[i].body
           /\ blocks'[i].start = blocks[i].start /\ blocks'[i].estimates = blocks[i].estimates
  BY <1>1, <1>2, DoneBlocks
<1>5. DOMAIN blocks \subseteq Nat /\ \A i \in DOMAIN blocks : i >= 1 /\ (i = 1 \/ i > 1) /\ blocks[i].num \in Nat
  BY <1>2, BlockTypes
<1>6. /\ DOMAIN table' = DOMAIN table \cup {n} /\ \A m \in DOMAIN table : table'[m] = table[m]
      /\ n \notin DOMAIN table => table'[n] = inserting
  BY <1>1
<1> HIDE DEF n
<1>7. ~Undone(blocks'[1])
  BY <1>3, <1>4 DEF Undone
<1>8. ASSUME NEW k, NEW i \in DOMAIN blocks, k # n \/ i > 1
      PROVE  Pending(blocks', k, i) <=> Pending(blocks, k, i)
  <2>1. ASSUME NEW j \in DOMAIN blocks, j >= i, blocks[j].num = k PROVE j # 1
    BY <1>5, <1>8, <2>1 DEF n
  <2>2. \A j \in DOMAIN blocks : j # 1 => blocks'[j] = blocks[j]
    BY <1>4
  <2>3. \A j \in DOMAIN blocks : blocks'[j].num = blocks[j].num
    BY <1>4
  <2> QED BY <1>4, <2>1, <2>2, <2>3 DEF Pending
<1>9. ~Pending(blocks', n, 1)
  <2>1. ASSUME NEW j \in DOMAIN blocks, blocks[j].num = n PROVE j = 1
    BY <1>3, <1>5, <2>1
  <2> QED BY <1>4, <1>7, <2>1 DEF Pending
<1>10. Passed' = Passed \cup {n}
  <2>1. \A k \in 1..Len(active) : k # n => (Pending(blocks', k, 1) <=> Pending(blocks, k, 1))
    BY <1>4, <1>8
  <2>2. n \in 1..Len(active)
    BY <1>3 DEF SetsAt
  <2> QED BY <1>1, <1>3, <1>9, <2>1, <2>2 DEF Passed, PassedIn
<1>11. Types'
  <2>1. DOMAIN table' \subseteq Nat
    BY <1>2, <1>3, <1>6 DEF Types
  <2> QED BY <1>1, <1>2, <1>4, <2>1 DEF Types
<1>12. Progress'
  BY <1>1, <1>2, <1>3, DoneProgress
<1>13. SettingBlocks' /\ ForkFree'
  <2>1. SettingBlocks'
    BY <1>1, <1>4 DEF AbiInv, SettingBlocks
  <2>2. ForkFree'
    BY <1>1, <1>4 DEF AbiInv, ForkFree
  <2> QED BY <2>1, <2>2
<1>14. Starts'
  <2>1. ASSUME NEW i \in DOMAIN blocks PROVE BeforeIn(active, next, blocks', i) = Before(i)
    <3>1. \A k : k < blocks[i].num => k # n \/ i > 1
      BY <1>5 DEF n
    <3>2. \A k : k < blocks[i].num => (Pending(blocks', k, i) <=> Pending(blocks, k, i))
      BY <1>8, <3>1
    <3>3. blocks'[i].num = blocks[i].num
      BY <1>4
    <3> QED BY <3>2, <3>3 DEF Before, BeforeIn
  <2>2. active' = active /\ next' = next
    BY <1>1
  <2> QED BY <1>4, <2>1, <2>2 DEF AbiInv, Starts, Before
<1>15. PassedBelow'
  <2>1. ASSUME NEW k \in Passed \cup {n}, NEW i \in DOMAIN blocks
        PROVE  k < blocks[i].num \/ (i = 1 /\ k = blocks[1].num /\ blocks[1].body = active[k])
    <3>1. CASE k \in Passed
      BY <3>1 DEF AbiInv, PassedBelow
    <3>2. CASE k = n
      <4>1. CASE i = 1
        BY <1>3, <3>2, <4>1 DEF n
      <4>2. CASE i # 1
        BY <1>3, <1>5, <3>2, <4>2
      <4> QED BY <4>1, <4>2
    <3> QED BY <3>1, <3>2
  <2>2. \A k \in Passed \cup {n} : k \in DOMAIN table'
    BY <1>6 DEF AbiInv, PassedBelow
  <2>3. \A k \in Passed \cup {n} : \A i \in DOMAIN blocks' :
           k < blocks'[i].num \/ (i = 1 /\ k = blocks'[1].num /\ blocks'[1].body = active'[k])
    <3>1. active' = active
      BY <1>1
    <3> QED BY <1>4, <2>1, <3>1
  <2> QED BY <1>10, <2>2, <2>3 DEF PassedBelow
<1>16. Rows'
  <2>1. 0 \in DOMAIN table' => table'[0] = Abi!First
    BY <1>3, <1>6 DEF AbiInv, Rows
  <2>2. ASSUME NEW m \in DOMAIN table', m # 0
        PROVE  /\ SetsAt(active, m) /\ table'[m] = V(active, m)
               /\ m \notin Passed' => restarts # 0 /\ Abi!AbiFirst(active[m]) /\ (m >= next \/ Pending(blocks', m, 1))
               /\ \A i \in DOMAIN blocks :
                    /\ blocks[i].num = m => blocks[i].body = active[m]
                    /\ blocks[i].num > m => next > m /\ \A j \in DOMAIN blocks : j > i => blocks[j].num > m
    <3>1. CASE m \in DOMAIN table
      <4>1. m \notin Passed' => m \notin Passed /\ (Pending(blocks', m, 1) <=> Pending(blocks, m, 1))
        BY <1>4, <1>8, <1>10
      <4> QED BY <1>6, <2>2, <3>1, <4>1 DEF AbiInv, Rows
    <3>2. CASE m \notin DOMAIN table
      <4>1. m = n /\ table'[m] = V(active, m) /\ SetsAt(active, m) /\ m \in Passed'
        BY <1>3, <1>6, <1>10, <2>2, <3>2
      <4>2. ASSUME NEW i \in DOMAIN blocks, blocks[i].num = m PROVE blocks[i].body = active[m]
        <5>1. i = 1
          BY <1>3, <1>5, <4>1, <4>2
        <5> QED BY <1>3, <4>1, <5>1
      <4>3. next > m
        BY <1>2, <1>3, <4>1 DEF Types
      <4>4. ASSUME NEW i \in DOMAIN blocks, NEW j \in DOMAIN blocks, j > i PROVE blocks[j].num > m
        BY <1>3, <1>5, <4>1, <4>4
      <4> QED BY <4>1, <4>2, <4>3, <4>4
    <3> QED BY <3>1, <3>2
  <2>3. active' = active /\ next' = next /\ restarts' = restarts
    BY <1>1
  <2>4. /\ DOMAIN blocks' = DOMAIN blocks
        /\ \A i \in DOMAIN blocks : blocks'[i].num = blocks[i].num /\ blocks'[i].body = blocks[i].body
    BY <1>4
  <2> QED BY <2>1, <2>2, <2>3, <2>4 DEF Rows
<1>17. /\ CachedAs(abis) /\ abis.block_num >= n /\ abis.block_num \in Nat
  <2>1. CachedAs(abis)
    BY DEF AbiInv, Cached
  <2>2. abis.block_num \in Int
    BY <1>2 DEF Types, Abis
  <2> QED BY <1>1, <1>3, <2>1, <2>2 DEF CachedAs, n
<1>18. \A k \in Passed' : k <= abis.block_num
  BY <1>3, <1>10, <1>17 DEF CachedAs
<1>19. Cached'
  <2>1. Right(active, abis) /\ abis.block_num \in DOMAIN table'
    BY <1>6, <1>17 DEF CachedAs, n
  <2>2. abis.block_num # -1 /\ abis.block_num # -2
    BY <1>17
  <2>3. abis' = abis /\ inserting' = -1 /\ active' = active
    BY <1>1
  <2> QED BY <1>17, <1>18, <2>1, <2>2, <2>3 DEF Cached, CachedAs
<1>20. ASSUME NEW s \in Abi!Stages PROVE Answered(s)'
  <2>1. CASE s = "process"
    BY <1>1, <1>3, <2>1 DEF Answered
  <2>2. CASE s = "prepare"
    <3>1. Answered(s) /\ s # "process" /\ fetch' = fetch /\ abis' = abis /\ active' = active
      BY <1>1, <2>2 DEF AbiInv
    <3>2. Unseen => Unseen'
      BY <1>3, <1>6 DEF Unseen
    <3> QED BY <1>6, <1>18, <2>2, <3>1, <3>2 DEF Answered
  <2> QED BY <2>1, <2>2 DEF Abi!Stages
<1>21. Estimates' /\ Abi!DecodedByAbiInForce'
  <2>1. Estimates'
    <3>1. active' = active
      BY <1>1
    <3> QED BY <1>4, <3>1 DEF AbiInv, Estimates
  <2> QED BY <1>1, <2>1 DEF AbiInv, Abi!DecodedByAbiInForce
<1> QED BY <1>11, <1>12, <1>13, <1>14, <1>15, <1>16, <1>19, <1>20, <1>21 DEF AbiInv

LEMMA EndBlockInv ==
  ASSUME AbiInv, Abi!EndBlock
  PROVE  AbiInv'
<1> DEFINE L == Len(blocks)
<1>1. /\ blocks # <<>> /\ blocks[1].done = Len(blocks[1].body) /\ inserting = -1
      /\ done' \in {done, blocks[1].num} /\ blocks' = Tail(blocks)
      /\ UNCHANGED <<active, abiForks, restarts, table, abis, next, fetch, inserting, decoded>>
  BY DEF Abi!EndBlock, Abi!None
<1>2. Types /\ Progress /\ blocks \in Seq(Blocks) /\ L \in Nat \ {0} /\ 1 \in DOMAIN blocks
  BY <1>1 DEF AbiInv, Types
<1>3. /\ blocks' \in Seq(Blocks) /\ Len(blocks') = L - 1 /\ DOMAIN blocks' = 1..L - 1
      /\ \A i \in 1..L - 1 : blocks'[i] = blocks[i + 1] /\ i + 1 \in DOMAIN blocks /\ i + 1 > 1
      /\ DOMAIN blocks = 1..L
  BY <1>1, <1>2
<1>4. ~Undone(blocks[1])
  <2>1. DOMAIN blocks[1].body = 1..Len(blocks[1].body) /\ Len(blocks[1].body) \in Nat
    BY <1>2, BlockTypes
  <2> QED BY <1>1, <2>1 DEF Undone
<1>5. \A i \in DOMAIN blocks : blocks[i].num \in Nat
  BY <1>2, BlockTypes
<1> HIDE DEF L
<1>6. ASSUME NEW n, NEW i \in 1..L - 1 PROVE Pending(blocks', n, i) <=> Pending(blocks, n, i + 1)
  <2>1. ASSUME NEW j \in DOMAIN blocks, j >= i + 1 PROVE j - 1 \in 1..L - 1 /\ j - 1 >= i /\ blocks'[j - 1] = blocks[j]
    <3>1. j - 1 \in 1..L - 1 /\ j - 1 >= i /\ (j - 1) + 1 = j
      BY <1>2, <1>3, <1>6, <2>1
    <3> QED BY <1>3, <3>1
  <2>2. ASSUME NEW j \in 1..L - 1, j >= i PROVE j + 1 >= i + 1 /\ j + 1 \in DOMAIN blocks /\ blocks'[j] = blocks[j + 1]
    BY <1>2, <1>3, <1>6, <2>2
  <2>3. ASSUME Pending(blocks', n, i) PROVE Pending(blocks, n, i + 1)
    <3>1. PICK j \in 1..L - 1 : j >= i /\ blocks'[j].num = n /\ Undone(blocks'[j])
      BY <1>3, <2>3 DEF Pending
    <3>2. j + 1 \in DOMAIN blocks /\ j + 1 >= i + 1 /\ blocks[j + 1].num = n /\ Undone(blocks[j + 1])
      BY <2>2, <3>1
    <3> QED BY <3>2 DEF Pending
  <2>4. ASSUME Pending(blocks, n, i + 1) PROVE Pending(blocks', n, i)
    <3>1. PICK j \in DOMAIN blocks : j >= i + 1 /\ blocks[j].num = n /\ Undone(blocks[j])
      BY <2>4 DEF Pending
    <3>2. j - 1 \in DOMAIN blocks' /\ j - 1 >= i /\ blocks'[j - 1].num = n /\ Undone(blocks'[j - 1])
      BY <1>3, <2>1, <3>1
    <3> QED BY <3>2 DEF Pending
  <2> QED BY <2>3, <2>4
<1>7. ASSUME NEW n PROVE Pending(blocks', n, 1) <=> Pending(blocks, n, 1)
  <2>1. ASSUME Pending(blocks, n, 1) PROVE Pending(blocks', n, 1)
    <3>1. PICK j \in DOMAIN blocks : j >= 1 /\ blocks[j].num = n /\ Undone(blocks[j])
      BY <2>1 DEF Pending
    <3>2. j # 1
      BY <1>4, <3>1
    <3>3. j - 1 \in 1..L - 1 /\ (j - 1) + 1 = j /\ j - 1 >= 1
      BY <1>2, <1>3, <3>1, <3>2
    <3>4. blocks'[j - 1] = blocks[j]
      BY <1>3, <3>3
    <3> QED BY <1>3, <3>1, <3>3, <3>4 DEF Pending
  <2>2. ASSUME Pending(blocks', n, 1) PROVE Pending(blocks, n, 1)
    <3>1. PICK j \in 1..L - 1 : blocks'[j].num = n /\ Undone(blocks'[j])
      BY <1>3, <2>2 DEF Pending
    <3>2. j + 1 \in DOMAIN blocks /\ j + 1 >= 1 /\ blocks'[j] = blocks[j + 1]
      BY <1>2, <1>3
    <3> QED BY <3>1, <3>2 DEF Pending
  <2> QED BY <2>1, <2>2
<1>8. Passed' = Passed
  BY <1>1, <1>7 DEF Passed, PassedIn
<1>9. Types'
  <2>1. done' \in Nat
    BY <1>1, <1>2, <1>5 DEF Types
  <2> QED BY <1>1, <1>2, <1>3, <2>1 DEF Types
<1>10. Progress'
  <2>1. ASSUME NEW i \in 1..L - 1
        PROVE  /\ blocks'[i].done <= blocks'[i].prepared /\ blocks'[i].prepared <= Len(blocks'[i].body)
               /\ Len(blocks'[i].estimates) = blocks'[i].prepared
               /\ i > 1 => blocks'[i].done = 0
               /\ i < L - 1 => blocks'[i].prepared = Len(blocks'[i].body)
    <3>1. blocks'[i] = blocks[i + 1] /\ i + 1 \in DOMAIN blocks /\ i + 1 > 1 /\ (i < L - 1 => i + 1 < L)
      BY <1>2, <1>3
    <3> QED BY <1>2, <3>1 DEF Progress, L
  <2>2. fetch["prepare"].at # "idle" => Preparing(blocks)
    BY <1>2 DEF Progress
  <2>3. Preparing(blocks) => Preparing(blocks')
    <3>1. SUFFICES ASSUME Preparing(blocks) PROVE Preparing(blocks')
      OBVIOUS
    <3>2. L # 1
      <4>1. blocks[1].done <= blocks[1].prepared /\ blocks[1].done \in Nat /\ blocks[1].prepared \in Nat /\ Len(blocks[1].body) \in Nat
        BY <1>2, BlockTypes DEF Progress
      <4>2. blocks[L].prepared < Len(blocks[L].body)
        BY <3>1 DEF Preparing, L
      <4> QED BY <1>1, <4>1, <4>2
    <3>3. L - 1 \in 1..L - 1 /\ (L - 1) + 1 = L
      BY <1>2, <3>2
    <3>4. blocks'[L - 1] = blocks[L] /\ blocks' # <<>>
      BY <1>3, <3>3
    <3> QED BY <1>3, <3>1, <3>4 DEF Preparing, L
  <2>4. fetch["process"].at = "idle"
    <3>1. ~Processing(blocks)
      <4>1. Len(blocks[1].body) \in Nat
        BY <1>2, BlockTypes
      <4> QED BY <1>1, <4>1 DEF Processing
    <3> QED BY <1>2, <3>1 DEF Progress
  <2> QED BY <1>1, <1>3, <2>1, <2>2, <2>3, <2>4 DEF Progress
<1>11. SettingBlocks'
  <2>1. ASSUME NEW i \in 1..L - 1, Abi!Sets(blocks'[i].body)
        PROVE  /\ SetsAt(active, blocks'[i].num) /\ active[blocks'[i].num] = blocks'[i].body
               /\ blocks'[i].num < next
               /\ \A j \in 1..L - 1 : j > i => blocks'[j].num > blocks'[i].num
    <3>1. blocks'[i] = blocks[i + 1] /\ i + 1 \in DOMAIN blocks
      BY <1>3
    <3>2. \A j \in 1..L - 1 : j > i => blocks'[j] = blocks[j + 1] /\ j + 1 \in DOMAIN blocks /\ j + 1 > i + 1
      BY <1>2, <1>3
    <3> QED BY <2>1, <3>1, <3>2 DEF AbiInv, SettingBlocks
  <2> QED BY <1>1, <1>3, <2>1 DEF SettingBlocks
<1>12. Starts'
  <2>1. ASSUME NEW i \in 1..L - 1 PROVE blocks'[i].start = ByLast(active, BeforeIn(active, next, blocks', i))
    <3>1. blocks'[i] = blocks[i + 1] /\ i + 1 \in DOMAIN blocks
      BY <1>3
    <3>2. BeforeIn(active, next, blocks', i) = Before(i + 1)
      BY <1>6, <3>1 DEF Before, BeforeIn
    <3> QED BY <3>1, <3>2 DEF AbiInv, Starts
  <2> QED BY <1>1, <1>3, <2>1 DEF Starts, Before
<1>13. PassedBelow'
  <2>1. ASSUME NEW n \in Passed, NEW i \in 1..L - 1 PROVE n < blocks'[i].num
    <3>1. blocks'[i] = blocks[i + 1] /\ i + 1 \in DOMAIN blocks /\ i + 1 # 1
      BY <1>2, <1>3
    <3> QED BY <3>1 DEF AbiInv, PassedBelow
  <2>2. \A n \in Passed : n \in DOMAIN table
    BY DEF AbiInv, PassedBelow
  <2> QED BY <1>1, <1>3, <1>8, <2>1, <2>2 DEF PassedBelow
<1>14. ForkFree'
  <2>1. SUFFICES ASSUME abiForks = 0 PROVE ForkFree'
    BY <1>1 DEF ForkFree
  <2>2. /\ done < next
        /\ \A i \in DOMAIN blocks : done < blocks[i].num /\ blocks[i].num < next
        /\ \A i, j \in DOMAIN blocks : i < j => blocks[i].num < blocks[j].num
    BY <2>1 DEF AbiInv, ForkFree
  <2>3. done' < next
    BY <1>1, <1>2, <2>2
  <2>4. ASSUME NEW i \in 1..L - 1 PROVE done' < blocks'[i].num /\ blocks'[i].num < next
    <3>1. blocks'[i] = blocks[i + 1] /\ i + 1 \in DOMAIN blocks /\ 1 < i + 1
      BY <1>2, <1>3
    <3> QED BY <1>1, <1>2, <2>2, <3>1
  <2>5. ASSUME NEW i \in 1..L - 1, NEW j \in 1..L - 1, i < j PROVE blocks'[i].num < blocks'[j].num
    <3>1. /\ blocks'[i] = blocks[i + 1] /\ i + 1 \in DOMAIN blocks
          /\ blocks'[j] = blocks[j + 1] /\ j + 1 \in DOMAIN blocks /\ i + 1 < j + 1
      BY <1>2, <1>3, <2>5
    <3> QED BY <2>2, <3>1
  <2>6. next' = next /\ DOMAIN blocks' = 1..L - 1
    BY <1>1, <1>3
  <2> QED BY <2>3, <2>4, <2>5, <2>6 DEF ForkFree
<1>15. Rows'
  <2>1. ASSUME NEW n \in DOMAIN table, n # 0, NEW i \in 1..L - 1
        PROVE  /\ blocks'[i].num = n => blocks'[i].body = active[n]
               /\ blocks'[i].num > n => next > n /\ \A j \in 1..L - 1 : j > i => blocks'[j].num > n
    <3>1. blocks'[i] = blocks[i + 1] /\ i + 1 \in DOMAIN blocks
      BY <1>3
    <3>2. \A j \in 1..L - 1 : j > i => blocks'[j] = blocks[j + 1] /\ j + 1 \in DOMAIN blocks /\ j + 1 > i + 1
      BY <1>2, <1>3
    <3> QED BY <2>1, <3>1, <3>2 DEF AbiInv, Rows
  <2>2. active' = active /\ table' = table /\ next' = next /\ restarts' = restarts
    BY <1>1
  <2> QED BY <1>3, <1>7, <1>8, <2>1, <2>2 DEF AbiInv, Rows
<1>16. Cached'
  BY <1>1, <1>8 DEF AbiInv, Cached, CachedAs, Unseen
<1>17. ASSUME NEW s \in Abi!Stages PROVE Answered(s)'
  <2>1. s = "process" => fetch[s].at = "idle"
    <3>1. ~Processing(blocks)
      <4>1. Len(blocks[1].body) \in Nat
        BY <1>2, BlockTypes
      <4> QED BY <1>1, <4>1 DEF Processing
    <3> QED BY <1>2, <3>1 DEF Progress
  <2>2. Keeps(active, next, active', next')
    BY <1>1 DEF Keeps
  <2>3. Answered(s) /\ fetch' = fetch /\ table' = table /\ abis' = abis
    BY <1>1 DEF AbiInv
  <2> QED BY <1>8, <2>1, <2>2, <2>3, AnsweredKept
<1>18. Estimates'
  <2>1. ASSUME NEW i \in 1..L - 1, NEW k \in DOMAIN blocks'[i].estimates
        PROVE  /\ Right(active, blocks'[i].estimates[k])
               /\ blocks'[i].estimates[k].block_num = -2 => blocks'[i].estimates[k] = Abi!NoAbi
    <3>1. blocks'[i] = blocks[i + 1] /\ i + 1 \in DOMAIN blocks
      BY <1>3
    <3> QED BY <2>1, <3>1 DEF AbiInv, Estimates
  <2> QED BY <1>1, <1>3, <2>1 DEF Estimates
<1>19. Abi!DecodedByAbiInForce'
  BY <1>1 DEF AbiInv, Abi!DecodedByAbiInForce
<1> QED BY <1>9, <1>10, <1>11, <1>12, <1>13, <1>14, <1>15, <1>16, <1>17, <1>18, <1>19 DEF AbiInv

LEMMA RestartInv ==
  ASSUME AbiInv, Abi!Restart
  PROVE  AbiInv'
<1>1. /\ abiForks = 0 /\ restarts' = restarts + 1
      /\ \A n \in done + 1..next - 1 : Abi!AbiFirst(active[n])
      /\ abis' = Abi!NoAbi /\ blocks' = <<>> /\ fetch' = [s \in Abi!Stages |-> Abi!Idle] /\ inserting' = -1
      /\ next' = done + 1
      /\ UNCHANGED <<active, abiForks, table, done, decoded>>
  BY DEF Abi!Restart, Abi!None
<1>2. /\ active \in Seq(AbiBodies) /\ Len(active) \in Nat /\ restarts \in Nat /\ DOMAIN table \subseteq Nat
      /\ next \in Nat /\ next <= Len(active) + 1 /\ done \in Nat
  BY DEF AbiInv, Types
<1>3. done < next /\ \A i \in DOMAIN blocks : done < blocks[i].num
  BY <1>1 DEF AbiInv, ForkFree
<1>4. /\ Abi!Idle \in Fetches /\ Abi!Idle.at = "idle" /\ Abi!NoAbi \in Abis /\ Abi!NoAbi.block_num = -2
  BY NoAbiType DEF Abi!Idle, Abi!NoAbi, Abi!Abi, Abi!Undefined
<1>5. Types'
  BY <1>1, <1>2, <1>3, <1>4 DEF AbiInv, Types
<1>6. Passed' = {n \in 1..Len(active) : SetsAt(active, n) /\ n <= done}
  <2>1. \A n : ~Pending(blocks', n, 1)
    BY <1>1 DEF Pending
  <2> QED BY <1>1, <1>2, <2>1 DEF Passed, PassedIn
<1>7. ASSUME NEW n \in Passed' PROVE n \in Passed
  <2>1. n <= done /\ SetsAt(active, n) /\ n \in 1..Len(active)
    BY <1>6, <1>7
  <2>2. ~Pending(blocks, n, 1)
    <3>1. \A i \in DOMAIN blocks : blocks[i].num \in Nat
      BY BlockTypes DEF AbiInv
    <3>2. \A i \in DOMAIN blocks : blocks[i].num # n
      BY <1>2, <1>3, <2>1, <3>1
    <3> QED BY <3>2 DEF Pending
  <2>3. n < next
    BY <1>2, <1>3, <2>1
  <2> QED BY <2>1, <2>2, <2>3 DEF Passed, PassedIn
<1>8. Progress' /\ SettingBlocks' /\ Starts' /\ Estimates'
  BY <1>1, <1>4 DEF Progress, SettingBlocks, Starts, Estimates, Abi!Stages
<1>9. PassedBelow'
  <2>1. \A n \in Passed' : n \in DOMAIN table
    BY <1>7 DEF AbiInv, PassedBelow
  <2> QED BY <1>1, <2>1 DEF PassedBelow
<1>10. ForkFree'
  BY <1>1, <1>2 DEF ForkFree
<1>11. Rows'
  <2>1. ASSUME NEW n \in DOMAIN table, n # 0, n \notin Passed'
        PROVE  Abi!AbiFirst(active[n]) /\ n >= done + 1
    <3>1. SetsAt(active, n) /\ n \in 1..Len(active)
      BY <2>1 DEF AbiInv, Rows, SetsAt
    <3>2. n >= done + 1
      BY <1>2, <1>6, <2>1, <3>1
    <3>3. CASE n < next
      <4>1. n \in done + 1..next - 1
        BY <1>2, <3>1, <3>2, <3>3
      <4> QED BY <1>1, <3>2, <4>1
    <3>4. CASE ~(n < next)
      <4>1. n \notin Passed
        BY <3>4 DEF Passed, PassedIn
      <4> QED BY <2>1, <3>2, <4>1 DEF AbiInv, Rows
    <3> QED BY <3>3, <3>4
  <2>2. /\ 0 \in DOMAIN table => table[0] = Abi!First
        /\ \A n \in DOMAIN table \ {0} : SetsAt(active, n) /\ table[n] = V(active, n)
    BY DEF AbiInv, Rows
  <2>3. restarts' # 0
    BY <1>1, <1>2
  <2> QED BY <1>1, <2>1, <2>2, <2>3 DEF Rows
<1>12. Cached'
  BY <1>1, <1>4 DEF Cached, CachedAs, Right
<1>13. \A s \in Abi!Stages : Answered(s)'
  BY <1>1, <1>4 DEF Answered
<1>14. Abi!DecodedByAbiInForce'
  BY <1>1 DEF AbiInv, Abi!DecodedByAbiInForce
<1> QED BY <1>5, <1>8, <1>9, <1>10, <1>11, <1>12, <1>13, <1>14 DEF AbiInv, Abi!Stages

LEMMA AbiInit ==
  ASSUME Abi!Init
  PROVE  AbiInv
<1>1. /\ active = <<>> /\ abiForks = 0 /\ restarts = 0 /\ abis = Abi!NoAbi /\ next = 1 /\ blocks = <<>>
      /\ fetch = [s \in Abi!Stages |-> Abi!Idle] /\ inserting = -1 /\ done = 0
      /\ decoded = [used |-> Abi!First, wanted |-> Abi!First, unseen |-> TRUE]
  BY DEF Abi!Init, Abi!None
<1>2. PICK known \in Origins : table = [n \in IF known THEN {0} ELSE {} |-> Abi!First]
  BY DEF Abi!Init
<1>3. DOMAIN table \subseteq {0} /\ (0 \in DOMAIN table => table[0] = Abi!First)
  BY <1>2
<1>4. /\ Abi!Idle \in Fetches /\ Abi!Idle.at = "idle" /\ Abi!NoAbi \in Abis /\ Abi!NoAbi.block_num = -2
  BY NoAbiType DEF Abi!Idle, Abi!NoAbi, Abi!Abi, Abi!Undefined
<1>5. Types
  BY <1>1, <1>3, <1>4 DEF Types
<1>6. Progress /\ SettingBlocks /\ Starts /\ Estimates
  BY <1>1, <1>4 DEF Progress, SettingBlocks, Starts, Estimates, Abi!Stages
<1>7. Passed = {}
  BY <1>1 DEF Passed, PassedIn
<1>8. PassedBelow /\ ForkFree /\ Rows
  BY <1>1, <1>3, <1>7 DEF PassedBelow, ForkFree, Rows
<1>9. Cached
  BY <1>1, <1>4 DEF Cached, CachedAs, Right
<1>10. \A s \in Abi!Stages : Answered(s)
  BY <1>1, <1>4 DEF Answered
<1>11. Abi!DecodedByAbiInForce
  BY <1>1 DEF Abi!DecodedByAbiInForce
<1> QED BY <1>5, <1>6, <1>8, <1>9, <1>10, <1>11 DEF AbiInv

LEMMA AbiStutter ==
  ASSUME AbiInv, UNCHANGED abiVars
  PROVE  AbiInv'
<1>1. UNCHANGED <<active, abiForks, restarts, table, abis, next, blocks, fetch, inserting, done, decoded>>
  BY DEF abiVars
<1>2. Keeps(active, next, active', next')
  BY <1>1 DEF Keeps
<1>3. Types'
  BY <1>1 DEF AbiInv, Types
<1> QED BY <1>1, <1>2, <1>3, ChainStep

LEMMA AbiStep ==
  ASSUME AbiInv, [Abi!Next]_abiVars
  PROVE  AbiInv'
<1>1. CASE Abi!Next
  BY <1>1, ExtendInv, ForkInv, ReceiveInv, PrepareSetAbiInv, HandleAbiUpdateInv, InsertAbiInv,
     EndBlockInv, RestartInv, FetchInv DEF Abi!Next
<1>2. CASE UNCHANGED abiVars
  BY <1>2, AbiStutter
<1> QED BY <1>1, <1>2

\* A step of the run is one of this part, or leaves it alone.
LEMMA AbiPart ==
  ASSUME [DecodedNext]_<<part, statsVars, abiVars, noteVars, marketVars, queryVars>>
  PROVE  [Abi!Next]_abiVars
BY Zenon DEF DecodedNext

LEMMA AbiInvariant == DecodedSpec => []AbiInv
<1>1. DecodedInit => AbiInv
  BY AbiInit DEF DecodedInit
<1>2. AbiInv /\ [DecodedNext]_<<part, statsVars, abiVars, noteVars, marketVars, queryVars>> => AbiInv'
  BY AbiPart, AbiStep
<1> QED BY <1>1, <1>2, PTL DEF DecodedSpec

\* receiver.ts:427: with blocks decoded ahead of the setabis that are being
\* processed, whatever forks spare the setabis and whatever restarts replay
\* none of them after an action, every action is decoded by the ABI in force.
THEOREM ActionsAreDecodedByAbiInForce == DecodedSpec => []DecodedByAbiInForce
<1>1. AbiInv => DecodedByAbiInForce
  BY DEF AbiInv, DecodedByAbiInForce
<1> QED BY <1>1, AbiInvariant, PTL

\* receiver.ts:537: what contract_abis has for a block is the ABI that the block
\* left in force, before it commits and after it was replayed.
THEOREM AbisAreDurable == DecodedSpec => []DurableAbiIsInForce
<1>1. ASSUME AbiInv, NEW n \in DOMAIN table, n \in 1..Len(active)
      PROVE  table[n] = Abi!InForce(SubSeq(active, 1, n))
  <2>1. active \in Seq(AbiBodies) /\ n \in 0..Len(active) /\ n # 0
    BY <1>1 DEF AbiInv, Types
  <2>2. SetsAt(active, n) /\ table[n] = V(active, n)
    BY <1>1, <2>1 DEF AbiInv, Rows
  <2> DEFINE S == {k \in 1..n : Abi!Sets(active[k])}
  <2>3. S \in SUBSET Int /\ n \in S /\ \A k \in S : k <= n
    BY <2>1, <2>2 DEF SetsAt
  <2>4. Abi!InForce(SubSeq(active, 1, n)) = ByLast(active, S)
    BY <2>1, PrefixInForce
  <2> HIDE DEF S
  <2>5. ByLast(active, S) = V(active, n)
    BY <2>3, ByLastIs
  <2> QED BY <2>2, <2>4, <2>5
<1>2. AbiInv => DurableAbiIsInForce
  BY <1>1 DEF DurableAbiIsInForce, Abi!DurableAbiIsInForce
<1> QED BY <1>2, AbiInvariant, PTL

\* receiver.ts:696: until a restart, an entry of the cache is replaced only by
\* one of a later block, whatever answers arrive late.
THEOREM CachedAbiNeverAges == DecodedSpec => CacheNeverAges
<1> DEFINE Newer == abis # Abi!NoAbi /\ restarts' = 0 => Abi!AtMost(abis.block_num, abis'.block_num)
<1>1. ASSUME AbiInv, Abi!Next PROVE Newer
  <2>1. SUFFICES ASSUME abis # Abi!NoAbi, restarts' = 0 PROVE Abi!AtMost(abis.block_num, abis'.block_num)
    OBVIOUS
  <2>2. /\ abis.block_num \in Int /\ abis.block_num # -2 /\ CachedAs(abis) /\ Types
    <3>1. abis \in Abis /\ CachedAs(abis) /\ Types
      BY <1>1 DEF AbiInv, Types, Cached
    <3> QED BY <2>1, <3>1 DEF Abis, CachedAs
  <2>3. CASE abis' = abis
    BY <2>2, <2>3 DEF Abi!AtMost, Abi!Undefined
  <2>4. CASE Abi!HandleAbiUpdate
    <3>1. /\ blocks # <<>> /\ abis'.block_num = blocks[1].num /\ inserting = -1 /\ restarts = 0
      BY <2>1, <2>4 DEF Abi!HandleAbiUpdate, Abi!Working, Abi!Abi, Abi!BlockNum, Abi!At, Abi!None
    <3>2. 1 \in DOMAIN blocks
      BY <2>2, <3>1 DEF Types
    <3>3. blocks[1].num \in Nat \ {0}
      BY <2>2, <3>2, BlockTypes
    <3>4. abis.block_num \in Nat \ {0} => abis.block_num <= blocks[1].num
      <4>1. SUFFICES ASSUME abis.block_num \in Nat \ {0} PROVE abis.block_num <= blocks[1].num
        OBVIOUS
      <4>2. abis.block_num \in DOMAIN table
        BY <2>2, <3>1, <4>1 DEF CachedAs
      <4>3. abis.block_num \in Passed
        BY <1>1, <3>1, <4>1, <4>2 DEF AbiInv, Rows
      <4>4. abis.block_num < blocks[1].num \/ abis.block_num = blocks[1].num
        BY <1>1, <3>2, <4>3 DEF AbiInv, PassedBelow
      <4> QED BY <3>3, <4>1, <4>4
    <3>5. abis.block_num <= blocks[1].num
      BY <2>2, <3>3, <3>4
    <3> QED BY <2>2, <3>1, <3>3, <3>5 DEF Abi!AtMost, Abi!Undefined
  <2>5. CASE Abi!Restart
    BY <2>1, <2>2, <2>5 DEF Abi!Restart, Types
  <2>6. CASE \E s \in Abi!Stages : Abi!Fetch(s)
    <3>1. PICK s \in Abi!Stages : Abi!Lookup(s) \/ Abi!QueryAbi(s) \/ Abi!QueryNextAbi(s) \/ Abi!GetAbi(s) \/ Abi!Resume(s)
      BY <2>6 DEF Abi!Fetch
    <3>2. CASE Abi!Resume(s)
      <4>1. abis' = IF Abi!Replaces(fetch[s].abi) THEN fetch[s].abi ELSE abis
        BY <3>2 DEF Abi!Resume
      <4> QED BY <2>1, <2>3, <4>1 DEF Abi!Replaces
    <3>3. CASE ~Abi!Resume(s)
      BY <2>3, <3>1, <3>3 DEF Abi!Lookup, Abi!QueryAbi, Abi!QueryNextAbi, Abi!GetAbi
    <3> QED BY <3>2, <3>3
  <2>7. CASE Abi!Extend \/ Abi!Fork \/ Abi!Receive \/ Abi!PrepareSetAbi \/ Abi!InsertAbi \/ Abi!EndBlock
    BY <2>3, <2>7 DEF Abi!Extend, Abi!Fork, Abi!Receive, Abi!PrepareSetAbi, Abi!InsertAbi, Abi!EndBlock
  <2> QED BY <1>1, <2>4, <2>5, <2>6, <2>7 DEF Abi!Next
<1>2. ASSUME AbiInv, [DecodedNext]_<<part, statsVars, abiVars, noteVars, marketVars, queryVars>>
      PROVE  [Newer]_Abi!vars
  <2>1. [Abi!Next]_abiVars
    BY <1>2, AbiPart
  <2>2. UNCHANGED abiVars => UNCHANGED Abi!vars
    BY DEF abiVars, Abi!vars
  <2> QED BY <1>1, <1>2, <2>1, <2>2
<1>3. DecodedSpec => [][Newer]_Abi!vars
  BY <1>2, AbiInvariant, PTL DEF DecodedSpec
<1> QED BY <1>3 DEF CacheNeverAges, Abi!CacheNeverAges

-----------------------------------------------------------------------------
(* What a listener knows.                                                   *)

Kinds == [type : {"trace", "fork"}, channel : NoteChannels \cup {""}, height : Nat \ {0},
          block : Nat \ {0}, tx : Nat]
NoteSet == {n \in Kinds : n.type = "fork" <=> n.tx = 0}

\* The traces of some blocks that are on the chain c.
OnChain(S, c) == {n \in S : n.height \in DOMAIN c /\ c[n.height] = n.block}

\* What is known after these notes, and after the publishable ones of a batch.
ForkAt(s, k, n) == s[k].type = "fork" /\ s[k].height <= n.height
After(known, s) == {n \in known : ~Notes!TakesBack(s, n)} \cup Notes!Remain(s)
ForkIn(b, k, n) == b[k].note.type = "fork" /\ b[k].note.height <= n.height
AfterBatch(known, b) ==
  {n \in known : \A k \in Notes!Kept(b) : ~ForkIn(b, k, n)}
  \cup {b[i].note : i \in {j \in Notes!Kept(b) :
         b[j].note.type = "trace" /\ \A k \in Notes!Kept(b) : k > j => ~ForkIn(b, k, b[j].note)}}

LEMMA RemainIs ==
  ASSUME NEW s \in Seq(NoteSet)
  PROVE  Notes!Remain(s) = {s[i] : i \in {j \in 1..Len(s) :
           s[j].type = "trace" /\ \A k \in 1..Len(s) : k > j => ~ForkAt(s, k, s[j])}}
<1>1. DOMAIN s = 1..Len(s) /\ Len(s) \in Nat
  OBVIOUS
<1>2. ASSUME NEW j \in 1..Len(s)
      PROVE  ~Notes!TakesBack(SubSeq(s, j + 1, Len(s)), s[j])
               <=> \A k \in 1..Len(s) : k > j => ~ForkAt(s, k, s[j])
  <2> DEFINE t == SubSeq(s, j + 1, Len(s))
  <2>a. j + 1 \in 1..(Len(s) + 1) /\ Len(s) \in 0..Len(s)
    BY <1>1
  <2>b. t = [i \in 1..((Len(s) - (j + 1)) + 1) |-> s[(i + (j + 1)) - 1]]
    OBVIOUS
  <2>c. (Len(s) - (j + 1)) + 1 = Len(s) - j
    BY <1>1
  <2>d. \A i \in 1..(Len(s) - j) : (i + (j + 1)) - 1 = i + j
    BY <1>1
  <2>1. DOMAIN t = 1..(Len(s) - j) /\ \A i \in 1..(Len(s) - j) : t[i] = s[i + j]
    <3> HIDE DEF t
    <3> QED BY <2>b, <2>c, <2>d, Zenon
  <2>2. ASSUME NEW k \in 1..Len(s), k > j, ForkAt(s, k, s[j])
        PROVE  Notes!TakesBack(t, s[j])
    <3> HIDE DEF t
    <3>a. k - j \in 1..(Len(s) - j) /\ (k - j) + j = k
      BY <1>1, <2>2
    <3>1. k - j \in 1..(Len(s) - j) /\ t[k - j] = s[k]
      BY <2>1, <3>a
    <3> QED BY <2>1, <2>2, <3>1 DEF Notes!TakesBack, ForkAt
  <2>3. ASSUME NEW i \in 1..(Len(s) - j), t[i].type = "fork" /\ t[i].height <= s[j].height
        PROVE  \E k \in 1..Len(s) : k > j /\ ForkAt(s, k, s[j])
    <3>1. i + j \in 1..Len(s) /\ i + j > j /\ t[i] = s[i + j]
      BY <1>1, <2>1
    <3> HIDE DEF t
    <3> QED BY <2>3, <3>1 DEF ForkAt
  <2> HIDE DEF t
  <2> QED BY <2>1, <2>2, <2>3 DEF Notes!TakesBack, t
<1> QED BY <1>1, <1>2 DEF Notes!Remain

LEMMA AfterNothing == \A known : After(known, <<>>) = known
BY DEF After, Notes!TakesBack, Notes!Remain

\* Notes that follow others.
LEMMA TakesBackTwice ==
  ASSUME NEW s \in Seq(NoteSet), NEW t \in Seq(NoteSet), NEW n
  PROVE  Notes!TakesBack(s \o t, n) <=> Notes!TakesBack(s, n) \/ Notes!TakesBack(t, n)
<1>1. /\ DOMAIN s = 1..Len(s) /\ DOMAIN t = 1..Len(t) /\ DOMAIN (s \o t) = 1..(Len(s) + Len(t))
      /\ Len(s) \in Nat /\ Len(t) \in Nat
      /\ \A k \in 1..Len(s) : (s \o t)[k] = s[k]
      /\ \A k \in 1..Len(t) : Len(s) + k \in 1..(Len(s) + Len(t)) /\ (s \o t)[Len(s) + k] = t[k]
  OBVIOUS
<1>2. \A k \in 1..(Len(s) + Len(t)) : k \in 1..Len(s) \/ \E i \in 1..Len(t) : k = Len(s) + i
  <2> SUFFICES ASSUME NEW k \in 1..(Len(s) + Len(t)), ~(k \in 1..Len(s))
               PROVE  \E i \in 1..Len(t) : k = Len(s) + i
    OBVIOUS
  <2>1. k - Len(s) \in 1..Len(t) /\ k = Len(s) + (k - Len(s))
    BY <1>1
  <2> QED BY <2>1
<1>3. \A k \in 1..Len(s) : k \in 1..(Len(s) + Len(t))
  BY <1>1
<1>4. ASSUME NEW k \in 1..(Len(s) + Len(t)), ForkAt(s \o t, k, n)
      PROVE  Notes!TakesBack(s, n) \/ Notes!TakesBack(t, n)
  <2>1. CASE k \in 1..Len(s)
    <3>1. (s \o t)[k] = s[k]
      BY <1>1, <2>1
    <3> QED BY <1>1, <1>4, <2>1, <3>1 DEF Notes!TakesBack, ForkAt
  <2>2. CASE ~(k \in 1..Len(s))
    <3>1. PICK i \in 1..Len(t) : k = Len(s) + i
      BY <1>2, <2>2
    <3>2. (s \o t)[k] = t[i]
      BY <1>1, <3>1
    <3> QED BY <1>1, <1>4, <3>1, <3>2 DEF Notes!TakesBack, ForkAt
  <2> QED BY <2>1, <2>2
<1>5. \A k \in 1..Len(s) : ForkAt(s, k, n) => ForkAt(s \o t, k, n)
  BY <1>1 DEF ForkAt
<1>6. \A k \in 1..Len(t) : ForkAt(t, k, n) => ForkAt(s \o t, Len(s) + k, n)
  BY <1>1 DEF ForkAt
<1> QED BY <1>1, <1>3, <1>4, <1>5, <1>6 DEF Notes!TakesBack, ForkAt

LEMMA AfterTwice ==
  ASSUME NEW s \in Seq(NoteSet), NEW t \in Seq(NoteSet), NEW known
  PROVE  After(After(known, s), t) = After(known, s \o t)
<1>1. /\ Len(s) \in Nat /\ Len(t) \in Nat /\ s \o t \in Seq(NoteSet) /\ Len(s \o t) = Len(s) + Len(t)
      /\ DOMAIN t = 1..Len(t)
      /\ \A k \in 1..Len(s) : (s \o t)[k] = s[k] /\ k \in 1..(Len(s) + Len(t))
      /\ \A k \in 1..Len(t) : Len(s) + k \in 1..(Len(s) + Len(t)) /\ (s \o t)[Len(s) + k] = t[k]
  OBVIOUS
<1>2. \A k \in 1..(Len(s) + Len(t)) : k \in 1..Len(s) \/ \E i \in 1..Len(t) : k = Len(s) + i
  <2> SUFFICES ASSUME NEW k \in 1..(Len(s) + Len(t)), ~(k \in 1..Len(s))
               PROVE  \E i \in 1..Len(t) : k = Len(s) + i
    OBVIOUS
  <2>1. k - Len(s) \in 1..Len(t) /\ k = Len(s) + (k - Len(s))
    BY <1>1
  <2> QED BY <2>1
<1>3. ASSUME NEW j \in 1..Len(s)
      PROVE  (\A k \in 1..(Len(s) + Len(t)) : k > j => ~ForkAt(s \o t, k, s[j]))
               <=> (\A k \in 1..Len(s) : k > j => ~ForkAt(s, k, s[j])) /\ ~Notes!TakesBack(t, s[j])
  <2>1. \A k \in 1..Len(s) : ForkAt(s \o t, k, s[j]) <=> ForkAt(s, k, s[j])
    BY <1>1 DEF ForkAt
  <2>2. \A k \in 1..Len(t) : Len(s) + k > j /\ (ForkAt(s \o t, Len(s) + k, s[j]) <=> ForkAt(t, k, s[j]))
    BY <1>1 DEF ForkAt
  <2>3. Notes!TakesBack(t, s[j]) <=> \E k \in 1..Len(t) : ForkAt(t, k, s[j])
    BY <1>1 DEF Notes!TakesBack, ForkAt
  <2> QED BY <1>1, <1>2, <2>1, <2>2, <2>3
<1>4. ASSUME NEW j \in 1..Len(t)
      PROVE  (\A k \in 1..(Len(s) + Len(t)) : k > Len(s) + j => ~ForkAt(s \o t, k, t[j]))
               <=> (\A k \in 1..Len(t) : k > j => ~ForkAt(t, k, t[j]))
  <2>1. \A k \in 1..Len(t) : /\ Len(s) + k > Len(s) + j <=> k > j
                             /\ ForkAt(s \o t, Len(s) + k, t[j]) <=> ForkAt(t, k, t[j])
    BY <1>1 DEF ForkAt
  <2>2. \A k \in 1..Len(s) : ~(k > Len(s) + j)
    BY <1>1
  <2> QED BY <1>1, <1>2, <2>1, <2>2
<1>5. Notes!Remain(s \o t) = {n \in Notes!Remain(s) : ~Notes!TakesBack(t, n)} \cup Notes!Remain(t)
  <2> DEFINE Kept(r) == {j \in 1..Len(r) : r[j].type = "trace" /\ \A k \in 1..Len(r) : k > j => ~ForkAt(r, k, r[j])}
  <2>1. Notes!Remain(s) = {s[i] : i \in Kept(s)} /\ Notes!Remain(t) = {t[i] : i \in Kept(t)}
        /\ Notes!Remain(s \o t) = {(s \o t)[i] : i \in Kept(s \o t)}
    BY <1>1, RemainIs
  <2>2. \A i \in 1..Len(s) : i \in Kept(s \o t) <=> i \in Kept(s) /\ ~Notes!TakesBack(t, s[i])
    BY <1>1, <1>3
  <2>3. \A i \in 1..Len(t) : Len(s) + i \in Kept(s \o t) <=> i \in Kept(t)
    BY <1>1, <1>4
  <2>4. Kept(s) \subseteq 1..Len(s) /\ Kept(t) \subseteq 1..Len(t) /\ Kept(s \o t) \subseteq 1..(Len(s) + Len(t))
    BY <1>1
  <2> HIDE DEF Kept
  <2>5. ASSUME NEW n \in Notes!Remain(s \o t)
        PROVE  n \in {m \in Notes!Remain(s) : ~Notes!TakesBack(t, m)} \cup Notes!Remain(t)
    <3>1. PICK i \in Kept(s \o t) : n = (s \o t)[i]
      BY <2>1
    <3>2. CASE i \in 1..Len(s)
      BY <1>1, <2>1, <2>2, <3>1, <3>2
    <3>3. CASE \E k \in 1..Len(t) : i = Len(s) + k
      BY <1>1, <2>1, <2>3, <3>1, <3>3
    <3> QED BY <1>2, <2>4, <3>2, <3>3
  <2>6. ASSUME NEW n \in Notes!Remain(s), ~Notes!TakesBack(t, n) PROVE n \in Notes!Remain(s \o t)
    <3>1. PICK i \in Kept(s) : n = s[i]
      BY <2>1
    <3> QED BY <1>1, <2>1, <2>2, <2>4, <2>6, <3>1
  <2>7. ASSUME NEW n \in Notes!Remain(t) PROVE n \in Notes!Remain(s \o t)
    <3>1. PICK i \in Kept(t) : n = t[i]
      BY <2>1
    <3>2. i \in 1..Len(t) /\ Len(s) + i \in Kept(s \o t) /\ (s \o t)[Len(s) + i] = n
      BY <1>1, <2>3, <2>4, <3>1
    <3> QED BY <2>1, <3>2
  <2> QED BY <2>5, <2>6, <2>7
<1>6. \A n : Notes!TakesBack(s \o t, n) <=> Notes!TakesBack(s, n) \/ Notes!TakesBack(t, n)
  BY TakesBackTwice
<1> QED BY <1>5, <1>6 DEF After

LEMMA KnownOneMore ==
  ASSUME NEW ms \in Seq(Seq(NoteSet)), NEW t \in Seq(NoteSet)
  PROVE  Notes!Known(Append(ms, t)) = After(Notes!Known(ms), t)
<1> DEFINE l == Len(ms)
           all == Append(ms, t)
<1>1. /\ l \in Nat /\ DOMAIN ms = 1..l /\ DOMAIN all = 1..(l + 1) /\ Len(all) = l + 1
      /\ all[l + 1] = t /\ \A i \in 1..l : all[i] = ms[i]
  OBVIOUS
<1> HIDE DEF all
<1>2. ASSUME NEW i \in 1..l, NEW n
      PROVE  (\A k \in i + 1..l + 1 : ~Notes!TakesBack(all[k], n))
               <=> (\A k \in i + 1..l : ~Notes!TakesBack(ms[k], n)) /\ ~Notes!TakesBack(t, n)
  <2>1. l + 1 \in i + 1..l + 1 /\ \A k \in i + 1..l : k \in i + 1..l + 1 /\ k \in 1..l
    BY <1>1
  <2>2. \A k \in i + 1..l + 1 : k = l + 1 \/ k \in i + 1..l
    BY <1>1
  <2> HIDE DEF l
  <2> QED BY <1>1, <2>1, <2>2
<1>3. \A k \in (l + 1) + 1..l + 1 : FALSE
  BY <1>1
<1>4. \A n : n \in Notes!Known(all) <=>
        \E i \in 1..(l + 1) : n \in Notes!Remain(all[i]) /\ \A k \in i + 1..l + 1 : ~Notes!TakesBack(all[k], n)
  BY <1>1 DEF Notes!Known
<1>5. \A n : n \in Notes!Known(ms) <=>
        \E i \in 1..l : n \in Notes!Remain(ms[i]) /\ \A k \in i + 1..l : ~Notes!TakesBack(ms[k], n)
  BY <1>1 DEF Notes!Known
<1>6. \A i \in 1..(l + 1) : i = l + 1 \/ i \in 1..l
  BY <1>1
<1>7. l + 1 \in 1..(l + 1) /\ \A i \in 1..l : i \in 1..(l + 1)
  BY <1>1
<1> HIDE DEF l
<1>8. ASSUME NEW n \in Notes!Known(all) PROVE n \in After(Notes!Known(ms), t)
  BY <1>1, <1>2, <1>4, <1>5, <1>6, <1>8 DEF After
<1>9. ASSUME NEW n \in After(Notes!Known(ms), t) PROVE n \in Notes!Known(all)
  <2>1. CASE n \in Notes!Remain(t)
    BY <1>1, <1>3, <1>4, <1>7, <2>1
  <2>2. CASE n \in Notes!Known(ms) /\ ~Notes!TakesBack(t, n)
    BY <1>1, <1>2, <1>4, <1>5, <1>7, <2>2
  <2> QED BY <1>9, <2>1, <2>2 DEF After
<1> QED BY <1>8, <1>9 DEF all

-----------------------------------------------------------------------------
(* A message is decoded as it was encoded.                                  *)

LEMMA FirstAtIs ==
  ASSUME NEW chunk \in Seq(NoteSet), NEW tx \in Notes!TxsOf(chunk)
  PROVE  /\ Notes!FirstAt(chunk, tx) \in 1..Len(chunk) /\ chunk[Notes!FirstAt(chunk, tx)].tx = tx
         /\ \A k \in 1..Notes!FirstAt(chunk, tx) - 1 : chunk[k].tx # tx
<1> DEFINE S == {i \in 1..Len(chunk) : chunk[i].tx = tx}
<1>1. S # {} /\ S \subseteq Nat
  BY DEF Notes!TxsOf
<1>2. PICK f \in S : \A k \in S : f <= k
  BY <1>1, LeastNat
<1>3. f \in DOMAIN chunk /\ chunk[f].tx = tx /\ \A k \in 1..f - 1 : chunk[k].tx # tx
  <2>1. f \in 1..Len(chunk) /\ Len(chunk) \in Nat
    OBVIOUS
  <2>2. ASSUME NEW k \in 1..f - 1 PROVE ~(f <= k) /\ k \in 1..Len(chunk)
    BY <2>1
  <2> QED BY <1>2, <2>1, <2>2
<1> HIDE DEF S
<1>4. /\ Notes!FirstAt(chunk, tx) \in DOMAIN chunk /\ chunk[Notes!FirstAt(chunk, tx)].tx = tx
      /\ \A k \in 1..Notes!FirstAt(chunk, tx) - 1 : chunk[k].tx # tx
  BY <1>3, Zenon DEF Notes!FirstAt
<1> QED BY <1>4

LEMMA ReferenceIs ==
  ASSUME NEW chunk \in Seq(NoteSet)
  PROVE  /\ \A tx \in Notes!TxsOf(chunk) : Notes!Reference(chunk, tx) \in Nat
         /\ \A tx, ux \in Notes!TxsOf(chunk) :
              Notes!Reference(chunk, tx) = Notes!Reference(chunk, ux) => tx = ux
<1> DEFINE Below(n) == {chunk[i].tx : i \in 1..n - 1} \ {0}
<1>1. \A n \in 1..Len(chunk) : IsFiniteSet(Below(n))
  <2> TAKE n \in 1..Len(chunk)
  <2>1. IsFiniteSet(1..n - 1)
    BY FS_Interval
  <2>2. [i \in 1..n - 1 |-> chunk[i].tx] \in Surjection(1..n - 1, {chunk[i].tx : i \in 1..n - 1})
    BY DEF Surjection
  <2>3. IsFiniteSet({chunk[i].tx : i \in 1..n - 1})
    BY <2>1, <2>2, FS_Surjection
  <2> QED BY <2>3, FS_Subset
<1>2. \A tx \in Notes!TxsOf(chunk) :
        /\ Notes!FirstAt(chunk, tx) \in 1..Len(chunk)
        /\ Notes!Reference(chunk, tx) = Cardinality(Below(Notes!FirstAt(chunk, tx)))
  BY FirstAtIs DEF Notes!Reference, Notes!Cardinality, Cardinality
<1>3. \A tx \in Notes!TxsOf(chunk) : Notes!Reference(chunk, tx) \in Nat
  BY <1>1, <1>2, FS_CardinalityType
<1>4. ASSUME NEW tx \in Notes!TxsOf(chunk), NEW ux \in Notes!TxsOf(chunk),
             Notes!FirstAt(chunk, tx) < Notes!FirstAt(chunk, ux)
      PROVE  Notes!Reference(chunk, tx) < Notes!Reference(chunk, ux)
  <2> DEFINE f == Notes!FirstAt(chunk, tx)
             g == Notes!FirstAt(chunk, ux)
  <2>1. /\ f \in 1..Len(chunk) /\ g \in 1..Len(chunk) /\ f < g /\ Len(chunk) \in Nat
        /\ chunk[f].tx = tx /\ \A k \in 1..f - 1 : chunk[k].tx # tx
    BY <1>4, FirstAtIs
  <2>2. tx # 0
    BY DEF Notes!TxsOf
  <2> HIDE DEF f, g
  <2>3. \A k \in 1..f - 1 : k \in 1..g - 1
    BY <2>1
  <2>4. f \in 1..g - 1
    BY <2>1
  <2>5. Below(f) \subseteq Below(g) /\ tx \in Below(g) /\ tx \notin Below(f)
    BY <2>1, <2>2, <2>3, <2>4
  <2>6. IsFiniteSet(Below(g)) /\ IsFiniteSet(Below(f))
    BY <1>1, <2>1
  <2> HIDE DEF Below
  <2>7. Cardinality(Below(f)) < Cardinality(Below(g))
    <3>1. Below(f) # Below(g)
      BY <2>5
    <3> QED BY <2>5, <2>6, <3>1, FS_Subset, FS_CardinalityType
  <2> QED BY <1>2, <2>7 DEF f, g
<1>5. ASSUME NEW tx \in Notes!TxsOf(chunk), NEW ux \in Notes!TxsOf(chunk), tx # ux
      PROVE  Notes!FirstAt(chunk, tx) # Notes!FirstAt(chunk, ux)
  BY <1>5, FirstAtIs
<1>6. ASSUME NEW tx \in Notes!TxsOf(chunk), NEW ux \in Notes!TxsOf(chunk), tx # ux
      PROVE  Notes!Reference(chunk, tx) # Notes!Reference(chunk, ux)
  <2>1. \/ Notes!FirstAt(chunk, tx) < Notes!FirstAt(chunk, ux)
        \/ Notes!FirstAt(chunk, ux) < Notes!FirstAt(chunk, tx)
    <3> HIDE DEF Below
    <3>1. Notes!FirstAt(chunk, tx) \in Int /\ Notes!FirstAt(chunk, ux) \in Int
      BY <1>2
    <3>2. Notes!FirstAt(chunk, tx) # Notes!FirstAt(chunk, ux)
      BY <1>5, <1>6
    <3> QED BY <3>1, <3>2
  <2>2. Notes!Reference(chunk, tx) \in Nat /\ Notes!Reference(chunk, ux) \in Nat
    BY <1>3
  <2>3. Notes!Reference(chunk, tx) < Notes!Reference(chunk, ux) \/ Notes!Reference(chunk, ux) < Notes!Reference(chunk, tx)
    BY <1>4, <2>1
  <2> QED BY <2>2, <2>3
<1> QED BY <1>3, <1>6

LEMMA MessageIsRead ==
  ASSUME NEW chunk \in Seq(NoteSet), Len(chunk) <= Chunk
  PROVE  Notes!Decode(Notes!Encode(chunk)) = chunk
<1> DEFINE T == Notes!TxsOf(chunk)
           Ref(tx) == Notes!Reference(chunk, tx)
           m == Notes!Encode(chunk)
           entry(i) == [chunk[i] EXCEPT !.tx = IF @ = 0 THEN -1 ELSE Ref(chunk[i].tx)]
<1>1. \A tx \in T : Ref(tx) \in Nat /\ \A ux \in T : Ref(tx) = Ref(ux) => tx = ux
  BY ReferenceIs
<1>2. /\ Len(chunk) \in Nat /\ DOMAIN chunk = 1..Len(chunk)
      /\ \A i \in 1..Len(chunk) : chunk[i] \in NoteSet /\ (chunk[i].tx = 0 \/ chunk[i].tx \in T)
      /\ \A tx \in T : tx # 0 /\ \E i \in 1..Len(chunk) : chunk[i].tx = tx
  BY DEF Notes!TxsOf
<1>3. /\ m.txs = [r \in {Ref(tx) : tx \in T} |-> CHOOSE tx \in T : Ref(tx) = r]
      /\ m.entries = [i \in DOMAIN chunk |-> entry(i)]
  BY DEF Notes!Encode
<1>4. /\ DOMAIN m.txs = {Ref(tx) : tx \in T} /\ DOMAIN m.entries = 1..Len(chunk) /\ Len(m.entries) = Len(chunk)
      /\ \A i \in 1..Len(chunk) : m.entries[i] = entry(i)
  BY <1>2, <1>3
<1>5. \A i \in 1..Len(chunk) : entry(i).tx = IF chunk[i].tx = 0 THEN -1 ELSE Ref(chunk[i].tx)
  BY <1>2 DEF NoteSet, Kinds
<1>6. \A tx \in T : m.txs[Ref(tx)] = tx
  <2> TAKE tx \in T
  <2>1. Ref(tx) \in {Ref(ux) : ux \in T}
    OBVIOUS
  <2>2. m.txs[Ref(tx)] = CHOOSE ux \in T : Ref(ux) = Ref(tx)
    BY <1>3, <2>1
  <2> HIDE DEF T, Ref, m
  <2> QED BY <1>1, <2>2
<1> HIDE DEF T, Ref, m
<1>7. Notes!Accepted(m)
  <2>1. \A i \in 1..Len(chunk) : m.entries[i].tx = IF chunk[i].tx = 0 THEN -1 ELSE Ref(chunk[i].tx)
    BY <1>4, <1>5
  <2>2. ASSUME NEW r \in DOMAIN m.txs PROVE r \in {m.entries[i].tx : i \in DOMAIN m.entries} \ {-1}
    <3>1. PICK tx \in T : r = Ref(tx)
      BY <1>4
    <3>2. PICK i \in 1..Len(chunk) : chunk[i].tx = tx
      BY <1>2
    <3>3. m.entries[i].tx = r /\ r \in Nat
      BY <1>1, <1>2, <2>1, <3>1, <3>2
    <3> QED BY <1>4, <3>3
  <2>3. ASSUME NEW r \in {m.entries[i].tx : i \in DOMAIN m.entries} \ {-1} PROVE r \in DOMAIN m.txs
    <3>1. PICK i \in 1..Len(chunk) : r = m.entries[i].tx
      BY <1>4
    <3>2. chunk[i].tx # 0
      BY <2>1, <2>3, <3>1
    <3> QED BY <1>2, <1>4, <2>1, <3>1, <3>2
  <2> QED BY <1>4, <2>2, <2>3 DEF Notes!Accepted
<1>8. Notes!Decode(m) = [i \in 1..Len(chunk) |-> [m.entries[i] EXCEPT !.tx = IF @ = -1 THEN 0 ELSE m.txs[@]]]
  BY <1>4, <1>7 DEF Notes!Decode
<1>9. ASSUME NEW i \in 1..Len(chunk)
      PROVE  [m.entries[i] EXCEPT !.tx = IF @ = -1 THEN 0 ELSE m.txs[@]] = chunk[i]
  <2>1. m.entries[i] = entry(i) /\ chunk[i] \in Kinds
    BY <1>2, <1>4 DEF NoteSet
  <2>2. m.entries[i] = [type |-> chunk[i].type, channel |-> chunk[i].channel, height |-> chunk[i].height,
                        block |-> chunk[i].block, tx |-> entry(i).tx]
    BY <1>5, <2>1 DEF Kinds
  <2>3. (IF entry(i).tx = -1 THEN 0 ELSE m.txs[entry(i).tx]) = chunk[i].tx
    <3>1. CASE chunk[i].tx = 0
      BY <1>5, <3>1
    <3>2. CASE chunk[i].tx # 0
      <4>1. chunk[i].tx \in T /\ Ref(chunk[i].tx) \in Nat /\ entry(i).tx = Ref(chunk[i].tx)
        BY <1>1, <1>2, <1>5, <3>2
      <4> QED BY <1>6, <4>1
    <3> QED BY <3>1, <3>2
  <2> HIDE DEF entry
  <2>4. chunk[i] = [type |-> chunk[i].type, channel |-> chunk[i].channel, height |-> chunk[i].height,
                    block |-> chunk[i].block, tx |-> chunk[i].tx]
    BY <2>1 DEF Kinds
  <2> QED BY <2>2, <2>3, <2>4
<1>10. Notes!Decode(m) = [i \in 1..Len(chunk) |-> chunk[i]]
  BY <1>8, <1>9
<1>11. chunk = [i \in 1..Len(chunk) |-> chunk[i]]
  BY <1>2
<1> QED BY <1>10, <1>11 DEF m

-----------------------------------------------------------------------------
(* The publishable notes of a batch, in their order.                        *)

LEMMA NthIs ==
  ASSUME NEW S \in SUBSET Nat, IsFiniteSet(S)
  PROVE  /\ Cardinality(S) \in Nat
         /\ \A i \in 1..Cardinality(S) : Notes!Nth(S, i) \in S
         /\ \A i, j \in 1..Cardinality(S) : i < j => Notes!Nth(S, i) < Notes!Nth(S, j)
         /\ \A k \in S : \E i \in 1..Cardinality(S) : Notes!Nth(S, i) = k
<1> DEFINE UpTo(k) == {m \in S : m <= k}
           rank == [k \in S |-> Cardinality(UpTo(k))]
<1>1. \A k : IsFiniteSet(UpTo(k)) /\ Cardinality(UpTo(k)) \in Nat /\ Cardinality(UpTo(k)) <= Cardinality(S)
  BY FS_Subset, FS_CardinalityType
<1>2. Cardinality(S) \in Nat
  BY FS_CardinalityType
<1>3. ASSUME NEW k \in S, NEW l \in S, k < l PROVE Cardinality(UpTo(k)) < Cardinality(UpTo(l))
  <2>1. k \in Nat /\ l \in Nat /\ \A m \in S : m \in Nat
    OBVIOUS
  <2>2. \A m \in S : m <= k => m <= l
    BY <1>3, <2>1
  <2>3. l <= l /\ ~(l <= k)
    BY <1>3, <2>1
  <2>4. UpTo(k) \subseteq UpTo(l) /\ l \in UpTo(l) /\ l \notin UpTo(k)
    BY <2>2, <2>3
  <2> HIDE DEF UpTo
  <2> QED BY <1>1, <2>4, FS_Subset
<1>4. ASSUME NEW k \in S PROVE Cardinality(UpTo(k)) >= 1
  <2>1. UpTo(k) # {}
    OBVIOUS
  <2> HIDE DEF UpTo
  <2> QED BY <1>1, <2>1, FS_EmptySet
<1>5. rank \in Injection(S, 1..Cardinality(S))
  <2>1. \A k \in S : Cardinality(UpTo(k)) \in 1..Cardinality(S)
    BY <1>1, <1>2, <1>4
  <2>2. \A k, l \in S : k # l => k < l \/ l < k
    OBVIOUS
  <2>3. \A k, l \in S : Cardinality(UpTo(k)) = Cardinality(UpTo(l)) => k = l
    <3> HIDE DEF UpTo
    <3> QED BY <1>1, <1>3, <2>2
  <2> HIDE DEF UpTo
  <2> QED BY <2>1, <2>3 DEF Injection, IsInjective
<1>6. IsFiniteSet(1..Cardinality(S)) /\ Cardinality(1..Cardinality(S)) = Cardinality(S)
  BY <1>2, FS_Interval
<1>7. rank \in Surjection(S, 1..Cardinality(S))
  BY <1>5, <1>6, FS_Injection
<1>8. ASSUME NEW i \in 1..Cardinality(S)
      PROVE  Notes!Nth(S, i) \in S /\ Cardinality(UpTo(Notes!Nth(S, i))) = i
  <2>1. \E k \in S : Cardinality(UpTo(k)) = i
    BY <1>7 DEF Surjection
  <2>2. Notes!Nth(S, i) = CHOOSE k \in S : Cardinality(UpTo(k)) = i
    BY DEF Notes!Nth, Notes!Cardinality, Cardinality
  <2> HIDE DEF UpTo
  <2> QED BY <2>1, <2>2
<1> HIDE DEF UpTo
<1>9. ASSUME NEW i \in 1..Cardinality(S), NEW j \in 1..Cardinality(S), i < j
      PROVE  Notes!Nth(S, i) < Notes!Nth(S, j)
  <2>1. Notes!Nth(S, i) # Notes!Nth(S, j)
    BY <1>8, <1>9
  <2>2. ASSUME Notes!Nth(S, j) < Notes!Nth(S, i) PROVE FALSE
    <3>1. Cardinality(UpTo(Notes!Nth(S, j))) < Cardinality(UpTo(Notes!Nth(S, i)))
      BY <1>3, <1>8, <2>2
    <3>2. j < i
      BY <1>8, <3>1
    <3>3. i \in Nat /\ j \in Nat
      BY <1>2
    <3> QED BY <1>9, <3>2, <3>3
  <2>3. Notes!Nth(S, i) \in Nat /\ Notes!Nth(S, j) \in Nat
    BY <1>8
  <2> QED BY <2>1, <2>2, <2>3
<1>10. ASSUME NEW k \in S PROVE \E i \in 1..Cardinality(S) : Notes!Nth(S, i) = k
  <2>1. Cardinality(UpTo(k)) \in 1..Cardinality(S)
    BY <1>1, <1>2, <1>4
  <2>2. Notes!Nth(S, Cardinality(UpTo(k))) \in S
        /\ Cardinality(UpTo(Notes!Nth(S, Cardinality(UpTo(k))))) = Cardinality(UpTo(k))
    BY <1>8, <2>1
  <2>3. Notes!Nth(S, Cardinality(UpTo(k))) = k
    BY <1>5, <2>2 DEF Injection, IsInjective
  <2> QED BY <2>1, <2>3
<1> QED BY <1>2, <1>8, <1>9, <1>10

Flags == [note : NoteSet, publishable : BOOLEAN]

LEMMA PublishableIs ==
  ASSUME NEW b \in Seq(Flags)
  PROVE  /\ Notes!Publishable(b) \in Seq(NoteSet)
         /\ \A known : After(known, Notes!Publishable(b)) = AfterBatch(known, b)
<1> DEFINE K == Notes!Kept(b)
           n == Cardinality(K)
           at(i) == Notes!Nth(K, i)
           s == Notes!Publishable(b)
<1>1. K \in SUBSET Nat /\ IsFiniteSet(K) /\ K \subseteq DOMAIN b /\ DOMAIN b = 1..Len(b)
  <2>1. K \subseteq 1..Len(b) /\ Len(b) \in Nat
    BY DEF Notes!Kept
  <2>2. IsFiniteSet(1..Len(b))
    BY FS_Interval
  <2>3. 1..Len(b) \subseteq Nat /\ DOMAIN b = 1..Len(b)
    BY <2>1
  <2> HIDE DEF K
  <2>4. IsFiniteSet(K)
    BY <2>1, <2>2, FS_Subset
  <2> QED BY <2>1, <2>3, <2>4
<1> HIDE DEF K
<1>2. /\ n \in Nat /\ \A i \in 1..n : at(i) \in K
      /\ \A i, j \in 1..n : i < j => at(i) < at(j)
      /\ \A k \in K : \E i \in 1..n : at(i) = k
  BY <1>1, NthIs
<1>3. s = [i \in 1..n |-> b[at(i)].note]
  BY DEF Notes!Publishable, K, Notes!Cardinality, Cardinality
<1>4. \A k \in K : b[k].note \in NoteSet
  <2> TAKE k \in K
  <2>1. b[k] \in Flags
    BY <1>1
  <2> QED BY <2>1 DEF Flags
<1> HIDE DEF n, at
<1>5. s \in Seq(NoteSet) /\ Len(s) = n /\ DOMAIN s = 1..n /\ \A i \in 1..n : s[i] = b[at(i)].note
  BY <1>2, <1>3, <1>4
<1> HIDE DEF s
<1>6. \A i, j \in 1..n : i < j <=> at(i) < at(j)
  <2>1. \A i \in 1..n : at(i) \in Nat
    BY <1>1, <1>2
  <2> SUFFICES ASSUME NEW i \in 1..n, NEW j \in 1..n, at(i) < at(j) PROVE i < j
    BY <1>2
  <2>2. at(i) \in Nat /\ at(j) \in Nat /\ i \in Nat /\ j \in Nat
    BY <1>2, <2>1
  <2>3. CASE i = j
    BY <2>2, <2>3
  <2>4. CASE j < i
    <3>1. at(j) < at(i)
      BY <1>2, <2>4
    <3> QED BY <2>2, <3>1
  <2> QED BY <2>2, <2>3, <2>4
<1>7. \A m : \A i \in 1..n : ForkAt(s, i, m) <=> ForkIn(b, at(i), m)
  BY <1>5 DEF ForkAt, ForkIn
<1>8. \A m : Notes!TakesBack(s, m) <=> \E k \in K : ForkIn(b, k, m)
  <2> TAKE m
  <2>1. Notes!TakesBack(s, m) <=> \E i \in 1..n : ForkAt(s, i, m)
    BY <1>5 DEF Notes!TakesBack, ForkAt
  <2> QED BY <1>2, <1>7, <2>1
<1>9. ASSUME NEW i \in 1..n
      PROVE  (\A k \in 1..n : k > i => ~ForkAt(s, k, s[i]))
               <=> \A k \in K : k > at(i) => ~ForkIn(b, k, b[at(i)].note)
  <2>1. ASSUME \A k \in 1..n : k > i => ~ForkAt(s, k, s[i]), NEW k \in K, k > at(i)
        PROVE  ~ForkIn(b, k, b[at(i)].note)
    <3>1. PICK j \in 1..n : at(j) = k
      BY <1>2
    <3>2. at(i) < at(j)
      BY <1>1, <1>2, <2>1, <3>1
    <3>3. i < j
      BY <1>6, <3>2
    <3>4. j > i
      BY <1>2, <3>3
    <3> QED BY <1>5, <1>7, <2>1, <3>1, <3>4
  <2>2. ASSUME \A k \in K : k > at(i) => ~ForkIn(b, k, b[at(i)].note), NEW j \in 1..n, j > i
        PROVE  ~ForkAt(s, j, s[i])
    <3>1. i < j
      BY <1>2, <2>2
    <3>2. at(i) < at(j)
      BY <1>6, <3>1
    <3>3. at(j) > at(i)
      BY <1>1, <1>2, <3>2
    <3> QED BY <1>2, <1>5, <1>7, <2>2, <3>3
  <2> QED BY <2>1, <2>2
<1>10. Notes!Remain(s) = {b[i].note : i \in {j \in K :
         b[j].note.type = "trace" /\ \A k \in K : k > j => ~ForkIn(b, k, b[j].note)}}
  <2>1. Notes!Remain(s) = {s[i] : i \in {j \in 1..n :
          s[j].type = "trace" /\ \A k \in 1..n : k > j => ~ForkAt(s, k, s[j])}}
    BY <1>5, RemainIs
  <2>2. \A j \in 1..n : s[j] = b[at(j)].note /\ at(j) \in K
    BY <1>2, <1>5
  <2> DEFINE kept == {j \in K : b[j].note.type = "trace" /\ \A k \in K : k > j => ~ForkIn(b, k, b[j].note)}
             sent == {j \in 1..n : s[j].type = "trace" /\ \A k \in 1..n : k > j => ~ForkAt(s, k, s[j])}
  <2>3. \A j \in 1..n : j \in sent <=> at(j) \in kept
    <3> TAKE j \in 1..n
    <3>1. (\A k \in 1..n : k > j => ~ForkAt(s, k, s[j]))
            <=> \A k \in K : k > at(j) => ~ForkIn(b, k, b[at(j)].note)
      BY <1>9
    <3>2. s[j].type = "trace" <=> b[at(j)].note.type = "trace"
      BY <2>2
    <3> QED BY <2>2, <3>1, <3>2
  <2>4. \A k \in kept : \E j \in sent : at(j) = k
    <3> TAKE k \in kept
    <3>1. PICK j \in 1..n : at(j) = k
      BY <1>2
    <3> QED BY <2>3, <3>1
  <2>5. sent \subseteq 1..n
    OBVIOUS
  <2> HIDE DEF kept, sent
  <2>6. {s[i] : i \in sent} = {b[i].note : i \in kept}
    BY <2>2, <2>3, <2>4, <2>5
  <2> QED BY <2>1, <2>6 DEF kept, sent
<1> QED BY <1>5, <1>8, <1>10 DEF After, AfterBatch, K, s

-----------------------------------------------------------------------------
(* The stream of a batch, over the transactions and the messages.           *)

Heard == [i \in DOMAIN wire |-> Notes!Decode(wire[i])]
Ids == Nat \ {0}

NoteTypes ==
  /\ applied \in Seq(Ids) /\ seen \in Nat /\ eligible \subseteq NoteSet
  /\ committed \in Seq(Seq(Ids)) /\ committed # <<>> /\ replica \in 1..Len(committed)
  /\ batch \in Seq(Flags) /\ todo \in Seq(NoteSet)
  /\ wire \in Seq({Notes!Encode(s) : s \in Seq(NoteSet)}) /\ Heard \in Seq(Seq(NoteSet))

\* No block is applied twice.
NumbersAreNew ==
  /\ \A n \in eligible : n.block <= seen
  /\ \A i \in DOMAIN applied : applied[i] <= seen
  /\ \A i \in DOMAIN Notes!Primary : Notes!Primary[i] <= seen

\* What was published, and what is left to publish, makes up the committed
\* chain, and the batch that is collected leads from it to the applied one.
StreamInv ==
  /\ ~lost => After(Notes!Known(Heard), todo) = OnChain(eligible, Notes!Primary)
  /\ AfterBatch(OnChain(eligible, Notes!Primary), batch) = OnChain(eligible, applied)
  /\ todo # <<>> => batch = <<>> /\ applied = Notes!Primary

NoteInv == NoteTypes /\ NumbersAreNew /\ StreamInv /\ Notes!RowsAreServedFresh

LEMMA PrimaryIs ==
  ASSUME NoteTypes
  PROVE  Notes!Primary = committed[Len(committed)] /\ Notes!Primary \in Seq(Ids) /\ Len(committed) \in Nat \ {0}
BY DEF NoteTypes, Notes!Primary, Notes!Last

LEMMA NothingCollected == \A known : AfterBatch(known, <<>>) = known
BY DEF AfterBatch, Notes!Kept

LEMMA NotesStart ==
  ASSUME Notes!Init
  PROVE  NoteInv
<1>1. /\ applied = <<>> /\ committed = << <<>> >> /\ batch = <<>> /\ todo = <<>> /\ wire = <<>>
      /\ eligible = {} /\ seen = 0 /\ replica = 1 /\ told = <<>>
  BY DEF Notes!Init
<1>2. Heard = <<>>
  BY <1>1 DEF Heard
<1>3. NoteTypes /\ Notes!Primary = <<>>
  BY <1>1, <1>2 DEF NoteTypes, Notes!Primary, Notes!Last, Ids
<1>4. NumbersAreNew
  BY <1>1, <1>3 DEF NumbersAreNew
<1>5. StreamInv
  <2>1. Notes!Known(Heard) = {} /\ After({}, <<>>) = {}
    BY <1>2, AfterNothing DEF Notes!Known
  <2>2. OnChain(eligible, Notes!Primary) = {} /\ OnChain(eligible, applied) = {}
    BY <1>1 DEF OnChain
  <2> QED BY <1>1, <2>1, <2>2, NothingCollected DEF StreamInv
<1>6. Notes!RowsAreServedFresh
  BY <1>1 DEF Notes!RowsAreServedFresh
<1> QED BY <1>3, <1>4, <1>5, <1>6 DEF NoteInv

\* The notes of a block: at most traces of its height and number.
LEMMA NotesOfIs ==
  ASSUME NEW h \in Ids, NEW b \in Ids, NEW notes \in Notes!NotesOf(h, b)
  PROVE  /\ notes \in Seq(NoteSet)
         /\ \A i \in DOMAIN notes : notes[i].type = "trace" /\ notes[i].height = h /\ notes[i].block = b
<1>1. \A c \in NoteChannels, tx \in Ids :
        /\ Notes!Trace(c, h, b, tx) \in NoteSet
        /\ Notes!Trace(c, h, b, tx).type = "trace" /\ Notes!Trace(c, h, b, tx).height = h
        /\ Notes!Trace(c, h, b, tx).block = b
  BY DEF Notes!Trace, NoteSet, Kinds, Ids
<1>2. CASE notes = <<>>
  BY <1>2
<1>3. CASE notes # <<>>
  <2>1. PICK c \in NoteChannels, d \in NoteChannels, tx \in NoteBodies :
          notes = <<Notes!Trace(c, h, b, 1), Notes!Trace(d, h, b, tx)>>
    BY <1>3 DEF Notes!NotesOf
  <2>2. 1 \in Ids /\ tx \in Ids
    BY NoteAssumption DEF Ids
  <2>3. /\ Notes!Trace(c, h, b, 1) \in NoteSet /\ Notes!Trace(d, h, b, tx) \in NoteSet
        /\ Notes!Trace(c, h, b, 1).type = "trace" /\ Notes!Trace(c, h, b, 1).height = h
        /\ Notes!Trace(c, h, b, 1).block = b
        /\ Notes!Trace(d, h, b, tx).type = "trace" /\ Notes!Trace(d, h, b, tx).height = h
        /\ Notes!Trace(d, h, b, tx).block = b
    BY <1>1, <2>2
  <2> HIDE DEF Ids
  <2> QED BY <2>1, <2>3
<1> QED BY <1>2, <1>3

LEMMA FlaggedIs ==
  ASSUME NEW notes \in Seq(NoteSet), NEW near \in BOOLEAN
  PROVE  /\ Notes!Flagged(notes, near) \in Seq(Flags) /\ Len(Notes!Flagged(notes, near)) = Len(notes)
         /\ \A i \in DOMAIN notes : /\ Notes!Flagged(notes, near)[i].note = notes[i]
                                    /\ Notes!Flagged(notes, near)[i].publishable = near
<1>1. Notes!Flagged(notes, near) = [i \in 1..Len(notes) |-> [note |-> notes[i], publishable |-> near]]
  BY DEF Notes!Flagged
<1>2. Len(notes) \in Nat /\ \A i \in 1..Len(notes) : [note |-> notes[i], publishable |-> near] \in Flags
  BY DEF Flags
<1> HIDE DEF Flags
<1> QED BY <1>1, <1>2

\* Traces of a block join the batch.
LEMMA TracesJoin ==
  ASSUME NEW b \in Seq(Flags), NEW notes \in Seq(NoteSet), NEW near \in BOOLEAN,
         \A i \in DOMAIN notes : notes[i].type = "trace", NEW known
  PROVE  AfterBatch(known, b \o Notes!Flagged(notes, near))
           = AfterBatch(known, b) \cup (IF near THEN Notes!ToSet(notes) ELSE {})
<1> DEFINE f == Notes!Flagged(notes, near)
           all == b \o f
<1>1. /\ f \in Seq(Flags) /\ Len(f) = Len(notes) /\ Len(notes) \in Nat /\ Len(b) \in Nat
      /\ DOMAIN notes = 1..Len(notes)
      /\ \A i \in 1..Len(notes) : f[i].note = notes[i] /\ f[i].publishable = near
  BY FlaggedIs
<1> HIDE DEF f
<1>2. /\ DOMAIN b = 1..Len(b) /\ DOMAIN all = 1..(Len(b) + Len(notes))
      /\ \A i \in 1..Len(b) : all[i] = b[i] /\ i \in DOMAIN all
      /\ \A i \in 1..Len(notes) : Len(b) + i \in DOMAIN all /\ all[Len(b) + i] = f[i]
  <2> HIDE DEF Flags
  <2>1. all \in Seq(Flags) /\ Len(all) = Len(b) + Len(notes)
    <3>1. \A S : \A u, v \in Seq(S) : u \o v \in Seq(S) /\ Len(u \o v) = Len(u) + Len(v)
      OBVIOUS
    <3> QED BY SMTT(30), <1>1, <3>1
  <2>2. \A i \in 1..Len(b) : all[i] = b[i] /\ i \in 1..(Len(b) + Len(notes))
    BY <1>1
  <2>3. \A i \in 1..Len(notes) : Len(b) + i \in 1..(Len(b) + Len(notes)) /\ all[Len(b) + i] = f[i]
    BY <1>1
  <2> HIDE DEF all
  <2> QED BY <1>1, <2>1, <2>2, <2>3
<1> HIDE DEF all
<1>3. \A k \in DOMAIN all : k \in 1..Len(b) \/ \E i \in 1..Len(notes) : k = Len(b) + i
  <2> SUFFICES ASSUME NEW k \in DOMAIN all, ~(k \in 1..Len(b))
               PROVE  \E i \in 1..Len(notes) : k = Len(b) + i
    OBVIOUS
  <2>1. k \in 1..(Len(b) + Len(notes)) /\ k - Len(b) \in 1..Len(notes) /\ k = Len(b) + (k - Len(b))
    BY <1>1, <1>2
  <2> QED BY <2>1
<1>4. \A k \in 1..Len(b) : k \in Notes!Kept(all) <=> k \in Notes!Kept(b)
  BY <1>2 DEF Notes!Kept
<1>5. \A i \in 1..Len(notes) : Len(b) + i \in Notes!Kept(all) <=> near
  BY <1>1, <1>2 DEF Notes!Kept
<1>6. Notes!Kept(b) \subseteq 1..Len(b) /\ Notes!Kept(all) \subseteq DOMAIN all
  BY <1>2 DEF Notes!Kept
<1>7. \A n : \A i \in 1..Len(notes) : ~ForkIn(all, Len(b) + i, n)
  BY <1>1, <1>2 DEF ForkIn
<1>8. \A n : \A k \in 1..Len(b) : ForkIn(all, k, n) <=> ForkIn(b, k, n)
  BY <1>2 DEF ForkIn
<1>9. \A n : \A k \in Notes!Kept(all) : ForkIn(all, k, n) => k \in Notes!Kept(b) /\ ForkIn(b, k, n)
  <2> TAKE n
  <2> TAKE k \in Notes!Kept(all)
  <2> HAVE ForkIn(all, k, n)
  <2>1. k \in 1..Len(b)
    BY <1>3, <1>6, <1>7
  <2> QED BY <1>4, <1>8, <2>1
<1>10. \A n : \A k \in Notes!Kept(b) : k \in Notes!Kept(all) /\ (ForkIn(b, k, n) => ForkIn(all, k, n))
  BY <1>4, <1>6, <1>8
<1>11. ASSUME NEW i \in 1..Len(notes), NEW n, NEW k \in Notes!Kept(b) PROVE ~(k > Len(b) + i)
  BY <1>1, <1>6
<1>12. ASSUME NEW n \in AfterBatch(known, all)
       PROVE  n \in AfterBatch(known, b) \cup (IF near THEN Notes!ToSet(notes) ELSE {})
  <2>1. CASE n \in known /\ \A k \in Notes!Kept(all) : ~ForkIn(all, k, n)
    BY <1>10, <2>1 DEF AfterBatch
  <2>2. CASE \E i \in Notes!Kept(all) : /\ n = all[i].note /\ all[i].note.type = "trace"
                                       /\ \A k \in Notes!Kept(all) : k > i => ~ForkIn(all, k, all[i].note)
    <3>1. PICK i \in Notes!Kept(all) : /\ n = all[i].note /\ all[i].note.type = "trace"
                                      /\ \A k \in Notes!Kept(all) : k > i => ~ForkIn(all, k, all[i].note)
      BY <2>2
    <3>2. CASE i \in 1..Len(b)
      <4>1. i \in Notes!Kept(b) /\ n = b[i].note /\ b[i].note.type = "trace"
        BY <1>2, <1>4, <3>1, <3>2
      <4>2. \A k \in Notes!Kept(b) : k > i => ~ForkIn(b, k, b[i].note)
        BY <1>2, <1>10, <3>1, <3>2
      <4> QED BY <4>1, <4>2 DEF AfterBatch
    <3>3. CASE \E j \in 1..Len(notes) : i = Len(b) + j
      <4>1. PICK j \in 1..Len(notes) : i = Len(b) + j
        BY <3>3
      <4>2. near /\ n = notes[j] /\ j \in DOMAIN notes
        BY <1>1, <1>2, <1>5, <3>1, <4>1
      <4> QED BY <4>2 DEF Notes!ToSet
    <3> QED BY <1>3, <1>6, <3>1, <3>2, <3>3
  <2> QED BY <1>12, <2>1, <2>2 DEF AfterBatch
<1>13. ASSUME NEW n \in AfterBatch(known, b) PROVE n \in AfterBatch(known, all)
  <2>1. CASE n \in known /\ \A k \in Notes!Kept(b) : ~ForkIn(b, k, n)
    BY <1>9, <2>1 DEF AfterBatch
  <2>2. CASE \E i \in Notes!Kept(b) : /\ n = b[i].note /\ b[i].note.type = "trace"
                                     /\ \A k \in Notes!Kept(b) : k > i => ~ForkIn(b, k, b[i].note)
    <3>1. PICK i \in Notes!Kept(b) : /\ n = b[i].note /\ b[i].note.type = "trace"
                                    /\ \A k \in Notes!Kept(b) : k > i => ~ForkIn(b, k, b[i].note)
      BY <2>2
    <3>2. i \in Notes!Kept(all) /\ all[i] = b[i]
      BY <1>2, <1>4, <1>6, <3>1
    <3>3. \A k \in Notes!Kept(all) : k > i => ~ForkIn(all, k, all[i].note)
      BY <1>9, <3>1, <3>2
    <3> QED BY <3>1, <3>2, <3>3 DEF AfterBatch
  <2> QED BY <1>13, <2>1, <2>2 DEF AfterBatch
<1>14. ASSUME near, NEW n \in Notes!ToSet(notes) PROVE n \in AfterBatch(known, all)
  <2>1. PICK i \in 1..Len(notes) : n = notes[i]
    BY <1>1 DEF Notes!ToSet
  <2>2. Len(b) + i \in Notes!Kept(all) /\ all[Len(b) + i].note = n /\ n.type = "trace"
    BY <1>1, <1>2, <1>5, <1>14, <2>1
  <2>3. \A k \in Notes!Kept(all) : k > Len(b) + i => ~ForkIn(all, k, n)
    BY <1>9, <1>11
  <2> QED BY <2>2, <2>3 DEF AfterBatch
<1> QED BY <1>12, <1>13, <1>14 DEF all, f

\* A block on a chain, with what eligible notes it has.
\* The chain d is the chain c with a block of the notes T, beside the notes S.
Joined(S, T, c, d) == OnChain(S \cup T, d) = OnChain(S, c) \cup T

LEMMA BlockJoins ==
  ASSUME NEW c \in Seq(Ids), NEW b \in Ids, NEW d, d = Append(c, b), NEW S, \A n \in S : n.block # b,
         NEW T, \A n \in T : n.height = Len(c) + 1 /\ n.block = b
  PROVE  Joined(S, T, c, d)
<1>1. /\ Len(c) \in Nat /\ DOMAIN c = 1..Len(c) /\ DOMAIN d = 1..(Len(c) + 1)
      /\ d[Len(c) + 1] = b /\ \A i \in 1..Len(c) : d[i] = c[i]
  <2> HIDE DEF Ids
  <2> QED OBVIOUS
<1>2. \A n \in T : n.height \in DOMAIN d /\ d[n.height] = n.block
  BY <1>1
<1>3. ASSUME NEW n \in S
      PROVE  n.height \in DOMAIN d /\ d[n.height] = n.block <=> n.height \in DOMAIN c /\ c[n.height] = n.block
  <2>1. \A h \in 1..(Len(c) + 1) : h = Len(c) + 1 \/ h \in 1..Len(c)
    BY <1>1
  <2>2. \A h \in 1..Len(c) : h \in 1..(Len(c) + 1)
    BY <1>1
  <2> QED BY <1>1, <2>1, <2>2
<1> QED BY <1>2, <1>3 DEF OnChain, Joined

LEMMA OldNotes ==
  ASSUME NoteTypes, NumbersAreNew
  PROVE  \A n \in eligible : n.block # seen + 1
<1> TAKE n \in eligible
<1>1. n \in NoteSet /\ n.block <= seen /\ seen \in Nat
  BY DEF NoteTypes, NumbersAreNew
<1>2. n.block \in Nat
  BY <1>1 DEF NoteSet, Kinds
<1> QED BY <1>1, <1>2

LEMMA OldChain ==
  ASSUME NEW c \in Seq(Ids), NEW m \in Nat, \A i \in DOMAIN c : c[i] <= m,
         NEW S, NEW T, \A n \in T : n.block = m + 1
  PROVE  OnChain(S \cup T, c) = OnChain(S, c)
<1>1. \A i \in DOMAIN c : c[i] # m + 1
  BY DEF Ids
<1> QED BY <1>1 DEF OnChain

\* What a block of these notes leaves of the types and the numbers.
LEMMA NotesJoin ==
  ASSUME NoteTypes, NumbersAreNew, NEW h \in Ids, NEW notes \in Notes!NotesOf(h, seen + 1), NEW near \in BOOLEAN
  PROVE  /\ notes \in Seq(NoteSet) /\ seen + 1 \in Ids
         /\ \A i \in DOMAIN notes : notes[i].type = "trace" /\ notes[i].height = h /\ notes[i].block = seen + 1
         /\ eligible \cup (IF near THEN Notes!ToSet(notes) ELSE {}) \subseteq NoteSet
         /\ \A n \in eligible \cup (IF near THEN Notes!ToSet(notes) ELSE {}) : n.block <= seen + 1
<1>1. seen \in Nat /\ seen + 1 \in Ids
  BY DEF NoteTypes, Ids
<1>2. /\ notes \in Seq(NoteSet)
      /\ \A i \in DOMAIN notes : notes[i].type = "trace" /\ notes[i].height = h /\ notes[i].block = seen + 1
  BY <1>1, NotesOfIs
<1>3. \A n \in Notes!ToSet(notes) : n \in NoteSet /\ n.block = seen + 1
  BY <1>2 DEF Notes!ToSet
<1>4. \A n \in eligible : n \in NoteSet /\ n.block <= seen + 1
  <2> TAKE n \in eligible
  <2>1. n \in NoteSet /\ n.block <= seen
    BY DEF NoteTypes, NumbersAreNew
  <2>2. n.block \in Nat
    BY <2>1 DEF NoteSet, Kinds
  <2> QED BY <1>1, <2>1, <2>2
<1>5. seen + 1 <= seen + 1
  BY <1>1
<1> QED BY <1>1, <1>2, <1>3, <1>4, <1>5

LEMMA ApplyInv ==
  ASSUME NoteInv, NEW near \in BOOLEAN, NEW notes \in Notes!NotesOf(Len(applied) + 1, seen + 1),
         Notes!Apply(near, notes)
  PROVE  NoteInv'
<1> DEFINE new == IF near THEN Notes!ToSet(notes) ELSE {}
<1>1. /\ todo = <<>> /\ seen' = seen + 1 /\ applied' = Append(applied, seen + 1)
      /\ batch' = batch \o Notes!Flagged(notes, near) /\ eligible' = eligible \cup new
      /\ UNCHANGED <<committed, todo, wire, told, replica, lost>>
  BY DEF Notes!Apply
<1>2. NoteTypes /\ NumbersAreNew /\ StreamInv /\ Notes!RowsAreServedFresh
  BY DEF NoteInv
<1>3. /\ Len(applied) + 1 \in Ids /\ seen \in Nat /\ applied \in Seq(Ids) /\ batch \in Seq(Flags)
      /\ Len(applied) \in Nat
  BY <1>2 DEF NoteTypes, Ids
<1>4. /\ notes \in Seq(NoteSet) /\ seen + 1 \in Ids
      /\ \A i \in DOMAIN notes : notes[i].type = "trace" /\ notes[i].height = Len(applied) + 1 /\ notes[i].block = seen + 1
      /\ eligible \cup new \subseteq NoteSet /\ \A n \in eligible \cup new : n.block <= seen + 1
  <2> DEFINE h == Len(applied) + 1
  <2>1. h \in Ids /\ notes \in Notes!NotesOf(h, seen + 1)
    BY <1>3
  <2> HIDE DEF h
  <2>2. /\ notes \in Seq(NoteSet) /\ seen + 1 \in Ids
        /\ \A i \in DOMAIN notes : notes[i].type = "trace" /\ notes[i].height = h /\ notes[i].block = seen + 1
        /\ eligible \cup new \subseteq NoteSet /\ \A n \in eligible \cup new : n.block <= seen + 1
    BY <1>2, <2>1, NotesJoin
  <2> QED BY <2>2 DEF h
<1>5. Notes!Primary' = Notes!Primary /\ Heard' = Heard
  BY <1>1 DEF Notes!Primary, Notes!Last, Heard
<1>6. NoteTypes'
  <2>1. Notes!Flagged(notes, near) \in Seq(Flags)
    BY <1>4, FlaggedIs
  <2>2. batch' \in Seq(Flags) /\ applied' \in Seq(Ids)
    <3> HIDE DEF Flags, Ids
    <3> QED BY <1>1, <1>3, <1>4, <2>1
  <2>3. seen' \in Nat
    BY <1>1, <1>3
  <2> HIDE DEF new
  <2> QED BY <1>1, <1>2, <1>4, <1>5, <2>2, <2>3 DEF NoteTypes
<1>7. NumbersAreNew'
  <2>1. /\ DOMAIN applied' = 1..(Len(applied) + 1) /\ applied'[Len(applied) + 1] = seen + 1
        /\ \A i \in 1..Len(applied) : applied'[i] = applied[i] /\ applied[i] <= seen /\ applied[i] \in Nat
    BY <1>1, <1>2, <1>3 DEF NumbersAreNew, Ids
  <2>2. \A i \in DOMAIN applied' : applied'[i] <= seen + 1
    BY <1>3, <2>1
  <2>3. \A i \in DOMAIN Notes!Primary : Notes!Primary[i] <= seen + 1
    <3>1. \A i \in DOMAIN Notes!Primary : Notes!Primary[i] <= seen /\ Notes!Primary[i] \in Nat
      BY <1>2, PrimaryIs DEF NumbersAreNew, Ids
    <3> QED BY <1>3, <3>1
  <2> HIDE DEF new
  <2> QED BY <1>1, <1>4, <1>5, <2>2, <2>3 DEF NumbersAreNew
<1>8. StreamInv'
  <2>1. OnChain(eligible', Notes!Primary) = OnChain(eligible, Notes!Primary)
    <3>1. Notes!Primary \in Seq(Ids) /\ \A i \in DOMAIN Notes!Primary : Notes!Primary[i] <= seen
      BY <1>2, PrimaryIs DEF NumbersAreNew
    <3>2. \A n \in new : n.block = seen + 1
      BY <1>4 DEF Notes!ToSet
    <3> HIDE DEF new
    <3>3. OnChain(eligible \cup new, Notes!Primary) = OnChain(eligible, Notes!Primary)
      BY <1>3, <1>4, <3>1, <3>2, OldChain
    <3> QED BY <1>1, <3>3
  <2>2. OnChain(eligible', applied') = OnChain(eligible, applied) \cup new
    <3>1. \A n \in eligible : n.block # seen + 1
      BY <1>2, OldNotes
    <3>2. \A n \in new : n.height = Len(applied) + 1 /\ n.block = seen + 1
      BY <1>4 DEF Notes!ToSet
    <3> HIDE DEF new
    <3>3. applied \in Seq(Ids)
      BY <1>3
    <3>4. seen + 1 \in Ids
      BY <1>4
    <3> DEFINE b == seen + 1
               d == Append(applied, b)
    <3>5. d = Append(applied, b) /\ b = seen + 1
      OBVIOUS
    <3> HIDE DEF b, d
    <3>6. Joined(eligible, new, applied, d)
      BY <3>1, <3>2, <3>3, <3>4, <3>5, BlockJoins
    <3> QED BY <1>1, <3>5, <3>6 DEF Joined
  <2>3. AfterBatch(OnChain(eligible, Notes!Primary), batch') = OnChain(eligible, applied) \cup new
    <3>1. AfterBatch(OnChain(eligible, Notes!Primary), batch') = AfterBatch(OnChain(eligible, Notes!Primary), batch) \cup new
      BY <1>1, <1>3, <1>4, TracesJoin
    <3> QED BY <1>2, <3>1 DEF StreamInv
  <2> HIDE DEF new
  <2> QED BY <1>1, <1>2, <1>5, <2>1, <2>2, <2>3 DEF StreamInv
<1>9. Notes!RowsAreServedFresh'
  BY <1>1, <1>2 DEF Notes!RowsAreServedFresh
<1> QED BY <1>6, <1>7, <1>8, <1>9 DEF NoteInv

LEMMA ForkOf ==
  ASSUME NEW h \in Ids, NEW b \in Ids
  PROVE  /\ Notes!Flagged(<<Notes!Fork(h, b)>>, TRUE) \in Seq(Flags)
         /\ \A known : AfterBatch(known, Notes!Flagged(<<Notes!Fork(h, b)>>, TRUE))
                         = {n \in known : ~(h <= n.height)}
<1> DEFINE fork == Notes!Fork(h, b)
           f == Notes!Flagged(<<fork>>, TRUE)
<1>1. fork \in NoteSet /\ fork.type = "fork" /\ fork.height = h
  BY DEF Notes!Fork, NoteSet, Kinds, Ids
<1> HIDE DEF fork
<1>2. <<fork>> \in Seq(NoteSet) /\ Len(<<fork>>) = 1 /\ DOMAIN <<fork>> = {1} /\ <<fork>>[1] = fork
  BY <1>1
<1>3. f \in Seq(Flags) /\ Len(f) = 1 /\ f[1].note = fork /\ f[1].publishable = TRUE
  BY <1>2, FlaggedIs
<1> HIDE DEF f
<1>4. DOMAIN f = {1}
  BY <1>3
<1>5. Notes!Kept(f) = {1}
  BY <1>3, <1>4 DEF Notes!Kept
<1>6. \A n : ForkIn(f, 1, n) <=> h <= n.height
  BY <1>1, <1>3 DEF ForkIn
<1>7. \A known : AfterBatch(known, f) = {n \in known : ~(h <= n.height)}
  BY <1>1, <1>3, <1>5, <1>6 DEF AfterBatch
<1> QED BY <1>3, <1>7 DEF f, fork

LEMMA BelowFork ==
  ASSUME NEW c \in Seq(Ids), NEW h \in DOMAIN c, NEW S \in SUBSET NoteSet
  PROVE  OnChain(S, SubSeq(c, 1, h - 1)) = {n \in OnChain(S, c) : ~(h <= n.height)}
<1>1. h \in 1..Len(c) /\ Len(c) \in Nat /\ DOMAIN c = 1..Len(c)
  OBVIOUS
<1>2. DOMAIN SubSeq(c, 1, h - 1) = 1..(h - 1) /\ \A i \in 1..(h - 1) : SubSeq(c, 1, h - 1)[i] = c[i]
  BY <1>1
<1>3. ASSUME NEW n \in S
      PROVE  n.height \in 1..(h - 1) <=> n.height \in 1..Len(c) /\ ~(h <= n.height)
  <2>1. n.height \in Nat \ {0}
    BY DEF NoteSet, Kinds
  <2> QED BY <1>1, <2>1
<1> QED BY <1>1, <1>2, <1>3 DEF OnChain

LEMMA ApplyForkInv ==
  ASSUME NoteInv, NEW h \in Int, NEW near \in BOOLEAN, NEW notes \in Notes!NotesOf(h, seen + 1),
         Notes!ApplyFork(h, near, notes)
  PROVE  NoteInv'
<1> DEFINE new == IF near THEN Notes!ToSet(notes) ELSE {}
           low == SubSeq(applied, 1, h - 1)
           f == Notes!Flagged(<<Notes!Fork(h, seen + 1)>>, TRUE)
<1>1. /\ todo = <<>> /\ batch = <<>> /\ applied = Notes!Primary /\ h \in DOMAIN applied
      /\ seen' = seen + 1 /\ applied' = Append(low, seen + 1)
      /\ batch' = f \o Notes!Flagged(notes, near) /\ eligible' = eligible \cup new
      /\ UNCHANGED <<committed, todo, wire, told, replica, lost>>
  BY DEF Notes!ApplyFork, Notes!ForkIsPublishable
<1>2. NoteTypes /\ NumbersAreNew /\ StreamInv /\ Notes!RowsAreServedFresh
  BY DEF NoteInv
<1>3. /\ seen \in Nat /\ applied \in Seq(Ids) /\ Len(applied) \in Nat /\ eligible \in SUBSET NoteSet
      /\ h \in 1..Len(applied) /\ h \in Ids
  BY <1>1, <1>2 DEF NoteTypes, Ids
<1>4. /\ notes \in Seq(NoteSet) /\ seen + 1 \in Ids
      /\ \A i \in DOMAIN notes : notes[i].type = "trace" /\ notes[i].height = h /\ notes[i].block = seen + 1
      /\ eligible \cup new \subseteq NoteSet /\ \A n \in eligible \cup new : n.block <= seen + 1
  BY <1>2, <1>3, NotesJoin
<1>5. \A n \in new : n.height = h /\ n.block = seen + 1
  BY <1>4 DEF Notes!ToSet
<1>6. low \in Seq(Ids) /\ Len(low) + 1 = h /\ \A i \in DOMAIN low : low[i] = applied[i] /\ i \in DOMAIN applied
  BY <1>3
<1>7. f \in Seq(Flags) /\ \A known : AfterBatch(known, f) = {n \in known : ~(h <= n.height)}
  BY <1>3, <1>4, ForkOf
<1>8. Notes!Primary' = Notes!Primary /\ Heard' = Heard
  BY <1>1 DEF Notes!Primary, Notes!Last, Heard
<1>9. OnChain(eligible, low) = {n \in OnChain(eligible, applied) : ~(h <= n.height)}
  BY <1>1, <1>3, BelowFork
<1> HIDE DEF low, f, new
<1>10. NoteTypes'
  <2>1. Notes!Flagged(notes, near) \in Seq(Flags)
    BY <1>4, FlaggedIs
  <2>2. batch' \in Seq(Flags) /\ applied' \in Seq(Ids)
    BY <1>1, <1>4, <1>6, <1>7, <2>1
  <2>3. seen' \in Nat
    BY <1>1, <1>3
  <2> QED BY <1>1, <1>2, <1>4, <1>8, <2>2, <2>3 DEF NoteTypes
<1>11. NumbersAreNew'
  <2>1. /\ DOMAIN applied' = 1..(Len(low) + 1) /\ applied'[Len(low) + 1] = seen + 1 /\ Len(low) \in Nat
        /\ \A i \in 1..Len(low) : applied'[i] = low[i] /\ i \in DOMAIN low
    BY <1>1, <1>4, <1>6
  <2>2. \A i \in DOMAIN applied : applied[i] <= seen /\ applied[i] \in Nat
    BY <1>2, <1>3 DEF NumbersAreNew, Ids
  <2>3. \A i \in 1..(Len(low) + 1) : i \in 1..Len(low) \/ i = Len(low) + 1
    BY <2>1
  <2>4. \A i \in DOMAIN applied' : applied'[i] <= seen + 1
    <3>1. seen + 1 <= seen + 1 /\ \A k \in Nat : k <= seen => k <= seen + 1
      BY <1>3
    <3> QED BY <1>6, <2>1, <2>2, <2>3, <3>1
  <2>5. \A i \in DOMAIN Notes!Primary : Notes!Primary[i] <= seen + 1
    <3>1. \A k \in Nat : k <= seen => k <= seen + 1
      BY <1>3
    <3> QED BY <1>1, <2>2, <3>1
  <2> QED BY <1>1, <1>4, <1>8, <2>4, <2>5 DEF NumbersAreNew
<1>12. StreamInv'
  <2>1. OnChain(eligible', Notes!Primary) = OnChain(eligible, Notes!Primary)
    <3>1. Notes!Primary \in Seq(Ids) /\ \A i \in DOMAIN Notes!Primary : Notes!Primary[i] <= seen
      BY <1>2, PrimaryIs DEF NumbersAreNew
    <3>2. seen \in Nat /\ \A n \in new : n.block = seen + 1
      BY <1>3, <1>5
    <3>3. OnChain(eligible \cup new, Notes!Primary) = OnChain(eligible, Notes!Primary)
      BY <3>1, <3>2, OldChain
    <3> QED BY <1>1, <3>3
  <2>2. OnChain(eligible', applied') = OnChain(eligible, low) \cup new
    <3>1. \A n \in eligible : n.block # seen + 1
      BY <1>2, OldNotes
    <3>2. \A n \in new : n.height = Len(low) + 1 /\ n.block = seen + 1
      BY <1>5, <1>6
    <3>3. low \in Seq(Ids)
      BY <1>6
    <3>4. seen + 1 \in Ids
      BY <1>4
    <3> DEFINE b == seen + 1
               d == Append(low, b)
    <3>5. d = Append(low, b) /\ b = seen + 1
      OBVIOUS
    <3> HIDE DEF b, d
    <3>6. Joined(eligible, new, low, d)
      BY <3>1, <3>2, <3>3, <3>4, <3>5, BlockJoins
    <3> QED BY <1>1, <3>5, <3>6 DEF Joined
  <2>3. AfterBatch(OnChain(eligible, applied), batch') = OnChain(eligible, low) \cup new
    <3>1. f \in Seq(Flags) /\ \A i \in DOMAIN notes : notes[i].type = "trace"
      BY <1>4, <1>7
    <3>2. notes \in Seq(NoteSet)
      BY <1>4
    <3>3. \A known : AfterBatch(known, f \o Notes!Flagged(notes, near)) = AfterBatch(known, f) \cup new
      BY <3>1, <3>2, TracesJoin DEF new
    <3>4. AfterBatch(OnChain(eligible, applied), batch') = AfterBatch(OnChain(eligible, applied), f) \cup new
      BY <1>1, <3>3
    <3> QED BY <1>7, <1>9, <3>4
  <2> QED BY <1>1, <1>2, <1>8, <2>1, <2>2, <2>3 DEF StreamInv
<1>13. Notes!RowsAreServedFresh'
  BY <1>1, <1>2 DEF Notes!RowsAreServedFresh
<1> QED BY <1>10, <1>11, <1>12, <1>13 DEF NoteInv

LEMMA CommitInv ==
  ASSUME NoteInv, Notes!Commit
  PROVE  NoteInv'
<1>1. /\ todo = <<>> /\ committed' = Append(committed, applied) /\ todo' = Notes!Publishable(batch) /\ batch' = <<>>
      /\ UNCHANGED <<applied, wire, told, replica, eligible, lost, seen>>
  BY DEF Notes!Commit
<1>2. NoteTypes /\ NumbersAreNew /\ StreamInv /\ Notes!RowsAreServedFresh
  BY DEF NoteInv
<1>3. /\ todo' \in Seq(NoteSet) /\ \A known : After(known, todo') = AfterBatch(known, batch)
  BY <1>1, <1>2, PublishableIs DEF NoteTypes
<1>4. Notes!Primary' = applied /\ Heard' = Heard /\ committed' \in Seq(Seq(Ids))
      /\ committed' # <<>> /\ replica' \in 1..Len(committed')
  <2>1. committed \in Seq(Seq(Ids)) /\ applied \in Seq(Ids) /\ replica \in 1..Len(committed)
    BY <1>2 DEF NoteTypes
  <2>2. /\ committed' \in Seq(Seq(Ids)) /\ Len(committed') = Len(committed) + 1 /\ Len(committed) \in Nat
        /\ committed'[Len(committed')] = applied
    BY <1>1, <2>1
  <2>3. committed' # <<>> /\ replica' \in 1..Len(committed')
    BY <1>1, <2>1, <2>2
  <2> QED BY <1>1, <2>2, <2>3 DEF Notes!Primary, Notes!Last, Heard
<1>5. NoteTypes'
  BY <1>1, <1>2, <1>3, <1>4 DEF NoteTypes
<1>6. NumbersAreNew'
  BY <1>1, <1>2, <1>4 DEF NumbersAreNew
<1>7. StreamInv'
  <2>1. ~lost => After(Notes!Known(Heard), todo) = OnChain(eligible, Notes!Primary)
    BY <1>2 DEF StreamInv
  <2>2. ~lost => Notes!Known(Heard) = OnChain(eligible, Notes!Primary)
    BY <1>1, <2>1, AfterNothing
  <2>3. ~lost => After(Notes!Known(Heard), todo') = OnChain(eligible, applied)
    BY <1>2, <1>3, <2>2 DEF StreamInv
  <2>4. AfterBatch(OnChain(eligible, applied), <<>>) = OnChain(eligible, applied)
    BY NothingCollected
  <2> QED BY <1>1, <1>4, <2>3, <2>4 DEF StreamInv
<1>8. Notes!RowsAreServedFresh'
  BY <1>1, <1>2 DEF Notes!RowsAreServedFresh
<1> QED BY <1>5, <1>6, <1>7, <1>8 DEF NoteInv

LEMMA PublishInv ==
  ASSUME NoteInv, Notes!Publish
  PROVE  NoteInv'
<1> DEFINE k == Notes!Size(todo)
           first == SubSeq(todo, 1, k)
           rest == SubSeq(todo, k + 1, Len(todo))
<1>1. /\ todo # <<>> /\ wire' = Append(wire, Notes!Encode(first)) /\ todo' = rest
      /\ UNCHANGED <<applied, committed, batch, told, replica, eligible, lost, seen>>
  BY DEF Notes!Publish
<1>2. NoteTypes /\ NumbersAreNew /\ StreamInv /\ Notes!RowsAreServedFresh
  BY DEF NoteInv
<1>3. todo \in Seq(NoteSet) /\ Len(todo) \in Nat /\ k \in 0..Len(todo) /\ k <= Chunk /\ k \in Nat
  BY <1>2, NoteAssumption DEF NoteTypes, Notes!Size
<1> HIDE DEF k
<1>4. /\ first \in Seq(NoteSet) /\ rest \in Seq(NoteSet) /\ Len(first) <= Chunk
      /\ todo = first \o rest
  <2>1. /\ first \in Seq(NoteSet) /\ rest \in Seq(NoteSet) /\ Len(first) = k /\ Len(rest) = Len(todo) - k
        /\ \A i \in 1..k : first[i] = todo[i]
    BY <1>3
  <2>2. \A i \in 1..(Len(todo) - k) : rest[i] = todo[k + i]
    BY <1>3
  <2> HIDE DEF first, rest
  <2>3. first \o rest \in Seq(NoteSet) /\ Len(first \o rest) = Len(todo)
    BY SMTT(30), <1>3, <2>1
  <2>4. ASSUME NEW i \in 1..Len(todo) PROVE (first \o rest)[i] = todo[i]
    <3>3. i <= k \/ i > k
      BY <1>3
    <3>1. CASE i <= k
      <4>1. (first \o rest)[i] = first[i] /\ i \in 1..k
        BY <1>3, <2>1, <3>1
      <4> QED BY <2>1, <4>1
    <3>2. CASE i > k
      <4>1. (first \o rest)[i] = rest[i - k] /\ i - k \in 1..(Len(todo) - k) /\ k + (i - k) = i
        BY <1>3, <2>1, <3>2
      <4> QED BY <2>2, <4>1
    <3> QED BY <3>1, <3>2, <3>3
  <2>5. todo = first \o rest
    <3> DEFINE both == first \o rest
    <3>1. both \in Seq(NoteSet) /\ Len(both) = Len(todo) /\ \A i \in 1..Len(todo) : both[i] = todo[i]
      BY <2>3, <2>4
    <3> HIDE DEF both
    <3>2. both = todo
      BY <1>3, <3>1
    <3> QED BY <3>2 DEF both
  <2> QED BY <1>3, <2>1, <2>5
<1> HIDE DEF first, rest
<1>5. Notes!Decode(Notes!Encode(first)) = first
  BY <1>4, MessageIsRead
<1>6. wire' \in Seq({Notes!Encode(s) : s \in Seq(NoteSet)}) /\ Heard' = Append(Heard, first) /\ Heard \in Seq(Seq(NoteSet))
  <2>1. wire \in Seq({Notes!Encode(s) : s \in Seq(NoteSet)}) /\ Notes!Encode(first) \in {Notes!Encode(s) : s \in Seq(NoteSet)}
    BY <1>2, <1>4 DEF NoteTypes
  <2>2. /\ Len(wire) \in Nat /\ DOMAIN wire = 1..Len(wire) /\ DOMAIN wire' = 1..(Len(wire) + 1)
        /\ wire'[Len(wire) + 1] = Notes!Encode(first) /\ \A i \in 1..Len(wire) : wire'[i] = wire[i]
        /\ wire' \in Seq({Notes!Encode(s) : s \in Seq(NoteSet)})
    BY <1>1, <2>1
  <2>3. /\ Heard = [i \in 1..Len(wire) |-> Notes!Decode(wire[i])]
        /\ Heard' = [i \in 1..(Len(wire) + 1) |-> Notes!Decode(wire'[i])]
    BY <2>2 DEF Heard
  <2>4. Heard \in Seq(Seq(NoteSet)) /\ Len(Heard) = Len(wire)
    BY <1>2, <2>2, <2>3 DEF NoteTypes
  <2>5. Append(Heard, first) = [i \in 1..(Len(wire) + 1) |-> IF i = Len(wire) + 1 THEN first ELSE Heard[i]]
    <3>1. ASSUME NEW S, NEW u \in Seq(S), NEW x \in S
          PROVE  Append(u, x) = [i \in 1..(Len(u) + 1) |-> IF i = Len(u) + 1 THEN x ELSE u[i]]
      <4> DEFINE longer == Append(u, x)
      <4>1. longer \in Seq(S) /\ Len(longer) = Len(u) + 1 /\ Len(u) \in Nat
            /\ \A i \in 1..(Len(u) + 1) : longer[i] = IF i = Len(u) + 1 THEN x ELSE u[i]
        OBVIOUS
      <4> HIDE DEF longer
      <4>2. longer = [i \in 1..(Len(u) + 1) |-> longer[i]]
        BY <4>1
      <4> QED BY <4>1, <4>2 DEF longer
    <3>2. first \in Seq(NoteSet)
      BY <1>4
    <3> QED BY <2>4, <3>1, <3>2
  <2>6. \A i \in 1..(Len(wire) + 1) : Notes!Decode(wire'[i]) = IF i = Len(wire) + 1 THEN first ELSE Heard[i]
    <3>1. \A i \in 1..(Len(wire) + 1) : i = Len(wire) + 1 \/ i \in 1..Len(wire)
      BY <2>2
    <3>2. \A i \in 1..Len(wire) : i # Len(wire) + 1
      BY <2>2
    <3> QED BY <1>5, <2>2, <2>3, <3>1, <3>2
  <2> QED BY <2>2, <2>3, <2>4, <2>5, <2>6
<1>7. Notes!Primary' = Notes!Primary
  BY <1>1 DEF Notes!Primary, Notes!Last
<1>8. NoteTypes'
  <2>1. Heard' \in Seq(Seq(NoteSet))
    BY <1>4, <1>6
  <2> QED BY <1>1, <1>2, <1>4, <1>6, <2>1 DEF NoteTypes
<1>9. NumbersAreNew'
  BY <1>1, <1>2, <1>7 DEF NumbersAreNew
<1>10. StreamInv'
  <2>1. Notes!Known(Heard') = After(Notes!Known(Heard), first)
    BY <1>4, <1>6, KnownOneMore
  <2>2. After(Notes!Known(Heard'), rest) = After(Notes!Known(Heard), todo)
    BY <1>4, <2>1, AfterTwice
  <2>3. Notes!Known(Heard)' = Notes!Known(Heard')
    BY DEF Notes!Known
  <2> QED BY <1>1, <1>2, <1>7, <2>2, <2>3 DEF StreamInv
<1>11. Notes!RowsAreServedFresh'
  BY <1>1, <1>2 DEF Notes!RowsAreServedFresh
<1> QED BY <1>8, <1>9, <1>10, <1>11 DEF NoteInv

LEMMA FailInv ==
  ASSUME NoteInv, Notes!Fail
  PROVE  NoteInv'
<1>1. /\ lost' = (lost \/ todo # <<>>) /\ todo' = <<>>
      /\ UNCHANGED <<committed, wire, told, replica, seen>>
  BY DEF Notes!Fail
<1>2. NoteTypes /\ NumbersAreNew /\ StreamInv /\ Notes!RowsAreServedFresh
  BY DEF NoteInv
<1>3. Notes!Primary' = Notes!Primary /\ Heard' = Heard
  BY <1>1 DEF Notes!Primary, Notes!Last, Heard
<1>4. Notes!RowsAreServedFresh'
  BY <1>1, <1>2 DEF Notes!RowsAreServedFresh
<1>5. Notes!Primary \in Seq(Ids) /\ <<>> \in Seq(NoteSet) /\ <<>> \in Seq(Flags)
  BY <1>2, PrimaryIs
<1>6. CASE todo # <<>>
  <2>1. UNCHANGED <<applied, batch, eligible>> /\ lost'
    BY <1>1, <1>6 DEF Notes!Fail
  <2>2. NoteTypes'
    BY <1>1, <1>2, <1>3, <1>5, <2>1 DEF NoteTypes
  <2>3. NumbersAreNew'
    BY <1>1, <1>2, <1>3, <2>1 DEF NumbersAreNew
  <2>4. StreamInv'
    BY <1>1, <1>2, <1>3, <2>1 DEF StreamInv
  <2> QED BY <1>4, <2>2, <2>3, <2>4 DEF NoteInv
<1>7. CASE todo = <<>>
  <2>1. /\ applied' = Notes!Primary /\ batch' = <<>> /\ (~lost' => ~lost)
        /\ eligible' = OnChain(eligible, Notes!Primary)
    BY <1>1, <1>7 DEF Notes!Fail, OnChain
  <2>2. eligible' \subseteq eligible /\ OnChain(eligible', Notes!Primary) = OnChain(eligible, Notes!Primary)
    BY <2>1 DEF OnChain
  <2>3. NoteTypes'
    BY <1>1, <1>2, <1>3, <1>5, <2>1, <2>2 DEF NoteTypes
  <2>4. NumbersAreNew'
    BY <1>1, <1>2, <1>3, <2>1, <2>2 DEF NumbersAreNew
  <2>5. StreamInv'
    BY <1>1, <1>2, <1>3, <1>7, <2>1, <2>2, NothingCollected DEF StreamInv
  <2> QED BY <1>4, <2>3, <2>4, <2>5 DEF NoteInv
<1> QED BY <1>6, <1>7

\* The steps of the API server leave the stream alone.
LEMMA ServerInv ==
  ASSUME NoteInv, UNCHANGED <<applied, committed, batch, todo, wire, eligible, lost, seen>>,
         replica' \in 1..Len(committed), Notes!RowsAreServedFresh'
  PROVE  NoteInv'
<1>1. NoteTypes /\ NumbersAreNew /\ StreamInv
  BY DEF NoteInv
<1>2. Notes!Primary' = Notes!Primary /\ Heard' = Heard
  BY DEF Notes!Primary, Notes!Last, Heard
<1>3. NoteTypes'
  BY <1>1, <1>2 DEF NoteTypes
<1>4. NumbersAreNew'
  BY <1>1, <1>2 DEF NumbersAreNew
<1>5. StreamInv'
  BY <1>1, <1>2 DEF StreamInv
<1> QED BY <1>3, <1>4, <1>5 DEF NoteInv

LEMMA EmitInv ==
  ASSUME NoteInv, NEW task, Notes!Emit(task)
  PROVE  NoteInv'
<1>1. /\ Notes!Behind(task) = {} \/ task.attempt = Attempts
      /\ told' = [i \in DOMAIN task.notes |->
           [note |-> task.notes[i], row |-> Notes!RowOf(task.notes[i]), attempt |-> task.attempt]]
      /\ UNCHANGED <<applied, committed, batch, todo, wire, eligible, lost, seen, replica>>
  BY DEF Notes!Emit
<1>2. replica' \in 1..Len(committed) /\ Notes!Replica \in Seq(Ids)
  BY <1>1 DEF NoteInv, NoteTypes, Notes!Replica
<1>3. ASSUME NEW i \in DOMAIN told', told'[i].note.type = "trace", told'[i].attempt < Attempts
      PROVE  told'[i].row # 0
  <2>1. /\ i \in DOMAIN task.notes /\ told'[i].note = task.notes[i]
        /\ told'[i].row = Notes!RowOf(task.notes[i]) /\ told'[i].attempt = task.attempt
    BY <1>1
  <2>2. task.attempt # Attempts
    BY <1>3, <2>1, NoteAssumption
  <2>3. task.notes[i].height \in DOMAIN Notes!Replica
    BY <1>1, <1>3, <2>1, <2>2 DEF Notes!Behind, Notes!ToSet
  <2>4. Notes!RowOf(task.notes[i]) = Notes!Replica[task.notes[i].height]
    BY <2>3 DEF Notes!RowOf
  <2>5. Notes!Replica[task.notes[i].height] \in Ids
    BY <1>2, <2>3
  <2> QED BY <2>1, <2>4, <2>5 DEF Ids
<1>4. Notes!RowsAreServedFresh'
  BY <1>3 DEF Notes!RowsAreServedFresh
<1> QED BY <1>1, <1>2, <1>4, ServerInv

LEMMA NoteStutter ==
  ASSUME NoteInv, UNCHANGED <<applied, committed, batch, todo, wire, eligible, lost, seen, told>>,
         replica' \in 1..Len(committed)
  PROVE  NoteInv'
<1>1. Notes!RowsAreServedFresh'
  BY DEF NoteInv, Notes!RowsAreServedFresh
<1> QED BY <1>1, ServerInv

LEMMA NoteStep ==
  ASSUME NoteInv, [Notes!Next]_noteVars
  PROVE  NoteInv'
<1>1. replica \in 1..Len(committed) /\ Len(committed) \in Nat
  BY DEF NoteInv, NoteTypes
<1>2. CASE \E near \in BOOLEAN, notes \in Notes!NotesOf(Len(applied) + 1, seen + 1) : Notes!Apply(near, notes)
  BY <1>2, ApplyInv
<1>3. CASE \E h \in 1..NoteHeight, near \in BOOLEAN :
             \E notes \in Notes!NotesOf(h, seen + 1) : Notes!ApplyFork(h, near, notes)
  <2>1. PICK h \in 1..NoteHeight, near \in BOOLEAN :
               \E notes \in Notes!NotesOf(h, seen + 1) : Notes!ApplyFork(h, near, notes)
    BY <1>3
  <2>2. h \in Int
    OBVIOUS
  <2> QED BY <2>1, <2>2, ApplyForkInv
<1>4. CASE Notes!Commit
  BY <1>4, CommitInv
<1>5. CASE Notes!Publish
  BY <1>5, PublishInv
<1>6. CASE Notes!Fail
  BY <1>6, FailInv
<1>7. CASE Notes!Receive
  BY <1>1, <1>7, NoteStutter DEF Notes!Receive
<1>8. CASE Notes!Replay
  <2>1. /\ replica < Len(committed) /\ replica' = replica + 1
        /\ UNCHANGED <<applied, committed, batch, todo, wire, eligible, lost, seen, told>>
    BY <1>8 DEF Notes!Replay
  <2>2. replica' \in 1..Len(committed)
    BY <1>1, <2>1
  <2> QED BY <2>1, <2>2, NoteStutter
<1>9. CASE \E task \in tasks : Notes!ReadAgain(task) \/ Notes!Emit(task)
  <2>1. PICK task \in tasks : Notes!ReadAgain(task) \/ Notes!Emit(task)
    BY <1>9
  <2>2. CASE Notes!ReadAgain(task)
    BY <1>1, <2>2, NoteStutter DEF Notes!ReadAgain
  <2> QED BY <2>1, <2>2, EmitInv
<1>10. CASE UNCHANGED noteVars
  BY <1>1, <1>10, NoteStutter DEF noteVars
<1> QED BY <1>2, <1>3, <1>4, <1>5, <1>6, <1>7, <1>8, <1>9, <1>10 DEF Notes!Next

LEMMA NotePart ==
  ASSUME [DecodedNext]_<<part, statsVars, abiVars, noteVars, marketVars, queryVars>>
  PROVE  [Notes!Next]_noteVars
BY Zenon DEF DecodedNext

LEMMA NoteInvariant == DecodedSpec => []NoteInv
<1>1. DecodedInit => NoteInv
  BY NotesStart DEF DecodedInit
<1>2. NoteInv /\ [DecodedNext]_<<part, statsVars, abiVars, noteVars, marketVars, queryVars>> => NoteInv'
  BY NotePart, NoteStep
<1> QED BY <1>1, <1>2, PTL DEF DecodedSpec

\* notifier.ts:94, 107, notification-format.ts:52: whatever is collected in a
\* group, forked, cut into messages and encoded, once a batch is out a listener
\* knows the traces of the canonical blocks, each with its own transaction.
THEOREM ListenersKnowTheChain == DecodedSpec => []ListenersFollowTheChain
<1>1. ASSUME NoteInv, todo = <<>>, batch = <<>>, ~lost
      PROVE  Notes!Known(Heard) = OnChain(eligible, Notes!Primary)
  BY <1>1, AfterNothing DEF NoteInv, StreamInv
<1>2. NoteInv => ListenersFollowTheChain
  BY <1>1 DEF ListenersFollowTheChain, Notes!ListenersFollowTheChain, Heard, OnChain
<1> QED BY <1>2, NoteInvariant, PTL

\* notification-read.ts:87: however far the replica lags behind the messages, a
\* client is not given a row that is missing unless every read was used up.
THEOREM ClientsGetFreshRows == DecodedSpec => []RowsAreServedFresh
<1>1. NoteInv => RowsAreServedFresh
  BY DEF NoteInv, RowsAreServedFresh
<1> QED BY <1>1, NoteInvariant, PTL
=============================================================================
