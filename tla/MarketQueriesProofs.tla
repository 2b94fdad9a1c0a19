------------------------- MODULE MarketQueriesProofs --------------------------
(***************************************************************************)
(* What the queries of the market read, for every value of the constants:   *)
(*                                                                          *)
(* - the stats queue: as long as a batch claims its rows sooner after its   *)
(*   BEGIN than a block is committed after its block time, no listing is    *)
(*   left with a stale stats row that nothing will refresh;                 *)
(* - the states of listings: lists and formats agree, on any clock;         *)
(* - the filter rows of sales: with one command at a time, a row that is    *)
(*   stale is still queued;                                                 *)
(* - the configuration the rows of sales are recorded by, which              *)
(*   MarketConfigProofs is about.                                           *)
(***************************************************************************)
EXTENDS MCDecoded, FiniteSetTheorems, TLAPS

-----------------------------------------------------------------------------
(* The inductive invariant.                                                 *)

Partial(S, T) == UNION {[D -> T] : D \in SUBSET S}
Anything(l) == Values(l) \cup {Gone}
AnyListing == UNION {Anything(l) : l \in Listings}
Transactions == [at: {"idle", "begun", "claimed", "resolved"}, start: Nat,
                 claimed: SUBSET [row: Row, seq: Nat],
                 resolved: Partial(Listings, Prices \cup {NoRow}), gone: SUBSET Row]

TypeInv ==
  /\ listing \in [Listings -> AnyListing] /\ \A l \in Listings : listing[l] \in Anything(l)
  /\ queue \in Partial(Row, Nat)
  /\ stats \in [Listings -> Prices \cup {NoRow}]
  /\ writer \in [listing: Partial(Listings, AnyListing), queue: Partial(Row, Nat), todo: Seq(Row)]
  /\ \A l \in DOMAIN writer.listing : writer.listing[l] \in Anything(l)
  /\ drain \in [Drains -> Transactions]
  /\ blockTime \in Nat /\ now \in Nat /\ seq \in Nat /\ writes \in 0..MaxWrites

Open(d) == drain[d].at # "idle"
Working(d) == drain[d].at \in {"claimed", "resolved"}
Held(d) == {c.row : c \in drain[d].claimed} \cup drain[d].gone

\* Block time runs behind the clock, and a batch claims soon after its BEGIN.
TimeInv ==
  /\ blockTime + Lag <= now
  /\ \A d \in Drains :
       /\ Open(d) => 0 < drain[d].start /\ drain[d].start <= now
       /\ drain[d].at = "begun" => now <= drain[d].start + Delay

\* One batch at a time has claimed rows; the rows it is deleting are in the
\* queue and not written by the open block.
LockInv ==
  /\ \A d, e \in Drains : Working(d) /\ Working(e) => d = e
  /\ \A d \in Drains :
       /\ ~Working(d) => drain[d].claimed = {}
       /\ drain[d].at # "resolved" => drain[d].gone = {}
       /\ drain[d].gone \subseteq DOMAIN queue \ DOMAIN writer.queue

\* A row written later has a higher seq, also if it is not committed yet.
SeqInv ==
  /\ \A r \in DOMAIN queue : queue[r] \in 1..seq
  /\ \A r \in DOMAIN writer.queue :
       /\ writer.queue[r] \in 1..seq
       /\ r \in DOMAIN queue => queue[r] < writer.queue[r]
  /\ \A d \in Drains : \A c \in drain[d].claimed :
       c.seq <= seq /\ (c.row \in DOMAIN writer.queue => c.seq < writer.queue[c.row])

\* What the open block has written will be queued when it commits.
Queueing == DOMAIN writer.queue \cup {writer.todo[i] : i \in 1..Len(writer.todo)}
WriterInv ==
  \A l \in DOMAIN writer.listing :
    /\ RowAt(l, 0) \in Queueing \/ ~(listing[l].sold \/ writer.listing[l].sold)
    /\ l \in Auctions /\ writer.listing[l].sold => RowAt(l, writer.listing[l].end) \in Queueing

\* A row is claimed only after it fell due, before any open batch began.
DueInv ==
  \A d \in Drains : \A r \in Held(d) :
    r.at + Lag <= now /\ \A e \in Drains : Open(e) => r.at < drain[e].start

\* A row due at the end of an auction goes only after the end.
EndInv ==
  \A l \in Auctions :
    listing[l].sold /\ RowAt(l, listing[l].end) \notin DOMAIN queue =>
      listing[l].end < now /\ \A d \in Drains : Open(d) => listing[l].end < drain[d].start

\* What a batch has computed is still right as of its start, or the listing has
\* a row that this batch will not delete.
Bumped(d, l) ==
  /\ RowAt(l, 0) \in DOMAIN queue \ drain[d].gone
  /\ \A c \in drain[d].claimed : c.row = RowAt(l, 0) => c.seq # queue[c.row]
DrainInv ==
  \A d \in Drains : drain[d].at = "resolved" =>
    /\ \A r \in Held(d) : r.listing \in DOMAIN drain[d].resolved
    /\ \A l \in DOMAIN drain[d].resolved :
         drain[d].resolved[l] = Resolved(listing[l], drain[d].start) \/ Bumped(d, l)

\* A stats row is right, or will be refreshed, or waits for the end only.
StatsInv ==
  \A l \in Listings :
    \/ RowAt(l, 0) \in DOMAIN queue
    \/ stats[l] = Resolved(listing[l], now)
    \/ /\ l \in Auctions /\ listing[l].sold /\ stats[l] = NoRow
       /\ RowAt(l, listing[l].end) \in DOMAIN queue

StatsMarketsInv ==
  TypeInv /\ TimeInv /\ LockInv /\ SeqInv /\ WriterInv /\ DueInv /\ EndInv /\ DrainInv /\ StatsInv

-----------------------------------------------------------------------------
(* Partial functions, rows and the fields of a drain.                       *)

LEMMA PartialFacts ==
  ASSUME NEW S, NEW T, NEW f
  PROVE  f \in Partial(S, T) <=>
           f = [x \in DOMAIN f |-> f[x]] /\ DOMAIN f \subseteq S /\ \A x \in DOMAIN f : f[x] \in T
<1>1. ASSUME f \in Partial(S, T)
      PROVE  f = [x \in DOMAIN f |-> f[x]] /\ DOMAIN f \subseteq S /\ \A x \in DOMAIN f : f[x] \in T
  <2>1. PICK D \in SUBSET S : f \in [D -> T]
    BY <1>1 DEF Partial
  <2> QED BY <2>1
<1>2. ASSUME f = [x \in DOMAIN f |-> f[x]], DOMAIN f \subseteq S, \A x \in DOMAIN f : f[x] \in T
      PROVE  f \in Partial(S, T)
  <2>1. f \in [DOMAIN f -> T]
    BY <1>2
  <2> QED BY <1>2, <2>1 DEF Partial
<1> QED BY <1>1, <1>2

LEMMA EmptyPartial ==
  ASSUME NEW S, NEW T
  PROVE  <<>> \in Partial(S, T) /\ DOMAIN <<>> = {}
<1>1. <<>> \in [{} -> T]
  OBVIOUS
<1> QED BY <1>1 DEF Partial

LEMMA PutFacts ==
  ASSUME NEW S, NEW T, NEW f \in Partial(S, T), NEW k \in S, NEW v \in T
  PROVE  /\ Put(f, k, v) \in Partial(S, T)
         /\ DOMAIN Put(f, k, v) = DOMAIN f \cup {k}
         /\ Put(f, k, v)[k] = v
         /\ \A x \in DOMAIN f \ {k} : Put(f, k, v)[x] = f[x]
<1> DEFINE g == Put(f, k, v)
<1>1. DOMAIN f \subseteq S /\ \A x \in DOMAIN f : f[x] \in T
  BY PartialFacts
<1>2. g \in [DOMAIN f \cup {k} -> T]
  BY <1>1 DEF Put
<1>3. DOMAIN f \cup {k} \in SUBSET S
  BY <1>1
<1>4. g \in Partial(S, T)
  BY <1>2, <1>3 DEF Partial
<1> QED BY <1>4 DEF Put

LEMMA OverFacts ==
  ASSUME NEW S, NEW T, NEW f \in Partial(S, T), NEW g \in Partial(S, T)
  PROVE  /\ Over(f, g) \in Partial(S, T)
         /\ DOMAIN Over(f, g) = DOMAIN f \cup DOMAIN g
         /\ \A x \in DOMAIN f : Over(f, g)[x] = f[x]
         /\ \A x \in DOMAIN g \ DOMAIN f : Over(f, g)[x] = g[x]
<1> DEFINE h == Over(f, g)
<1>1. /\ DOMAIN f \subseteq S /\ \A x \in DOMAIN f : f[x] \in T
      /\ DOMAIN g \subseteq S /\ \A x \in DOMAIN g : g[x] \in T
  BY PartialFacts
<1>2. h \in [DOMAIN f \cup DOMAIN g -> T]
  BY <1>1 DEF Over
<1>3. DOMAIN f \cup DOMAIN g \in SUBSET S
  BY <1>1
<1>4. h \in Partial(S, T)
  BY <1>2, <1>3 DEF Partial
<1> QED BY <1>4 DEF Over

LEMMA ConstantFacts ==
  /\ EndTimes \subseteq Nat /\ 0 \notin EndTimes /\ Auctions \subseteq Listings
  /\ Lag \in Nat /\ Delay \in Nat /\ MaxWrites \in Nat
  BY StatsAssumption

LEMMA RowFacts ==
  /\ \A l \in Listings, at \in EndTimes \cup {0} : RowAt(l, at) \in Row
  /\ \A l, m \in Listings : \A a, b : RowAt(l, a) = RowAt(m, b) <=> l = m /\ a = b
  /\ \A r \in Row : r.listing \in Listings /\ r.at \in Nat
  /\ \A l, a : RowAt(l, a).listing = l /\ RowAt(l, a).at = a
<1>1. \A l \in Listings, at \in EndTimes \cup {0} : RowAt(l, at) \in Row
  BY DEF Row, RowAt
<1>2. \A l, a : RowAt(l, a).listing = l /\ RowAt(l, a).at = a
  BY DEF RowAt
<1>3. \A l, m \in Listings : \A a, b : RowAt(l, a) = RowAt(m, b) <=> l = m /\ a = b
  BY <1>2
<1>4. \A r \in Row : r.listing \in Listings /\ r.at \in Nat
  <2> SUFFICES ASSUME NEW r \in Row PROVE r.listing \in Listings /\ r.at \in Nat
    OBVIOUS
  <2>1. r.listing \in Listings /\ r.at \in EndTimes \cup {0}
    BY DEF Row
  <2>2. CASE r.at = 0
    BY <2>1, <2>2
  <2>3. CASE r.at \in EndTimes
    BY <2>1, <2>3, ConstantFacts
  <2> QED BY <2>1, <2>2, <2>3
<1> QED BY <1>1, <1>2, <1>3, <1>4

LEMMA ListingFacts ==
  ASSUME NEW l \in Listings, NEW v \in Anything(l)
  PROVE  /\ v.end \in EndTimes \cup {0} /\ v.end \in Nat /\ v.sold \in BOOLEAN
         /\ v.sold => v.price \in Prices /\ v # Gone
         /\ l \notin Auctions => v.end = 0
         /\ \A t \in Nat : Resolved(v, t) \in Prices \cup {NoRow}
         /\ ~v.sold => \A t \in Nat : Resolved(v, t) = NoRow
         /\ v \in AnyListing
<1>1. \/ v \in [sold : BOOLEAN, price : Prices, end : IF l \in Auctions THEN EndTimes ELSE {0}]
      \/ v.sold = FALSE /\ v.end = 0
  BY DEF Anything, Values, Gone
<1>2. /\ v.end \in EndTimes \cup {0} /\ v.end \in Nat /\ v.sold \in BOOLEAN
      /\ v.sold => v.price \in Prices
      /\ l \notin Auctions => v.end = 0
  <2>1. CASE v \in [sold : BOOLEAN, price : Prices, end : IF l \in Auctions THEN EndTimes ELSE {0}]
    <3>1. v.sold \in BOOLEAN /\ v.price \in Prices
          /\ v.end \in IF l \in Auctions THEN EndTimes ELSE {0}
      BY <2>1
    <3>2. v.end \in EndTimes \cup {0} /\ v.end \in Nat /\ (l \notin Auctions => v.end = 0)
      <4>1. CASE l \in Auctions
        <5>1. v.end \in EndTimes
          BY <3>1, <4>1
        <5> QED BY <4>1, <5>1, ConstantFacts
      <4>2. CASE l \notin Auctions
        <5>1. v.end = 0
          BY <3>1, <4>2
        <5> QED BY <5>1
      <4> QED BY <4>1, <4>2
    <3> QED BY <3>1, <3>2
  <2>2. CASE v.sold = FALSE /\ v.end = 0
    <3>1. v.sold \in BOOLEAN /\ (v.sold => v.price \in Prices)
      BY <2>2, Zenon
    <3>2. v.end \in EndTimes \cup {0} /\ v.end \in Nat
      BY <2>2
    <3> QED BY <2>2, <3>1, <3>2
  <2> QED BY <1>1, <2>1, <2>2
<1>3. Gone.sold = FALSE
  BY DEF Gone
<1>4. /\ \A t \in Nat : Resolved(v, t) \in Prices \cup {NoRow}
      /\ ~v.sold => \A t \in Nat : Resolved(v, t) = NoRow
  BY <1>2 DEF Resolved, Counts
<1>5. v \in AnyListing
  BY DEF AnyListing
<1> QED BY <1>2, <1>3, <1>4, <1>5

LEMMA SetFacts ==
  ASSUME TypeInv, NEW d \in Drains, NEW tx \in Transactions, Set(d, tx)
  PROVE  /\ drain' \in [Drains -> Transactions]
         /\ drain'[d] = tx
         /\ \A e \in Drains \ {d} : drain'[e] = drain[e]
  BY DEF Set, TypeInv

LEMMA IdleFacts ==
  Idle \in Transactions /\ Idle.at = "idle" /\ Idle.claimed = {} /\ Idle.gone = {}
<1>1. <<>> \in Partial(Listings, Prices \cup {NoRow})
  BY EmptyPartial
<1> QED BY <1>1 DEF Idle, Transactions

LEMMA InitKeeps == ASSUME Init PROVE StatsMarketsInv
<1> USE ConstantFacts
<1>1. \A l \in Listings : Gone \in Anything(l)
  BY DEF Anything
<1>2. TypeInv
  <2>1. \A l \in Listings : listing[l] \in Anything(l)
    BY <1>1 DEF Init
  <2>2. listing \in [Listings -> AnyListing]
    BY <2>1 DEF Init, AnyListing
  <2>3. queue \in Partial(Row, Nat)
    BY EmptyPartial DEF Init
  <2>4. stats \in [Listings -> Prices \cup {NoRow}]
    BY DEF Init
  <2>5. writer = Quiet /\ Quiet.listing = <<>> /\ Quiet.queue = <<>> /\ Quiet.todo = <<>>
    BY DEF Init, Quiet
  <2>6. writer \in [listing: Partial(Listings, AnyListing), queue: Partial(Row, Nat), todo: Seq(Row)]
    <3>1. <<>> \in Partial(Listings, AnyListing) /\ <<>> \in Partial(Row, Nat) /\ <<>> \in Seq(Row)
      BY EmptyPartial
    <3> QED BY <3>1, <2>5 DEF Quiet
  <2>7. DOMAIN writer.listing = {}
    BY <2>5, EmptyPartial
  <2>8. drain \in [Drains -> Transactions]
    BY IdleFacts DEF Init
  <2>9. blockTime \in Nat /\ now \in Nat /\ seq \in Nat /\ writes \in 0..MaxWrites
    BY DEF Init
  <2> QED BY <2>1, <2>2, <2>3, <2>4, <2>6, <2>7, <2>8, <2>9 DEF TypeInv
<1>3. \A d \in Drains : ~Open(d) /\ ~Working(d) /\ drain[d].at = "idle"
                        /\ drain[d].claimed = {} /\ drain[d].gone = {}
  BY IdleFacts DEF Init, Open, Working
<1>4. DOMAIN queue = {} /\ DOMAIN writer.queue = {} /\ DOMAIN writer.listing = {}
  BY EmptyPartial DEF Init, Quiet
<1>5. TimeInv /\ LockInv /\ SeqInv
  BY <1>3, <1>4 DEF TimeInv, LockInv, SeqInv, Init
<1>6. \A l \in Listings : listing[l] = Gone /\ stats[l] = NoRow /\ ~listing[l].sold
  BY DEF Init, Gone
<1>7. DueInv /\ DrainInv
  BY <1>3 DEF DueInv, DrainInv, Held
<1>8. WriterInv /\ EndInv
  BY <1>4, <1>6 DEF WriterInv, EndInv
<1>9. StatsInv
  BY <1>2, <1>6, ListingFacts DEF StatsInv, TypeInv
<1> QED BY <1>2, <1>5, <1>7, <1>8, <1>9 DEF StatsMarketsInv

-----------------------------------------------------------------------------
(* The block writer.                                                        *)

LEMMA WriteListingKeeps ==
  ASSUME StatsMarketsInv, NEW l \in Listings, NEW new \in Values(l) \cup {Gone}, WriteListing(l, new)
  PROVE  StatsMarketsInv'
<1> USE DEF StatsMarketsInv
<1> DEFINE old == Seen(l)
<1>1. /\ writer.todo = <<>> /\ writes < MaxWrites /\ writes' = writes + 1
      /\ UNCHANGED <<listing, queue, stats, blockTime, now, seq, drain>>
  BY DEF WriteListing
<1>2. writer \in [listing: Partial(Listings, AnyListing), queue: Partial(Row, Nat), todo: Seq(Row)]
  BY DEF TypeInv
<1>3. writer' = [listing |-> Put(writer.listing, l, new), queue |-> writer.queue,
                 todo |-> Enqueued(l, old, new)]
  BY <1>2 DEF WriteListing
<1>4. new \in Anything(l) /\ new \in AnyListing
  BY DEF Anything, AnyListing
<1>5. /\ DOMAIN writer.listing \subseteq Listings
      /\ Put(writer.listing, l, new) \in Partial(Listings, AnyListing)
      /\ DOMAIN Put(writer.listing, l, new) = DOMAIN writer.listing \cup {l}
      /\ Put(writer.listing, l, new)[l] = new
      /\ \A m \in DOMAIN writer.listing \ {l} : Put(writer.listing, l, new)[m] = writer.listing[m]
  <2>1. writer.listing \in Partial(Listings, AnyListing)
    BY <1>2
  <2>2. DOMAIN writer.listing \subseteq Listings
    BY <2>1, PartialFacts
  <2> DEFINE f == writer.listing
  <2>3. f \in Partial(Listings, AnyListing) /\ l \in Listings /\ new \in AnyListing
    BY <1>4, <2>1
  <2>4. /\ Put(f, l, new) \in Partial(Listings, AnyListing)
        /\ DOMAIN Put(f, l, new) = DOMAIN f \cup {l}
        /\ Put(f, l, new)[l] = new
        /\ \A x \in DOMAIN f \ {l} : Put(f, l, new)[x] = f[x]
    <3> HIDE DEF f
    <3> QED BY <2>3, PutFacts
  <2> QED BY <2>2, <2>4
<1>6. old \in Anything(l)
  BY DEF Seen, TypeInv
<1>7. /\ Enqueued(l, old, new) \in Seq(Row)
      /\ old.sold \/ new.sold =>
           \E i \in 1..Len(Enqueued(l, old, new)) : Enqueued(l, old, new)[i] = RowAt(l, 0)
      /\ l \in Auctions /\ new.sold =>
           \E i \in 1..Len(Enqueued(l, old, new)) : Enqueued(l, old, new)[i] = RowAt(l, new.end)
  <2>1. RowAt(l, 0) \in Row /\ RowAt(l, new.end) \in Row
    BY <1>4, RowFacts, ListingFacts
  <2>2. new.sold => new # Gone
    BY <1>4, ListingFacts
  <2>3. CASE ~(old.sold \/ new.sold)
    <3>1. Enqueued(l, old, new) = <<>>
      BY <2>3 DEF Enqueued
    <3> QED BY <2>3, <3>1
  <2>4. CASE (old.sold \/ new.sold) /\ l \in Auctions /\ new # Gone
    <3> DEFINE due == <<RowAt(l, 0), RowAt(l, new.end)>>
    <3>1. Enqueued(l, old, new) = due
      BY <2>4 DEF Enqueued
    <3>2. due \in Seq(Row) /\ 1 \in 1..Len(due) /\ 2 \in 1..Len(due)
          /\ due[1] = RowAt(l, 0) /\ due[2] = RowAt(l, new.end)
      BY <2>1
    <3> QED BY <3>1, <3>2
  <2>5. CASE (old.sold \/ new.sold) /\ ~(l \in Auctions /\ new # Gone)
    <3>1. Enqueued(l, old, new) = <<RowAt(l, 0)>>
      BY <2>5 DEF Enqueued
    <3>2. <<RowAt(l, 0)>> \in Seq(Row) /\ 1 \in 1..Len(<<RowAt(l, 0)>>) /\ <<RowAt(l, 0)>>[1] = RowAt(l, 0)
      BY <2>1
    <3> QED BY <2>2, <2>5, <3>1, <3>2
  <2> QED BY <2>3, <2>4, <2>5
<1>8. TypeInv'
  <2>1. writer' \in [listing: Partial(Listings, AnyListing), queue: Partial(Row, Nat), todo: Seq(Row)]
    BY <1>2, <1>3, <1>5, <1>7
  <2>2. \A m \in DOMAIN writer'.listing : writer'.listing[m] \in Anything(m)
    BY <1>3, <1>4, <1>5 DEF TypeInv
  <2>3. writes' \in 0..MaxWrites
    BY <1>1, ConstantFacts DEF TypeInv
  <2>4. \A m \in Listings : listing'[m] \in Anything(m)
    BY <1>1 DEF TypeInv
  <2> QED BY <1>1, <2>1, <2>2, <2>3, <2>4 DEF TypeInv
<1>9. writer'.queue = writer.queue
  BY <1>3
<1>10. TimeInv' /\ DueInv' /\ EndInv' /\ StatsInv' /\ DrainInv'
  BY <1>1 DEF TimeInv, DueInv, EndInv, StatsInv, DrainInv, Open, Held, Bumped
<1>11. LockInv' /\ SeqInv'
  BY <1>1, <1>9 DEF LockInv, SeqInv, Working
<1>12. WriterInv'
  <2>1. Queueing \subseteq Queueing'
    BY <1>1, <1>9 DEF Queueing
  <2>2. /\ old.sold \/ new.sold => RowAt(l, 0) \in Queueing'
        /\ l \in Auctions /\ new.sold => RowAt(l, new.end) \in Queueing'
    BY <1>3, <1>7 DEF Queueing
  <2>3. RowAt(l, 0) \in Queueing' \/ ~(listing[l].sold \/ new.sold)
    BY <2>1, <2>2 DEF WriterInv, Seen
  <2> SUFFICES ASSUME NEW m \in DOMAIN writer'.listing
               PROVE  /\ RowAt(m, 0) \in Queueing' \/ ~(listing[m].sold \/ writer'.listing[m].sold)
                      /\ m \in Auctions /\ writer'.listing[m].sold =>
                           RowAt(m, writer'.listing[m].end) \in Queueing'
    BY <1>1 DEF WriterInv
  <2>4. CASE m = l
    BY <1>3, <1>5, <2>2, <2>3, <2>4
  <2>5. CASE m # l
    <3>1. m \in DOMAIN writer.listing /\ writer'.listing[m] = writer.listing[m]
      BY <1>3, <1>5, <2>5
    <3> QED BY <2>1, <3>1 DEF WriterInv
  <2> QED BY <2>4, <2>5
<1> QED BY <1>8, <1>10, <1>11, <1>12

LEMMA EnqueueKeeps == ASSUME StatsMarketsInv, Enqueue PROVE StatsMarketsInv'
<1> USE DEF StatsMarketsInv
<1> DEFINE first == Head(writer.todo)
<1>1. /\ writer.todo # <<>> /\ \A d \in Drains : first \notin drain[d].gone
      /\ seq' = seq + 1
      /\ UNCHANGED <<listing, queue, stats, blockTime, now, drain, writes>>
  BY DEF Enqueue, LockedByDrain
<1>2. writer \in [listing: Partial(Listings, AnyListing), queue: Partial(Row, Nat), todo: Seq(Row)]
  BY DEF TypeInv
<1>3. seq \in Nat /\ seq' \in Nat
  BY <1>1 DEF TypeInv
<1>4. writer' = [listing |-> writer.listing, queue |-> Put(writer.queue, first, seq + 1),
                 todo |-> Tail(writer.todo)]
  BY <1>2 DEF Enqueue, BumpSeq
<1>5. /\ first \in Row /\ Tail(writer.todo) \in Seq(Row)
      /\ Len(writer.todo) \in Nat \ {0} /\ Len(Tail(writer.todo)) = Len(writer.todo) - 1
      /\ \A i \in 1..Len(Tail(writer.todo)) : Tail(writer.todo)[i] = writer.todo[i + 1]
      /\ first = writer.todo[1]
  BY <1>1, <1>2
<1>6. /\ Put(writer.queue, first, seq + 1) \in Partial(Row, Nat)
      /\ DOMAIN Put(writer.queue, first, seq + 1) = DOMAIN writer.queue \cup {first}
      /\ Put(writer.queue, first, seq + 1)[first] = seq + 1
      /\ \A x \in DOMAIN writer.queue \ {first} : Put(writer.queue, first, seq + 1)[x] = writer.queue[x]
  <2>1. writer.queue \in Partial(Row, Nat) /\ seq + 1 \in Nat
    BY <1>2, <1>3
  <2> DEFINE f == writer.queue
             n == seq + 1
             N == Nat
  <2>2. f \in Partial(Row, N) /\ first \in Row /\ n \in N
    BY <1>5, <2>1
  <2> HIDE DEF f, first, n, N
  <2>3. /\ Put(f, first, n) \in Partial(Row, N)
        /\ DOMAIN Put(f, first, n) = DOMAIN f \cup {first}
    <3>1. DOMAIN f \subseteq Row /\ \A x \in DOMAIN f : f[x] \in N
      BY <2>2, PartialFacts
    <3>2. Put(f, first, n) \in [DOMAIN f \cup {first} -> N]
      BY <2>2, <3>1 DEF Put
    <3>3. DOMAIN f \cup {first} \in SUBSET Row
      BY <2>2, <3>1
    <3> QED BY <3>2, <3>3 DEF Partial
  <2>4. Put(f, first, n)[first] = n /\ \A x \in DOMAIN f \ {first} : Put(f, first, n)[x] = f[x]
    BY DEF Put
  <2> QED BY <2>3, <2>4 DEF f, n, N
<1>7. TypeInv'
  <2>1. writer' \in [listing: Partial(Listings, AnyListing), queue: Partial(Row, Nat), todo: Seq(Row)]
    BY <1>2, <1>4, <1>5, <1>6
  <2>2. \A m \in DOMAIN writer'.listing : writer'.listing[m] \in Anything(m)
    BY <1>4 DEF TypeInv
  <2> QED BY <1>1, <1>3, <2>1, <2>2 DEF TypeInv
<1>8. TimeInv' /\ DueInv' /\ EndInv' /\ StatsInv' /\ DrainInv'
  BY <1>1 DEF TimeInv, DueInv, EndInv, StatsInv, DrainInv, Open, Held, Bumped
<1>9. LockInv'
  BY <1>1, <1>4, <1>6 DEF LockInv, Working
<1>10. SeqInv'
  <2>1. \A r \in DOMAIN queue : queue[r] \in 1..seq /\ queue[r] \in 1..seq' /\ queue[r] < seq + 1
    BY <1>1, <1>3 DEF SeqInv
  <2>2. \A r \in DOMAIN writer.queue : writer.queue[r] \in 1..seq'
    BY <1>1, <1>3 DEF SeqInv
  <2>3. \A d \in Drains : \A c \in drain[d].claimed : c.seq <= seq' /\ c.seq < seq + 1
    <3> SUFFICES ASSUME NEW d \in Drains, NEW c \in drain[d].claimed
                 PROVE  c.seq <= seq' /\ c.seq < seq + 1
      OBVIOUS
    <3>1. c.seq \in Nat
      BY DEF TypeInv, Transactions
    <3>2. c.seq <= seq
      BY DEF SeqInv
    <3> QED BY <1>1, <1>3, <3>1, <3>2
  <2>4. seq + 1 \in 1..seq'
    BY <1>1, <1>3
  <2>5. DOMAIN writer'.queue = DOMAIN writer.queue \cup {first} /\ writer'.queue[first] = seq + 1
        /\ \A x \in DOMAIN writer.queue \ {first} : writer'.queue[x] = writer.queue[x]
    BY <1>4, <1>6
  <2>6. \A r \in DOMAIN writer'.queue :
          writer'.queue[r] \in 1..seq' /\ (r \in DOMAIN queue => queue[r] < writer'.queue[r])
    BY <2>1, <2>2, <2>4, <2>5 DEF SeqInv
  <2>7. \A d \in Drains : \A c \in drain[d].claimed :
          c.row \in DOMAIN writer'.queue => c.seq < writer'.queue[c.row]
    BY <2>3, <2>5 DEF SeqInv
  <2> QED BY <1>1, <2>1, <2>3, <2>6, <2>7 DEF SeqInv
<1>11. WriterInv'
  <2>1. Queueing \subseteq Queueing'
    <3> SUFFICES ASSUME NEW r \in Queueing PROVE r \in Queueing'
      OBVIOUS
    <3>1. DOMAIN writer'.queue = DOMAIN writer.queue \cup {first} /\ writer'.todo = Tail(writer.todo)
      BY <1>4, <1>6
    <3>2. CASE r \in DOMAIN writer.queue
      BY <3>1, <3>2 DEF Queueing
    <3>3. ASSUME NEW i \in 1..Len(writer.todo), r = writer.todo[i]
          PROVE  r \in Queueing'
      <4>1. CASE i = 1
        BY <1>5, <3>1, <3>3, <4>1 DEF Queueing
      <4>2. CASE i # 1
        <5>1. i - 1 \in 1..Len(Tail(writer.todo)) /\ Tail(writer.todo)[i - 1] = r
          BY <1>5, <3>3, <4>2
        <5> QED BY <3>1, <5>1 DEF Queueing
      <4> QED BY <4>1, <4>2
    <3> QED BY <3>2, <3>3 DEF Queueing
  <2>2. writer'.listing = writer.listing
    BY <1>4
  <2> QED BY <1>1, <2>1, <2>2 DEF WriterInv
<1> QED BY <1>7, <1>8, <1>9, <1>10, <1>11

LEMMA CommitBlockKeeps == ASSUME StatsMarketsInv, CommitBlock PROVE StatsMarketsInv'
<1> USE DEF StatsMarketsInv
<1>1. /\ writer.todo = <<>> /\ blockTime' \in blockTime..now - Lag
      /\ listing' = [l \in Listings |-> Seen(l)] /\ queue' = Over(writer.queue, queue)
      /\ writer' = Quiet
      /\ UNCHANGED <<stats, now, seq, drain, writes>>
  BY DEF CommitBlock
<1>2. /\ writer.listing \in Partial(Listings, AnyListing) /\ writer.queue \in Partial(Row, Nat)
      /\ queue \in Partial(Row, Nat)
  BY DEF TypeInv
<1>3. /\ DOMAIN writer.queue \subseteq Row /\ DOMAIN queue \subseteq Row
      /\ queue' \in Partial(Row, Nat)
      /\ DOMAIN queue' = DOMAIN writer.queue \cup DOMAIN queue
      /\ \A r \in DOMAIN writer.queue : queue'[r] = writer.queue[r]
      /\ \A r \in DOMAIN queue \ DOMAIN writer.queue : queue'[r] = queue[r]
  <2> DEFINE N == Nat
             f == writer.queue
  <2>1. f \in Partial(Row, N) /\ queue \in Partial(Row, N) /\ queue' = Over(f, queue)
    BY <1>1, <1>2
  <2>2. /\ Over(f, queue) \in Partial(Row, N)
        /\ DOMAIN Over(f, queue) = DOMAIN f \cup DOMAIN queue
        /\ \A r \in DOMAIN f : Over(f, queue)[r] = f[r]
        /\ \A r \in DOMAIN queue \ DOMAIN f : Over(f, queue)[r] = queue[r]
    <3> HIDE DEF N, f
    <3> DEFINE R == Row
               g == queue
    <3>1. f \in Partial(R, N) /\ g \in Partial(R, N)
      BY <2>1
    <3> HIDE DEF R, g
    <3>2. /\ Over(f, g) \in Partial(R, N)
          /\ DOMAIN Over(f, g) = DOMAIN f \cup DOMAIN g
          /\ \A r \in DOMAIN f : Over(f, g)[r] = f[r]
          /\ \A r \in DOMAIN g \ DOMAIN f : Over(f, g)[r] = g[r]
      BY <3>1, OverFacts
    <3> QED BY <3>2 DEF R, g
  <2>3. DOMAIN f \subseteq Row /\ DOMAIN queue \subseteq Row
    <3> HIDE DEF N, f
    <3> QED BY <2>1, PartialFacts
  <2> QED BY <2>1, <2>2, <2>3
<1>4. DOMAIN writer'.queue = {} /\ DOMAIN writer'.listing = {}
  BY <1>1, EmptyPartial DEF Quiet
<1>5. \A l \in Listings :
        /\ listing'[l] \in Anything(l)
        /\ l \notin DOMAIN writer.listing => listing'[l] = listing[l]
        /\ l \in DOMAIN writer.listing => listing'[l] = writer.listing[l]
  BY <1>1 DEF Seen, TypeInv
<1>6. \A l \in DOMAIN writer.listing :
        /\ RowAt(l, 0) \in DOMAIN writer.queue \/ ~(listing[l].sold \/ writer.listing[l].sold)
        /\ l \in Auctions /\ writer.listing[l].sold =>
             RowAt(l, writer.listing[l].end) \in DOMAIN writer.queue
  <2>1. Len(writer.todo) = 0
    BY <1>1
  <2>2. Queueing = DOMAIN writer.queue
    BY <2>1 DEF Queueing
  <2> QED BY <2>2 DEF WriterInv
<1>7. now \in Nat /\ blockTime \in Nat /\ blockTime' \in Nat /\ blockTime' + Lag <= now
  <2>1. now \in Nat /\ blockTime \in Nat /\ Lag \in Nat
    BY ConstantFacts DEF TypeInv
  <2>2. blockTime' \in blockTime..now - Lag
    BY <1>1
  <2>3. ASSUME NEW t \in blockTime..now - Lag
        PROVE  t \in Nat /\ t + Lag <= now
    BY <2>1
  <2> QED BY <2>1, <2>2, <2>3
<1>8. TypeInv'
  <2>1. listing' \in [Listings -> AnyListing]
    BY <1>1, <1>5 DEF AnyListing
  <2>2. writer' \in [listing: Partial(Listings, AnyListing), queue: Partial(Row, Nat), todo: Seq(Row)]
    BY <1>1, EmptyPartial DEF Quiet
  <2> QED BY <1>1, <1>3, <1>4, <1>5, <1>7, <2>1, <2>2 DEF TypeInv
<1>9. TimeInv'
  BY <1>1, <1>7 DEF TimeInv, Open
<1>10. LockInv'
  BY <1>1, <1>3, <1>4 DEF LockInv, Working
<1>11. SeqInv'
  <2>1. \A r \in DOMAIN queue' : queue'[r] \in 1..seq
    BY <1>3 DEF SeqInv
  <2> QED BY <1>1, <1>4, <2>1 DEF SeqInv
<1>12. WriterInv' /\ DueInv'
  BY <1>1, <1>4 DEF WriterInv, DueInv, Held, Open
<1>13. EndInv'
  <2> SUFFICES ASSUME NEW l \in Auctions, listing'[l].sold,
                      RowAt(l, listing'[l].end) \notin DOMAIN queue'
               PROVE  listing'[l].end < now /\ \A d \in Drains : Open(d) => listing'[l].end < drain[d].start
    BY <1>1 DEF EndInv, Open
  <2>1. l \notin DOMAIN writer.listing
    BY <1>3, <1>5, <1>6, ConstantFacts
  <2> QED BY <1>3, <1>5, <2>1, ConstantFacts DEF EndInv
<1>14. ASSUME NEW l \in Listings, RowAt(l, 0) \notin DOMAIN queue' \/ l \notin DOMAIN writer.listing
       PROVE  listing'[l] = listing[l] \/ (~listing'[l].sold /\ ~listing[l].sold)
  BY <1>3, <1>5, <1>6, <1>14
<1>15. \A l \in Listings, t \in Nat :
         ~listing'[l].sold /\ ~listing[l].sold => Resolved(listing'[l], t) = Resolved(listing[l], t)
  BY <1>5, ListingFacts DEF TypeInv
<1>16. DrainInv'
  <2> SUFFICES ASSUME NEW d \in Drains, drain[d].at = "resolved"
               PROVE  /\ \A r \in Held(d) : r.listing \in DOMAIN drain[d].resolved
                      /\ \A l \in DOMAIN drain[d].resolved :
                           drain[d].resolved[l] = Resolved(listing'[l], drain[d].start) \/ Bumped(d, l)'
    BY <1>1 DEF DrainInv, Held
  <2>1. drain[d].start \in Nat /\ drain[d].resolved \in Partial(Listings, Prices \cup {NoRow})
    BY DEF TypeInv, Transactions
  <2>2. \A l \in DOMAIN drain[d].resolved : l \in Listings
    BY <2>1, PartialFacts
  <2>3. ASSUME NEW l \in Listings, RowAt(l, 0) \in DOMAIN writer.queue
        PROVE  Bumped(d, l)'
    <3>1. RowAt(l, 0) \in DOMAIN queue' \ drain[d].gone
      BY <1>3, <2>3 DEF LockInv
    <3>2. \A c \in drain[d].claimed : c.row = RowAt(l, 0) => c.seq # queue'[c.row]
      <4> SUFFICES ASSUME NEW c \in drain[d].claimed, c.row = RowAt(l, 0)
                   PROVE  c.seq # queue'[c.row]
        OBVIOUS
      <4>1. c.seq < writer.queue[c.row] /\ queue'[c.row] = writer.queue[c.row]
        BY <1>3, <2>3 DEF SeqInv
      <4>2. c.seq \in Nat /\ writer.queue[c.row] \in 1..seq /\ seq \in Nat
        BY <2>3 DEF TypeInv, Transactions, SeqInv
      <4> QED BY <4>1, <4>2
    <3> QED BY <1>1, <3>1, <3>2 DEF Bumped
  <2>4. ASSUME NEW l \in Listings, RowAt(l, 0) \notin DOMAIN writer.queue, Bumped(d, l)
        PROVE  Bumped(d, l)'
    <3>1. queue'[RowAt(l, 0)] = queue[RowAt(l, 0)]
      BY <1>3, <2>4 DEF Bumped
    <3> QED BY <1>1, <1>3, <2>4, <3>1 DEF Bumped
  <2>5. ASSUME NEW l \in DOMAIN drain[d].resolved
        PROVE  drain[d].resolved[l] = Resolved(listing'[l], drain[d].start) \/ Bumped(d, l)'
    <3>1. l \in Listings
      BY <2>2
    <3>2. CASE RowAt(l, 0) \in DOMAIN writer.queue
      BY <2>3, <3>1, <3>2
    <3>3. CASE RowAt(l, 0) \notin DOMAIN writer.queue
      <4>1. listing'[l] = listing[l] \/ (~listing'[l].sold /\ ~listing[l].sold)
        BY <1>5, <1>6, <3>1, <3>3
      <4>2. Resolved(listing'[l], drain[d].start) = Resolved(listing[l], drain[d].start)
        BY <1>15, <2>1, <3>1, <4>1
      <4>3. drain[d].resolved[l] = Resolved(listing[l], drain[d].start) \/ Bumped(d, l)
        BY <2>5 DEF DrainInv
      <4> QED BY <2>4, <3>1, <3>3, <4>2, <4>3
    <3> QED BY <3>2, <3>3
  <2> QED BY <2>5 DEF DrainInv
<1>17. StatsInv'
  <2> SUFFICES ASSUME NEW l \in Listings, RowAt(l, 0) \notin DOMAIN queue'
               PROVE  \/ stats[l] = Resolved(listing'[l], now)
                      \/ /\ l \in Auctions /\ listing'[l].sold /\ stats[l] = NoRow
                         /\ RowAt(l, listing'[l].end) \in DOMAIN queue'
    BY <1>1 DEF StatsInv
  <2>1. \/ stats[l] = Resolved(listing[l], now)
        \/ /\ l \in Auctions /\ listing[l].sold /\ stats[l] = NoRow
           /\ RowAt(l, listing[l].end) \in DOMAIN queue
    BY <1>3 DEF StatsInv
  <2>2. listing'[l] = listing[l] \/ (~listing'[l].sold /\ ~listing[l].sold)
    BY <1>14
  <2> QED BY <1>3, <1>7, <1>15, <2>1, <2>2
<1> QED BY <1>8, <1>9, <1>10, <1>11, <1>12, <1>13, <1>16, <1>17

LEMMA AbortBlockKeeps == ASSUME StatsMarketsInv, AbortBlock PROVE StatsMarketsInv'
<1> USE DEF StatsMarketsInv
<1>1. writer' = Quiet /\ UNCHANGED <<listing, queue, stats, blockTime, now, seq, drain, writes>>
  BY DEF AbortBlock
<1>2. DOMAIN writer'.queue = {} /\ DOMAIN writer'.listing = {}
  BY <1>1, EmptyPartial DEF Quiet
<1>3. TypeInv'
  <2>1. writer' \in [listing: Partial(Listings, AnyListing), queue: Partial(Row, Nat), todo: Seq(Row)]
    BY <1>1, EmptyPartial DEF Quiet
  <2> QED BY <1>1, <1>2, <2>1 DEF TypeInv
<1>4. TimeInv' /\ DueInv' /\ EndInv' /\ StatsInv' /\ DrainInv'
  BY <1>1 DEF TimeInv, DueInv, EndInv, StatsInv, DrainInv, Open, Held, Bumped
<1>5. LockInv' /\ SeqInv' /\ WriterInv'
  BY <1>1, <1>2 DEF LockInv, SeqInv, WriterInv, Working
<1> QED BY <1>3, <1>4, <1>5

LEMMA TickKeeps == ASSUME Delay < Lag, StatsMarketsInv, Tick PROVE StatsMarketsInv'
<1> USE DEF StatsMarketsInv
<1>1. /\ now' = now + 1
      /\ \A d \in Drains : drain[d].at = "begun" => now < drain[d].start + Delay
      /\ UNCHANGED <<listing, queue, stats, blockTime, seq, writer, drain, writes>>
  BY DEF Tick
<1>2. now \in Nat /\ blockTime \in Nat /\ Lag \in Nat /\ Delay \in Nat
  BY ConstantFacts DEF TypeInv
<1>3. \A d \in Drains : drain[d].start \in Nat
  BY DEF TypeInv, Transactions
<1>4. TypeInv' /\ LockInv' /\ SeqInv' /\ WriterInv' /\ DrainInv'
  BY <1>1, <1>2 DEF TypeInv, LockInv, SeqInv, WriterInv, DrainInv, Queueing, Working, Held, Bumped
<1>5. TimeInv'
  BY <1>1, <1>2, <1>3 DEF TimeInv, Open
<1>6. DueInv'
  <2> SUFFICES ASSUME NEW d \in Drains, NEW r \in Held(d)
               PROVE  r.at + Lag <= now + 1
    BY <1>1 DEF DueInv, Held, Open
  <2>1. r.at \in Nat
    BY RowFacts DEF Held, TypeInv, Transactions
  <2> QED BY <1>2, <2>1 DEF DueInv
<1>7. \A l \in Listings : listing[l].end \in Nat
  BY ListingFacts DEF TypeInv
<1>8. EndInv'
  BY <1>1, <1>2, <1>7, ConstantFacts DEF EndInv, Open
<1>9. StatsInv'
  <2> SUFFICES ASSUME NEW l \in Listings, RowAt(l, 0) \notin DOMAIN queue,
                      stats[l] = Resolved(listing[l], now)
               PROVE  \/ stats[l] = Resolved(listing[l], now + 1)
                      \/ /\ l \in Auctions /\ listing[l].sold /\ stats[l] = NoRow
                         /\ RowAt(l, listing[l].end) \in DOMAIN queue
    BY <1>1 DEF StatsInv
  <2>1. CASE ~listing[l].sold \/ listing[l].end # now
    BY <1>2, <1>7, <2>1 DEF Resolved, Counts
  <2>2. CASE listing[l].sold /\ listing[l].end = now
    <3>1. now # 0
      BY <1>2 DEF TimeInv
    <3>2. l \in Auctions
      BY <2>2, <3>1, ListingFacts DEF TypeInv
    <3>3. RowAt(l, listing[l].end) \in DOMAIN queue
      BY <1>2, <2>2, <3>2 DEF EndInv
    <3>4. stats[l] = NoRow
      BY <1>2, <2>2 DEF Resolved, Counts
    <3> QED BY <2>2, <3>2, <3>3, <3>4
  <2> QED BY <1>7, <2>1, <2>2, ListingFacts DEF TypeInv
<1> QED BY <1>4, <1>5, <1>6, <1>8, <1>9

-----------------------------------------------------------------------------
(* A drain.                                                                 *)

LEMMA BeginBatchKeeps ==
  ASSUME Delay < Lag, StatsMarketsInv, NEW d \in Drains, BeginBatch(d)
  PROVE  StatsMarketsInv'
<1> USE DEF StatsMarketsInv
<1> DEFINE tx == [Idle EXCEPT !.at = "begun", !.start = now]
<1>1. /\ drain[d].at = "idle" /\ Set(d, tx)
      /\ UNCHANGED <<listing, queue, stats, blockTime, now, seq, writer, writes>>
  BY DEF BeginBatch
<1>2. /\ now \in Nat /\ blockTime \in Nat /\ Lag \in Nat /\ Delay \in Nat /\ 0 < now
  BY ConstantFacts DEF TypeInv, TimeInv
<1>3. /\ tx \in Transactions /\ tx.at = "begun" /\ tx.start = now
      /\ tx.claimed = {} /\ tx.gone = {}
  BY <1>2, IdleFacts DEF Idle, Transactions
<1>4. /\ drain' \in [Drains -> Transactions]
      /\ drain'[d].at = "begun" /\ drain'[d].start = now
      /\ drain'[d].claimed = {} /\ drain'[d].gone = {}
      /\ \A e \in Drains \ {d} : drain'[e] = drain[e]
  BY <1>1, <1>3, SetFacts
<1>5. TypeInv' /\ WriterInv' /\ StatsInv'
  BY <1>1, <1>4 DEF TypeInv, WriterInv, StatsInv, Queueing
<1>6. TimeInv'
  BY <1>1, <1>2, <1>4 DEF TimeInv, Open
<1>7. LockInv' /\ SeqInv' /\ DrainInv'
  BY <1>1, <1>4 DEF LockInv, SeqInv, DrainInv, Working, Held, Bumped
<1>8. DueInv'
  <2> SUFFICES ASSUME NEW e \in Drains \ {d}, NEW r \in Held(e)
               PROVE  r.at < now
    BY <1>1, <1>4 DEF DueInv, Held, Open
  <2>1. r.at \in Nat
    BY RowFacts DEF Held, TypeInv, Transactions
  <2> QED BY <1>2, <2>1 DEF DueInv
<1>9. EndInv'
  BY <1>1, <1>4 DEF EndInv, Open
<1> QED BY <1>5, <1>6, <1>7, <1>8, <1>9

\* A batch that ends without effect.
LEMMA IdleKeeps ==
  ASSUME StatsMarketsInv, NEW d \in Drains, Set(d, Idle),
         UNCHANGED <<listing, queue, stats, blockTime, now, seq, writer, writes>>
  PROVE  StatsMarketsInv'
<1> USE DEF StatsMarketsInv
<1>1. /\ drain' \in [Drains -> Transactions]
      /\ drain'[d].at = "idle" /\ drain'[d].claimed = {} /\ drain'[d].gone = {}
      /\ \A e \in Drains \ {d} : drain'[e] = drain[e]
  BY IdleFacts, SetFacts
<1>2. TypeInv' /\ WriterInv' /\ StatsInv'
  BY <1>1 DEF TypeInv, WriterInv, StatsInv, Queueing
<1>3. TimeInv' /\ EndInv' /\ DueInv'
  BY <1>1 DEF TimeInv, EndInv, DueInv, Open, Held
<1>4. LockInv' /\ SeqInv' /\ DrainInv'
  BY <1>1 DEF LockInv, SeqInv, DrainInv, Working, Held, Bumped
<1> QED BY <1>2, <1>3, <1>4

LEMMA AbortBatchKeeps ==
  ASSUME StatsMarketsInv, NEW d \in Drains, AbortBatch(d)
  PROVE  StatsMarketsInv'
  BY IdleKeeps DEF AbortBatch

LEMMA ClaimKeeps ==
  ASSUME Delay < Lag, StatsMarketsInv, NEW d \in Drains, Claim(d)
  PROVE  StatsMarketsInv'
<1> USE DEF StatsMarketsInv
<1>1. CASE HeldByOther(d)
  BY <1>1, IdleKeeps DEF Claim
<1>2. ASSUME ~HeldByOther(d), NEW due \in SUBSET Due,
             Set(d, [drain[d] EXCEPT !.at = "claimed", !.claimed = {[row |-> r, seq |-> queue[r]] : r \in due}])
      PROVE  StatsMarketsInv'
  <2> DEFINE claims == {[row |-> r, seq |-> queue[r]] : r \in due}
             tx == [drain[d] EXCEPT !.at = "claimed", !.claimed = claims]
  <2>1. /\ drain[d].at = "begun" /\ drain[d] \in Transactions
        /\ UNCHANGED <<listing, queue, stats, blockTime, now, seq, writer, writes>>
    BY DEF Claim, TypeInv
  <2>2. now \in Nat /\ blockTime \in Nat /\ Lag \in Nat /\ Delay \in Nat
    BY ConstantFacts DEF TypeInv
  <2>3. \A r \in due : r \in DOMAIN queue /\ r \in Row /\ r.at \in Nat /\ r.at <= blockTime
                        /\ queue[r] \in 1..seq
    <3>1. DOMAIN queue \subseteq Row
      BY PartialFacts DEF TypeInv
    <3> QED BY <3>1, RowFacts DEF Due, SeqInv
  <2>4. seq \in Nat
    BY DEF TypeInv
  <2>5. claims \subseteq [row: Row, seq: Nat]
    BY <2>3, <2>4
  <2>6. tx \in Transactions /\ tx.at = "claimed" /\ tx.start = drain[d].start
        /\ tx.claimed = claims /\ tx.gone = drain[d].gone
    BY <2>1, <2>5 DEF Transactions
  <2>7. /\ drain' \in [Drains -> Transactions]
        /\ drain'[d].at = "claimed" /\ drain'[d].start = drain[d].start
        /\ drain'[d].claimed = claims /\ drain'[d].gone = drain[d].gone
        /\ \A e \in Drains \ {d} : drain'[e] = drain[e]
    BY <1>2, <2>6, SetFacts
  <2>8. \A e \in Drains \ {d} : ~Working(e)
    BY <1>2 DEF HeldByOther, Working
  <2>9. \A e \in Drains : drain[e].gone = {} /\ (e # d => drain[e].claimed = {})
    BY <2>1, <2>8 DEF LockInv, Working
  <2>10. TypeInv' /\ WriterInv' /\ StatsInv'
    BY <2>1, <2>7 DEF TypeInv, WriterInv, StatsInv, Queueing
  <2>11. TimeInv' /\ EndInv'
    BY <2>1, <2>7 DEF TimeInv, EndInv, Open
  <2>12. LockInv'
    BY <2>1, <2>7, <2>8, <2>9 DEF LockInv, Working
  <2>13. \A c \in claims : /\ c.row \in due /\ c.seq = queue[c.row] /\ c.seq <= seq
                           /\ c.row \in DOMAIN writer.queue => c.seq < writer.queue[c.row]
    <3> SUFFICES ASSUME NEW r \in due
                 PROVE  /\ queue[r] <= seq
                        /\ r \in DOMAIN writer.queue => queue[r] < writer.queue[r]
      OBVIOUS
    <3> QED BY <2>3, <2>4 DEF SeqInv
  <2>14. SeqInv'
    <3>1. \A e \in Drains : \A c \in drain'[e].claimed :
            c.seq <= seq /\ (c.row \in DOMAIN writer.queue => c.seq < writer.queue[c.row])
      BY <2>7, <2>9, <2>13
    <3> QED BY <2>1, <3>1 DEF SeqInv
  <2>15. DueInv'
    <3>1. \A e \in Drains \ {d} : Held(e)' = {}
      BY <2>7, <2>9 DEF Held
    <3>2. Held(d)' \subseteq due
      BY <2>7, <2>9, <2>13 DEF Held
    <3>3. \A e \in Drains : Open(e) => drain'[e].start = drain[e].start
      BY <2>7
    <3>4. \A e \in Drains : Open(e)' => Open(e) /\ drain[e].at = "begun"
      BY <2>1, <2>7, <2>8, <1>2 DEF Open, Working, TypeInv, Transactions
    <3>5. ASSUME NEW r \in due, NEW e \in Drains, Open(e)'
          PROVE  r.at < drain'[e].start
      <4>1. now <= drain[e].start + Delay /\ drain[e].start \in Nat
        BY <3>4, <3>5 DEF TimeInv, TypeInv, Transactions
      <4>2. blockTime + Lag <= now /\ r.at <= blockTime /\ r.at \in Nat
        BY <2>3 DEF TimeInv
      <4>3. r.at < drain[e].start
        BY <2>2, <4>1, <4>2
      <4> QED BY <3>3, <3>4, <3>5, <4>3
    <3>6. \A r \in due : r.at + Lag <= now
      BY <2>2, <2>3 DEF TimeInv
    <3> QED BY <2>1, <3>1, <3>2, <3>5, <3>6 DEF DueInv
  <2>16. DrainInv'
    <3>1. \A e \in Drains : drain'[e].at # "resolved"
      BY <2>7, <2>8 DEF Working
    <3> QED BY <3>1 DEF DrainInv
  <2> QED BY <2>10, <2>11, <2>12, <2>14, <2>15, <2>16
<1> QED BY <1>1, <1>2 DEF Claim

LEMMA ResolveKeeps ==
  ASSUME StatsMarketsInv, NEW d \in Drains, Resolve(d)
  PROVE  StatsMarketsInv'
<1> USE DEF StatsMarketsInv
<1> DEFINE keys == {c.row.listing : c \in drain[d].claimed}
           values == [l \in keys |-> Resolved(listing[l], drain[d].start)]
           tx == [drain[d] EXCEPT !.at = "resolved", !.resolved = values]
<1>1. /\ drain[d].at = "claimed" /\ drain[d] \in Transactions /\ Set(d, tx)
      /\ UNCHANGED <<listing, queue, stats, blockTime, now, seq, writer, writes>>
  BY DEF Resolve, TypeInv
<1>2. drain[d].start \in Nat /\ drain[d].claimed \subseteq [row: Row, seq: Nat]
  BY <1>1 DEF Transactions
<1>3. keys \subseteq Listings
  BY <1>2, RowFacts
<1>4. values \in Partial(Listings, Prices \cup {NoRow})
  <2>1. \A l \in keys : Resolved(listing[l], drain[d].start) \in Prices \cup {NoRow}
    BY <1>2, <1>3, ListingFacts DEF TypeInv
  <2>2. values \in [keys -> Prices \cup {NoRow}]
    BY <2>1
  <2> HIDE DEF values, keys
  <2> QED BY <1>3, <2>2 DEF Partial
<1>5. /\ tx \in Transactions /\ tx.at = "resolved" /\ tx.start = drain[d].start
      /\ tx.claimed = drain[d].claimed /\ tx.gone = drain[d].gone /\ tx.resolved = values
  <2> HIDE DEF values
  <2> QED BY <1>1, <1>4 DEF Transactions
<1>6. /\ drain' \in [Drains -> Transactions]
      /\ drain'[d].at = "resolved" /\ drain'[d].start = drain[d].start
      /\ drain'[d].claimed = drain[d].claimed /\ drain'[d].gone = drain[d].gone
      /\ drain'[d].resolved = values
      /\ \A e \in Drains \ {d} : drain'[e] = drain[e]
  <2> HIDE DEF tx
  <2> QED BY <1>1, <1>5, SetFacts
<1> HIDE DEF tx, values
<1>7. TypeInv' /\ WriterInv' /\ StatsInv'
  BY <1>1, <1>6 DEF TypeInv, WriterInv, StatsInv, Queueing
<1>8. \A e \in Drains : /\ drain'[e].claimed = drain[e].claimed /\ drain'[e].gone = drain[e].gone
                        /\ drain'[e].start = drain[e].start
                        /\ Working(e)' = Working(e) /\ Open(e)' = Open(e) /\ Held(e)' = Held(e)
                        /\ drain'[e].at = "begun" => drain[e].at = "begun"
                        /\ drain[e].at = "resolved" => drain'[e].at = "resolved"
  BY <1>1, <1>6 DEF Working, Open, Held
<1>9. TimeInv' /\ EndInv' /\ DueInv'
  BY <1>1, <1>8 DEF TimeInv, EndInv, DueInv
<1>10. LockInv' /\ SeqInv'
  BY <1>1, <1>8 DEF LockInv, SeqInv
<1>11. DrainInv'
  <2>1. Held(d) = {c.row : c \in drain[d].claimed}
    BY <1>1 DEF Held, LockInv
  <2>2. /\ \A r \in Held(d) : r.listing \in DOMAIN values
        /\ \A l \in DOMAIN values : values[l] = Resolved(listing[l], drain[d].start)
    BY <2>1 DEF values
  <2>3. \A e \in Drains, l \in Listings : e # d /\ Bumped(e, l) => Bumped(e, l)'
    BY <1>1, <1>6 DEF Bumped
  <2>4. \A e \in Drains \ {d} : drain[e].at # "resolved"
    BY <1>1 DEF LockInv, Working
  <2>5. \A e \in Drains \ {d} : drain'[e].at # "resolved"
    BY <1>6, <2>4
  <2> QED BY <1>1, <1>6, <1>8, <2>2, <2>5 DEF DrainInv
<1> QED BY <1>7, <1>9, <1>10, <1>11

LEMMA ReleaseKeeps ==
  ASSUME StatsMarketsInv, NEW d \in Drains, Release(d)
  PROVE  StatsMarketsInv'
<1> USE DEF StatsMarketsInv
<1>1. PICK c \in drain[d].claimed :
        /\ ~LockedByWriter(c.row)
        /\ Set(d, [drain[d] EXCEPT !.claimed = @ \ {c},
                      !.gone = IF c.row \in DOMAIN queue /\ SeqUnchanged(c) THEN @ \cup {c.row} ELSE @])
  BY DEF Release
<1> DEFINE gone == IF c.row \in DOMAIN queue /\ queue[c.row] = c.seq
                   THEN drain[d].gone \cup {c.row} ELSE drain[d].gone
           tx == [drain[d] EXCEPT !.claimed = drain[d].claimed \ {c}, !.gone = gone]
<1>2. /\ drain[d].at = "resolved" /\ drain[d] \in Transactions /\ Set(d, tx)
      /\ c.row \notin DOMAIN writer.queue
      /\ UNCHANGED <<listing, queue, stats, blockTime, now, seq, writer, writes>>
  BY <1>1 DEF Release, TypeInv, SeqUnchanged, LockedByWriter
<1>3. drain[d].claimed \subseteq [row: Row, seq: Nat] /\ drain[d].gone \subseteq Row /\ c.row \in Row
  BY <1>2 DEF Transactions
<1>4. gone \subseteq Row
  BY <1>3
<1>5. /\ tx \in Transactions /\ tx.at = "resolved" /\ tx.start = drain[d].start
      /\ tx.claimed = drain[d].claimed \ {c} /\ tx.gone = gone /\ tx.resolved = drain[d].resolved
  <2> HIDE DEF gone
  <2> QED BY <1>2, <1>4 DEF Transactions
<1>6. /\ drain' \in [Drains -> Transactions]
      /\ drain'[d].at = "resolved" /\ drain'[d].start = drain[d].start
      /\ drain'[d].claimed = drain[d].claimed \ {c} /\ drain'[d].gone = gone
      /\ drain'[d].resolved = drain[d].resolved
      /\ \A e \in Drains \ {d} : drain'[e] = drain[e]
  <2> HIDE DEF tx
  <2> QED BY <1>2, <1>5, SetFacts
<1> HIDE DEF tx
<1>7. TypeInv' /\ WriterInv' /\ StatsInv'
  BY <1>2, <1>6 DEF TypeInv, WriterInv, StatsInv, Queueing
<1>8. \A e \in Drains : /\ drain'[e].claimed \subseteq drain[e].claimed
                        /\ drain'[e].start = drain[e].start /\ drain'[e].at = drain[e].at
                        /\ drain'[e].resolved = drain[e].resolved
                        /\ Working(e)' = Working(e) /\ Open(e)' = Open(e)
                        /\ Held(e)' \subseteq Held(e)
  BY <1>2, <1>6 DEF Working, Open, Held
<1>9. TimeInv' /\ EndInv' /\ DueInv'
  BY <1>2, <1>8 DEF TimeInv, EndInv, DueInv
<1>10. SeqInv'
  BY <1>2, <1>8 DEF SeqInv
<1>11. LockInv'
  <2>1. gone \subseteq DOMAIN queue \ DOMAIN writer.queue
    BY <1>2 DEF LockInv
  <2>2. \A e \in Drains : drain'[e].gone \subseteq DOMAIN queue \ DOMAIN writer.queue
    BY <1>6, <2>1 DEF LockInv
  <2>3. \A e \in Drains : /\ ~Working(e) => drain'[e].claimed = {}
                          /\ drain'[e].at # "resolved" => drain'[e].gone = {}
    BY <1>2, <1>6, <1>8 DEF LockInv, Working
  <2>4. \A e, f \in Drains : Working(e) /\ Working(f) => e = f
    BY DEF LockInv
  <2> HIDE DEF gone
  <2> QED BY <1>2, <1>8, <2>2, <2>3, <2>4 DEF LockInv
<1>12. DrainInv'
  <2>1. \A e \in Drains \ {d} : drain'[e].at # "resolved"
    BY <1>2, <1>8 DEF LockInv, Working
  <2>2. ASSUME NEW l, Bumped(d, l)
        PROVE  Bumped(d, l)'
    BY <1>2, <1>6, <2>2 DEF Bumped
  <2>3. \A r \in Held(d)' : r.listing \in DOMAIN drain'[d].resolved
    BY <1>2, <1>8 DEF DrainInv
  <2>4. \A l \in DOMAIN drain'[d].resolved :
          drain'[d].resolved[l] = Resolved(listing'[l], drain'[d].start) \/ Bumped(d, l)'
    BY <1>2, <1>8, <2>2 DEF DrainInv
  <2> QED BY <2>1, <2>3, <2>4 DEF DrainInv
<1> QED BY <1>7, <1>9, <1>10, <1>11, <1>12

LEMMA CommitBatchKeeps ==
  ASSUME Delay < Lag, StatsMarketsInv, NEW d \in Drains, CommitBatch(d)
  PROVE  StatsMarketsInv'
<1> USE DEF StatsMarketsInv
<1>1. /\ drain[d].at = "resolved" /\ drain[d].claimed = {}
      /\ stats' = Over(drain[d].resolved, stats)
      /\ queue' = [r \in DOMAIN queue \ drain[d].gone |-> queue[r]]
      /\ Set(d, Idle)
      /\ UNCHANGED <<listing, blockTime, now, seq, writer, writes>>
  BY DEF CommitBatch
<1>2. /\ drain' \in [Drains -> Transactions]
      /\ drain'[d].at = "idle" /\ drain'[d].claimed = {} /\ drain'[d].gone = {}
      /\ \A e \in Drains \ {d} : drain'[e] = drain[e]
  BY <1>1, IdleFacts, SetFacts
<1>3. drain[d] \in Transactions
  BY DEF TypeInv
<1>4. /\ drain[d].resolved \in Partial(Listings, Prices \cup {NoRow})
      /\ drain[d].start \in Nat /\ drain[d].gone \subseteq Row
  BY <1>3 DEF Transactions
<1>5. /\ DOMAIN queue \subseteq Row /\ \A r \in DOMAIN queue : queue[r] \in Nat
      /\ DOMAIN drain[d].resolved \subseteq Listings
  <2> DEFINE N == Nat
  <2>1. queue \in Partial(Row, N)
    BY DEF TypeInv
  <2>2. DOMAIN queue \subseteq Row /\ \A r \in DOMAIN queue : queue[r] \in N
    <3> HIDE DEF N
    <3> QED BY <2>1, PartialFacts
  <2>3. DOMAIN drain[d].resolved \subseteq Listings
    BY <1>4, PartialFacts
  <2> QED BY <2>2, <2>3
<1>6. /\ stats' \in [Listings -> Prices \cup {NoRow}]
      /\ \A l \in DOMAIN drain[d].resolved : stats'[l] = drain[d].resolved[l]
      /\ \A l \in Listings \ DOMAIN drain[d].resolved : stats'[l] = stats[l]
  <2>1. \A l \in DOMAIN drain[d].resolved : drain[d].resolved[l] \in Prices \cup {NoRow}
    BY <1>4, PartialFacts
  <2>2. stats \in [Listings -> Prices \cup {NoRow}]
    BY DEF TypeInv
  <2>3. DOMAIN drain[d].resolved \cup DOMAIN stats = Listings
    BY <1>5, <2>2
  <2> QED BY <1>1, <2>1, <2>2, <2>3 DEF Over
<1>7. /\ DOMAIN queue' = DOMAIN queue \ drain[d].gone
      /\ \A r \in DOMAIN queue' : queue'[r] = queue[r]
      /\ queue' \in Partial(Row, Nat)
  <2>1. queue' \in [DOMAIN queue \ drain[d].gone -> Nat]
    BY <1>1, <1>5
  <2>2. DOMAIN queue \ drain[d].gone \in SUBSET Row
    BY <1>5
  <2>3. queue' \in Partial(Row, Nat)
    BY <2>1, <2>2 DEF Partial
  <2> QED BY <1>1, <2>3
<1>8. TypeInv' /\ WriterInv'
  BY <1>1, <1>2, <1>6, <1>7 DEF TypeInv, WriterInv, Queueing
<1>9. \A e \in Drains \ {d} : ~Working(e) /\ drain[e].gone = {} /\ drain[e].claimed = {}
  BY <1>1 DEF LockInv, Working
<1>10. \A e \in Drains : ~Working(e)' /\ drain'[e].gone = {} /\ drain'[e].claimed = {}
  BY <1>2, <1>9 DEF Working
<1>11. \A e \in Drains : Open(e)' => e # d /\ Open(e) /\ drain'[e] = drain[e]
  BY <1>2 DEF Open
<1>12. TimeInv'
  BY <1>1, <1>2, <1>11 DEF TimeInv
<1>13. LockInv' /\ SeqInv' /\ DueInv' /\ DrainInv'
  <2>1. LockInv' /\ SeqInv'
    BY <1>1, <1>7, <1>10 DEF LockInv, SeqInv
  <2>2. \A e \in Drains : Held(e)' = {} /\ drain'[e].at # "resolved"
    BY <1>10 DEF Held, Working
  <2> QED BY <2>1, <2>2 DEF DueInv, DrainInv
<1>14. /\ now \in Nat /\ 0 < now /\ Lag \in Nat /\ 0 < Lag
       /\ 0 < drain[d].start /\ drain[d].start <= now
  BY <1>1, ConstantFacts DEF TypeInv, TimeInv, Open
<1>15. \A l \in Listings : listing[l].end \in Nat /\ (l \notin Auctions => listing[l].end = 0)
  BY ListingFacts DEF TypeInv
<1>16. \A r \in drain[d].gone :
         /\ r.at \in Nat /\ r.at < now /\ r.listing \in DOMAIN drain[d].resolved
         /\ \A e \in Drains : Open(e) => r.at < drain[e].start
  <2> SUFFICES ASSUME NEW r \in drain[d].gone
               PROVE  /\ r.at \in Nat /\ r.at < now /\ r.listing \in DOMAIN drain[d].resolved
                      /\ \A e \in Drains : Open(e) => r.at < drain[e].start
    OBVIOUS
  <2>1. r \in Held(d) /\ r.at \in Nat
    BY <1>4, RowFacts DEF Held
  <2>2. r.at + Lag <= now /\ \A e \in Drains : Open(e) => r.at < drain[e].start
    BY <2>1 DEF DueInv
  <2>3. r.listing \in DOMAIN drain[d].resolved
    BY <1>1, <2>1 DEF DrainInv
  <2> QED BY <1>14, <2>1, <2>2, <2>3
<1>17. EndInv'
  <2> SUFFICES ASSUME NEW l \in Auctions, listing[l].sold, RowAt(l, listing[l].end) \notin DOMAIN queue'
               PROVE  listing[l].end < now /\ \A e \in Drains : Open(e) => listing[l].end < drain[e].start
    BY <1>1, <1>11 DEF EndInv
  <2>1. CASE RowAt(l, listing[l].end) \in drain[d].gone
    BY <1>16, <2>1, RowFacts
  <2>2. CASE RowAt(l, listing[l].end) \notin DOMAIN queue
    BY <2>2 DEF EndInv
  <2> QED BY <1>7, <2>1, <2>2
<1>18. StatsInv'
  <2> SUFFICES ASSUME NEW l \in Listings, RowAt(l, 0) \notin DOMAIN queue'
               PROVE  \/ stats'[l] = Resolved(listing[l], now)
                      \/ /\ l \in Auctions /\ listing[l].sold /\ stats'[l] = NoRow
                         /\ RowAt(l, listing[l].end) \in DOMAIN queue'
    BY <1>1 DEF StatsInv
  <2>1. CASE l \notin DOMAIN drain[d].resolved
    <3>1. \A at : RowAt(l, at) \notin drain[d].gone
      BY <1>16, <2>1, RowFacts
    <3> QED BY <1>6, <1>7, <2>1, <3>1 DEF StatsInv
  <2>2. CASE l \in DOMAIN drain[d].resolved
    <3>1. ~Bumped(d, l)
      BY <1>7 DEF Bumped
    <3>2. stats'[l] = Resolved(listing[l], drain[d].start)
      BY <1>1, <1>6, <2>2, <3>1 DEF DrainInv
    <3>3. CASE ~listing[l].sold \/ listing[l].end < drain[d].start
      BY <1>4, <1>14, <1>15, <3>2, <3>3 DEF Resolved, Counts
    <3>4. CASE listing[l].sold /\ ~(listing[l].end < drain[d].start)
      <4>1. l \in Auctions
        BY <1>4, <1>14, <1>15, <3>4
      <4>2. RowAt(l, listing[l].end) \in DOMAIN queue
        BY <1>1, <3>4, <4>1 DEF EndInv, Open
      <4>3. RowAt(l, listing[l].end) \notin drain[d].gone
        BY <1>1, <1>16, <3>4, RowFacts DEF Open
      <4>4. stats'[l] = NoRow
        BY <3>2, <3>4 DEF Resolved, Counts
      <4> QED BY <1>7, <3>4, <4>1, <4>2, <4>3, <4>4
    <3> QED BY <3>3, <3>4
  <2> QED BY <2>1, <2>2
<1> QED BY <1>8, <1>12, <1>13, <1>17, <1>18

-----------------------------------------------------------------------------
(* The theorems.                                                            *)

LEMMA StatsMarketsInvariant ==
  ASSUME Delay < Lag
  PROVE  Spec => []StatsMarketsInv
<1>1. Init => StatsMarketsInv
  BY InitKeeps
<1>2. StatsMarketsInv /\ [Next]_vars => StatsMarketsInv'
  <2> SUFFICES ASSUME StatsMarketsInv, [Next]_vars PROVE StatsMarketsInv'
    OBVIOUS
  <2>1. CASE Write
    BY <2>1, WriteListingKeeps DEF Write
  <2>2. CASE Enqueue \/ CommitBlock \/ AbortBlock \/ Tick
    BY <2>2, EnqueueKeeps, CommitBlockKeeps, AbortBlockKeeps, TickKeeps
  <2>3. ASSUME NEW d \in Drains, Batch(d) \/ AbortBatch(d)
        PROVE  StatsMarketsInv'
    BY <2>3, BeginBatchKeeps, ClaimKeeps, ResolveKeeps, ReleaseKeeps, CommitBatchKeeps,
       AbortBatchKeeps DEF Batch
  <2>4. CASE UNCHANGED vars
    BY <2>4 DEF vars, StatsMarketsInv, TypeInv, TimeInv, LockInv, SeqInv, WriterInv, DueInv, EndInv,
       DrainInv, StatsInv, Queueing, Working, Open, Held, Bumped
  <2> QED BY <2>1, <2>2, <2>3, <2>4 DEF Next
<1> QED BY <1>1, <1>2, PTL DEF Spec

\* Types; a row being deleted is in the committed queue.
THEOREM StatsTypeCorrect == ASSUME Delay < Lag PROVE Spec => []TypeOK
<1>1. StatsMarketsInv => TypeOK
  <2> SUFFICES ASSUME StatsMarketsInv PROVE TypeOK
    OBVIOUS
  <2> USE DEF StatsMarketsInv
  <2>1. AnyListing = UNION {Values(l) \cup {Gone} : l \in Listings}
    BY DEF AnyListing, Anything
  <2>2. listing \in [Listings -> UNION {Values(l) \cup {Gone} : l \in Listings}]
    BY <2>1 DEF TypeInv
  <2>3. DOMAIN queue \subseteq Row /\ \A r \in DOMAIN queue : queue[r] \in 1..seq
    BY PartialFacts DEF TypeInv, SeqInv
  <2>4. now \in Nat /\ blockTime \in 0..now
    BY ConstantFacts DEF TypeInv, TimeInv
  <2> QED BY <2>2, <2>3, <2>4 DEF TypeOK, TypeInv, LockInv
<1> QED BY <1>1, StatsMarketsInvariant, PTL

\* update_atomicmarket_stats_market(): for any number of listings, drains and
\* writes, no change of a listing is lost between the triggers and the drains,
\* given that a batch claims sooner than a block lags.
THEOREM StaleListingsAreQueued == ASSUME Delay < Lag PROVE Spec => []StaleIsQueued
<1>1. StatsMarketsInv => StaleIsQueued
  BY DEF StatsMarketsInv, StatsInv, StaleIsQueued
<1> QED BY <1>1, StatsMarketsInvariant, PTL

\* The row that falls due at the end of an auction stays until that time has
\* passed, whatever is claimed and released before.
THEOREM AuctionEndsAreQueued == ASSUME Delay < Lag PROVE Spec => []FutureIsQueued
<1>1. StatsMarketsInv => FutureIsQueued
  <2> SUFFICES ASSUME StatsMarketsInv, NEW l \in Listings, listing[l].sold, listing[l].end >= now
               PROVE  RowAt(l, listing[l].end) \in DOMAIN queue
    BY DEF FutureIsQueued
  <2> USE DEF StatsMarketsInv
  <2>1. now \in Nat /\ 0 < now /\ listing[l].end \in Nat
    BY ConstantFacts, ListingFacts DEF TypeInv, TimeInv
  <2>2. l \in Auctions
    BY <2>1, ListingFacts DEF TypeInv
  <2> QED BY <2>1, <2>2 DEF EndInv
<1> QED BY <1>1, StatsMarketsInvariant, PTL

-----------------------------------------------------------------------------
(* The rows of listings, and the version the API goes by. *)

Claims == {"no", Shown!Null, "yes"}
AuctionRow ==
  [kind: {"auction"}, state: {"WAITING", "LISTED", "CANCELED"}, assets: Nat, end: {ShownEnd},
   buyer: ShownBidders \cup {Shown!Null}, claimed: [buyer: Claims, seller: Claims]]
SaleRow ==
  [kind: {"sale"}, state: {"WAITING", "LISTED", "CANCELED", "SOLD"},
   offer: {"PENDING", "INVALID", "CANCELLED", "ACCEPTED"}]
BuyofferRow ==
  [kind: {"buyoffer"}, state: {"PENDING", "DECLINED", "CANCELED", "ACCEPTED"},
   owners: [1..2 -> ShownBidders \cup {Shown!Seller, Shown!Null}]]
TemplateBuyofferRow == [kind: {"template_buyoffer"}, state: {"LISTED", "CANCELED", "SOLD"}]

RowInv == row \in AuctionRow \cup SaleRow \cup BuyofferRow \cup TemplateBuyofferRow

\* An answer that is on its way was right when its query began, which is not
\* longer ago than a query takes, and what is cached was such an answer.
VersionInv ==
  /\ halves \in Nat /\ versionChanged \in 0..halves /\ version \in BOOLEAN
  /\ cache \subseteq [dissolves: BOOLEAN, readAt: 0..halves]
  /\ reads \subseteq [dissolves: BOOLEAN, at: 0..halves]
  /\ \A r \in reads : halves <= r.at + Patience /\ (r.dissolves # version => r.at <= versionChanged)
  /\ \A c \in cache : c.dissolves # version => c.readAt <= versionChanged + Patience

LEMMA ShownFacts ==
  /\ Shown!Null = "null" /\ Shown!Seller = "seller"
  /\ ShownEnd \in Nat /\ Patience \in Nat /\ Ttl \in Nat /\ Ttl > 0
BY ShownAssumption DEF Shown!Null, Shown!Seller

LEMMA ShownInit == Shown!Init => RowInv /\ VersionInv
<1> SUFFICES ASSUME Shown!Init PROVE RowInv /\ VersionInv
  OBVIOUS
<1>1. RowInv
  BY DEF Shown!Init, Shown!Kinds, RowInv, AuctionRow, SaleRow, BuyofferRow, TemplateBuyofferRow, Claims
<1>2. VersionInv
  BY DEF Shown!Init, VersionInv
<1> QED BY <1>1, <1>2

LEMMA RowStep ==
  ASSUME RowInv, [Shown!Next]_(Shown!vars)
  PROVE  RowInv'
<1>1. CASE Shown!Auction
  <2>1. row \in AuctionRow
    BY <1>1 DEF Shown!Auction, Shown!IsA, RowInv, SaleRow, BuyofferRow, TemplateBuyofferRow
  <2>2. CASE \E s \in {"LISTED", "CANCELED"} : row' = [row EXCEPT !.state = s]
    BY <2>1, <2>2 DEF RowInv, AuctionRow
  <2>3. CASE \E b \in ShownBidders : row' = [row EXCEPT !.buyer = b]
    BY <2>1, <2>3 DEF RowInv, AuctionRow
  <2>4. CASE \E side \in {"buyer", "seller"} : row' = [row EXCEPT !.claimed[side] = "yes"]
    <3>1. PICK side \in {"buyer", "seller"} : row' = [row EXCEPT !.claimed[side] = "yes"]
      BY <2>4
    <3>2. row.claimed \in [buyer: Claims, seller: Claims]
      BY <2>1 DEF AuctionRow
    <3>3. [row.claimed EXCEPT ![side] = "yes"] \in [buyer: Claims, seller: Claims]
      BY <3>2 DEF Claims
    <3> QED BY <2>1, <3>1, <3>3 DEF RowInv, AuctionRow
  <2> QED BY <1>1, <2>2, <2>3, <2>4 DEF Shown!Auction, Shown!To
<1>2. CASE Shown!Sale
  <2>1. row \in SaleRow
    BY <1>2 DEF Shown!Sale, Shown!IsA, RowInv, AuctionRow, BuyofferRow, TemplateBuyofferRow
  <2> QED BY <1>2, <2>1 DEF Shown!Sale, Shown!To, RowInv, SaleRow
<1>3. CASE Shown!Buyoffer
  <2>1. row \in BuyofferRow
    BY <1>3 DEF Shown!Buyoffer, Shown!IsA, RowInv, SaleRow, AuctionRow, TemplateBuyofferRow
  <2>2. CASE \E s \in {"DECLINED", "CANCELED", "ACCEPTED"} : row' = [row EXCEPT !.state = s]
    BY <2>1, <2>2 DEF RowInv, BuyofferRow
  <2>3. CASE \E i \in DOMAIN row.owners, o \in ShownBidders \cup {Shown!Seller, Shown!Null} :
               row' = [row EXCEPT !.owners[i] = o]
    BY <2>1, <2>3 DEF RowInv, BuyofferRow
  <2> QED BY <1>3, <2>2, <2>3 DEF Shown!Buyoffer, Shown!To
<1>4. CASE Shown!TemplateBuyoffer
  <2>1. row \in TemplateBuyofferRow
    BY <1>4 DEF Shown!TemplateBuyoffer, Shown!IsA, RowInv, SaleRow, AuctionRow, BuyofferRow
  <2> QED BY <1>4, <2>1 DEF Shown!TemplateBuyoffer, Shown!To, RowInv, TemplateBuyofferRow
<1>5. CASE UNCHANGED row
  BY <1>5 DEF RowInv
<1> QED BY <1>1, <1>2, <1>3, <1>4, <1>5
        DEF Shown!Next, Shown!Step, Shown!Tick, Shown!Flip, Shown!Read, Shown!Store, Shown!vars

LEMMA VersionStep ==
  ASSUME VersionInv, [Shown!Next]_(Shown!vars)
  PROVE  VersionInv'
<1> USE ShownFacts DEF VersionInv
<1>1. CASE Shown!Step \/ UNCHANGED Shown!vars
  BY <1>1 DEF Shown!Step, Shown!versionVars, Shown!vars
<1>2. CASE Shown!Tick
  <2>1. /\ halves' = halves + 1 /\ UNCHANGED <<version, versionChanged, cache, reads>>
        /\ \A r \in reads : halves < r.at + Patience
    BY <1>2 DEF Shown!Tick, Shown!versionVars
  <2>2. \A r \in reads : r.at \in Nat /\ halves + 1 <= r.at + Patience
    BY <2>1
  <2>3. /\ cache \subseteq [dissolves: BOOLEAN, readAt: 0..(halves + 1)]
        /\ reads \subseteq [dissolves: BOOLEAN, at: 0..(halves + 1)]
    <3>1. 0..halves \subseteq 0..(halves + 1)
      OBVIOUS
    <3> QED BY <3>1
  <2> QED BY <2>1, <2>2, <2>3
<1>3. CASE Shown!Flip
  <2>1. /\ version' = ~version /\ versionChanged' = halves
        /\ UNCHANGED <<halves, cache, reads>>
    BY <1>3 DEF Shown!Flip
  <2>2. /\ \A r \in reads : r.at <= halves
        /\ \A c \in cache : c.readAt <= halves + Patience
    BY <2>1
  <2> QED BY <2>1, <2>2
<1>4. CASE Shown!Read
  <2>1. /\ reads' = reads \cup {[dissolves |-> version, at |-> halves]}
        /\ UNCHANGED <<halves, version, versionChanged, cache>>
    BY <1>4 DEF Shown!Read
  <2> QED BY <2>1
<1>5. CASE Shown!Store
  <2>1. PICK r \in reads : /\ cache' = {[dissolves |-> r.dissolves, readAt |-> halves]}
                           /\ reads' = reads \ {r}
    BY <1>5 DEF Shown!Store
  <2>2. UNCHANGED <<halves, version, versionChanged>>
    BY <1>5 DEF Shown!Store
  <2>3. r.dissolves \in BOOLEAN /\ r.at \in Nat /\ halves <= r.at + Patience
        /\ (r.dissolves # version => r.at <= versionChanged)
    OBVIOUS
  <2> QED BY <2>1, <2>2, <2>3
<1> QED BY <1>1, <1>2, <1>3, <1>4, <1>5 DEF Shown!Next

LEMMA EndsByTheSecond ==
  ASSUME NEW end \in Nat, NEW h \in Nat
  PROVE  end > h \div 2 <=> 2 * end > h
OBVIOUS

LEMMA ListsAreThoseShown ==
  ASSUME RowInv, VersionInv
  PROVE  Shown!StatesAreShown
<1>1. ASSUME row.kind = "auction"
      PROVE  \A s \in {"WAITING", "LISTED", "CANCELED", "SOLD", "INVALID"}, d \in Shown!Answers :
               Shown!AuctionIn(s, d) <=> Shown!AuctionShown(d) = s
  <2> SUFFICES ASSUME NEW s \in {"WAITING", "LISTED", "CANCELED", "SOLD", "INVALID"},
                      NEW d \in Shown!Answers
               PROVE  Shown!AuctionIn(s, d) <=> Shown!AuctionShown(d) = s
    OBVIOUS
  <2>1. row \in AuctionRow
    BY <1>1 DEF RowInv, SaleRow, BuyofferRow, TemplateBuyofferRow
  <2>2. d \in BOOLEAN
    BY DEF Shown!Answers, Shown!Cached, VersionInv
  <2>3. /\ row.state \in {"WAITING", "LISTED", "CANCELED"} /\ row.end \in Nat /\ halves \in Nat
    BY <2>1, ShownFacts DEF AuctionRow, VersionInv
  <2>4. /\ row.end > Shown!Seconds <=> 2 * row.end > halves
        /\ row.end <= Shown!Seconds <=> ~(2 * row.end > halves)
        /\ 2 * row.end <= halves <=> ~(2 * row.end > halves)
    BY <2>3, EndsByTheSecond DEF Shown!Seconds
  <2>5. Shown!EndedBundle <=> row.assets > 1 /\ row.claimed.buyer # "yes" /\ row.claimed.seller # "yes"
    BY <2>1 DEF Shown!EndedBundle, AuctionRow
  <2> DEFINE ended == ~(2 * row.end > halves)
             bundle == Shown!EndedBundle
             bought == row.buyer # Shown!Null
  <2>6. Shown!AuctionIn(s, d) <=>
          CASE s = "LISTED" -> row.state = "LISTED" /\ ~ended
            [] s = "SOLD" -> row.state = "LISTED" /\ ended /\ bought /\ (d => ~bundle)
            [] s = "INVALID" -> row.state = "LISTED" /\ ended /\ (bought => d /\ bundle)
            [] OTHER -> row.state = s
    BY <2>4 DEF Shown!AuctionIn
  <2>7. Shown!AuctionShown(d) =
          CASE row.state = "WAITING" -> "WAITING"
            [] row.state = "LISTED" /\ ~ended -> "LISTED"
            [] row.state = "CANCELED" -> "CANCELED"
            [] row.state = "LISTED" /\ ended /\ bought /\ ~(d /\ bundle) -> "SOLD"
            [] OTHER -> "INVALID"
    BY <2>4, <2>5 DEF Shown!AuctionShown
  <2> HIDE DEF ended, bundle, bought
  <2> QED BY <2>2, <2>3, <2>6, <2>7
<1>2. ASSUME row.kind = "sale"
      PROVE  /\ \A s \in {"WAITING", "LISTED", "CANCELED", "SOLD", "INVALID"} :
                  Shown!SaleIn(s) <=> Shown!SaleShown = s
             /\ Shown!SaleStored = Shown!SaleShown
  <2>1. row \in SaleRow
    BY <1>2 DEF RowInv, AuctionRow, BuyofferRow, TemplateBuyofferRow
  <2>2. row.state \in {"WAITING", "LISTED", "CANCELED", "SOLD"}
    BY <2>1 DEF SaleRow
  <2>3. Shown!SaleStored = Shown!SaleShown
    <3>1. CASE row.state = "LISTED" /\ row.offer = "PENDING"
      BY <3>1 DEF Shown!SaleShown, Shown!SaleStored
    <3>2. CASE row.state = "LISTED" /\ row.offer # "PENDING"
      BY <3>2 DEF Shown!SaleShown, Shown!SaleStored
    <3>3. CASE row.state \in {"WAITING", "CANCELED", "SOLD"}
      <4>1. Shown!SaleStored = row.state
        BY <3>3 DEF Shown!SaleStored
      <4>2. Shown!SaleShown = row.state
        BY <3>3 DEF Shown!SaleShown
      <4> QED BY <4>1, <4>2
    <3> QED BY <2>2, <3>1, <3>2, <3>3
  <2>4. \A s \in {"WAITING", "LISTED", "CANCELED", "SOLD", "INVALID"} :
          Shown!SaleIn(s) <=> Shown!SaleShown = s
    BY <2>2 DEF Shown!SaleIn, Shown!SaleShown
  <2> QED BY <2>3, <2>4
<1>3. ASSUME row.kind = "buyoffer", Shown!Null \notin {row.owners[i] : i \in DOMAIN row.owners}
      PROVE  \A s \in {"PENDING", "DECLINED", "CANCELED", "ACCEPTED", "INVALID"} :
               Shown!BuyofferIn(s) <=> Shown!BuyofferShown = s
  <2>1. row \in BuyofferRow
    BY <1>3 DEF RowInv, AuctionRow, SaleRow, TemplateBuyofferRow
  <2>2. Shown!Foreign <=> ~(\A i \in DOMAIN row.owners : row.owners[i] = Shown!Seller)
    BY <1>3 DEF Shown!Foreign
  <2>3. row.state \in {"PENDING", "DECLINED", "CANCELED", "ACCEPTED"}
    BY <2>1 DEF BuyofferRow
  <2> QED BY <2>2, <2>3 DEF Shown!BuyofferIn, Shown!BuyofferShown
<1>4. row.kind \in {"auction", "sale", "buyoffer", "template_buyoffer"}
  BY DEF RowInv, AuctionRow, SaleRow, BuyofferRow, TemplateBuyofferRow
<1>5. ASSUME row.kind = "template_buyoffer"
      PROVE  \A s \in {"LISTED", "CANCELED", "SOLD"} :
               Shown!TemplateBuyofferIn(s) <=> Shown!TemplateBuyofferShown = s
  BY DEF Shown!TemplateBuyofferIn, Shown!TemplateBuyofferShown
<1> QED BY <1>1, <1>2, <1>3, <1>4, <1>5 DEF Shown!StatesAreShown

LEMMA AnswersFollow ==
  ASSUME VersionInv
  PROVE  Shown!VersionIsNoLatch
<1> SUFFICES ASSUME halves - versionChanged >= Ttl + Patience PROVE Shown!Answers = {version}
  BY DEF Shown!VersionIsNoLatch
<1>1. \A c \in Shown!Cached : c.dissolves = version
  <2> SUFFICES ASSUME NEW c \in Shown!Cached PROVE c.dissolves = version
    OBVIOUS
  <2>1. c.readAt \in Nat /\ halves - c.readAt < Ttl
        /\ (c.dissolves # version => c.readAt <= versionChanged + Patience)
    BY DEF Shown!Cached, VersionInv
  <2>2. halves \in Nat /\ versionChanged \in Nat
    BY DEF VersionInv
  <2> QED BY <2>1, <2>2, ShownFacts
<1>2. \A r \in reads : r.dissolves = version
  <2> SUFFICES ASSUME NEW r \in reads PROVE r.dissolves = version
    OBVIOUS
  <2>1. r.at \in Nat /\ halves <= r.at + Patience /\ (r.dissolves # version => r.at <= versionChanged)
    BY DEF VersionInv
  <2>2. halves \in Nat /\ versionChanged \in Nat
    BY DEF VersionInv
  <2> QED BY <2>1, <2>2, ShownFacts
<1> QED BY <1>1, <1>2 DEF Shown!Answers

LEMMA StatePart ==
  ASSUME DecodedNext
  PROVE  Shown!Next \/ UNCHANGED stateVars
BY Zenon DEF DecodedNext, queryVars

\* utils.ts:307, format.ts:22, market-version.ts:38 (part of QueriesFollowTables):
\* a list by a state has exactly the listings that are shown in it, at every
\* moment of a second and by whichever version a request is answered; and a
\* version that has stood for an entry's life and a query is the only one.
THEOREM ListsHaveWhatIsShown ==
  DecodedSpec => [](Shown!StatesAreShown /\ Shown!VersionIsNoLatch)
<1>1. DecodedInit => RowInv /\ VersionInv
  BY ShownInit DEF DecodedInit
<1>2. ASSUME RowInv, VersionInv,
             [DecodedNext]_<<part, statsVars, abiVars, noteVars, marketVars, queryVars>>
      PROVE  RowInv' /\ VersionInv'
  <2>1. [Shown!Next]_(Shown!vars)
    BY <1>2, StatePart DEF queryVars, stateVars, Shown!vars, Shown!versionVars
  <2> QED BY <1>2, <2>1, RowStep, VersionStep
<1>3. RowInv /\ VersionInv => Shown!StatesAreShown /\ Shown!VersionIsNoLatch
  BY ListsAreThoseShown, AnswersFollow
<1> QED BY <1>1, <1>2, <1>3, PTL DEF DecodedSpec

-----------------------------------------------------------------------------
(* The queue of filter rows.                                                *)

FilterKeys == Filters!SaleKeys \cup Filters!OfferKeys \cup Filters!AssetKeys
PartitionKeys(i) == {<<"sale", s>> : s \in {t \in FilterSales : t % FilterPartitions = i}}
Leads(s) == {<<"offer", s>>} \cup {<<"asset", a>> : a \in FilterAssetsOf[s]}

FilterRow == [key: FilterKeys, prio: {0, 1}, claims: SUBSET Filters!Sessions]
KeysIn(q) == {q[i].key : i \in DOMAIN q}
\* The keys whose place in the queue no claim of a session holds.
NotHeld(q, p) == {q[i].key : i \in {j \in DOMAIN q : p \notin q[j].claims}}

LEMMA NthReaches ==
  ASSUME NEW S \in SUBSET Nat, IsFiniteSet(S)
  PROVE  /\ Cardinality(S) \in Nat
         /\ \A n \in 1..Cardinality(S) : Filters!Nth(S, n) \in S
         /\ \A k \in S : \E n \in 1..Cardinality(S) : Filters!Nth(S, n) = k
<1> DEFINE UpTo(k) == {m \in S : m <= k}
           rank == [k \in S |-> Cardinality(UpTo(k))]
<1>1. \A k : IsFiniteSet(UpTo(k)) /\ Cardinality(UpTo(k)) \in Nat /\ Cardinality(UpTo(k)) <= Cardinality(S)
  BY FS_Subset, FS_CardinalityType
<1>2. Cardinality(S) \in Nat
  BY FS_CardinalityType
<1>3. ASSUME NEW k \in S, NEW l \in S, k < l PROVE Cardinality(UpTo(k)) < Cardinality(UpTo(l))
  <2>1. k \in Nat /\ l \in Nat /\ \A m \in S : m \in Nat
    OBVIOUS
  <2>2. \A m \in S : m <= k => m <= l
    BY <1>3, <2>1
  <2>3. l <= l /\ ~(l <= k)
    BY <1>3, <2>1
  <2>4. UpTo(k) \subseteq UpTo(l) /\ l \in UpTo(l) /\ l \notin UpTo(k)
    BY <2>2, <2>3
  <2> HIDE DEF UpTo
  <2> QED BY <1>1, <2>4, FS_Subset
<1>4. ASSUME NEW k \in S PROVE Cardinality(UpTo(k)) >= 1
  <2>1. UpTo(k) # {}
    OBVIOUS
  <2> HIDE DEF UpTo
  <2> QED BY <1>1, <2>1, FS_EmptySet
<1>5. rank \in Injection(S, 1..Cardinality(S))
  <2>1. \A k \in S : Cardinality(UpTo(k)) \in 1..Cardinality(S)
    BY <1>1, <1>2, <1>4
  <2>2. \A k, l \in S : k # l => k < l \/ l < k
    OBVIOUS
  <2>3. \A k, l \in S : Cardinality(UpTo(k)) = Cardinality(UpTo(l)) => k = l
    <3> HIDE DEF UpTo
    <3> QED BY <1>1, <1>3, <2>2
  <2> HIDE DEF UpTo
  <2> QED BY <2>1, <2>3 DEF Injection, IsInjective
<1>6. IsFiniteSet(1..Cardinality(S)) /\ Cardinality(1..Cardinality(S)) = Cardinality(S)
  BY <1>2, FS_Interval
<1>7. rank \in Surjection(S, 1..Cardinality(S))
  BY <1>5, <1>6, FS_Injection
<1>8. ASSUME NEW n \in 1..Cardinality(S)
      PROVE  Filters!Nth(S, n) \in S /\ Cardinality(UpTo(Filters!Nth(S, n))) = n
  <2>1. \E k \in S : Cardinality(UpTo(k)) = n
    BY <1>7 DEF Surjection
  <2>2. Filters!Nth(S, n) = CHOOSE k \in S : Cardinality(UpTo(k)) = n
    BY DEF Filters!Nth, Filters!Cardinality, Cardinality
  <2> HIDE DEF UpTo
  <2> QED BY <2>1, <2>2
<1> HIDE DEF UpTo
<1>9. ASSUME NEW k \in S PROVE \E n \in 1..Cardinality(S) : Filters!Nth(S, n) = k
  <2>1. Cardinality(UpTo(k)) \in 1..Cardinality(S)
    BY <1>1, <1>2, <1>4
  <2>2. Filters!Nth(S, Cardinality(UpTo(k))) \in S
        /\ Cardinality(UpTo(Filters!Nth(S, Cardinality(UpTo(k))))) = Cardinality(UpTo(k))
    BY <1>8, <2>1
  <2>3. Filters!Nth(S, Cardinality(UpTo(k))) = k
    BY <1>5, <2>2 DEF Injection, IsInjective
  <2> QED BY <2>1, <2>3
<1> QED BY <1>2, <1>8, <1>9

LEMMA RowsAre ==
  ASSUME NEW q \in Seq(FilterRow), NEW S \in SUBSET DOMAIN q
  PROVE  /\ Filters!Rows(q, S) \in Seq(FilterRow)
         /\ \A i \in S : \E n \in DOMAIN Filters!Rows(q, S) : Filters!Rows(q, S)[n] = q[i]
<1>1. DOMAIN q = 1..Len(q) /\ Len(q) \in Nat /\ 1..Len(q) \subseteq Nat
  OBVIOUS
<1>2. S \in SUBSET Nat /\ IsFiniteSet(S)
  <2>1. IsFiniteSet(1..Len(q))
    BY <1>1, FS_Interval
  <2> QED BY <1>1, <2>1, FS_Subset
<1>3. /\ Cardinality(S) \in Nat
      /\ \A n \in 1..Cardinality(S) : Filters!Nth(S, n) \in S
      /\ \A k \in S : \E n \in 1..Cardinality(S) : Filters!Nth(S, n) = k
  BY <1>2, NthReaches
<1>4. Filters!Rows(q, S) = [n \in 1..Cardinality(S) |-> q[Filters!Nth(S, n)]]
  BY DEF Filters!Rows, Filters!Cardinality, Cardinality
<1>5. \A n \in 1..Cardinality(S) : q[Filters!Nth(S, n)] \in FilterRow
  BY <1>1, <1>3
<1> QED BY <1>3, <1>4, <1>5

LEMMA ListedIs ==
  ASSUME NEW K, IsFiniteSet(K)
  PROVE  /\ Cardinality(K) \in Nat
         /\ \A n \in 1..Cardinality(K) : Filters!SetToSeq(K)[n] \in K
         /\ \A k \in K : \E n \in 1..Cardinality(K) : Filters!SetToSeq(K)[n] = k
<1>1. Cardinality(K) \in Nat /\ ExistsBijection(1..Cardinality(K), K)
  BY FS_CardinalityType
<1>2. PICK g \in Bijection(1..Cardinality(K), K) : TRUE
  BY <1>1 DEF ExistsBijection
<1>3. g \in [1..Cardinality(K) -> K] /\ IsInjective(g)
  BY <1>2 DEF Bijection, Injection
<1> DEFINE f == Filters!SetToSeq(K)
<1>4. f = CHOOSE h \in [1..Cardinality(K) -> K] : IsInjective(h)
  BY DEF Filters!SetToSeq, Filters!Cardinality, Cardinality, Filters!IsInjective, IsInjective
<1> HIDE DEF f
<1>5. f \in [1..Cardinality(K) -> K] /\ IsInjective(f)
  BY <1>3, <1>4
<1>6. f \in Injection(1..Cardinality(K), K)
  BY <1>5 DEF Injection
<1>7. Cardinality(1..Cardinality(K)) = Cardinality(K)
  BY <1>1, FS_Interval
<1>8. f \in Surjection(1..Cardinality(K), K)
  BY <1>6, <1>7, FS_Injection
<1>9. \A k \in K : \E n \in 1..Cardinality(K) : f[n] = k
  BY <1>8 DEF Surjection
<1> QED BY <1>1, <1>5, <1>9 DEF f

LEMMA LaneIs ==
  ASSUME NEW q \in Seq(FilterRow), NEW key, NEW prio \in {0, 1}
  PROVE  Filters!Lane(q, key, prio) \in {0, 1}
<1> DEFINE S == {prio} \cup {q[i].prio : i \in {j \in DOMAIN q : q[j].key = key}}
<1>1. S \subseteq {0, 1}
  <2>1. \A i \in DOMAIN q : q[i] \in FilterRow
    OBVIOUS
  <2> QED BY <2>1 DEF FilterRow
<1>2. prio \in S
  OBVIOUS
<1>3. Filters!Lane(q, key, prio) = CHOOSE x \in S : \A y \in S : x =< y
  BY DEF Filters!Lane, Filters!Min
<1> HIDE DEF S
<1>4. \E x \in S : \A y \in S : x =< y
  BY <1>1, <1>2
<1> QED BY <1>1, <1>3, <1>4

LEMMA EnqueueIs ==
  ASSUME NEW q \in Seq(FilterRow), NEW K \in SUBSET FilterKeys, IsFiniteSet(K), NEW prio \in {0, 1}
  PROVE  /\ Filters!EnqueueAll(q, K, prio) \in Seq(FilterRow)
         /\ KeysIn(q) \cup K \subseteq KeysIn(Filters!EnqueueAll(q, K, prio))
         /\ \A p : NotHeld(q, p) \cup K \subseteq NotHeld(Filters!EnqueueAll(q, K, prio), p)
<1> DEFINE S == {i \in DOMAIN q : q[i].key \notin K}
           old == Filters!Rows(q, S)
           entry(n) == Filters!Row(Filters!SetToSeq(K)[n], Filters!Lane(q, Filters!SetToSeq(K)[n], prio))
           new == [n \in 1..Cardinality(K) |-> entry(n)]
           r == Filters!EnqueueAll(q, K, prio)
<1>1. r = old \o new
  BY DEF Filters!EnqueueAll, Filters!Cardinality, Cardinality
<1>2. old \in Seq(FilterRow) /\ \A i \in S : \E n \in DOMAIN old : old[n] = q[i]
  BY RowsAre
<1>3. \A n \in 1..Cardinality(K) : entry(n) \in FilterRow /\ entry(n).key = Filters!SetToSeq(K)[n] /\ entry(n).claims = {}
  BY ListedIs, LaneIs DEF Filters!Row, FilterRow
<1>4. Cardinality(K) \in Nat /\ \A k \in K : \E n \in 1..Cardinality(K) : entry(n).key = k
  BY ListedIs, <1>3
<1> HIDE DEF entry
<1>5. new \in Seq(FilterRow) /\ Len(new) = Cardinality(K) /\ \A n \in 1..Cardinality(K) : new[n] = entry(n)
  BY <1>3, <1>4
<1> HIDE DEF S, old, new, r
<1>6. /\ r \in Seq(FilterRow) /\ DOMAIN r = 1..Len(old) + Len(new)
      /\ Len(old) \in Nat /\ Len(new) \in Nat /\ DOMAIN old = 1..Len(old)
      /\ \A n \in 1..Len(old) : r[n] = old[n]
      /\ \A n \in 1..Len(new) : r[Len(old) + n] = new[n]
  BY <1>1, <1>2, <1>5
<1>7. \A i \in S : \E n \in DOMAIN r : r[n] = q[i]
  <2> TAKE i \in S
  <2>1. PICK n \in 1..Len(old) : old[n] = q[i]
    BY <1>2, <1>6
  <2> QED BY <1>6, <2>1
<1>8. \A k \in K : \E n \in DOMAIN r : r[n].key = k /\ r[n].claims = {}
  <2> TAKE k \in K
  <2>1. PICK n \in 1..Cardinality(K) : entry(n).key = k
    BY <1>4
  <2>2. Len(old) + n \in DOMAIN r /\ r[Len(old) + n] = entry(n)
    BY <1>4, <1>5, <1>6
  <2> QED BY <1>3, <2>1, <2>2
<1>9. KeysIn(q) \cup K \subseteq KeysIn(r)
  BY <1>7, <1>8 DEF KeysIn, S
<1>10. ASSUME NEW p PROVE NotHeld(q, p) \cup K \subseteq NotHeld(r, p)
  <2>1. ASSUME NEW k \in K PROVE k \in NotHeld(r, p)
    BY <1>8 DEF NotHeld
  <2>2. ASSUME NEW k \in NotHeld(q, p), k \notin K PROVE k \in NotHeld(r, p)
    <3>1. PICK i \in DOMAIN q : p \notin q[i].claims /\ q[i].key = k
      BY <2>2 DEF NotHeld
    <3>2. i \in S
      BY <2>2, <3>1 DEF S
    <3>3. PICK n \in DOMAIN r : r[n] = q[i]
      BY <1>7, <3>2
    <3> QED BY <3>1, <3>3 DEF NotHeld
  <2> QED BY <2>1, <2>2
<1> QED BY <1>6, <1>9, <1>10 DEF r

LEMMA UnclaimIs ==
  ASSUME NEW q \in Seq(FilterRow), NEW p
  PROVE  /\ Filters!Unclaim(q, p) \in Seq(FilterRow)
         /\ KeysIn(Filters!Unclaim(q, p)) = KeysIn(q)
         /\ \A o : NotHeld(q, o) \subseteq NotHeld(Filters!Unclaim(q, p), o)
<1> DEFINE r == Filters!Unclaim(q, p)
<1>1. r = [i \in DOMAIN q |-> [q[i] EXCEPT !.claims = q[i].claims \ {p}]]
  BY DEF Filters!Unclaim
<1>2. ASSUME NEW i \in DOMAIN q
      PROVE  r[i] \in FilterRow /\ r[i].key = q[i].key /\ r[i].claims = q[i].claims \ {p}
  <2>1. q[i] \in FilterRow
    OBVIOUS
  <2>2. r[i] = [q[i] EXCEPT !.claims = q[i].claims \ {p}]
    BY <1>1
  <2> HIDE DEF r
  <2> QED BY <2>1, <2>2 DEF FilterRow
<1>3. DOMAIN r = DOMAIN q /\ r \in Seq(FilterRow)
  <2>1. DOMAIN r = 1..Len(q) /\ DOMAIN q = 1..Len(q) /\ Len(q) \in Nat
    BY <1>1
  <2>2. r = [i \in 1..Len(q) |-> r[i]]
    BY <1>1, <2>1
  <2> HIDE DEF r
  <2> QED BY <1>2, <2>1, <2>2
<1> HIDE DEF r
<1> QED BY <1>2, <1>3 DEF KeysIn, NotHeld, r

LEMMA ReleaseIs ==
  ASSUME NEW q \in Seq(FilterRow), NEW p
  PROVE  /\ Filters!Release(q, p) \in Seq(FilterRow)
         /\ KeysIn(q) \ call[p].claimed \subseteq KeysIn(Filters!Release(q, p))
         /\ NotHeld(q, p) \subseteq KeysIn(Filters!Release(q, p))
         /\ \A o : NotHeld(q, o) \ call[p].claimed \subseteq NotHeld(Filters!Release(q, p), o)
<1> DEFINE S == {i \in DOMAIN q : ~(q[i].key \in call[p].claimed /\ p \in q[i].claims)}
           r == Filters!Rows(q, S)
<1>1. Filters!Release(q, p) = Filters!Unclaim(r, p)
  BY DEF Filters!Release
<1>2. r \in Seq(FilterRow) /\ \A i \in S : \E n \in DOMAIN r : r[n] = q[i]
  BY RowsAre
<1> HIDE DEF r
<1>3. /\ Filters!Unclaim(r, p) \in Seq(FilterRow)
      /\ KeysIn(Filters!Unclaim(r, p)) = KeysIn(r)
      /\ \A o : NotHeld(r, o) \subseteq NotHeld(Filters!Unclaim(r, p), o)
  BY <1>2, UnclaimIs
<1>4. KeysIn(q) \ call[p].claimed \subseteq KeysIn(r)
  BY <1>2 DEF KeysIn
<1>5. NotHeld(q, p) \subseteq KeysIn(r)
  BY <1>2 DEF KeysIn, NotHeld
<1>6. ASSUME NEW o PROVE NotHeld(q, o) \ call[p].claimed \subseteq NotHeld(r, o)
  BY <1>2 DEF NotHeld
<1> QED BY <1>1, <1>3, <1>4, <1>5, <1>6

-----------------------------------------------------------------------------
(* The sessions, and what they hold.                                        *)

OneCommand == \A c, d \in FilterCommands : c = d
Slots == 0..(FilterPartitions - 1)
Free(p) == call[p] = Filters!NoCall
Recomputing == Filters!Workers \cup {Filters!Drain}

FilterTypes ==
  /\ changed \in Seq(FilterRow)
  /\ sale \in [FilterSales -> {"none", "listed", "sold", "cancelled"}]
  /\ offer \in [FilterSales -> {"open", "invalid"}]
  /\ owner \in [FilterAssets -> {0, 1}]
  /\ phase \in [FilterCommands -> {"ready", "normalizing", "draining", "done"}]
  /\ DOMAIN call = Filters!Sessions /\ call = [p \in Filters!Sessions |-> call[p]]

CallTypes ==
  \A p \in Filters!Sessions :
    /\ call[p] = [at |-> call[p].at, claimed |-> call[p].claimed, rows |-> call[p].rows]
    /\ call[p].at \in {"idle", "claimed", "computed", "resolved"}
    /\ call[p].at = "idle" => Free(p)
    /\ call[p].at = "computed" => p \in Recomputing
    /\ call[p].at = "resolved" => p \notin Recomputing

\* What a session claims, and which of them may work at the same time.
Locks ==
  /\ \A c \in FilterCommands :
       /\ call[Filters!Normalizer(c)].claimed \subseteq Filters!OfferKeys
       /\ ~Free(Filters!Normalizer(c)) => phase[c] = "normalizing"
  /\ \A c \in FilterCommands, i \in Slots :
       /\ call[Filters!Worker(c, i)].claimed \subseteq PartitionKeys(i)
       /\ ~Free(Filters!Worker(c, i)) => phase[c] = "draining"
  /\ ~Free(Filters!Drain) => \A p \in Filters!Sessions : p = Filters!Drain \/ Free(p)

\* A row that was computed is right, or the row of the queue that it came from
\* has a new place, which the call does not release.
Lasts(p, s) ==
  \/ call[p].rows[s] = Filters!Computed(s)
  \/ <<"sale", s>> \in NotHeld(changed, p)
  \/ call[p].rows[s] # Filters!NoFilter /\ \E k \in Leads(s) : k \in NotHeld(changed, p)

Follows(s) ==
  \/ filter[s] = Filters!Computed(s)
  \/ <<"sale", s>> \in KeysIn(changed)
  \/ filter[s] # Filters!NoFilter /\ \E k \in Leads(s) : k \in KeysIn(changed)

RowsHeld ==
  \A p \in Filters!Sessions :
    /\ call[p].at \in {"computed", "resolved"} => DOMAIN call[p].rows = Filters!Affected(call[p].claimed)
    /\ call[p].at = "computed" => \A s \in DOMAIN call[p].rows : Lasts(p, s)
    /\ call[p].at = "resolved" => \A s \in DOMAIN call[p].rows : call[p].rows[s] = <<"sale", s>>

FilterInv == FilterTypes /\ CallTypes /\ Locks /\ RowsHeld /\ \A s \in FilterSales : Follows(s)

LEMMA SessionFacts ==
  /\ Filters!Drain \in Filters!Sessions /\ Filters!Drain \in Recomputing
  /\ \A c \in FilterCommands :
       Filters!Normalizer(c) \in Filters!Sessions /\ Filters!Normalizer(c) \notin Recomputing
  /\ \A c \in FilterCommands, i \in Slots :
       /\ Filters!Worker(c, i) \in Filters!Sessions /\ Filters!Worker(c, i) \in Filters!Workers
       /\ Filters!Worker(c, i) # Filters!Drain
  /\ \A p \in Filters!Sessions :
       \/ p = Filters!Drain
       \/ \E c \in FilterCommands : p = Filters!Normalizer(c)
       \/ \E c \in FilterCommands, i \in Slots : p = Filters!Worker(c, i)
  /\ \A p \in Filters!Workers : \E c \in FilterCommands, i \in Slots : p = Filters!Worker(c, i)
  /\ \A c, d, i, j : Filters!Worker(c, i) = Filters!Worker(d, j) => c = d /\ i = j
BY DEF Filters!Sessions, Filters!Workers, Filters!Drain, Filters!Normalizer, Filters!Worker, Recomputing, Slots

LEMMA SaleFacts ==
  /\ IsFiniteSet(FilterSales)
  /\ \A s \in FilterSales : <<"sale", s>> \in FilterKeys /\ Leads(s) \subseteq FilterKeys
  /\ \A s, t : <<"sale", s>> \notin Filters!OfferKeys /\ <<"sale", s>> \notin Leads(t)
  /\ \A s, i : Leads(s) \cap PartitionKeys(i) = {}
<1>1. IsFiniteSet(FilterSales)
  BY FilterAssumption
<1>2. \A s \in FilterSales : <<"sale", s>> \in FilterKeys /\ Leads(s) \subseteq FilterKeys
  <2> TAKE s \in FilterSales
  <2>1. FilterAssetsOf[s] \subseteq FilterAssets
    BY FilterAssumption
  <2> QED BY <2>1 DEF FilterKeys, Leads, Filters!SaleKeys, Filters!OfferKeys, Filters!AssetKeys
<1>3. \A s, t : <<"sale", s>> \notin Filters!OfferKeys /\ <<"sale", s>> \notin Leads(t)
  BY DEF Leads, Filters!OfferKeys
<1>4. \A s, i : Leads(s) \cap PartitionKeys(i) = {}
  BY DEF Leads, PartitionKeys
<1> QED BY <1>1, <1>2, <1>3, <1>4

LEMMA AffectedIs ==
  \A keys : Filters!Affected(keys) =
    {s \in FilterSales : <<"sale", s>> \in keys \/ (filter[s] # Filters!NoFilter /\ \E k \in Leads(s) : k \in keys)}
BY DEF Filters!Affected, Leads

LEMMA ComputedIs ==
  \A s : Filters!Computed(s) = Filters!NoFilter <=> sale[s] \in {"none", "cancelled"}
<1>1. \A x, y : [state |-> x, owners |-> y] # <<>>
  <2> TAKE x, y
  <2>1. "state" \in DOMAIN [state |-> x, owners |-> y] /\ "state" \notin DOMAIN << >>
    OBVIOUS
  <2> QED BY <2>1
<1> QED BY <1>1 DEF Filters!Computed, Filters!NoFilter

LEMMA FollowsIs == (\A s \in FilterSales : Follows(s)) <=> Filters!StaleFiltersAreQueued
BY DEF Follows, Filters!StaleFiltersAreQueued, Filters!Queued, Filters!Keys, KeysIn, Leads

LEMMA FilterInit == Filters!Init => FilterInv
<1> SUFFICES ASSUME Filters!Init PROVE FilterInv
  OBVIOUS
<1>1. FilterTypes
  BY DEF Filters!Init, FilterTypes
<1>2. \A p \in Filters!Sessions : Free(p)
  BY DEF Filters!Init, Free
<1>3. CallTypes
  BY <1>2 DEF CallTypes, Free, Filters!NoCall
<1>4. Locks
  BY <1>2, SessionFacts DEF Locks, Free, Filters!NoCall
<1>5. RowsHeld
  BY <1>2 DEF RowsHeld, Free, Filters!NoCall
<1>6. ASSUME NEW s \in FilterSales PROVE Follows(s)
  BY ComputedIs DEF Filters!Init, Follows
<1> QED BY <1>1, <1>3, <1>4, <1>5, <1>6 DEF FilterInv

\* A write of the blocks, or a refresh, puts what it changes in the queue.
LEMMA EnqueuedInv ==
  ASSUME FilterInv, NEW K \in SUBSET FilterKeys, IsFiniteSet(K), NEW prio \in {0, 1},
         changed' = Filters!EnqueueAll(changed, K, prio),
         UNCHANGED <<filter, call, phase>>, FilterTypes',
         \A s \in FilterSales :
           \/ Filters!Computed(s)' = Filters!Computed(s)
           \/ <<"sale", s>> \in K
           \/ /\ \E k \in Leads(s) : k \in K
              /\ Filters!Computed(s) = Filters!NoFilter => Filters!Computed(s)' = Filters!NoFilter
  PROVE  FilterInv'
<1>1. /\ KeysIn(changed) \cup K \subseteq KeysIn(changed')
      /\ \A p : NotHeld(changed, p) \cup K \subseteq NotHeld(changed', p)
  BY EnqueueIs DEF FilterInv, FilterTypes
<1>2. CallTypes' /\ Locks'
  BY DEF FilterInv, CallTypes, Locks, Free
<1>3. ASSUME NEW s \in FilterSales PROVE Follows(s)'
  BY <1>1 DEF FilterInv, Follows
<1>4. \A keys : Filters!Affected(keys)' = Filters!Affected(keys)
  BY DEF Filters!Affected
<1>5. ASSUME NEW p \in Filters!Sessions, NEW s \in FilterSales, Lasts(p, s) PROVE Lasts(p, s)'
  BY <1>1, <1>5 DEF Lasts
<1>6. RowsHeld'
  <2>1. \A keys : Filters!Affected(keys) \subseteq FilterSales
    BY DEF Filters!Affected
  <2> QED BY <1>4, <1>5, <2>1 DEF FilterInv, RowsHeld
<1> QED BY <1>2, <1>3, <1>6 DEF FilterInv

LEMMA WriteSaleInv ==
  ASSUME FilterInv, NEW s \in FilterSales, Filters!WriteSale(s)
  PROVE  FilterInv'
<1>1. /\ \E state \in {"none", "listed", "sold", "cancelled"} : sale' = [sale EXCEPT ![s] = state]
      /\ UNCHANGED <<offer, owner, filter, call, phase>>
      /\ changed' = Filters!EnqueueAll(changed, {<<"sale", s>>}, 0)
  BY DEF Filters!WriteSale, Filters!Write
<1>2. {<<"sale", s>>} \in SUBSET FilterKeys /\ IsFiniteSet({<<"sale", s>>})
  BY SaleFacts, FS_Singleton
<1>3. changed' \in Seq(FilterRow)
  BY <1>1, <1>2, EnqueueIs DEF FilterInv, FilterTypes
<1>4. FilterTypes'
  BY <1>1, <1>3 DEF FilterInv, FilterTypes
<1>5. ASSUME NEW t \in FilterSales, t # s PROVE Filters!Computed(t)' = Filters!Computed(t)
  BY <1>1, <1>5 DEF Filters!Computed, Filters!SaleState, FilterInv, FilterTypes
<1> QED BY <1>1, <1>2, <1>4, <1>5, EnqueuedInv

LEMMA WriteOfferInv ==
  ASSUME FilterInv, NEW s \in FilterSales, Filters!WriteOffer(s)
  PROVE  FilterInv'
<1>1. /\ offer' = [offer EXCEPT ![s] = IF offer[s] = "open" THEN "invalid" ELSE "open"]
      /\ UNCHANGED <<sale, owner, filter, call, phase>>
      /\ changed' = Filters!EnqueueAll(changed, {<<"offer", s>>}, 0)
  BY DEF Filters!WriteOffer, Filters!Write
<1>2. <<"offer", s>> \in Leads(s) /\ {<<"offer", s>>} \in SUBSET FilterKeys /\ IsFiniteSet({<<"offer", s>>})
  BY SaleFacts, FS_Singleton DEF Leads
<1>3. changed' \in Seq(FilterRow)
  BY <1>1, <1>2, EnqueueIs DEF FilterInv, FilterTypes
<1>4. FilterTypes'
  BY <1>1, <1>3 DEF FilterInv, FilterTypes
<1>5. ASSUME NEW t \in FilterSales, t # s PROVE Filters!Computed(t)' = Filters!Computed(t)
  BY <1>1, <1>5 DEF Filters!Computed, Filters!SaleState, FilterInv, FilterTypes
<1>6. Filters!Computed(s) = Filters!NoFilter => Filters!Computed(s)' = Filters!NoFilter
  BY <1>1, ComputedIs DEF Filters!Computed
<1> QED BY <1>1, <1>2, <1>4, <1>5, <1>6, EnqueuedInv

LEMMA WriteAssetInv ==
  ASSUME FilterInv, NEW a \in FilterAssets, Filters!WriteAsset(a)
  PROVE  FilterInv'
<1>1. /\ owner' = [owner EXCEPT ![a] = 1 - owner[a]]
      /\ UNCHANGED <<sale, offer, filter, call, phase>>
      /\ changed' = Filters!EnqueueAll(changed, {<<"asset", a>>}, 0)
  BY DEF Filters!WriteAsset, Filters!Write
<1>2. {<<"asset", a>>} \in SUBSET FilterKeys /\ IsFiniteSet({<<"asset", a>>})
  BY FS_Singleton DEF FilterKeys, Filters!AssetKeys
<1>3. changed' \in Seq(FilterRow)
  BY <1>1, <1>2, EnqueueIs DEF FilterInv, FilterTypes
<1>4. FilterTypes'
  BY <1>1, <1>3 DEF FilterInv, FilterTypes
<1>5. ASSUME NEW s \in FilterSales, <<"asset", a>> \notin Leads(s)
      PROVE  Filters!Computed(s)' = Filters!Computed(s)
  <2>1. FilterAssetsOf[s] \subseteq FilterAssets /\ a \notin FilterAssetsOf[s]
    BY <1>5, FilterAssumption DEF Leads
  <2>2. \A b \in FilterAssetsOf[s] : owner'[b] = owner[b]
    BY <1>1, <2>1 DEF FilterInv, FilterTypes
  <2>3. [b \in FilterAssetsOf[s] |-> owner'[b]] = [b \in FilterAssetsOf[s] |-> owner[b]]
    BY <2>2
  <2>4. sale' = sale /\ offer' = offer
    BY <1>1
  <2> QED BY <2>3, <2>4 DEF Filters!Computed, Filters!SaleState
<1>6. ASSUME NEW s \in FilterSales, Filters!Computed(s) = Filters!NoFilter
      PROVE  Filters!Computed(s)' = Filters!NoFilter
  BY <1>1, <1>6, ComputedIs DEF Filters!Computed
<1> QED BY <1>1, <1>2, <1>4, <1>5, <1>6, EnqueuedInv

LEMMA KeysAreFinite ==
  ASSUME NEW L \in SUBSET FilterSales
  PROVE  IsFiniteSet({<<"sale", s>> : s \in L})
<1>1. IsFiniteSet(L)
  BY SaleFacts, FS_Subset
<1> DEFINE K == {<<"sale", s>> : s \in L}
           g == [s \in L |-> <<"sale", s>>]
<1>2. g \in Surjection(L, K)
  BY DEF Surjection
<1> HIDE DEF K, g
<1>3. IsFiniteSet(K)
  BY <1>1, <1>2, FS_Surjection
<1> QED BY <1>3 DEF K

LEMMA RefreshPricesInv == ASSUME FilterInv, Filters!RefreshPrices PROVE FilterInv'
<1> DEFINE L == {s \in FilterSales : filter[s] # Filters!NoFilter /\ filter[s].state = "listed"}
           K == {<<"sale", s>> : s \in L}
<1>1. UNCHANGED <<sale, offer, owner, filter, call, phase>> /\ changed' = Filters!EnqueueAll(changed, K, 1)
  BY DEF Filters!RefreshPrices
<1>2. K \in SUBSET FilterKeys
  BY SaleFacts
<1>3. IsFiniteSet(K)
  BY KeysAreFinite
<1> HIDE DEF K
<1>4. FilterTypes'
  BY <1>1, <1>2, <1>3, EnqueueIs DEF FilterInv, FilterTypes
<1>5. \A s \in FilterSales : Filters!Computed(s)' = Filters!Computed(s)
  BY <1>1 DEF Filters!Computed, Filters!SaleState
<1> QED BY <1>1, <1>2, <1>3, <1>4, <1>5, EnqueuedInv

-----------------------------------------------------------------------------
(* The sessions.                                                            *)

LEMMA LocksKept ==
  ASSUME Locks, NEW p \in Filters!Sessions, phase' = phase,
         \A o \in Filters!Sessions \ {p} : call'[o] = call[o],
         Free(p)' \/ (~Free(p) /\ call'[p].claimed = call[p].claimed)
  PROVE  Locks'
<1>1. \A o \in Filters!Sessions : ~Free(o)' => ~Free(o)
  BY DEF Free
<1>2. \A o \in Filters!Sessions : call'[o].claimed \subseteq call[o].claimed
  BY DEF Free, Filters!NoCall
<1>3. \A c \in FilterCommands :
       /\ call'[Filters!Normalizer(c)].claimed \subseteq Filters!OfferKeys
       /\ ~Free(Filters!Normalizer(c))' => phase'[c] = "normalizing"
  BY <1>1, <1>2, SessionFacts DEF Locks
<1>4. \A c \in FilterCommands, i \in Slots :
       /\ call'[Filters!Worker(c, i)].claimed \subseteq PartitionKeys(i)
       /\ ~Free(Filters!Worker(c, i))' => phase'[c] = "draining"
  BY <1>1, <1>2, SessionFacts DEF Locks
<1>5. ~Free(Filters!Drain)' => \A o \in Filters!Sessions : o = Filters!Drain \/ Free(o)'
  BY <1>1, SessionFacts DEF Locks
<1> QED BY <1>3, <1>4, <1>5 DEF Locks, Filters!OfferKeys, PartitionKeys

LEMMA LastsOn ==
  ASSUME NEW p, NEW s, Lasts(p, s), call'[p] = call[p], Filters!Computed(s)' = Filters!Computed(s),
         \A k \in {<<"sale", s>>} \cup Leads(s) : k \in NotHeld(changed, p) => k \in NotHeld(changed', p)
  PROVE  Lasts(p, s)'
BY DEF Lasts

\* A session claims rows: nothing leaves the queue.
LEMMA ClaimInv ==
  ASSUME FilterInv, NEW p \in Filters!Sessions, Free(p), NEW keys, Filters!Claim(p, keys),
         UNCHANGED <<sale, offer, owner, filter, phase>>, Locks'
  PROVE  FilterInv'
<1>1. call' = [call EXCEPT ![p] = [at |-> "claimed", claimed |-> keys, rows |-> <<>>]]
  BY DEF Filters!Claim
<1>2. /\ call'[p] = [at |-> "claimed", claimed |-> keys, rows |-> <<>>]
      /\ \A o \in Filters!Sessions \ {p} : call'[o] = call[o]
      /\ DOMAIN call' = Filters!Sessions /\ call' = [o \in Filters!Sessions |-> call'[o]]
  BY <1>1 DEF FilterInv, FilterTypes
<1>3. /\ changed' = [i \in DOMAIN changed |->
            IF changed[i].key \in keys THEN [changed[i] EXCEPT !.claims = changed[i].claims \cup {p}] ELSE changed[i]]
  BY DEF Filters!Claim
<1>4. changed \in Seq(FilterRow) /\ DOMAIN changed = 1..Len(changed) /\ Len(changed) \in Nat
  BY DEF FilterInv, FilterTypes
<1>5. ASSUME NEW i \in DOMAIN changed
      PROVE  /\ changed'[i] \in FilterRow /\ changed'[i].key = changed[i].key
             /\ \A o : o # p => (o \in changed'[i].claims <=> o \in changed[i].claims)
  <2>1. changed[i] \in FilterRow
    BY <1>4
  <2>2. changed'[i] = IF changed[i].key \in keys
                      THEN [changed[i] EXCEPT !.claims = changed[i].claims \cup {p}] ELSE changed[i]
    BY <1>3
  <2> QED BY <2>1, <2>2 DEF FilterRow
<1>6. DOMAIN changed' = DOMAIN changed /\ changed' \in Seq(FilterRow)
  BY <1>3, <1>4, <1>5
<1>7. KeysIn(changed') = KeysIn(changed) /\ \A o : o # p => NotHeld(changed', o) = NotHeld(changed, o)
  BY <1>5, <1>6 DEF KeysIn, NotHeld
<1>8. FilterTypes'
  BY <1>2, <1>6 DEF FilterInv, FilterTypes
<1>9. CallTypes'
  <2>1. /\ call'[p].at = "claimed"
        /\ call'[p] = [at |-> call'[p].at, claimed |-> call'[p].claimed, rows |-> call'[p].rows]
    BY <1>2
  <2>2. ASSUME NEW o \in Filters!Sessions \ {p} PROVE Free(o) <=> Free(o)'
    BY <1>2 DEF Free
  <2> QED BY <1>2, <2>1, <2>2 DEF FilterInv, CallTypes
<1>10. /\ \A s : Filters!Computed(s)' = Filters!Computed(s)
       /\ \A k : Filters!Affected(k)' = Filters!Affected(k)
  BY DEF Filters!Computed, Filters!SaleState, Filters!Affected
<1>11. RowsHeld'
  <2> SUFFICES ASSUME NEW o \in Filters!Sessions \ {p}
               PROVE  /\ call'[o].at \in {"computed", "resolved"} =>
                           DOMAIN call'[o].rows = (Filters!Affected(call[o].claimed))'
                      /\ call'[o].at = "computed" => \A s \in DOMAIN call'[o].rows : Lasts(o, s)'
                      /\ call'[o].at = "resolved" => \A s \in DOMAIN call'[o].rows : call'[o].rows[s] = <<"sale", s>>
    BY <1>2 DEF RowsHeld
  <2>1. ASSUME NEW s, Lasts(o, s) PROVE Lasts(o, s)'
    BY <1>2, <1>7, <1>10, <2>1, LastsOn
  <2> QED BY <1>2, <1>10, <2>1 DEF FilterInv, RowsHeld
<1>12. ASSUME NEW s \in FilterSales PROVE Follows(s)'
  BY <1>7, <1>10 DEF FilterInv, Follows
<1> QED BY <1>8, <1>9, <1>11, <1>12 DEF FilterInv

LEMMA IdleSession ==
  ASSUME CallTypes, NEW p \in Filters!Sessions, call[p].at # "idle"
  PROVE  ~Free(p)
BY DEF Free, Filters!NoCall

\* The recompute of a session, and the sales that a normalizer resolves.
LEMMA RecomputeInv ==
  ASSUME FilterInv, NEW p \in Filters!Sessions, NEW at \in {"computed", "resolved"}, NEW rs,
         call[p].at = "claimed",
         call' = [call EXCEPT ![p] = [at |-> at, claimed |-> call[p].claimed, rows |-> rs]],
         DOMAIN rs = Filters!Affected(call[p].claimed),
         at = "computed" => p \in Recomputing /\ \A s \in DOMAIN rs : rs[s] = Filters!Computed(s),
         at = "resolved" => p \notin Recomputing /\ \A s \in DOMAIN rs : rs[s] = <<"sale", s>>,
         UNCHANGED <<sale, offer, owner, filter, changed, phase>>
  PROVE  FilterInv'
<1>1. /\ call'[p] = [at |-> at, claimed |-> call[p].claimed, rows |-> rs]
      /\ \A o \in Filters!Sessions \ {p} : call'[o] = call[o]
      /\ DOMAIN call' = Filters!Sessions /\ call' = [o \in Filters!Sessions |-> call'[o]]
  BY DEF FilterInv, FilterTypes
<1>2. call'[p].at = at /\ call'[p].claimed = call[p].claimed /\ call'[p].rows = rs
  BY <1>1
<1>3. FilterTypes'
  BY <1>1 DEF FilterInv, FilterTypes
<1>4. CallTypes'
  <2>1. call'[p] = [at |-> call'[p].at, claimed |-> call'[p].claimed, rows |-> call'[p].rows]
    BY <1>1, <1>2
  <2>2. ASSUME NEW o \in Filters!Sessions \ {p} PROVE Free(o) <=> Free(o)'
    BY <1>1 DEF Free
  <2> QED BY <1>1, <1>2, <2>1, <2>2 DEF FilterInv, CallTypes
<1>5. Locks'
  BY <1>1, <1>2, IdleSession, LocksKept DEF FilterInv
<1>6. /\ \A s : Filters!Computed(s)' = Filters!Computed(s)
      /\ \A k : Filters!Affected(k)' = Filters!Affected(k)
  BY DEF Filters!Computed, Filters!SaleState, Filters!Affected
<1>7. RowsHeld'
  <2>1. /\ DOMAIN call'[p].rows = (Filters!Affected(call[p].claimed))'
        /\ at = "computed" => \A s \in DOMAIN call'[p].rows : Lasts(p, s)'
        /\ at = "resolved" => \A s \in DOMAIN call'[p].rows : call'[p].rows[s] = <<"sale", s>>
    <3>1. DOMAIN call'[p].rows = (Filters!Affected(call[p].claimed))'
      BY <1>2, <1>6 DEF Filters!Affected
    <3>2. ASSUME at = "computed", NEW s \in DOMAIN rs PROVE Lasts(p, s)'
      BY <1>2, <1>6, <3>2 DEF Lasts
    <3> QED BY <1>2, <3>1, <3>2
  <2>2. ASSUME NEW o \in Filters!Sessions \ {p}
        PROVE  /\ call'[o].at \in {"computed", "resolved"} =>
                    DOMAIN call'[o].rows = (Filters!Affected(call[o].claimed))'
               /\ call'[o].at = "computed" => \A s \in DOMAIN call'[o].rows : Lasts(o, s)'
               /\ call'[o].at = "resolved" => \A s \in DOMAIN call'[o].rows : call'[o].rows[s] = <<"sale", s>>
    <3>1. ASSUME NEW s, Lasts(o, s) PROVE Lasts(o, s)'
      BY <1>1, <1>6, <3>1, LastsOn
    <3>2. Filters!Affected(call[o].claimed)' = Filters!Affected(call[o].claimed)
      BY <1>1 DEF Filters!Affected
    <3> QED BY <1>1, <3>1, <3>2 DEF FilterInv, RowsHeld
  <2> QED BY <1>2, <2>1, <2>2 DEF RowsHeld
<1>8. ASSUME NEW s \in FilterSales PROVE Follows(s)'
  BY <1>6 DEF FilterInv, Follows
<1> QED BY <1>3, <1>4, <1>5, <1>7, <1>8 DEF FilterInv

\* A session that ends leaves what the others hold.
LEMMA EndedInv ==
  ASSUME FilterInv, NEW p \in Filters!Sessions, call' = [call EXCEPT ![p] = Filters!NoCall],
         changed' \in Seq(FilterRow), UNCHANGED <<sale, offer, owner, phase>>,
         \A o \in Filters!Sessions \ {p} : call[o].at \in {"computed", "resolved"} =>
           /\ Filters!Affected(call[o].claimed)' = Filters!Affected(call[o].claimed)
           /\ \A s \in DOMAIN call[o].rows : \A k \in {<<"sale", s>>} \cup Leads(s) :
                k \in NotHeld(changed, o) => k \in NotHeld(changed', o),
         \A s \in FilterSales : Follows(s)'
  PROVE  FilterInv'
<1>1. /\ call'[p] = Filters!NoCall /\ Free(p)'
      /\ \A o \in Filters!Sessions \ {p} : call'[o] = call[o]
      /\ DOMAIN call' = Filters!Sessions /\ call' = [o \in Filters!Sessions |-> call'[o]]
  BY DEF FilterInv, FilterTypes, Free
<1>2. FilterTypes'
  BY <1>1 DEF FilterInv, FilterTypes
<1>3. CallTypes'
  <2>1. call'[p].at = "idle"
        /\ call'[p] = [at |-> call'[p].at, claimed |-> call'[p].claimed, rows |-> call'[p].rows]
    BY <1>1 DEF Filters!NoCall
  <2>2. ASSUME NEW o \in Filters!Sessions \ {p} PROVE Free(o) <=> Free(o)'
    BY <1>1 DEF Free
  <2> QED BY <1>1, <2>1, <2>2 DEF FilterInv, CallTypes
<1>4. Locks'
  BY <1>1, LocksKept DEF FilterInv
<1>5. RowsHeld'
  <2> SUFFICES ASSUME NEW o \in Filters!Sessions
               PROVE  /\ call'[o].at \in {"computed", "resolved"} =>
                           DOMAIN call'[o].rows = (Filters!Affected(call[o].claimed))'
                      /\ call'[o].at = "computed" => \A s \in DOMAIN call'[o].rows : Lasts(o, s)'
                      /\ call'[o].at = "resolved" => \A s \in DOMAIN call'[o].rows : call'[o].rows[s] = <<"sale", s>>
    BY DEF RowsHeld
  <2>1. CASE o = p
    BY <1>1, <2>1 DEF Filters!NoCall
  <2>2. CASE o # p
    <3>1. \A s : Filters!Computed(s)' = Filters!Computed(s)
      BY DEF Filters!Computed, Filters!SaleState
    <3>2. ASSUME call[o].at = "computed", NEW s \in DOMAIN call[o].rows, Lasts(o, s) PROVE Lasts(o, s)'
      BY <1>1, <2>2, <3>1, <3>2, LastsOn
    <3> QED BY <1>1, <2>2, <3>2 DEF FilterInv, RowsHeld
  <2> QED BY <2>1, <2>2
<1> QED BY <1>2, <1>3, <1>4, <1>5 DEF FilterInv

LEMMA FailInv == ASSUME FilterInv, NEW p \in Filters!Sessions, Filters!Fail(p) PROVE FilterInv'
<1>1. /\ changed' = Filters!Unclaim(changed, p) /\ call' = [call EXCEPT ![p] = Filters!NoCall]
      /\ UNCHANGED <<sale, offer, owner, filter, phase>>
  BY DEF Filters!Fail
<1>2. /\ changed' \in Seq(FilterRow) /\ KeysIn(changed') = KeysIn(changed)
      /\ \A o : NotHeld(changed, o) \subseteq NotHeld(changed', o)
  BY <1>1, UnclaimIs DEF FilterInv, FilterTypes
<1>3. ASSUME NEW s \in FilterSales PROVE Follows(s)'
  BY <1>1, <1>2 DEF FilterInv, Follows, Filters!Computed, Filters!SaleState
<1>4. ASSUME NEW o \in Filters!Sessions \ {p}
      PROVE  Filters!Affected(call[o].claimed)' = Filters!Affected(call[o].claimed)
  <2>1. call'[o] = call[o]
    BY <1>1 DEF FilterInv, FilterTypes
  <2> QED BY <1>1, <2>1 DEF Filters!Affected
<1> QED BY <1>1, <1>2, <1>3, <1>4, EndedInv

LEMMA FinishInv ==
  ASSUME OneCommand, FilterInv, NEW p \in Filters!Sessions, Filters!Finish(p)
  PROVE  FilterInv'
<1> DEFINE rs == call[p].rows
<1>1. /\ call[p].at = "computed" /\ p \in Recomputing
      /\ filter' = [s \in FilterSales |-> IF s \in DOMAIN rs THEN rs[s] ELSE filter[s]]
      /\ changed' = Filters!Release(changed, p) /\ call' = [call EXCEPT ![p] = Filters!NoCall]
      /\ UNCHANGED <<sale, offer, owner, phase>>
  BY DEF Filters!Finish, Recomputing
<1>2. /\ changed' \in Seq(FilterRow)
      /\ KeysIn(changed) \ call[p].claimed \subseteq KeysIn(changed')
      /\ NotHeld(changed, p) \subseteq KeysIn(changed')
      /\ \A o : NotHeld(changed, o) \ call[p].claimed \subseteq NotHeld(changed', o)
  BY <1>1, ReleaseIs DEF FilterInv, FilterTypes
<1>3. DOMAIN rs = Filters!Affected(call[p].claimed) /\ \A s \in DOMAIN rs : Lasts(p, s)
  BY <1>1 DEF FilterInv, RowsHeld
<1>4. \A s : Filters!Computed(s)' = Filters!Computed(s)
  BY <1>1 DEF Filters!Computed, Filters!SaleState
<1>5. ASSUME NEW s \in FilterSales PROVE Follows(s)'
  <2>1. CASE s \in DOMAIN rs
    <3>1. filter'[s] = rs[s] /\ Lasts(p, s)
      BY <1>1, <1>3, <2>1
    <3> QED BY <1>2, <1>4, <3>1 DEF Lasts, Follows
  <2>2. CASE s \notin DOMAIN rs
    <3>1. filter'[s] = filter[s] /\ Follows(s)
      BY <1>1, <2>2 DEF FilterInv
    <3>2. <<"sale", s>> \notin call[p].claimed
          /\ (filter[s] # Filters!NoFilter => \A k \in Leads(s) : k \notin call[p].claimed)
      BY <1>3, <2>2, AffectedIs
    <3> QED BY <1>2, <1>4, <3>1, <3>2 DEF Follows
  <2> QED BY <2>1, <2>2
<1>6. ASSUME NEW o \in Filters!Sessions \ {p}, call[o].at \in {"computed", "resolved"}
      PROVE  /\ Filters!Affected(call[o].claimed)' = Filters!Affected(call[o].claimed)
             /\ \A s \in DOMAIN call[o].rows : \A k \in {<<"sale", s>>} \cup Leads(s) :
                  k \in NotHeld(changed, o) => k \in NotHeld(changed', o)
  <2>1. ~Free(p) /\ ~Free(o)
    BY <1>1, <1>6, IdleSession DEF FilterInv
  <2>2. p # Filters!Drain /\ o # Filters!Drain
    BY <2>1, SessionFacts DEF FilterInv, Locks
  <2>3. PICK c \in FilterCommands, i \in Slots : p = Filters!Worker(c, i)
    BY <1>1, <2>2, SessionFacts DEF Recomputing
  <2>4. phase[c] = "draining" /\ call[p].claimed \subseteq PartitionKeys(i)
    BY <2>1, <2>3 DEF FilterInv, Locks
  <2>5. \A d \in FilterCommands : o # Filters!Normalizer(d)
    BY <2>1, <2>4 DEF FilterInv, Locks, OneCommand
  <2>6. PICK d \in FilterCommands, j \in Slots : o = Filters!Worker(d, j)
    BY <2>2, <2>5, SessionFacts
  <2>7. call[o].claimed \subseteq PartitionKeys(j) /\ i # j
    BY <2>3, <2>6 DEF FilterInv, Locks, OneCommand
  <2>8. \A s \in FilterSales : \A k \in Leads(s) : k \notin call[o].claimed /\ k \notin call[p].claimed
    BY <2>4, <2>7, SaleFacts
  <2>9. call'[o] = call[o]
    BY <1>1 DEF FilterInv, FilterTypes
  <2>10. Filters!Affected(call[o].claimed) = {s \in FilterSales : <<"sale", s>> \in call[o].claimed}
    BY <2>8, AffectedIs
  <2>11. Filters!Affected(call[o].claimed)' = {s \in FilterSales : <<"sale", s>> \in call[o].claimed}
    BY <2>8, <2>9 DEF Filters!Affected, Leads
  <2>12. ASSUME NEW s \in DOMAIN call[o].rows
         PROVE  \A k \in {<<"sale", s>>} \cup Leads(s) : k \notin call[p].claimed
    <3>1. s \in FilterSales /\ <<"sale", s>> \in PartitionKeys(j)
      BY <1>6, <2>7, <2>10 DEF FilterInv, RowsHeld
    <3>2. <<"sale", s>> \notin PartitionKeys(i)
      BY <2>7, <3>1 DEF PartitionKeys
    <3> QED BY <2>4, <2>8, <3>1, <3>2
  <2> QED BY <1>2, <2>10, <2>11, <2>12
<1> QED BY <1>1, <1>2, <1>5, <1>6, EndedInv

LEMMA NormalizedInv ==
  ASSUME OneCommand, FilterInv, NEW c \in FilterCommands, Filters!Normalized(c)
  PROVE  FilterInv'
<1> DEFINE p == Filters!Normalizer(c)
           K == {call[p].rows[s] : s \in DOMAIN call[p].rows}
           more == Filters!EnqueueAll(changed, K, 0)
<1>1. /\ call[p].at = "resolved"
      /\ changed' = Filters!Release(more, p) /\ call' = [call EXCEPT ![p] = Filters!NoCall]
      /\ UNCHANGED <<sale, offer, owner, filter, phase>>
  BY DEF Filters!Normalized
<1>2. p \in Filters!Sessions
  BY SessionFacts
<1>3. /\ DOMAIN call[p].rows = Filters!Affected(call[p].claimed)
      /\ \A s \in DOMAIN call[p].rows : call[p].rows[s] = <<"sale", s>>
  BY <1>1, <1>2 DEF FilterInv, RowsHeld
<1>4. DOMAIN call[p].rows \subseteq FilterSales
  BY <1>3, AffectedIs
<1>5. K = {<<"sale", s>> : s \in DOMAIN call[p].rows}
  BY <1>3
<1>6. K \in SUBSET FilterKeys /\ IsFiniteSet(K)
  BY <1>4, <1>5, SaleFacts, KeysAreFinite
<1> HIDE DEF K
<1>7. /\ more \in Seq(FilterRow) /\ KeysIn(changed) \cup K \subseteq KeysIn(more)
      /\ \A o : NotHeld(changed, o) \cup K \subseteq NotHeld(more, o)
  BY <1>6, EnqueueIs DEF FilterInv, FilterTypes
<1> HIDE DEF more, p
<1>8. /\ changed' \in Seq(FilterRow)
      /\ KeysIn(more) \ call[p].claimed \subseteq KeysIn(changed')
      /\ NotHeld(more, p) \subseteq KeysIn(changed')
      /\ \A o : NotHeld(more, o) \ call[p].claimed \subseteq NotHeld(changed', o)
  BY <1>1, <1>7, ReleaseIs
<1>9. call[p].claimed \subseteq Filters!OfferKeys
  BY DEF FilterInv, Locks, p
<1>10. ASSUME NEW s \in FilterSales PROVE Follows(s)'
  <2>1. Filters!Computed(s)' = Filters!Computed(s) /\ filter' = filter /\ Follows(s)
    BY <1>1 DEF Filters!Computed, Filters!SaleState, FilterInv
  <2>2. <<"sale", s>> \notin call[p].claimed
    BY <1>9, SaleFacts
  <2>3. ASSUME filter[s] # Filters!NoFilter, NEW k \in Leads(s), k \in KeysIn(changed), k \in call[p].claimed
        PROVE  <<"sale", s>> \in KeysIn(changed')
    <3>1. s \in DOMAIN call[p].rows
      BY <1>3, <2>3, AffectedIs
    <3> QED BY <1>5, <1>7, <1>8, <3>1
  <2> QED BY <1>7, <1>8, <2>1, <2>2, <2>3 DEF Follows
<1>11. ASSUME NEW o \in Filters!Sessions \ {p} PROVE call[o].at \notin {"computed", "resolved"}
  <2> SUFFICES ASSUME ~Free(o) PROVE FALSE
    BY IdleSession DEF FilterInv
  <2>1. ~Free(p) /\ phase[c] = "normalizing"
    BY <1>1, <1>2, IdleSession DEF FilterInv, Locks, p
  <2>2. o # Filters!Drain
    BY <1>2, <2>1, SessionFacts DEF FilterInv, Locks, p
  <2>3. \A d \in FilterCommands : o # Filters!Normalizer(d)
    BY DEF OneCommand, p
  <2>4. PICK d \in FilterCommands, i \in Slots : o = Filters!Worker(d, i)
    BY <2>2, <2>3, SessionFacts
  <2>5. phase[d] = "draining" /\ d = c
    BY <2>4 DEF FilterInv, Locks, OneCommand
  <2> QED BY <2>1, <2>5
<1> QED BY <1>1, <1>2, <1>8, <1>10, <1>11, EndedInv

LEMMA AdvanceInv ==
  ASSUME FilterInv, NEW c \in FilterCommands, Filters!Advance(c)
  PROVE  FilterInv'
<1>1. /\ UNCHANGED <<sale, offer, owner, filter, changed, call>>
      /\ \E to \in {"normalizing", "draining", "done"} : phase' = [phase EXCEPT ![c] = to]
      /\ \A d \in FilterCommands \ {c} : phase'[d] = phase[d]
  BY DEF Filters!Advance, FilterInv, FilterTypes
<1>2. \/ phase[c] = "ready"
      \/ phase[c] = "normalizing" /\ Free(Filters!Normalizer(c)) /\ phase'[c] = "draining"
      \/ phase[c] = "draining" /\ \A i \in Slots : Free(Filters!Worker(c, i))
  BY DEF Filters!Advance, FilterInv, FilterTypes, Free, Slots
<1>3. FilterTypes'
  BY <1>1 DEF FilterInv, FilterTypes
<1>4. CallTypes'
  BY <1>1 DEF FilterInv, CallTypes, Free
<1>5. ASSUME NEW d \in FilterCommands
      PROVE  /\ ~Free(Filters!Normalizer(d)) => phase'[d] = "normalizing"
             /\ \A i \in Slots : ~Free(Filters!Worker(d, i)) => phase'[d] = "draining"
  <2>1. CASE d # c
    BY <1>1, <2>1 DEF FilterInv, Locks
  <2>2. CASE d = c
    BY <1>2, <2>2 DEF FilterInv, Locks
  <2> QED BY <2>1, <2>2
<1>6. Locks'
  BY <1>1, <1>5 DEF FilterInv, Locks, Free
<1>7. RowsHeld'
  BY ZenonT(60), <1>1 DEF FilterInv, RowsHeld, Lasts, Filters!Affected, Filters!Computed, Filters!SaleState
<1>8. ASSUME NEW s \in FilterSales PROVE Follows(s)'
  BY <1>1 DEF FilterInv, Follows, Filters!Computed, Filters!SaleState
<1> QED BY <1>3, <1>4, <1>6, <1>7, <1>8 DEF FilterInv

LEMMA ClaimedLocks ==
  ASSUME FilterInv, NEW p \in Filters!Sessions, phase' = phase, NEW keys, Filters!Claim(p, keys),
         \A c \in FilterCommands : p = Filters!Normalizer(c) =>
           keys \subseteq Filters!OfferKeys /\ phase[c] = "normalizing",
         \A c \in FilterCommands, i \in Slots : p = Filters!Worker(c, i) =>
           keys \subseteq PartitionKeys(i) /\ phase[c] = "draining",
         IF p = Filters!Drain THEN \A o \in Filters!Sessions : Free(o) ELSE Free(Filters!Drain)
  PROVE  Locks'
<1>1. /\ call'[p] = [at |-> "claimed", claimed |-> keys, rows |-> <<>>]
      /\ \A o \in Filters!Sessions \ {p} : call'[o] = call[o]
  BY DEF Filters!Claim, FilterInv, FilterTypes
<1>2. call'[p].claimed = keys
  BY <1>1
<1>3. ASSUME NEW c \in FilterCommands
      PROVE  /\ call'[Filters!Normalizer(c)].claimed \subseteq Filters!OfferKeys
             /\ ~Free(Filters!Normalizer(c))' => phase'[c] = "normalizing"
  BY <1>1, <1>2, SessionFacts DEF FilterInv, Locks, Free
<1>4. ASSUME NEW c \in FilterCommands, NEW i \in Slots
      PROVE  /\ call'[Filters!Worker(c, i)].claimed \subseteq PartitionKeys(i)
             /\ ~Free(Filters!Worker(c, i))' => phase'[c] = "draining"
  BY <1>1, <1>2, SessionFacts DEF FilterInv, Locks, Free
<1>5. ~Free(Filters!Drain)' => \A o \in Filters!Sessions : o = Filters!Drain \/ Free(o)'
  BY <1>1, SessionFacts DEF Free
<1> QED BY <1>3, <1>4, <1>5 DEF Locks, Filters!OfferKeys, PartitionKeys

LEMMA DrainClaimsInv == ASSUME FilterInv, Filters!DrainClaims PROVE FilterInv'
<1>1. PICK keys : Filters!Claim(Filters!Drain, keys)
  BY DEF Filters!DrainClaims
<1>2. /\ \A o \in Filters!Sessions : Free(o)
      /\ UNCHANGED <<sale, offer, owner, filter, phase>>
  BY DEF Filters!DrainClaims, Filters!Busy, Free
<1>3. /\ \A c \in FilterCommands : Filters!Drain # Filters!Normalizer(c)
      /\ \A c \in FilterCommands, i \in Slots : Filters!Drain # Filters!Worker(c, i)
  BY SessionFacts
<1>4. Locks'
  BY <1>1, <1>2, <1>3, SessionFacts, ClaimedLocks
<1> QED BY <1>1, <1>2, <1>4, SessionFacts, ClaimInv

LEMMA WorkerClaimsInv ==
  ASSUME FilterInv, NEW c \in FilterCommands, NEW i \in Slots, Filters!WorkerClaims(c, i)
  PROVE  FilterInv'
<1> DEFINE p == Filters!Worker(c, i)
           keys == Filters!Batch({<<"sale", s>> : s \in {t \in FilterSales : t % FilterPartitions = i}})
<1>1. Filters!Claim(p, keys) /\ phase[c] = "draining" /\ UNCHANGED <<sale, offer, owner, filter, phase>>
  BY DEF Filters!WorkerClaims
<1>2. Free(Filters!Drain) /\ Free(p)
  BY DEF Filters!WorkerClaims, Filters!Busy, Filters!Slot, Free
<1>3. keys \subseteq PartitionKeys(i)
  BY DEF Filters!Batch, PartitionKeys
<1>4. p \in Filters!Sessions /\ p # Filters!Drain
  BY SessionFacts
<1>5. /\ \A d \in FilterCommands : p # Filters!Normalizer(d)
      /\ \A d \in FilterCommands, j \in Slots : p = Filters!Worker(d, j) => d = c /\ j = i
  BY DEF Filters!Worker, Filters!Normalizer
<1> HIDE DEF p, keys
<1>6. Locks'
  BY <1>1, <1>2, <1>3, <1>4, <1>5, ClaimedLocks
<1> QED BY <1>1, <1>2, <1>4, <1>6, ClaimInv

LEMMA NormalizerClaimsInv ==
  ASSUME FilterInv, NEW c \in FilterCommands, Filters!NormalizerClaims(c)
  PROVE  FilterInv'
<1> DEFINE p == Filters!Normalizer(c)
           keys == Filters!Batch(Filters!OfferKeys)
<1>1. Filters!Claim(p, keys) /\ phase[c] = "normalizing" /\ UNCHANGED <<sale, offer, owner, filter, phase>>
  BY DEF Filters!NormalizerClaims
<1>2. Free(Filters!Drain) /\ Free(p)
  BY DEF Filters!NormalizerClaims, Filters!Busy, Free
<1>3. keys \subseteq Filters!OfferKeys
  BY DEF Filters!Batch
<1>4. p \in Filters!Sessions /\ p # Filters!Drain
  BY SessionFacts
<1>5. /\ \A d \in FilterCommands : p = Filters!Normalizer(d) => d = c
      /\ \A d \in FilterCommands, j \in Slots : p # Filters!Worker(d, j)
  BY DEF Filters!Worker, Filters!Normalizer
<1> HIDE DEF p, keys
<1>6. Locks'
  BY <1>1, <1>2, <1>3, <1>4, <1>5, ClaimedLocks
<1> QED BY <1>1, <1>2, <1>4, <1>6, ClaimInv

LEMMA FilterStep ==
  ASSUME OneCommand, FilterInv, [Filters!Next]_(Filters!vars)
  PROVE  FilterInv'
<1>1. CASE UNCHANGED Filters!vars
  <2>1. UNCHANGED <<sale, offer, owner, filter, changed, call, phase>>
    BY <1>1 DEF Filters!vars
  <2>2. FilterTypes' /\ CallTypes' /\ Locks'
    BY ZenonT(60), <2>1 DEF FilterInv, FilterTypes, CallTypes, Locks, Free
  <2>3. /\ \A s : Filters!Computed(s)' = Filters!Computed(s)
        /\ \A k : Filters!Affected(k)' = Filters!Affected(k)
    BY <2>1 DEF Filters!Affected, Filters!Computed, Filters!SaleState
  <2>4. RowsHeld'
    BY <2>1, <2>3 DEF FilterInv, RowsHeld, Lasts
  <2>5. \A s \in FilterSales : Follows(s)'
    BY <2>1, <2>3 DEF FilterInv, Follows
  <2> QED BY <2>2, <2>4, <2>5 DEF FilterInv
<1>2. ASSUME NEW p \in Filters!Sessions, Filters!Recompute(p) PROVE FilterInv'
  <2> DEFINE rs == [s \in Filters!Affected(call[p].claimed) |-> Filters!Computed(s)]
  <2>1. DOMAIN rs = Filters!Affected(call[p].claimed) /\ \A s \in DOMAIN rs : rs[s] = Filters!Computed(s)
    OBVIOUS
  <2>2. /\ call[p].at = "claimed" /\ p \in Recomputing
        /\ call' = [call EXCEPT ![p] = [at |-> "computed", claimed |-> call[p].claimed, rows |-> rs]]
        /\ UNCHANGED <<sale, offer, owner, filter, changed, phase>>
    BY <1>2 DEF Filters!Recompute, Recomputing
  <2> HIDE DEF rs
  <2> QED BY <2>1, <2>2, RecomputeInv
<1>3. ASSUME NEW c \in FilterCommands, Filters!Resolve(c) PROVE FilterInv'
  <2> DEFINE p == Filters!Normalizer(c)
             rs == [s \in Filters!Affected(call[p].claimed) |-> <<"sale", s>>]
  <2>1. DOMAIN rs = Filters!Affected(call[p].claimed) /\ \A s \in DOMAIN rs : rs[s] = <<"sale", s>>
    OBVIOUS
  <2>2. /\ call[p].at = "claimed"
        /\ call' = [call EXCEPT ![p] = [at |-> "resolved", claimed |-> call[p].claimed, rows |-> rs]]
        /\ UNCHANGED <<sale, offer, owner, filter, changed, phase>>
    BY <1>3 DEF Filters!Resolve
  <2>3. p \in Filters!Sessions /\ p \notin Recomputing
    BY SessionFacts
  <2> HIDE DEF rs, p
  <2> QED BY <2>1, <2>2, <2>3, RecomputeInv
<1>4. CASE Filters!Next
  <2>1. \/ \E s \in FilterSales : Filters!WriteSale(s) \/ Filters!WriteOffer(s)
        \/ \E a \in FilterAssets : Filters!WriteAsset(a)
        \/ Filters!RefreshPrices \/ Filters!DrainClaims
        \/ \E p \in Filters!Sessions : Filters!Recompute(p) \/ Filters!Finish(p) \/ Filters!Fail(p)
        \/ \E c \in FilterCommands :
             \/ Filters!NormalizerClaims(c) \/ Filters!Resolve(c) \/ Filters!Normalized(c) \/ Filters!Advance(c)
             \/ \E i \in Slots : Filters!WorkerClaims(c, i)
    BY <1>4 DEF Filters!Next, Slots
  <2> QED BY <1>2, <1>3, <2>1, WriteSaleInv, WriteOfferInv, WriteAssetInv, RefreshPricesInv,
             DrainClaimsInv, FinishInv, FailInv, NormalizerClaimsInv, NormalizedInv, AdvanceInv,
             WorkerClaimsInv
<1> QED BY <1>1, <1>4

LEMMA FilterPart ==
  ASSUME DecodedNext
  PROVE  Filters!Next \/ UNCHANGED filterVars
BY Zenon DEF DecodedNext, queryVars

\* drain-sales-filters.ts:100 (part of QueriesFollowTables): one command, its
\* normalizer and the workers of its partitions, beside the drain of the filler,
\* loses no change between the claim of a call and its release, for any sales,
\* batches and writes.  The assumption is the condition that the overlap of two
\* commands breaks.
THEOREM FiltersFollowTables ==
  ASSUME OneCommand
  PROVE  DecodedSpec => []Filters!StaleFiltersAreQueued
<1>1. DecodedInit => FilterInv
  BY FilterInit DEF DecodedInit
<1>2. ASSUME FilterInv, [DecodedNext]_<<part, statsVars, abiVars, noteVars, marketVars, queryVars>>
      PROVE  FilterInv'
  <2>1. [Filters!Next]_(Filters!vars)
    BY <1>2, FilterPart DEF queryVars, filterVars, Filters!vars
  <2> QED BY <1>2, <2>1, FilterStep
<1>3. FilterInv => Filters!StaleFiltersAreQueued
  BY FollowsIs DEF FilterInv
<1> QED BY <1>1, <1>2, <1>3, PTL DEF DecodedSpec

-----------------------------------------------------------------------------
(* The configuration of the market (MarketConfigProofs).                    *)

LEMMA MarketPart ==
  ASSUME [DecodedNext]_<<part, statsVars, abiVars, noteVars, marketVars, queryVars>>
  PROVE  [Market!Next]_(Market!vars)
<1>1. [Market!Next]_marketVars
  BY Zenon DEF DecodedNext
<1> QED BY <1>1 DEF marketVars, Market!vars

LEMMA MarketInvariant == DecodedSpec => []Market!MarketInv
<1>1. DecodedInit => Market!MarketInv
  BY Market!MarketStart DEF DecodedInit, Market!MarketStart
<1>2. Market!MarketInv /\ [DecodedNext]_<<part, statsVars, abiVars, noteVars, marketVars, queryVars>>
        => Market!MarketInv'
  BY MarketPart, Market!MarketStep DEF Market!MarketStep
<1> QED BY <1>1, <1>2, PTL DEF DecodedSpec

\* legacy-bundles.ts:22: whatever the groups, branch switches and restarts, also
\* with a row of the config that was seeded while the node was ahead, a purchase
\* the contract settled is recorded as one.
THEOREM SettlementsStay == DecodedSpec => []SettlementsAreKept
<1>1. Market!MarketInv => SettlementsAreKept
  BY Market!MarketKeeps DEF Market!MarketKeeps, SettlementsAreKept
<1> QED BY <1>1, MarketInvariant, PTL

\* sales.ts:106: a sale that the contract cancelled, or dissolved at its purchase,
\* is recorded as cancelled, but for one dissolved in the very block of the flip.
THEOREM BundlesDissolve == DecodedSpec => []BundlesAreDissolved
<1>1. Market!MarketInv => BundlesAreDissolved
  BY Market!MarketKeeps DEF Market!MarketKeeps, BundlesAreDissolved
<1> QED BY <1>1, MarketInvariant, PTL

\* config.ts:94, 136: the marker of version 2 is the block of the flip on the
\* indexed branch, in the row and in memory, or unset in both.
THEOREM MarkerMarksTheFlip == DecodedSpec => []MarkerIsFlip
<1>1. Market!MarketInv => MarkerIsFlip
  BY Market!MarketKeeps DEF Market!MarketKeeps, MarkerIsFlip
<1> QED BY <1>1, MarketInvariant, PTL
=============================================================================
