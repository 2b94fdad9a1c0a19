----------------------------- MODULE StatsMarkets -----------------------------
(***************************************************************************)
(* The queue of listings whose atomicmarket_stats_markets row is out of      *)
(* date, between the block writer, whose triggers fill it, and the drains    *)
(* that empty it in batches                                                 *)
(* (src/definitions/migrations/2.0.10/atomicmarket.sql).                     *)
(*                                                                          *)
(* A statement reads what is committed when it starts (READ COMMITTED); a    *)
(* row another transaction has written is locked until that one ends.        *)
(***************************************************************************)
EXTENDS Integers, Sequences, FiniteSets

CONSTANTS
  Listings,
  Auctions,    \* the listings that count once their end_time has passed
  Prices,
  Drains,      \* sessions that may call update_atomicmarket_stats_market()
  BatchSize,
  EndTimes,    \* of an auction
  MaxTime,     \* bound: wall clock
  MaxWrites,   \* bound: listings written
  Lag,         \* a block is committed at least that long after its block time
  Delay        \* from BEGIN to the claim of a batch

ASSUME StatsAssumption ==
  /\ Auctions \subseteq Listings /\ IsFiniteSet(Listings)
  /\ BatchSize \in Nat \ {0} /\ EndTimes \subseteq Nat \ {0}
  /\ {MaxTime, MaxWrites, Lag, Delay} \subseteq Nat

VARIABLES
  listing,    \* the committed market tables
  queue,      \* the committed queue: row -> seq
  stats,      \* the committed atomicmarket_stats_markets
  blockTime,  \* contract_readers.block_time
  now,        \* the wall clock
  seq,        \* the sequence, which no rollback resets
  writer,     \* the block writer's transaction
  drain,      \* each drain's transaction
  writes      \* bound

vars == <<listing, queue, stats, blockTime, now, seq, writer, drain, writes>>

\* What the triggers and the recompute read of a listing.  sold stands for the
\* states that count: a sale or offer accepted, an auction with a bid.
Gone == [sold |-> FALSE, price |-> CHOOSE p \in Prices : TRUE, end |-> 0]
Values(l) == [sold : BOOLEAN, price : Prices, end : IF l \in Auctions THEN EndTimes ELSE {0}]

\* The stats row of a listing as of time t.
NoRow == "no row"
Counts(v, t) == v.sold /\ v.end < t
Resolved(v, t) == IF Counts(v, t) THEN v.price ELSE NoRow

\* The dedup key of the queue: the listing and when the row falls due.
Row == [listing : Listings, at : EndTimes \cup {0}]
RowAt(l, at) == [listing |-> l, at |-> at]

Quiet == [listing |-> <<>>, queue |-> <<>>, todo |-> <<>>]
Idle == [at |-> "idle", start |-> 0, claimed |-> {}, resolved |-> <<>>, gone |-> {}]

\* (The prover has no definition of the operators of TLC for these two.)
Put(f, key, value) == [k \in DOMAIN f \cup {key} |-> IF k = key THEN value ELSE f[k]]
Over(f, g) == [k \in DOMAIN f \cup DOMAIN g |-> IF k \in DOMAIN f THEN f[k] ELSE g[k]]

Init ==
  /\ listing = [l \in Listings |-> Gone] /\ queue = <<>>
  /\ stats = [l \in Listings |-> NoRow]
  /\ blockTime = 0 /\ now = Lag + 1 /\ seq = 0 /\ writes = 0
  /\ writer = Quiet /\ drain = [d \in Drains |-> Idle]

LockedByWriter(r) == r \in DOMAIN writer.queue
LockedByDrain(r) == \E d \in Drains : r \in drain[d].gone

-----------------------------------------------------------------------------
(* The block writer.                                                        *)

\* The triggers: a row due at once and, for an auction that still exists, one
\* due at its end.  (EnqueuedOnce: a faulty variant without the second row.)
EnqueuedOnce(l, old, new) == IF old.sold \/ new.sold THEN <<RowAt(l, 0)>> ELSE <<>>
Enqueued(l, old, new) ==
  IF ~(old.sold \/ new.sold) THEN <<>>
  ELSE IF l \in Auctions /\ new # Gone THEN <<RowAt(l, 0), RowAt(l, new.end)>>
       ELSE <<RowAt(l, 0)>>

Seen(l) == IF l \in DOMAIN writer.listing THEN writer.listing[l] ELSE listing[l]

\* A handler, or the undo of a fork, writes a listing.
WriteListing(l, new) ==
  /\ writer.todo = <<>> /\ writes < MaxWrites /\ writes' = writes + 1
  /\ new # Seen(l)
  /\ writer' = [writer EXCEPT !.listing = Put(@, l, new), !.todo = Enqueued(l, Seen(l), new)]
  /\ UNCHANGED <<listing, queue, stats, blockTime, now, seq, drain>>

\* INSERT ... ON CONFLICT DO UPDATE SET seq waits for a row that is being
\* released.
BumpSeq(r) == seq + 1
Enqueue ==
  /\ writer.todo # <<>> /\ ~LockedByDrain(Head(writer.todo))
  /\ seq' = seq + 1
  /\ writer' = [writer EXCEPT !.queue = Put(@, Head(writer.todo), BumpSeq(Head(writer.todo))),
                              !.todo = Tail(@)]
  /\ UNCHANGED <<listing, queue, stats, blockTime, now, drain, writes>>

CommitBlock ==
  /\ writer.todo = <<>>
  /\ \E t \in blockTime..now - Lag : blockTime' = t
  /\ listing' = [l \in Listings |-> Seen(l)]
  /\ queue' = Over(writer.queue, queue)
  /\ writer' = Quiet
  /\ UNCHANGED <<stats, now, seq, drain, writes>>

AbortBlock ==
  /\ writer # Quiet /\ writer' = Quiet
  /\ UNCHANGED <<listing, queue, stats, blockTime, now, seq, drain, writes>>

-----------------------------------------------------------------------------
(* A drain, one batch in one transaction.                                   *)

Set(d, tx) == drain' = [drain EXCEPT ![d] = tx]

BeginBatch(d) ==
  /\ drain[d].at = "idle"
  /\ Set(d, [Idle EXCEPT !.at = "begun", !.start = now])
  /\ UNCHANGED <<listing, queue, stats, blockTime, now, seq, writer, writes>>

Due == {r \in DOMAIN queue : r.at <= blockTime}
IsBatch(rows) ==
  /\ rows \subseteq Due
  /\ Cardinality(rows) = IF Cardinality(Due) < BatchSize THEN Cardinality(Due) ELSE BatchSize
  /\ \A r \in rows, s \in Due \ rows : queue[r] < queue[s]

\* pg_try_advisory_xact_lock: an overlapping batch ends at once.
\* (NeverHeld: a faulty variant without the lock.)
NeverHeld(d) == FALSE
HeldByOther(d) == \E e \in Drains \ {d} : drain[e].at \in {"claimed", "resolved"}

Claim(d) ==
  /\ drain[d].at = "begun"
  /\ IF HeldByOther(d) THEN Set(d, Idle)
     ELSE \E rows \in SUBSET Due :
            /\ IsBatch(rows)
            /\ Set(d, [drain[d] EXCEPT !.at = "claimed", !.claimed = {[row |-> r, seq |-> queue[r]] : r \in rows}])
  /\ UNCHANGED <<listing, queue, stats, blockTime, now, seq, writer, writes>>

\* The recompute.  now() is the time the transaction began.
Resolve(d) ==
  /\ drain[d].at = "claimed"
  /\ LET keys == {c.row.listing : c \in drain[d].claimed}
     IN  Set(d, [drain[d] EXCEPT !.at = "resolved",
                                 !.resolved = [l \in keys |-> Resolved(listing[l], drain[d].start)]])
  /\ UNCHANGED <<listing, queue, stats, blockTime, now, seq, writer, writes>>

\* The release deletes a claimed row, once no other transaction has it locked,
\* if its seq is still the claimed one.
\* (Unguarded: a faulty variant without the comparison.)
Unguarded(c) == TRUE
SeqUnchanged(c) == queue[c.row] = c.seq
Release(d) ==
  /\ drain[d].at = "resolved"
  /\ \E c \in drain[d].claimed :
        /\ ~LockedByWriter(c.row) /\ \A e \in Drains \ {d} : c.row \notin drain[e].gone
        /\ Set(d, [drain[d] EXCEPT !.claimed = @ \ {c},
                      !.gone = IF c.row \in DOMAIN queue /\ SeqUnchanged(c) THEN @ \cup {c.row} ELSE @])
  /\ UNCHANGED <<listing, queue, stats, blockTime, now, seq, writer, writes>>

CommitBatch(d) ==
  /\ drain[d].at = "resolved" /\ drain[d].claimed = {}
  /\ stats' = Over(drain[d].resolved, stats)
  /\ queue' = [r \in DOMAIN queue \ drain[d].gone |-> queue[r]]
  /\ Set(d, Idle)
  /\ UNCHANGED <<listing, blockTime, now, seq, writer, writes>>

\* A timeout, a lost connection, or the victim of a deadlock.
AbortBatch(d) ==
  /\ drain[d].at \in {"claimed", "resolved"} /\ Set(d, Idle)
  /\ UNCHANGED <<listing, queue, stats, blockTime, now, seq, writer, writes>>

Tick ==
  /\ now < MaxTime /\ now' = now + 1
  /\ \A d \in Drains : drain[d].at = "begun" => now < drain[d].start + Delay
  /\ UNCHANGED <<listing, queue, stats, blockTime, seq, writer, drain, writes>>

-----------------------------------------------------------------------------
Write == \E l \in Listings : \E new \in Values(l) \cup {Gone} : WriteListing(l, new)
Batch(d) == BeginBatch(d) \/ Claim(d) \/ Resolve(d) \/ Release(d) \/ CommitBatch(d)

Next ==
  \/ Write \/ Enqueue \/ CommitBlock \/ AbortBlock \/ Tick
  \/ \E d \in Drains : Batch(d) \/ AbortBatch(d)

Spec == Init /\ [][Next]_vars

-----------------------------------------------------------------------------
TypeOK ==
  /\ listing \in [Listings -> UNION {Values(l) \cup {Gone} : l \in Listings}]
  /\ DOMAIN queue \subseteq Row /\ \A r \in DOMAIN queue : queue[r] \in 1..seq
  /\ stats \in [Listings -> Prices \cup {NoRow}]
  /\ now \in Nat /\ blockTime \in 0..now /\ seq \in Nat /\ writes \in 0..MaxWrites
  /\ \A d \in Drains : drain[d].gone \subseteq DOMAIN queue

\* 2.0.10:238: no change is lost.  A listing whose stats row is not what the
\* recompute would give has a queue row that will bring it about, whichever way
\* blocks and batches interleave and whoever aborts.
StaleIsQueued ==
  \A l \in Listings :
    stats[l] # Resolved(listing[l], now) =>
      {RowAt(l, 0), RowAt(l, listing[l].end)} \cap DOMAIN queue # {}

\* 2.0.10:380, WHY THE DEDUP KEY CARRIES refresh_at: an auction that will count
\* later is not forgotten before its end.
FutureIsQueued ==
  \A l \in Listings :
    listing[l].sold /\ listing[l].end >= now => RowAt(l, listing[l].end) \in DOMAIN queue
=============================================================================
