----------------------------- MODULE SalesFilters -----------------------------
(***************************************************************************)
(* The filter rows of sales, the queue of what they have to follow, and the  *)
(* sessions that empty it: the filler's drain, and the command that works on *)
(* a long queue in partitions                                               *)
(* (src/definitions/migrations/{1.7.13,2.0.1}/atomicmarket.sql,              *)
(* src/src/bin/drain-sales-filters.ts).                                     *)
(*                                                                          *)
(* Every call is a transaction at READ COMMITTED: each of its statements     *)
(* sees what was committed before it.  The offer of a sale has its id.       *)
(***************************************************************************)
EXTENDS Integers, Sequences, FiniteSets, FiniteSetsExt, SequencesExt

CONSTANTS
  Sales,       \* sale_id
  Assets,      \* asset_id
  AssetsOf,    \* the assets a sale offers
  Commands,    \* invocations of the command
  Partitions,  \* --partitions
  BatchSize,   \* rows of each kind in a batch
  \* bounds
  MaxWrites, MaxRefreshes

VARIABLES
  sale,        \* atomicmarket_sales.state
  offer,       \* atomicassets_offers.state
  owner,       \* what a filter says of an asset
  filter,      \* atomicmarket_sales_filters: the row of each sale
  queue,       \* atomicmarket_sales_filters_updates, by seq
  call,        \* of each session: the call it is in
  phase,       \* of each command
  writes, refreshes   \* bounds

vars == <<sale, offer, owner, filter, queue, call, phase, writes, refreshes>>

Normalizer(c) == <<c, "normalizer", 0>>
Worker(c, i) == <<c, "worker", i>>
Drain == <<"filler", "drain", 0>>
Workers == {Worker(c, i) : c \in Commands, i \in 0..(Partitions - 1)}
Sessions == {Drain} \cup {Normalizer(c) : c \in Commands} \cup Workers

\* claimed: the rows the call has read, with their seq; rows: what it has written.
NoCall == [at |-> "idle", claimed |-> {}, rows |-> <<>>]
NoFilter == <<>>

Init ==
  /\ sale = [s \in Sales |-> "none"] /\ offer = [s \in Sales |-> "open"]
  /\ owner = [a \in Assets |-> 0] /\ filter = [s \in Sales |-> NoFilter]
  /\ queue = <<>> /\ call = [p \in Sessions |-> NoCall]
  /\ phase = [c \in Commands |-> "ready"] /\ writes = 0 /\ refreshes = 0

-----------------------------------------------------------------------------
(* The queue: one row for each key, with the claims that hold its seq.       *)

Row(key, prio) == [key |-> key, prio |-> prio, claims |-> {}]
Keys == {queue[i].key : i \in DOMAIN queue}

\* The rows at some places of a queue, in their order.
Nth(S, n) == CHOOSE i \in S : Cardinality({j \in S : j <= i}) = n
Rows(q, S) == [n \in 1..Cardinality(S) |-> q[Nth(S, n)]]

\* INSERT ... ON CONFLICT DO UPDATE SET seq = nextval(...): a new place, and
\* no claim holds it any more.  A fast row is never put in the slow lane.
Lane(q, key, prio) == Min({prio} \cup {q[i].prio : i \in {j \in DOMAIN q : q[j].key = key}})
EnqueueAll(q, keys, prio) ==
  Rows(q, {i \in DOMAIN q : q[i].key \notin keys})
    \o [n \in 1..Cardinality(keys) |->
          Row(SetToSeq(keys)[n], Lane(q, SetToSeq(keys)[n], prio))]

\* SELECT ... ORDER BY prio, seq LIMIT batch_size.
Sooner(i, j) == queue[i].prio < queue[j].prio \/ (queue[i].prio = queue[j].prio /\ i < j)
Batch(wanted) ==
  LET open == {i \in DOMAIN queue : queue[i].key \in wanted}
  IN  {queue[i].key : i \in {j \in open : Cardinality({k \in open : Sooner(k, j)}) < BatchSize}}

Claim(p, keys) ==
  /\ queue' = [i \in DOMAIN queue |->
       IF queue[i].key \in keys THEN [queue[i] EXCEPT !.claims = @ \cup {p}] ELSE queue[i]]
  /\ call' = [call EXCEPT ![p] = [at |-> "claimed", claimed |-> keys, rows |-> <<>>]]

\* DELETE ... WHERE u.seq = d.seq, and the end of the call: its claims go with it.
Unclaim(q, p) == [i \in DOMAIN q |-> [q[i] EXCEPT !.claims = @ \ {p}]]
\* (ReleaseAll: a faulty variant that deletes by key.)
ReleaseAll(q, p) == Unclaim(Rows(q, {i \in DOMAIN q : q[i].key \notin call[p].claimed}), p)
Release(q, p) ==
  Unclaim(Rows(q, {i \in DOMAIN q : ~(q[i].key \in call[p].claimed /\ p \in q[i].claims)}), p)

SaleKeys == {<<"sale", s>> : s \in Sales}
OfferKeys == {<<"offer", s>> : s \in Sales}
AssetKeys == {<<"asset", a>> : a \in Assets}

-----------------------------------------------------------------------------
(* The blocks: every write fires the trigger of its table.                  *)

Write(keys) ==
  /\ writes < MaxWrites /\ writes' = writes + 1
  /\ queue' = EnqueueAll(queue, keys, 0)
  /\ UNCHANGED <<filter, call, phase, refreshes>>

\* A sale is listed, sold or cancelled, or a rollback puts it back.
WriteSale(s) ==
  /\ \E state \in IF sale[s] = "listed" THEN {"none", "sold", "cancelled"} ELSE {"listed"} :
       sale' = [sale EXCEPT ![s] = state]
  /\ UNCHANGED <<offer, owner>> /\ Write({<<"sale", s>>})

WriteOffer(s) ==
  /\ offer' = [offer EXCEPT ![s] = IF @ = "open" THEN "invalid" ELSE "open"]
  /\ UNCHANGED <<sale, owner>> /\ Write({<<"offer", s>>})

WriteAsset(a) ==
  /\ owner' = [owner EXCEPT ![a] = 1 - @]
  /\ UNCHANGED <<sale, offer>> /\ Write({<<"asset", a>>})

\* refresh_atomicmarket_sales_filters_price, one slice: the listed sales, slowly.
RefreshPrices ==
  /\ refreshes < MaxRefreshes /\ refreshes' = refreshes + 1
  /\ LET listed == {s \in Sales : filter[s] # NoFilter /\ filter[s].state = "listed"}
     IN  queue' = EnqueueAll(queue, {<<"sale", s>> : s \in listed}, 1)
  /\ UNCHANGED <<sale, offer, owner, filter, call, phase, writes>>

-----------------------------------------------------------------------------
(* The recompute.                                                           *)

\* atomicmarket_get_sale_state
SaleState(s) ==
  IF sale[s] = "listed" /\ offer[s] # "open" THEN "invalid" ELSE sale[s]

\* The row a sale should have: none if it is cancelled.
Computed(s) ==
  IF sale[s] \in {"none", "cancelled"} THEN NoFilter
  ELSE [state |-> SaleState(s), owners |-> [a \in AssetsOf[s] |-> owner[a]]]

\* The sales that claimed rows are about.  Those of an asset or an offer are
\* the ones whose filter row names it.
Affected(keys) ==
  {s \in Sales : \/ <<"sale", s>> \in keys
                 \/ /\ filter[s] # NoFilter
                    /\ <<"offer", s>> \in keys \/ \E a \in AssetsOf[s] : <<"asset", a>> \in keys}

Recompute(p) ==
  /\ call[p].at = "claimed" /\ p \in Workers \cup {Drain}
  /\ call' = [call EXCEPT ![p] = [at |-> "computed", claimed |-> call[p].claimed,
                                  rows |-> [s \in Affected(call[p].claimed) |-> Computed(s)]]]
  /\ UNCHANGED <<sale, offer, owner, filter, queue, phase, writes, refreshes>>

\* The release, and the COMMIT of the call.
Finish(p) ==
  /\ call[p].at = "computed" /\ p \in Workers \cup {Drain}
  /\ filter' = [s \in Sales |-> IF s \in DOMAIN call[p].rows THEN call[p].rows[s] ELSE filter[s]]
  /\ queue' = Release(queue, p) /\ call' = [call EXCEPT ![p] = NoCall]
  /\ UNCHANGED <<sale, offer, owner, phase, writes, refreshes>>

\* The statement timeout, a lost connection: ROLLBACK.
Fail(p) ==
  /\ call[p] # NoCall
  /\ queue' = Unclaim(queue, p) /\ call' = [call EXCEPT ![p] = NoCall]
  /\ UNCHANGED <<sale, offer, owner, filter, phase, writes, refreshes>>

-----------------------------------------------------------------------------
(* The locks: try-locks on the drain's key, exclusive for the drain of the   *)
(* filler and shared for the command, and one for each kind of its calls.    *)

Busy(ps) == \E p \in ps : call[p] # NoCall

DrainClaims ==
  /\ ~Busy(Sessions)
  /\ Claim(Drain, Batch(AssetKeys) \cup Batch(SaleKeys) \cup Batch(OfferKeys))
  /\ call'[Drain].claimed # {}
  /\ UNCHANGED <<sale, offer, owner, filter, phase, writes, refreshes>>

\* update_atomicmarket_sales_filters_partition
Slot(i) == {Worker(c, i) : c \in Commands}
WorkerClaims(c, i) ==
  /\ phase[c] = "draining" /\ ~Busy({Drain} \cup Slot(i))
  /\ Claim(Worker(c, i), Batch({<<"sale", s>> : s \in {t \in Sales : t % Partitions = i}}))
  /\ call'[Worker(c, i)].claimed # {}
  /\ UNCHANGED <<sale, offer, owner, filter, phase, writes, refreshes>>

\* normalize_atomicmarket_sales_filters_offers: the claim, the sales these
\* offers resolve to, and the release.
NormalizerClaims(c) ==
  /\ phase[c] = "normalizing" /\ ~Busy({Drain} \cup {Normalizer(d) : d \in Commands})
  /\ Claim(Normalizer(c), Batch(OfferKeys))
  /\ call'[Normalizer(c)].claimed # {}
  /\ UNCHANGED <<sale, offer, owner, filter, phase, writes, refreshes>>

Resolve(c) ==
  LET p == Normalizer(c)
  IN /\ call[p].at = "claimed"
     /\ call' = [call EXCEPT ![p] = [at |-> "resolved", claimed |-> call[p].claimed,
                                     rows |-> [s \in Affected(call[p].claimed) |-> <<"sale", s>>]]]
     /\ UNCHANGED <<sale, offer, owner, filter, queue, phase, writes, refreshes>>

Normalized(c) ==
  LET p == Normalizer(c)
  IN /\ call[p].at = "resolved"
     /\ queue' = Release(EnqueueAll(queue, {call[p].rows[s] : s \in DOMAIN call[p].rows}, 0), p)
     /\ call' = [call EXCEPT ![p] = NoCall]
     /\ UNCHANGED <<sale, offer, owner, filter, phase, writes, refreshes>>

-----------------------------------------------------------------------------
(* The command: the offers first, unless it skips them, then a worker for    *)
(* each partition.  It goes on when nothing is left, or after retries.       *)

Advance(c) ==
  /\ \/ phase[c] = "ready" /\ phase' = [phase EXCEPT ![c] = "normalizing"]
     \/ phase[c] \in {"ready", "normalizing"} /\ call[Normalizer(c)] = NoCall
        /\ phase' = [phase EXCEPT ![c] = "draining"]
     \/ phase[c] = "draining" /\ (\A i \in 0..(Partitions - 1) : call[Worker(c, i)] = NoCall)
        /\ phase' = [phase EXCEPT ![c] = "done"]
  /\ UNCHANGED <<sale, offer, owner, filter, queue, call, writes, refreshes>>

Next ==
  \/ \E s \in Sales : WriteSale(s) \/ WriteOffer(s)
  \/ \E a \in Assets : WriteAsset(a)
  \/ RefreshPrices \/ DrainClaims
  \/ \E p \in Sessions : Recompute(p) \/ Finish(p) \/ Fail(p)
  \/ \E c \in Commands : \/ NormalizerClaims(c) \/ Resolve(c) \/ Normalized(c) \/ Advance(c)
                         \/ \E i \in 0..(Partitions - 1) : WorkerClaims(c, i)

Spec == Init /\ [][Next]_vars

-----------------------------------------------------------------------------
\* A sale whose filter row is not what its tables say is still in the queue,
\* by itself, or by its offer or an asset when the row that leads from them to
\* the sale is there: no change is lost between the claim of a call and its
\* release, whoever else is draining.
Queued(s) ==
  \/ <<"sale", s>> \in Keys
  \/ filter[s] # NoFilter /\ (<<"offer", s>> \in Keys \/ \E a \in AssetsOf[s] : <<"asset", a>> \in Keys)

StaleFiltersAreQueued == \A s \in Sales : filter[s] = Computed(s) \/ Queued(s)
=============================================================================
