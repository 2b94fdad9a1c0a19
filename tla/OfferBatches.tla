----------------------------- MODULE OfferBatches -----------------------------
(***************************************************************************)
(* What a commit of the block pipeline does with the actions of a group of  *)
(* blocks: DataProcessor.executeHeadQueue() runs the jobs of the whole      *)
(* group by priority, not in chain order, then the priority and the commit  *)
(* listeners (src/src/filler/processor.ts), here with the handlers of       *)
(* AtomicAssets for assets, backed tokens and offers                        *)
(* (src/src/filler/handlers/atomicassets/processors/{assets,offers}.ts).    *)
(*                                                                          *)
(* The chain holds the AtomicAssets ledger; a block carries one action of   *)
(* it (a block of several is a group that commits at once).  Blocks that    *)
(* carry none are left out.  Forks are those of StateReceiver.              *)
(***************************************************************************)
EXTENDS Integers, FiniteSets, Sequences, SequencesExt, TLC

CONSTANTS
  Users, Assets, Offers,
  Nobody,          \* the owner of no asset, and no offer
  DbGroupBlocks,   \* readers.config db_group_blocks
  \* bounds
  MaxBlocks, MaxBacked, MaxCrashes

VARIABLES
  ledger,    \* the contract's state after the newest block
  pending,   \* the blocks above the checkpoint
  rows,      \* the committed tables
  position,  \* contract_readers.block_num
  read,      \* the last block the running process has committed
  mode,      \* processor.getState()
  crashes    \* crashes so far (bound)

vars == <<ledger, pending, rows, position, read, mode, crashes>>

Tip == position + Len(pending)

(***************************************************************************)
(* The traces the handlers listen to.  assets and asks are the sender's and *)
(* the recipient's side of an offer.                                        *)
(***************************************************************************)
Trace(name, from, to, assets, asks, offer) ==
  [name |-> name, from |-> from, to |-> to, assets |-> assets, asks |-> asks,
   offer |-> offer]

Party == Users \cup {Nobody}

Traces == [name: {"logmint", "logtransfer", "logburnasset", "logbackasset",
                  "lognewoffer", "acceptoffer", "declineoffer", "canceloffer"},
           from: Party, to: Party, assets: SUBSET Assets, asks: SUBSET Assets,
           offer: Offers \cup {Nobody}]

States == {"PENDING", "INVALID", "ACCEPTED", "DECLINED", "CANCELLED"}
NoOffer == [state |-> "none", updated |-> 0]

TypeOK ==
  /\ ledger \in [owner: [Assets -> Party \cup {"unminted"}],
                 backed: [Assets -> 0..MaxBacked],
                 offers: [Offers -> [state: {"none", "open"} \cup States, from: Party,
                          to: Party, assets: SUBSET Assets, asks: SUBSET Assets]]]
  /\ pending \in Seq(Seq(Traces))
  /\ rows.owner \in [Assets -> Party \cup {"unminted"}]
  /\ rows.backed \in [Assets -> Nat]
  /\ rows.offers \in [Offers -> [state: States, updated: 1..MaxBlocks] \cup {NoOffer}]
  /\ rows.offerAssets \subseteq [offer: Offers, asset: Assets, owner: Users]
  /\ position \in 0..MaxBlocks /\ read \in position..Tip
  /\ mode \in {"CATCHUP", "HEAD"}
  /\ crashes \in 0..MaxCrashes

Init ==
  /\ ledger = [owner |-> [a \in Assets |-> "unminted"], backed |-> [a \in Assets |-> 0],
               offers |-> [o \in Offers |-> [state |-> "none", from |-> Nobody,
                             to |-> Nobody, assets |-> {}, asks |-> {}]]]
  /\ rows = [owner |-> ledger.owner, backed |-> ledger.backed,
             offers |-> [o \in Offers |-> NoOffer], offerAssets |-> {}]
  /\ pending = <<>> /\ position = 0 /\ read = 0 /\ mode = "CATCHUP" /\ crashes = 0

-----------------------------------------------------------------------------
(* The contract (external).  An offer is created and accepted only while    *)
(* both sides own what they give.                                           *)

Holds(u, S) == \A a \in S : ledger.owner[a] = u
Given(S, u) == [a \in Assets |-> IF a \in S THEN u ELSE ledger.owner[a]]

\* A block with these traces joins the chain.
Mined(traces) ==
  /\ Tip < MaxBlocks /\ Tip - read < DbGroupBlocks
  /\ pending' = Append(pending, traces)
  /\ UNCHANGED <<rows, position, read, mode, crashes>>

Mint ==
  \E a \in Assets, u \in Users :
    /\ ledger.owner[a] = "unminted"
    /\ ledger' = [ledger EXCEPT !.owner[a] = u]
    /\ Mined(<<Trace("logmint", Nobody, u, {a}, {}, Nobody)>>)

Transfer ==
  \E S \in SUBSET Assets \ {{}}, u, v \in Users :
    /\ u # v /\ Holds(u, S)
    /\ ledger' = [ledger EXCEPT !.owner = Given(S, v)]
    /\ Mined(<<Trace("logtransfer", u, v, S, {}, Nobody)>>)

Burn ==
  \E a \in Assets, u \in Users :
    /\ ledger.owner[a] = u
    /\ ledger' = [ledger EXCEPT !.owner[a] = Nobody]
    /\ Mined(<<Trace("logburnasset", u, Nobody, {a}, {}, Nobody)>>)

Back ==
  \E a \in Assets, u \in Users :
    /\ ledger.owner[a] = u /\ ledger.backed[a] < MaxBacked
    /\ ledger' = [ledger EXCEPT !.backed[a] = @ + 1]
    /\ Mined(<<Trace("logbackasset", u, Nobody, {a}, {}, Nobody)>>)

CreateOffer ==
  \E o \in Offers, u, v \in Users, S, R \in SUBSET Assets :
    /\ ledger.offers[o].state = "none"
    /\ u # v /\ S \cup R # {} /\ Holds(u, S) /\ Holds(v, R)
    /\ ledger' = [ledger EXCEPT !.offers[o] =
                    [state |-> "open", from |-> u, to |-> v, assets |-> S, asks |-> R]]
    /\ Mined(<<Trace("lognewoffer", u, v, S, R, o)>>)

AcceptOffer ==
  \E o \in Offers :
    LET f == ledger.offers[o]
        give(S, u, v) == IF S = {} THEN <<>>
                         ELSE <<Trace("logtransfer", u, v, S, {}, Nobody)>>
    IN  /\ f.state = "open" /\ Holds(f.from, f.assets) /\ Holds(f.to, f.asks)
        /\ ledger' = [ledger EXCEPT
             !.offers[o].state = "ACCEPTED",
             !.owner = [a \in Assets |-> IF a \in f.assets THEN f.to
                                         ELSE IF a \in f.asks THEN f.from ELSE @[a]]]
        /\ Mined(<<Trace("acceptoffer", Nobody, Nobody, {}, {}, o)>>
                 \o give(f.assets, f.from, f.to) \o give(f.asks, f.to, f.from))

CloseOffer ==
  \E o \in Offers, close \in {[name |-> "declineoffer", state |-> "DECLINED"],
                              [name |-> "canceloffer", state |-> "CANCELLED"]} :
    /\ ledger.offers[o].state = "open"
    /\ ledger' = [ledger EXCEPT !.offers[o].state = close.state]
    /\ Mined(<<Trace(close.name, Nobody, Nobody, {}, {}, o)>>)

-----------------------------------------------------------------------------
(* A group of blocks in the open transaction: the tables as its statements  *)
(* see them, what the handlers keep in memory until their listener runs     *)
(* (tableInserts, transferredAssets, newestMoveBlock), and whether a        *)
(* statement has been sent (inTransaction).                                 *)

Opened == [rows |-> rows, mints |-> <<>>, moved |-> {}, newest |-> 0, begun |-> FALSE]

\* AtomicAssetsUpdatePriority
INDEPENDENT == 10
MINT_ASSET == 50
UPDATE_ASSET == 60
CREATE_OFFER == 80
UPDATE_OFFER == 90
Priorities == <<INDEPENDENT, MINT_ASSET, UPDATE_ASSET, CREATE_OFFER, UPDATE_OFFER>>

\* The priorities of the listeners that take a trace.
Listeners(t) ==
  CASE t.name = "logmint" -> {MINT_ASSET}
    [] t.name \in {"logtransfer", "logburnasset"} -> {INDEPENDENT, UPDATE_ASSET}
    [] t.name = "logbackasset" -> {UPDATE_ASSET}
    [] t.name = "lognewoffer" -> {CREATE_OFFER}
    [] OTHER -> {UPDATE_OFFER}

\* offers.ts notes which assets of the group moved, and its newest move.
\* (RecordFirstMove: a faulty variant, the oldest one is kept.)
RecordFirstMove(b, t) ==
  [b EXCEPT !.moved = @ \cup t.assets, !.newest = IF @ = 0 THEN t.block ELSE @]
RecordMove(b, t) ==
  [b EXCEPT !.moved = @ \cup t.assets, !.newest = IF t.block > @ THEN t.block ELSE @]

LogMint(b, t) == [b EXCEPT !.mints = Append(@, t)]

\* The rows of the minted assets are upserted when the last mint has run.
FlushMints(b) ==
  LET upsert(r, t) == [r EXCEPT !.owner = [a \in Assets |-> IF a \in t.assets THEN t.to ELSE @[a]]]
  IN  [b EXCEPT !.rows = FoldLeft(upsert, @, b.mints), !.mints = <<>>]

LogTransfer(b, t) ==
  [b EXCEPT !.begun = TRUE,
            !.rows.owner = [a \in Assets |->
               IF a \in t.assets /\ @[a] = t.from THEN t.to ELSE @[a]]]

\* The update matches no row of an asset that has none.
LogBurnAsset(b, t) ==
  [b EXCEPT !.rows.owner = [a \in Assets |->
     IF a \in t.assets /\ @[a] # "unminted" THEN Nobody ELSE @[a]]]

\* The amount is read, added to and written back.
LogBackAsset(b, t) ==
  [b EXCEPT !.begun = TRUE,
            !.rows.backed = [a \in Assets |-> IF a \in t.assets THEN @[a] + 1 ELSE @[a]]]

LogNewOffer(b, t) ==
  [b EXCEPT
     !.rows.offers[t.offer] = [state |-> "PENDING", updated |-> t.block],
     !.rows.offerAssets = {x \in @ : ~(x.offer = t.offer /\ x.asset \in t.assets \cup t.asks)}
        \cup [offer: {t.offer}, asset: t.assets, owner: {t.from}]
        \cup [offer: {t.offer}, asset: t.asks, owner: {t.to}]]

SetOffer(b, t, state) ==
  [b EXCEPT !.rows.offers[t.offer] = IF @ = NoOffer THEN @
                                     ELSE [state |-> state, updated |-> t.block]]

Run(b, job) ==
  LET t == job.trace
  IN  IF job.priority = INDEPENDENT THEN RecordMove(b, t)
      ELSE CASE t.name = "logmint" -> LogMint(b, t)
             [] t.name = "logtransfer" -> LogTransfer(b, t)
             [] t.name = "logburnasset" -> LogBurnAsset(b, t)
             [] t.name = "logbackasset" -> LogBackAsset(b, t)
             [] t.name = "lognewoffer" -> LogNewOffer(b, t)
             [] t.name = "acceptoffer" -> SetOffer(b, t, "ACCEPTED")
             [] t.name = "declineoffer" -> SetOffer(b, t, "DECLINED")
             [] t.name = "canceloffer" -> SetOffer(b, t, "CANCELLED")

\* All jobs of a priority run in the order they were queued in, then its
\* listeners.
RunPriority(queue, b, p) ==
  LET jobs == [i \in 1..Len(queue) |-> [priority |-> p, trace |-> queue[i]]]
      due == SelectSeq(jobs, LAMBDA j : p \in Listeners(j.trace))
      done == FoldLeft(Run, b, due)
  IN  IF p = MINT_ASSET THEN FlushMints(done) ELSE done

\* The offers the commit listener looks at: those still open that name an
\* asset the group moved.
\* (RelatedPending: a faulty variant, an invalid offer is not looked at again.)
RelatedPending(b) ==
  {x.offer : x \in {y \in b.rows.offerAssets :
      y.asset \in b.moved /\ b.rows.offers[y.offer].state = "PENDING"}}
RelatedOffers(b) ==
  {x.offer : x \in {y \in b.rows.offerAssets :
      y.asset \in b.moved /\ b.rows.offers[y.offer].state \in {"PENDING", "INVALID"}}}

\* An asset without a row fails the join and does not count.
Broken(r, o) ==
  \E x \in r.offerAssets : x.offer = o /\ r.owner[x.asset] \notin {x.owner, "unminted"}

\* The commit listener: offers whose assets went away become invalid as of the
\* newest move, those whose assets are back become pending again.
JudgeOffers(b) ==
  [b EXCEPT
     !.begun = @ \/ b.moved # {},
     !.rows.offers = [o \in Offers |->
        IF o \notin RelatedOffers(b) THEN @[o]
        ELSE IF Broken(b.rows, o)
          THEN IF @[o].state = "INVALID" THEN @[o]
               ELSE [state |-> "INVALID",
                     updated |-> IF b.newest = 0 THEN @[o].updated ELSE b.newest]
          ELSE [@[o] EXCEPT !.state = "PENDING"]]]

\* executeHeadQueue() on the next k blocks.
Executed(k) ==
  LET numbered(n) == [i \in 1..Len(pending[n - position]) |->
                       [block |-> n] @@ pending[n - position][i]]
      queue == FlattenSeq([i \in 1..k |-> numbered(read + i)])
      stage(b, p) == RunPriority(queue, b, p)
  IN  JudgeOffers(FoldLeft(stage, Opened, Priorities))

-----------------------------------------------------------------------------
\* Does the position move with the commit?  It must if a statement was sent
\* or the reader is at head; other handlers' statements, or a position that
\* is old enough, move it as well.
\* (MovesAtHead: a faulty variant, what was sent does not matter.)
MovesAtHead(b, m) == IF m = "HEAD" THEN {TRUE} ELSE BOOLEAN
Moves(b, m) == IF b.begun \/ m = "HEAD" THEN {TRUE} ELSE BOOLEAN

\* A group ends when it is complete, or with the block that switches the
\* reader to head mode.
ProcessGroup ==
  \E k \in 1..DbGroupBlocks, m \in {"CATCHUP", "HEAD"} :
    /\ read + k <= Tip
    /\ m = "CATCHUP" => mode = "CATCHUP" /\ k = DbGroupBlocks
    /\ LET b == Executed(k)
       IN  \E moves \in Moves(b, m) :
             /\ rows' = b.rows
             /\ position' = IF moves THEN read + k ELSE position
             /\ pending' = IF moves THEN SubSeq(pending, read + k - position + 1, Len(pending))
                           ELSE pending
    /\ read' = read + k /\ mode' = m
    /\ UNCHANGED <<ledger, crashes>>

\* The process starts again from the checkpoint.
\* (RestartLate: a faulty variant, off by one.)
RestartLate == position + 1
Restart == position
Crash ==
  /\ crashes < MaxCrashes
  /\ read' = Restart /\ mode' = "CATCHUP" /\ crashes' = crashes + 1
  /\ UNCHANGED <<ledger, pending, rows, position>>

Next ==
  \/ Mint \/ Transfer \/ Burn \/ Back
  \/ CreateOffer \/ AcceptOffer \/ CloseOffer
  \/ ProcessGroup \/ Crash

Spec == Init /\ [][Next]_vars

-----------------------------------------------------------------------------
(* What the tables promise.                                                 *)

\* After every commit, also while blocks are replayed after a crash, an open
\* offer is shown as invalid exactly if one of its assets has left the account
\* it was offered from.
OpenOffersAreJudged ==
  \A o \in Offers :
    rows.offers[o].state \in {"PENDING", "INVALID"} =>
      (rows.offers[o].state = "INVALID" <=> Broken(rows, o))

\* However the blocks are grouped, reordered by priority and replayed after a
\* crash, a reader that has processed them all shows the contract's owners,
\* backed amounts and offers: each action took effect once.
RowsFollowLedger ==
  read = Tip =>
    /\ rows.owner = ledger.owner
    /\ rows.backed = ledger.backed
    /\ \A o \in Offers :
         \/ rows.offers[o].state = ledger.offers[o].state
         \/ rows.offers[o].state = "none" /\ ledger.offers[o].state = "none"
         \/ rows.offers[o].state \in {"PENDING", "INVALID"} /\ ledger.offers[o].state = "open"

\* An offer that turns invalid is stamped with a block newer than everything
\* committed before, and not older than any move of its assets in the group:
\* whoever polls by updated_at_block sees it.
InvalidationIsNews ==
  [][\A o \in Offers :
       rows.offers[o].state # "INVALID" /\ rows'.offers[o].state = "INVALID" =>
         /\ rows'.offers[o].updated > read
         /\ \A n \in (read + 1)..read', x \in rows'.offerAssets :
              x.offer = o /\ (\E t \in ToSet(pending[n - position]) :
                                t.name \in {"logtransfer", "logburnasset"}
                                /\ x.asset \in t.assets)
                => rows'.offers[o].updated >= n]_vars
=============================================================================
