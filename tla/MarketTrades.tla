----------------------------- MODULE MarketTrades -----------------------------
(***************************************************************************)
(* Auctions, buyoffers and template buyoffers of an AtomicMarket contract   *)
(* (src/src/filler/handlers/atomicmarket/processors/{auctions,buyoffers,    *)
(* template-buyoffers}.ts and legacy-bundles.ts), as tables of HandlerRows. *)
(*                                                                          *)
(* Version 2 of the contract turns a bid on, a claim of or the acceptance   *)
(* of a listing of several assets into a cancel.  The rows have to tell the *)
(* two apart without the contract's help, over groups that span the change. *)
(***************************************************************************)
EXTENDS Integers, FiniteSets, Sequences, SequencesExt

CONSTANTS Auctions, Buyoffers, TemplateBuyoffers, Bidders

Unset == 0

Listings == Auctions \cup Buyoffers \cup TemplateBuyoffers

Actions ==
  [name: {"setversion"}]
  \cup [name: {"lognewauct"}, id: Auctions, bundle: BOOLEAN]
  \cup [name: {"logauctstart", "cancelauct", "auctclaimbuy", "auctclaimsel"}, id: Auctions]
  \cup [name: {"auctionbid"}, id: Auctions, bidder: Bidders]
  \cup [name: {"lognewbuyo"}, id: Buyoffers, bundle: BOOLEAN, forged: BOOLEAN]
  \cup [name: {"acceptbuyo", "declinebuyo", "cancelbuyo"}, id: Buyoffers]
  \cup [name: {"lognewtbuyo"}, id: TemplateBuyoffers, forged: BOOLEAN]
  \cup [name: {"fulfilltbuyo", "canceltbuyo"}, id: TemplateBuyoffers]

-----------------------------------------------------------------------------
(* The contract (external).  at is the block that last touched a listing,   *)
(* gone the block in which version 2 dissolved it.                          *)

None == [state |-> "none", bundle |-> FALSE, bids |-> <<>>, claims |-> {}, at |-> 0, gone |-> 0]

Genesis == [version |-> 1, flip |-> Unset, list |-> [i \in Listings |-> None]]

\* A claim comes after the auction's end, and so in a later block than the bids.
Ended(x, n) == x.bids # <<>> /\ x.bids[Len(x.bids)].at < n

Allowed(l, n, a) ==
  LET x == l.list[a.id]
  IN  CASE a.name = "setversion" -> l.version = 1
        [] a.name \in {"lognewauct", "lognewbuyo"} ->
             x.state = "none" /\ (a.bundle => l.version = 1)
        [] a.name = "lognewtbuyo" -> x.state = "none"
        [] a.name = "logauctstart" -> x.state = "WAITING"
        [] a.name = "cancelauct" -> x.state \in {"WAITING", "LISTED"} /\ x.bids = <<>>
        [] a.name = "auctionbid" -> x.state = "LISTED" /\ x.claims = {} /\ Len(x.bids) < 2
        [] a.name \in {"auctclaimbuy", "auctclaimsel"} ->
             x.state = "LISTED" /\ Ended(x, n) /\ a.name \notin x.claims
        [] a.name \in {"acceptbuyo", "declinebuyo", "cancelbuyo"} -> x.state = "PENDING"
        [] OTHER -> x.state = "LISTED"

\* A listing of several assets that version 2 finds, with no side served yet.
Legacy(l, x) == l.version = 2 /\ x.bundle /\ x.claims = {}

Outcome(l, n, x, a) ==
  CASE a.name \in {"lognewauct", "lognewbuyo"} ->
         [None EXCEPT !.state = IF a.name = "lognewauct" THEN "WAITING" ELSE "PENDING",
                      !.bundle = a.bundle]
    [] a.name \in {"lognewtbuyo", "logauctstart"} -> [x EXCEPT !.state = "LISTED"]
    [] a.name \in {"cancelauct", "cancelbuyo", "canceltbuyo"} -> [x EXCEPT !.state = "CANCELED"]
    [] a.name = "declinebuyo" -> [x EXCEPT !.state = "DECLINED"]
    [] a.name = "fulfilltbuyo" -> [x EXCEPT !.state = "SOLD"]
    [] a.name = "acceptbuyo" ->
         IF Legacy(l, x) THEN [x EXCEPT !.state = "DECLINED", !.gone = n]
         ELSE [x EXCEPT !.state = "ACCEPTED"]
    [] a.name = "auctionbid" ->
         IF Legacy(l, x) THEN [x EXCEPT !.state = "CANCELED", !.gone = n]
         ELSE [x EXCEPT !.bids = Append(@, [account |-> a.bidder, at |-> n])]
    [] OTHER ->
         IF Legacy(l, x) THEN [x EXCEPT !.state = "CANCELED", !.gone = n]
         ELSE [x EXCEPT !.claims = @ \cup {a.name}]

Forged(a) == a.name \in {"lognewbuyo", "lognewtbuyo"} /\ a.forged

Obey(l, n, a) ==
  IF a.name = "setversion" THEN [l EXCEPT !.version = 2, !.flip = n]
  ELSE IF Forged(a) THEN l
  ELSE [l EXCEPT !.list[a.id] = [Outcome(l, n, @, a) EXCEPT !.at = n]]

\* What may lie behind the blocks of a behaviour: nothing, or open listings.
Past ==
  LET a(name, x) == [name |-> name, id |-> x]
      new(name, x, b) == [name |-> name, id |-> x, bundle |-> b]
      buyo(x, b) == [name |-> "lognewbuyo", id |-> x, bundle |-> b, forged |-> FALSE]
  IN  {<< <<>> >>}
      \cup {<< <<new("lognewauct", x, b), a("logauctstart", x)>> >> : x \in Auctions, b \in BOOLEAN}
      \cup {<< <<buyo(x, b)>> >> : x \in Buyoffers, b \in BOOLEAN}

-----------------------------------------------------------------------------
(* The jobs of a block: one per action trace, and one per row that it       *)
(* changed (SHIP's delta; an erased row comes with the value it had).       *)

\* AtomicMarketUpdatePriority.  (EarlyDeltas: a faulty variant, the table before
\* the action that creates its row.)
EarlyDeltas(name) ==
  CASE name \in {"config"} -> 10
    [] name \in {"auctions"} -> 19
    [] name \in {"lognewauct", "lognewbuyo", "lognewtbuyo"} -> 20
    [] OTHER -> 40
Priority(name) ==
  CASE name \in {"config"} -> 10
    [] name \in {"lognewauct", "lognewbuyo", "lognewtbuyo"} -> 20
    [] name \in {"auctions"} -> 30
    [] OTHER -> 40

TraceJob(n, a) == [priority |-> Priority(a.name), name |-> a.name, call |-> a, block |-> n]

Delta(before, after, n, i) ==
  LET x == after.list[i]
      erased == x.state = "CANCELED" \/ Cardinality(x.claims) = 2
  IN  [priority |-> Priority("auctions"), name |-> "auctions", id |-> i, block |-> n,
       end |-> Len(IF erased THEN before.list[i].bids ELSE x.bids)]

Jobs(before, after, n, block) ==
  LET traces == SelectSeq(block, LAMBDA a : a.name # "setversion")
      changed == {i \in Auctions : before.list[i] # after.list[i]}
  IN  [k \in DOMAIN traces |-> TraceJob(n, traces[k])]
      \o (IF before.version = after.version THEN <<>>
          ELSE <<[priority |-> Priority("config"), name |-> "config", block |-> n]>>)
      \o SetToSeq({Delta(before, after, n, i) : i \in changed})

-----------------------------------------------------------------------------
(* The tables, and the handlers on them.  config stands for the row and for *)
(* the copy in memory, which agree (MarketConfig!MarkerIsFlip).             *)

NoRow == [state |-> "none"]
NoRows == [version |-> 1, marker |-> Unset, list |-> [i \in Listings |-> NoRow]]

ConfigDelta(r, j) ==
  [r EXCEPT !.version = 2, !.marker = IF @ = Unset THEN j.block ELSE @]

\* auction-, buyofferDissolvesAsLegacyBundle(): the rules start with the block
\* after the marker, and an auction that served a side is settled by the old ones.
\* (ClaimsDissolve, DissolvesAtOnce: faulty variants.)
ClaimsDissolve(r, i, n) == r.version >= 2 /\ n > r.marker /\ r.list[i].bundle
DissolvesAtOnce(r, i, n) == r.version >= 2 /\ r.list[i].bundle /\ r.list[i].claims = {}
Dissolves(r, i, n) ==
  /\ r.version >= 2 /\ r.marker # Unset /\ n > r.marker
  /\ r.list[i].bundle /\ r.list[i].claims = {}

Put(r, i, row) == [r EXCEPT !.list[i] = row]

LogNewAuct(r, j) ==
  Put(r, j.call.id, [state |-> "WAITING", bundle |-> j.call.bundle, buyer |-> "null",
                     bids |-> <<>>, claims |-> {}, end |-> 0, at |-> j.block])

AuctionsDelta(r, j) ==
  IF r.list[j.id] = NoRow THEN r
  ELSE [r EXCEPT !.list[j.id].end = j.end, !.list[j.id].at = j.block]

\* logauctstart, cancelauct, cancelbuyo, canceltbuyo.
SetState(r, j, state) ==
  Put(r, j.call.id, [r.list[j.call.id] EXCEPT !.state = state, !.at = j.block])

AuctionBid(r, j) ==
  LET i == j.call.id
  IN  IF Dissolves(r, i, j.block) THEN SetState(r, j, "CANCELED")
      ELSE Put(r, i, [r.list[i] EXCEPT
                        !.buyer = j.call.bidder, !.at = j.block,
                        !.bids = Append(@, [account |-> j.call.bidder, at |-> j.block])])

AuctClaim(r, j) ==
  LET i == j.call.id
  IN  IF Dissolves(r, i, j.block) THEN SetState(r, j, "CANCELED")
      ELSE Put(r, i, [r.list[i] EXCEPT !.claims = @ \cup {j.name}, !.at = j.block])

\* Anybody may send an action of that name to the contract's account.
LogNewBuyo(r, j) ==
  IF j.call.forged THEN r
  ELSE Put(r, j.call.id, [state |-> "PENDING", bundle |-> j.call.bundle, claims |-> {},
                          taker |-> FALSE, memo |-> "null", at |-> j.block])

AcceptBuyo(r, j) ==
  LET i == j.call.id
  IN  IF r.list[i].state = "ACCEPTED" THEN r
      ELSE IF Dissolves(r, i, j.block)
        THEN Put(r, i, [r.list[i] EXCEPT !.state = "DECLINED", !.memo = "", !.at = j.block])
      ELSE Put(r, i, [r.list[i] EXCEPT !.state = "ACCEPTED", !.taker = TRUE, !.at = j.block])

DeclineBuyo(r, j) ==
  Put(r, j.call.id, [r.list[j.call.id] EXCEPT !.state = "DECLINED", !.memo = "given",
                                               !.at = j.block])

\* (TrustsLogs: a faulty variant, without the check of the authorization.)
TrustsLogs(r, j) ==
  Put(r, j.call.id, [state |-> "LISTED", taker |-> FALSE, at |-> j.block])
LogNewTBuyo(r, j) ==
  IF j.call.forged THEN r
  ELSE Put(r, j.call.id, [state |-> "LISTED", taker |-> FALSE, at |-> j.block])

FulfillTBuyo(r, j) ==
  Put(r, j.call.id, [r.list[j.call.id] EXCEPT !.state = "SOLD", !.taker = TRUE,
                                               !.at = j.block])

Seed(r, l) == r
Begin(r, buffered) == r

Run(r, j) ==
  CASE j.name = "config" -> ConfigDelta(r, j)
    [] j.name = "auctions" -> AuctionsDelta(r, j)
    [] j.name = "lognewauct" -> LogNewAuct(r, j)
    [] j.name = "logauctstart" -> SetState(r, j, "LISTED")
    [] j.name \in {"cancelauct", "cancelbuyo", "canceltbuyo"} -> SetState(r, j, "CANCELED")
    [] j.name = "auctionbid" -> AuctionBid(r, j)
    [] j.name \in {"auctclaimbuy", "auctclaimsel"} -> AuctClaim(r, j)
    [] j.name = "lognewbuyo" -> LogNewBuyo(r, j)
    [] j.name = "acceptbuyo" -> AcceptBuyo(r, j)
    [] j.name = "declinebuyo" -> DeclineBuyo(r, j)
    [] j.name = "lognewtbuyo" -> LogNewTBuyo(r, j)
    [] OTHER -> FulfillTBuyo(r, j)

\* The config in memory is reloaded by onFork() (MarketConfig).
Commit(r) == r
Loaded(r) == r
RolledBack(old, now) == old

-----------------------------------------------------------------------------
(* What the rows say of a ledger.                                           *)

AuctionSays(x, row) ==
  /\ row.state = x.state /\ row.claims = x.claims /\ row.at = x.at
  /\ row.bids = x.bids /\ row.end = Len(x.bids)
  /\ row.buyer = IF x.bids = <<>> THEN "null" ELSE x.bids[Len(x.bids)].account

BuyofferSays(x, row) ==
  /\ row.state = x.state /\ row.at = x.at
  /\ row.taker = (x.state = "ACCEPTED")
  /\ row.memo = IF x.state # "DECLINED" THEN "null" ELSE IF x.gone # 0 THEN "" ELSE "given"

\* Every listing is what the contract made of it, except for one that was
\* dissolved in the very block of the change.
Says(l, r) ==
  /\ r.version = l.version /\ r.marker = l.flip
  /\ \A i \in Listings :
       LET x == l.list[i] IN
       IF x.state = "none" THEN r.list[i] = NoRow
       ELSE \/ x.gone # 0 /\ x.gone = l.flip
            \/ i \in Auctions /\ AuctionSays(x, r.list[i])
            \/ i \in Buyoffers /\ BuyofferSays(x, r.list[i])
            \/ /\ i \in TemplateBuyoffers
               /\ r.list[i] = [state |-> x.state, taker |-> x.state = "SOLD", at |-> x.at]
=============================================================================
