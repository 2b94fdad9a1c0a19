---------------------------- MODULE ListingStates ----------------------------
(***************************************************************************)
(* The states the AtomicMarket API gives its listings.  A row keeps the     *)
(* state of the contract; the state of the API follows from it, from the    *)
(* clock, and from rows of other tables, and is derived more than once:     *)
(* when a list is asked for by state (api/namespaces/atomicmarket/utils.ts, *)
(* in SQL), when a row is shown (format.ts, in TypeScript), and for sales   *)
(* in the filter rows of version 2.  All are of one moment here: between    *)
(* the query of a request and the rows it shows, anything may change.  What *)
(* becomes of an ended bundle depends on the version of the market, which   *)
(* the API reads from a cache (market-version.ts).                          *)
(***************************************************************************)
EXTENDS Integers, FiniteSets

CONSTANTS
  Bidders, EndTime,
  Ttl,                   \* MARKET_VERSION_CACHE_TTL_MS, in half seconds
  Patience, MaxReads,    \* bounds: how long a query takes, and queries at a time
  MaxHalves              \* bound: the clock

VARIABLES
  row,        \* of a listing, with what the queries join to it
  halves,     \* Date.now(), in half seconds
  version,    \* atomicmarket_config: the market dissolves bundles
  changed,    \* when the version changed last
  cache,      \* the market's entry, if there is one
  reads       \* queries of the version under way

versionVars == <<version, changed, cache, reads>>
vars == <<row, halves, versionVars>>

Null == "null"
Seller == "seller"

Kinds ==
  [kind: {"auction"}, state: {"WAITING"}, assets: {1, 2}, end: {EndTime}, buyer: {Null},
   claimed: {[buyer |-> b, seller |-> s] : b, s \in {"no", Null}}]
  \cup [kind: {"sale"}, state: {"WAITING"}, offer: {"PENDING"}]
  \cup [kind: {"buyoffer"}, state: {"PENDING"}, owners: [1..2 -> {Seller}]]
  \cup [kind: {"template_buyoffer"}, state: {"LISTED"}]

Init ==
  /\ row \in Kinds /\ halves = 0
  /\ version \in BOOLEAN /\ changed = 0 /\ cache = {} /\ reads = {}

-----------------------------------------------------------------------------
(* What becomes of the rows (external). *)

IsA(kind, states) == row.kind = kind /\ row.state \in states
To(state) == row' = [row EXCEPT !.state = state]
Ended == halves >= 2 * row.end
Bundle == row.assets > 1 /\ row.claimed.buyer # "yes" /\ row.claimed.seller # "yes"

Auction ==
  \/ IsA("auction", {"WAITING"}) /\ To("LISTED")
  \/ IsA("auction", {"WAITING", "LISTED"}) /\ row.buyer = Null /\ To("CANCELED")
  \/ /\ IsA("auction", {"LISTED"}) /\ ~ Ended
     /\ \E b \in Bidders : row' = [row EXCEPT !.buyer = b]
  \/ /\ IsA("auction", {"LISTED"}) /\ Ended /\ row.buyer # Null
     /\ \/ version /\ Bundle /\ To("CANCELED")
        \/ /\ ~ (version /\ Bundle)
           /\ \E side \in {"buyer", "seller"} : row' = [row EXCEPT !.claimed[side] = "yes"]

Sale ==
  \/ IsA("sale", {"WAITING"}) /\ To("LISTED")
  \/ IsA("sale", {"WAITING", "LISTED"}) /\ To("CANCELED")
  \/ IsA("sale", {"LISTED"}) /\ row.offer = "PENDING" /\ row' = [row EXCEPT !.state = "SOLD", !.offer = "ACCEPTED"]
  \/ /\ row.kind = "sale" /\ row.offer # "ACCEPTED"
     /\ \E o \in {"PENDING", "INVALID", "CANCELLED"} : row' = [row EXCEPT !.offer = o]

Buyoffer ==
  \/ \E s \in {"DECLINED", "CANCELED", "ACCEPTED"} : IsA("buyoffer", {"PENDING"}) /\ To(s)
  \/ /\ row.kind = "buyoffer"
     /\ \E i \in DOMAIN row.owners, o \in Bidders \cup {Seller, Null} : row' = [row EXCEPT !.owners[i] = o]

TemplateBuyoffer == \E s \in {"CANCELED", "SOLD"} : IsA("template_buyoffer", {"LISTED"}) /\ To(s)

Step == UNCHANGED <<halves, versionVars>> /\ (Auction \/ Sale \/ Buyoffer \/ TemplateBuyoffer)
Tick ==
  /\ halves < MaxHalves /\ \A r \in reads : halves < r.at + Patience
  /\ halves' = halves + 1
  /\ UNCHANGED <<row, versionVars>>
Flip == version' = ~ version /\ changed' = halves /\ UNCHANGED <<row, halves, cache, reads>>

-----------------------------------------------------------------------------
(* The version the API goes by: a request for auctions reads it again when  *)
(* what is cached is too old, and caches it when the query has answered.    *)

\* (CachedOnce: a faulty variant where an entry stays.)
CachedOnce == cache
Cached == {c \in cache : halves - c.readAt < Ttl}

Read ==
  /\ row.kind = "auction" /\ Cached = {}
  /\ Cardinality(reads) < MaxReads
  /\ reads' = reads \cup {[dissolves |-> version, at |-> halves]}
  /\ UNCHANGED <<row, halves, version, changed, cache>>
Store ==
  /\ \E r \in reads :
       /\ cache' = {[dissolves |-> r.dissolves, readAt |-> halves]}
       /\ reads' = reads \ {r}
  /\ UNCHANGED <<row, halves, version, changed>>

Next == Step \/ Tick \/ Flip \/ Read \/ Store
Spec == Init /\ [][Next]_vars

\* What a request may be answered: what is cached, or what its query has read.
Answers ==
  {c.dissolves : c \in Cached} \cup (IF Cached = {} THEN {version} ELSE {}) \cup {r.dissolves : r \in reads}

-----------------------------------------------------------------------------
(* A list by state, in SQL: unknown comparisons are not true, and the clock *)
(* is cut to seconds.                                                       *)

Seconds == halves \div 2

\* IS NOT TRUE holds of a claim flag that is missing.
EndedBundle == row.assets > 1 /\ \A side \in {"buyer", "seller"} : row.claimed[side] # "yes"

\* (AuctionSettled: a faulty variant that takes every ended auction for settled.)
AuctionSettled(state, dissolves) ==
  CASE state = "LISTED" -> row.state = "LISTED" /\ row.end > Seconds
    [] state = "SOLD" -> row.state = "LISTED" /\ row.end <= Seconds /\ row.buyer # Null
    [] state = "INVALID" -> row.state = "LISTED" /\ row.end <= Seconds /\ row.buyer = Null
    [] OTHER -> row.state = state
AuctionIn(state, dissolves) ==
  CASE state = "LISTED" -> row.state = "LISTED" /\ row.end > Seconds
    [] state = "SOLD" -> /\ row.state = "LISTED" /\ row.end <= Seconds /\ row.buyer # Null
                         /\ dissolves => ~ EndedBundle
    [] state = "INVALID" -> /\ row.state = "LISTED" /\ row.end <= Seconds
                            /\ row.buyer # Null => dissolves /\ EndedBundle
    [] OTHER -> row.state = state

SaleIn(state) ==
  CASE state = "LISTED" -> row.state = "LISTED" /\ row.offer = "PENDING"
    [] state = "INVALID" -> row.state = "LISTED" /\ row.offer # "PENDING"
    [] OTHER -> row.state = state

\* asset.owner != listing.seller is unknown of an asset that is burned.
Foreign == \E i \in DOMAIN row.owners : row.owners[i] \notin {Seller, Null}
BuyofferIn(state) ==
  CASE state = "PENDING" -> row.state = "PENDING" /\ ~ Foreign
    [] state = "INVALID" -> row.state = "PENDING" /\ Foreign
    [] OTHER -> row.state = state

TemplateBuyofferIn(state) == row.state = state

-----------------------------------------------------------------------------
(* A row that is shown: the first condition that holds. *)

AuctionShown(dissolves) ==
  CASE row.state = "WAITING" -> "WAITING"
    [] row.state = "LISTED" /\ 2 * row.end > halves -> "LISTED"
    [] row.state = "CANCELED" -> "CANCELED"
    [] /\ row.state = "LISTED" /\ 2 * row.end <= halves /\ row.buyer # Null
       /\ ~ (dissolves /\ row.assets > 1 /\ row.claimed.buyer # "yes" /\ row.claimed.seller # "yes") -> "SOLD"
    [] OTHER -> "INVALID"

SaleShown ==
  CASE row.state = "WAITING" -> "WAITING"
    [] row.state = "LISTED" /\ row.offer = "PENDING" -> "LISTED"
    [] row.state \in {"CANCELED", "SOLD"} -> row.state
    [] OTHER -> "INVALID"

\* atomicmarket_get_sale_state, which the filter rows and version 2 use.
SaleStored ==
  CASE row.state # "LISTED" -> row.state
    [] row.state = "LISTED" /\ row.offer = "PENDING" -> "LISTED"
    [] OTHER -> "INVALID"

\* undefined is not an owner: asset.owner !== data.seller holds of a burned asset.
BuyofferShown ==
  CASE row.state = "PENDING" /\ \A i \in DOMAIN row.owners : row.owners[i] = Seller -> "PENDING"
    [] row.state \in {"DECLINED", "CANCELED", "ACCEPTED"} -> row.state
    [] OTHER -> "INVALID"

TemplateBuyofferShown == row.state

-----------------------------------------------------------------------------
\* A list by a state has exactly the listings that are shown in that state.
\* A pending buyoffer of an asset that is burned is the exception: it is listed
\* as pending and shown as invalid.
StatesAreShown ==
  CASE row.kind = "auction" ->
         \A s \in {"WAITING", "LISTED", "CANCELED", "SOLD", "INVALID"}, d \in Answers :
           AuctionIn(s, d) <=> AuctionShown(d) = s
    [] row.kind = "sale" ->
         /\ \A s \in {"WAITING", "LISTED", "CANCELED", "SOLD", "INVALID"} : SaleIn(s) <=> SaleShown = s
         /\ SaleStored = SaleShown
    [] row.kind = "buyoffer" ->
         Null \notin {row.owners[i] : i \in DOMAIN row.owners} =>
           \A s \in {"PENDING", "DECLINED", "CANCELED", "ACCEPTED", "INVALID"} :
             BuyofferIn(s) <=> BuyofferShown = s
    [] OTHER -> \A s \in {"LISTED", "CANCELED", "SOLD"} : TemplateBuyofferIn(s) <=> TemplateBuyofferShown = s

\* The cache is not a latch: a version that has stood for as long as an entry
\* lives, and a query takes, is the one every request goes by, whichever way it
\* changed and in whatever order the queries of requests have answered.
VersionIsNoLatch ==
  halves - changed >= Ttl + Patience => Answers = {version}
=============================================================================
