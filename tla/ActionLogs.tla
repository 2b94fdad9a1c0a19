------------------------------ MODULE ActionLogs ------------------------------
(***************************************************************************)
(* The logs of the contracts' actions: what the log processors keep in      *)
(* contract_traces, the ledger of royalty payouts                           *)
(* (atomicmarket/processors/royalties.ts), and the logs that the API serves *)
(* of an offer, asset, template, sale, ... (src/src/api/utils.ts), as       *)
(* tables of HandlerRows.                                                   *)
(*                                                                          *)
(* An action of the contract is a transaction: a sequence of traces, each   *)
(* with the place of the trace that created it (0 at the root) and, for the *)
(* contract alone, the listing that it settles (of).                        *)
(***************************************************************************)
EXTENDS Integers, Sequences, SequencesExt, FiniteSets, FiniteSetsExt

CONSTANT Settled   \* pairs of kinds of listings that a transaction settles

Small == 1     \* an id below 2^32
Wide == 2      \* and one above

Nothing == [kind |-> "none", id |-> 0]

-----------------------------------------------------------------------------
(* What is logged, by the key of its subject.                               *)

OfferLogs == {"lognewoffer", "acceptoffer", "declineoffer", "canceloffer"}
AssetLogs == {"logmint", "logburnasset", "logbackasset", "logsetdata", "logrampayer"}
CollectionLogs ==
  {"createcol", "addcolauth", "forbidnotify", "remcolauth", "remnotifyacc", "setmarketfee",
   "setcoldata"}
TemplateLogs == {"lognewtempl", "locktemplate", "deltemplate", "redtemplmax", "logsetdatatl"}
SchemaLogs == {"createschema", "extendschema", "setschematyp"}
AuctionLogs == {"lognewauct", "logauctstart", "cancelauct", "auctclaimbuy", "auctclaimsel"}
SaleLogs == {"lognewsale", "logsalestart", "cancelsale", "purchasesale"}
BuyofferLogs == {"lognewbuyo", "cancelbuyo", "acceptbuyo", "declinebuyo"}
TemplateBuyofferLogs == {"lognewtbuyo", "canceltbuyo", "fulfilltbuyo"}
RoyaltyLogs == {"logroyfound", "logroytempl", "logroyattr", "logroydust"}
LinkLogs == {"lognewlink", "loglinkstart", "cancellink", "claimlink"}
DropLogs ==
  {"lognewdrop", "claimdrop", "claimdropwl", "claimdropkey", "triggerdrop", "logclaim", "erasedrop"}
PackLogs == {"lognewpack", "lognewroll", "addpackroll", "claimunboxed", "logresult"}

Logged ==
  [offer |-> OfferLogs, asset |-> AssetLogs, collection |-> CollectionLogs,
   template |-> TemplateLogs, schema |-> SchemaLogs, auction |-> AuctionLogs, sale |-> SaleLogs,
   buyoffer |-> BuyofferLogs, template_buyoffer |-> TemplateBuyofferLogs, link |-> LinkLogs,
   drop |-> DropLogs, pack |-> PackLogs]
Kinds == DOMAIN Logged

SettledBy ==
  [sale |-> "purchasesale", auction |-> "auctclaimsel", buyoffer |-> "acceptbuyo",
   template_buyoffer |-> "fulfilltbuyo"]

\* The ids of buyoffers and template buyoffers, which share a key, differ.
IdOf(kind) == IF kind \in {"asset", "template_buyoffer"} THEN Wide ELSE Small
Subject(kind) == [kind |-> kind, id |-> IdOf(kind)]

-----------------------------------------------------------------------------
(* The contracts (external).                                                *)

Trace(name, about, creator, payouts) ==
  [account |-> "contract", name |-> name, of |-> about, creator |-> creator, payouts |-> payouts]
Settlement(x, creator) == Trace(SettledBy[x], Subject(x), creator, 0)
Royalty(name, x, creator, payouts) == Trace(name, Subject(x), creator, payouts)
Foreign(name, x, creator) == [Trace(name, Subject(x), creator, 0) EXCEPT !.account = "other"]

\* Transactions.  Plain: one of each action that says itself what it is about.
Plain ==
  LET of(kind) == FoldSet(LAMBDA name, s : Append(s, Trace(name, Subject(kind), 0, 0)), <<>>,
                          Logged[kind])
  IN  FoldSet(LAMBDA kind, s : s \o of(kind), <<>>, Kinds)

Single(x) ==
  <<Settlement(x, 0), Royalty("logroyfound", x, 1, 2), Royalty("logroytempl", x, 1, 0),
    Royalty("logroydust", x, 1, 1)>>

\* Settlements that one action of another contract sends, one after the other ...
Batch(x, y) ==
  <<Foreign("buy", x, 0), Settlement(x, 1), Royalty("logroyattr", x, 2, 1),
    Settlement(y, 1), Royalty("logroyattr", y, 4, 2)>>

\* ... and one that follows from the payments of another, before it is paid out itself.
Nested(x, y) ==
  <<Settlement(x, 0), Foreign("transfer", x, 1), Settlement(y, 2), Royalty("logroyfound", y, 3, 1),
    Royalty("logroydust", x, 1, 1)>>

\* An action of another contract that is named like a settlement.
Namesake(x) ==
  <<Foreign(SettledBy[x], x, 0), [Royalty("logroytempl", x, 1, 1) EXCEPT !.of = Nothing]>>

Actions ==
  [shape: {"plain"}]
  \cup UNION {{[shape |-> "single", x |-> p[1]], [shape |-> "namesake", x |-> p[2]],
               [shape |-> "batch", x |-> p[1], y |-> p[2]],
               [shape |-> "nested", x |-> p[2], y |-> p[1]]} : p \in Settled}

Traces(a) ==
  CASE a.shape = "plain" -> Plain
    [] a.shape = "single" -> Single(a.x)
    [] a.shape = "namesake" -> Namesake(a.x)
    [] a.shape = "batch" -> Batch(a.x, a.y)
    [] OTHER -> Nested(a.x, a.y)

\* What was done, in the order of the global sequence.
Genesis == <<>>
Allowed(l, n, a) == TRUE
Obey(l, n, a) == LET tx == Traces(a) IN l \o [k \in DOMAIN tx |-> [trace |-> tx[k], block |-> n]]
Past == {<<>>}

-----------------------------------------------------------------------------
(* JSON.  Numbers and strings are different to the containment operator.    *)

Number(v) == [json |-> "number", value |-> v]
String(v) == [json |-> "string", value |-> v]

\* encodeDatabaseJson() of what the deserializer returns.
Stored(key, v) ==
  CASE key \in {"collection_name", "schema_name"} -> String(v)
    [] key = "template_id" -> Number(v)
    [] OTHER -> IF v < Wide THEN Number(v) ELSE String(v)

Keys(kind) ==
  CASE kind \in {"buyoffer", "template_buyoffer"} -> {"buyoffer_id"}
    [] kind = "collection" -> {"collection_name"}
    [] kind = "template" -> {"collection_name", "template_id"}
    [] kind = "schema" -> {"collection_name", "schema_name"}
    [] kind = "none" -> {}
    [] OTHER -> {kind \o "_id"}

\* buildJsonbConditionVariants(), of a name of digits too.  parseInt() made a
\* template's id a number before.
Variants(x) ==
  {{<<k, IF k = "template_id" THEN Number(x.id) ELSE as[k]>> : k \in Keys(x.kind)} :
     as \in {[k \in Keys(x.kind) |-> Number(x.id)], [k \in Keys(x.kind) |-> String(x.id)]}}

-----------------------------------------------------------------------------
(* The handlers.                                                            *)

LogPriority == 0
PayoutPriority == 40

\* resolveSettlement(): up the creators, to a settlement of the same contract.
\* (FirstOfTransaction: a faulty variant.)
FirstOfTransaction(tx, k) ==
  LET all == {i \in DOMAIN tx : \E x \in DOMAIN SettledBy : tx[i].name = SettledBy[x]}
  IN  IF all = {} THEN Nothing ELSE tx[CHOOSE i \in all : \A j \in all : i <= j].of
Resolved(tx, k) ==
  LET settles(t) == t.account = tx[k].account /\ \E x \in DOMAIN SettledBy : t.name = SettledBy[x]
      up[i \in 0..k] == IF i = 0 THEN Nothing
                        ELSE IF settles(tx[i]) THEN tx[i].of
                        ELSE up[tx[i].creator]
  IN  up[tx[k].creator]

\* resolvedSettlementMetadata(), beside what the action itself carries.
Metadata(tx, k) ==
  LET x == IF tx[k].name \in RoyaltyLogs THEN Resolved(tx, k) ELSE tx[k].of
  IN  {<<key, Stored(key, x.id)>> : key \in Keys(x.kind)}

\* insertRoyaltyPayouts()
Payouts(tx, k, seq) ==
  {[log |-> seq, index |-> i, listing |-> Resolved(tx, k)] : i \in 1..tx[k].payouts}

Jobs(before, after, n, block) ==
  LET jobs(q, a) ==
        LET tx == Traces(a)
            job(k, name, priority) == [priority |-> priority, name |-> name, seq |-> q.seq + k,
                                       block |-> n, tx |-> tx, trace |-> k]
            of(k) == IF tx[k].account # "contract" THEN <<>>
                     ELSE IF tx[k].name \in RoyaltyLogs
                       THEN <<job(k, "log", LogPriority), job(k, "payouts", PayoutPriority)>>
                     ELSE <<job(k, "log", LogPriority)>>
        IN  [seq |-> q.seq + Len(tx), jobs |-> q.jobs \o FlattenSeq([k \in DOMAIN tx |-> of(k)])]
  IN  FoldLeft(jobs, [seq |-> Len(before), jobs |-> <<>>], block).jobs

-----------------------------------------------------------------------------
(* The tables, the logs that the transaction collects until its commit,     *)
(* and, for the property, the blocks whose logs came in a group.            *)

NoRows == [contract_traces |-> {}, payouts |-> {}, actionLogs |-> <<>>, buffered |-> FALSE,
           grouped |-> {}]

Seed(r, l) == r
Begin(r, buffered) == [r EXCEPT !.buffered = buffered, !.actionLogs = <<>>]

LogTrace(r, j) ==
  [r EXCEPT !.actionLogs = Append(@, [global_sequence |-> j.seq, name |-> j.tx[j.trace].name,
                                      metadata |-> Metadata(j.tx, j.trace)]),
            !.grouped = IF r.buffered THEN @ \cup {j.block} ELSE @]

Run(r, j) ==
  IF j.name = "log" THEN LogTrace(r, j)
  ELSE [r EXCEPT !.payouts = @ \cup Payouts(j.tx, j.trace, j.seq)]

\* commit(): the logs of a group meet a write buffer that was flushed before.
Commit(r) ==
  [r EXCEPT !.actionLogs = <<>>,
            !.contract_traces = IF r.buffered THEN @ ELSE @ \cup ToSet(r.actionLogs)]
Loaded(r) == r
RolledBack(old, now) == old

-----------------------------------------------------------------------------
(* The API.                                                                 *)

OfferRoute == {"lognewoffer", "acceptoffer", "declineoffer", "canceloffer"}
AssetRoute == {"logmint", "logburnasset", "logbackasset", "logsetdata", "logrampayer"}
CollectionRoute ==
  {"createcol", "addcolauth", "forbidnotify", "remcolauth", "remnotifyacc", "setmarketfee",
   "setcoldata", "createauswap", "acceptauswap", "rejectauswap"}
TemplateRoute == {"lognewtempl", "locktemplate", "deltemplate", "redtemplmax", "logsetdatatl"}
SchemaRoute == {"createschema", "extendschema", "setschematyp"}
SaleRoute == {"lognewsale", "logsalestart", "cancelsale", "purchasesale"} \cup RoyaltyLogs
AuctionRoute ==
  {"lognewauct", "logauctstart", "cancelauct", "auctclaimbuy", "auctclaimsel"} \cup RoyaltyLogs
BuyofferRoute == {"lognewbuyo", "cancelbuyo", "acceptbuyo", "declinebuyo"} \cup RoyaltyLogs
TemplateBuyofferRoute == {"lognewtbuyo", "canceltbuyo", "fulfilltbuyo"} \cup RoyaltyLogs
LinkRoute == {"lognewlink", "loglinkstart", "cancellink", "claimlink"}

Routes ==
  [offer |-> OfferRoute, asset |-> AssetRoute, collection |-> CollectionRoute,
   template |-> TemplateRoute, schema |-> SchemaRoute, sale |-> SaleRoute,
   auction |-> AuctionRoute, buyoffer |-> BuyofferRoute,
   template_buyoffer |-> TemplateBuyofferRoute, link |-> LinkRoute]

\* getContractActionLogs(), without its pages.
Served(r, x) ==
  {t.global_sequence : t \in {u \in r.contract_traces :
     u.name \in Routes[x.kind] /\ \E c \in Variants(x) : c \subseteq u.metadata}}

-----------------------------------------------------------------------------
\* Every action of a block that came alone is served where it belongs, and
\* nowhere else; a royalty belongs to the listing whose settlement pays it.
LogsAreServed(l, r) ==
  \A kind \in DOMAIN Routes :
    Served(r, Subject(kind)) =
      {s \in DOMAIN l : /\ l[s].trace.account = "contract" /\ l[s].trace.of = Subject(kind)
                        /\ l[s].block \notin r.grouped}

\* The payouts of every settlement, of a group too.
PayoutsAreLinked(l, r) ==
  r.payouts = UNION {{[log |-> s, index |-> i, listing |-> l[s].trace.of] : i \in 1..l[s].trace.payouts} :
                       s \in DOMAIN l}

Says(l, r) == LogsAreServed(l, r) /\ PayoutsAreLinked(l, r)
=============================================================================
