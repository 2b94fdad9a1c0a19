----------------------------- MODULE SalesSearch -----------------------------
(***************************************************************************)
(* The two searches for sales of the AtomicMarket API.  Version 1           *)
(* (api/namespaces/atomicmarket/handlers/sales.ts and utils.ts) asks the    *)
(* tables of the contracts.  Version 2 (handlers/sales2.ts) asks            *)
(* atomicmarket_sales_filters, where a row holds what the tables say of a   *)
(* sale as one array of tags, and looks at the tables again only for the    *)
(* states of the sales of a page.                                           *)
(*                                                                          *)
(* A request is a function from the parameters it gives to their values:    *)
(* sets for lists, pairs <<key, value>> for the attributes of assets.       *)
(* Strings are model values, so that a name resembles only itself.  The     *)
(* filter row is the one SalesFilters derives, when nothing of it is        *)
(* queued; the choice of plans (strong filters, + 0) changes no answer and  *)
(* is left out, as are the types of attributes and the boundaries by id     *)
(* and date, which both searches take from the same function.               *)
(***************************************************************************)
EXTENDS Integers, FiniteSets, Sequences, FiniteSetsExt, SequencesExt

CONSTANTS
  Sales,             \* sales, with their assets, as the tables have them
  Templates,         \* the rows of atomicassets_templates
  Others,            \* [owner, template] of the assets outside of the sales
  CodeAccounts,      \* contract_codes
  Precision,         \* of the symbols in atomicmarket_tokens
  RequestValues,     \* the values asked for, by parameter
  MaxParameters,     \* bound: parameters of a request
  MaxIndexedNames,   \* MAX_INDEXED_COLLECTION_NAMES
  MaxExcludedNames,  \* from here on exclusions look at filter[1]
  MaxListings        \* bound: rows that pages are cut from

VARIABLES
  sale, request,     \* a sale and what is asked
  listings           \* rows a search matches, in its order: the row is stale or not

vars == <<sale, request, listings>>

Null == "null"
Empty == [low |-> 1, high |-> 0]
Unmade == [low |-> 0, high |-> 0]      \* the sale's template_mint before its job has run

Init == sale \in Sales /\ request = <<>> /\ listings = <<>>

Ask ==
  /\ listings = <<>>
  /\ Cardinality(DOMAIN request) < MaxParameters
  /\ \E p \in DOMAIN RequestValues \ DOMAIN request : \E v \in RequestValues[p] :
       request' = [q \in DOMAIN request \cup {p} |-> IF q = p THEN v ELSE request[q]]
  /\ UNCHANGED <<sale, listings>>

List ==
  /\ request = <<>>
  /\ Len(listings) < MaxListings
  /\ \E stale \in BOOLEAN : listings' = Append(listings, stale)
  /\ UNCHANGED <<sale, request>>

Next == Ask \/ List
Spec == Init /\ [][Next]_vars

-----------------------------------------------------------------------------
(* Parameters. *)

Given(r, p) == p \in DOMAIN r
Asked(r, p) == IF Given(r, p) THEN r[p] ELSE {}
Is(r, p, v) == Given(r, p) => r[p] = v
OneOf(r, p, v) == Asked(r, p) # {} => v \in r[p]
NoneOf(r, p, v) == v \notin Asked(r, p)
AtLeast(r, p, n) == Given(r, p) => n >= r[p]
AtMost(r, p, n) == Given(r, p) => n <= r[p]

DataParameters == {"data", "template_data", "immutable_data", "mutable_data"}
NameParameters == {"match", "match_immutable_name", "match_mutable_name"}
AssetParameters ==
  {"asset_id", "owner", "burned", "template_id", "schema_name", "is_transferable", "is_burnable"}

\* jsonb: a || b, where b wins, and a @> {key: value}.
Merged(a, b) == [k \in DOMAIN a \cup DOMAIN b |-> IF k \in DOMAIN b THEN b[k] ELSE a[k]]
Has(data, pair) == pair[1] \in DOMAIN data /\ data[pair[1]] = pair[2]
Name(data) == IF "name" \in DOMAIN data THEN {data["name"]} ELSE {}

NoTemplate ==
  [id |-> Null, collection |-> Null, schema |-> Null, transferable |-> Null, burnable |-> Null,
   immutable |-> <<>>, mutable |-> <<>>]
TemplateOf(a) ==
  IF a.template = Null THEN NoTemplate ELSE CHOOSE t \in Templates : t.id = a.template

\* The state the API shows, which versions 1 and 2 ask for.
StateOf(s) ==
  CASE s.state = "LISTED" /\ s.offer = "PENDING" -> "LISTED"
    [] s.state = "LISTED" /\ s.offer # "PENDING" -> "INVALID"
    [] OTHER -> s.state

-----------------------------------------------------------------------------
(* What both searches share: the mints of a listing. *)

Within(range, low, high) ==
  range.low > range.high \/ (range.low >= low /\ range.high <= high)
Top == 1000
Low(r, p) == IF Given(r, p) THEN r[p] ELSE 0
High(r, p) == IF Given(r, p) THEN r[p] ELSE Top

TemplateMintAsked(r) == Given(r, "min_template_mint") \/ Given(r, "max_template_mint")
EffectiveMintAsked(r) == Given(r, "min_effective_mint") \/ Given(r, "max_effective_mint")

\* A range that is missing is in no range, one that is empty in all without a minimum.
TemplateMintMatches(range, r) ==
  TemplateMintAsked(r) =>
    /\ range # Unmade
    /\ Given(r, "min_template_mint") => range # Empty
    /\ Within(range, Low(r, "min_template_mint"), High(r, "max_template_mint"))

EffectiveMint(a) == IF a.original # 0 THEN a.original ELSE a.mint
Mints(assets) == {EffectiveMint(a) : a \in assets} \ {0}
Unlinked(assets) == \A a \in assets : a.original = 0
ReadsStoredRange(range, assets) == range # Unmade /\ Unlinked(assets)

EffectiveMintMatches(range, assets, r) ==
  EffectiveMintAsked(r) =>
    LET low == Low(r, "min_effective_mint")
        high == High(r, "max_effective_mint")
    IN  IF ReadsStoredRange(range, assets)
        THEN range # Empty /\ Within(range, low, high)
        ELSE /\ Mints(assets) # {}
             /\ Within([low |-> Min(Mints(assets)), high |-> Max(Mints(assets))], low, high)

\* The condition a sort by effective mint brings along.
EffectiveMintSorts(range, assets, r) ==
  Given(r, "sort") /\ r["sort"] = "effective_mint" =>
    IF ReadsStoredRange(range, assets) THEN range # Empty ELSE Mints(assets) # {}

MintRangeRefused(r) ==
  \E p \in {<<"min_template_mint", "max_template_mint">>,
           <<"min_effective_mint", "max_effective_mint">>} :
    Given(r, p[1]) /\ Given(r, p[2]) /\ r[p[1]] > r[p[2]]

MintScopeRefused(r) ==
  /\ EffectiveMintAsked(r) \/ (Given(r, "sort") /\ r["sort"] = "effective_mint")
  /\ Cardinality(Asked(r, "collection_name")) \notin 1..MaxIndexedNames

-----------------------------------------------------------------------------
(* Version 1: the tables. *)

MarketplaceMatches(s, r) ==
  IF Given(r, "marketplace") THEN {s.maker, s.taker} \cap r["marketplace"] # {}
  ELSE OneOf(r, "maker_marketplace", s.maker) /\ OneOf(r, "taker_marketplace", s.taker)

\* An unknown buyer is equal to nobody, and different from nobody either.
ListingMatches(s, r) ==
  /\ Given(r, "account") => {s.buyer, s.seller} \cap r["account"] # {}
  /\ OneOf(r, "seller", s.seller)
  /\ OneOf(r, "buyer", s.buyer)
  /\ OneOf(r, "collection_name", s.collection)
  /\ Given(r, "show_seller_contracts") /\ ~ r["show_seller_contracts"] =>
       s.seller \notin CodeAccounts \/ s.seller \in Asked(r, "contract_whitelist")
  /\ NoneOf(r, "seller_blacklist", s.seller)
  /\ Given(r, "buyer_blacklist") => s.buyer # Null /\ s.buyer \notin r["buyer_blacklist"]
  /\ MarketplaceMatches(s, r)
  /\ TemplateMintMatches(s.mint, r)
  /\ EffectiveMintMatches(s.mint, s.assets, r)

DataMatches(a, r) ==
  LET t == TemplateOf(a)
  IN  /\ \A p \in {"data", "template_data"} :
           Given(r, p) => Has(t.immutable, r[p]) \/ Has(t.mutable, r[p])
      /\ Given(r, "mutable_data") =>
           /\ Has(Merged(a.mutable, a.immutable), r["mutable_data"])
           /\ Has(a.mutable, r["mutable_data"])
      /\ Given(r, "immutable_data") => Has(a.immutable, r["immutable_data"])
      /\ Given(r, "match_immutable_name") => r["match_immutable_name"] \in Name(a.immutable)
      /\ Given(r, "match_mutable_name") => r["match_mutable_name"] \in Name(a.mutable)
      /\ \A p \in {"match", "search"} :
           Given(r, p) => r[p] \in Name(t.immutable) \cup Name(t.mutable)

AssetMatches(a, r) ==
  LET t == TemplateOf(a)
  IN  /\ DataMatches(a, r)
      /\ OneOf(r, "asset_id", a.id)
      /\ OneOf(r, "owner", a.owner)
      /\ OneOf(r, "template_id", a.template)
      /\ OneOf(r, "schema_name", a.schema)
      /\ Is(r, "burned", a.owner = Null)
      /\ Is(r, "is_transferable", t.transferable # "no")
      /\ Is(r, "is_burnable", t.burnable # "no")

\* QueryBuilder.notMany: a list of one excludes rows without a value, whatever is asked.
NotMany(v, list) ==
  IF Cardinality(list) = 1 THEN v # Null /\ v \notin list ELSE v \notin list

AssetsMatch(s, r) ==
  DOMAIN r \cap (AssetParameters \cup DataParameters \cup NameParameters
                 \cup {"search", "template_blacklist"}) # {} =>
    \E a \in s.assets :
      /\ Given(r, "template_blacklist") => NotMany(a.template, r["template_blacklist"])
      /\ AssetMatches(a, r)

SaleMatches(s, r) ==
  /\ ListingMatches(s, r)
  /\ AssetsMatch(s, r)
  /\ AtMost(r, "max_assets", Cardinality(s.assets))
  /\ AtLeast(r, "min_assets", Cardinality(s.assets))
  /\ OneOf(r, "symbol", s.symbol)
  /\ OneOf(r, "state", StateOf(s))

\* Only a request without a collection_name is checked against the lists of collections.
GreylistMatches(s, r) ==
  ~ Given(r, "collection_name") =>
    /\ OneOf(r, "collection_whitelist", s.collection)
    /\ NoneOf(r, "collection_blacklist", s.collection)

Refused(r) ==
  Given(r, "min_price") \/ Given(r, "max_price") \/ MintRangeRefused(r) \/ MintScopeRefused(r)

Finds(s, r) ==
  /\ s.offer # Null
  /\ SaleMatches(s, r)
  /\ GreylistMatches(s, r)
  /\ EffectiveMintSorts(s.mint, s.assets, r)

-----------------------------------------------------------------------------
(* The row of atomicmarket_sales_filters. *)

HasRow(s) == s.offer # Null /\ s.state # "CANCELED"

\* What a sale's assets say of an attribute, where the template wins.
Data(a) == Merged(Merged(a.mutable, a.immutable), TemplateOf(a).immutable)

\* create_atomicmarket_sales_filter: values that are missing leave no tag.
Tagged(kind, values) == {<<kind, v>> : v \in values \ {Null}}

\* BOOL_AND over assets, of which those without a template say nothing.
BoolAnd(values) == values \ {Null} = {"yes"}

Flags(assets) ==
  (IF \A a \in assets : a.owner = Null THEN {"b"} ELSE {})
  \cup (IF \A a \in assets : a.template = Null THEN {"nt"} ELSE {})
  \cup (IF BoolAnd({TemplateOf(a).transferable : a \in assets}) THEN {} ELSE {"nx"})
  \cup (IF BoolAnd({TemplateOf(a).burnable : a \in assets}) THEN {} ELSE {"nb"})

DataTags(a) == {<<"d", k, Data(a)[k]>> : k \in DOMAIN Data(a) \ {"name", "img"}}

TemplateMints(assets) == {a.mint : a \in assets} \ {0}

FilterRow(s) ==
  [tags |-> Tagged("c", {s.collection}) \cup Tagged("e", {s.seller}) \cup Tagged("b", {s.buyer})
            \cup Tagged("t", {a.template : a \in s.assets})
            \cup Tagged("s", {a.schema : a \in s.assets})
            \cup Tagged("o", {a.owner : a \in s.assets})
            \cup Tagged("f", Flags(s.assets))
            \cup UNION {DataTags(a) : a \in s.assets},
   names |-> UNION {Name(Data(a)) : a \in s.assets},
   ids |-> {a.id : a \in s.assets},
   count |-> Cardinality(s.assets),
   mint |-> IF TemplateMints(s.assets) = {} THEN Empty
            ELSE [low |-> Min(TemplateMints(s.assets)), high |-> Max(TemplateMints(s.assets))],
   state |-> StateOf(s),
   symbol |-> s.symbol, price |-> s.price,
   collection |-> s.collection, seller |-> s.seller,    \* filter[1] and filter[2]
   contract |-> s.seller \in CodeAccounts,
   maker |-> s.maker, taker |-> s.taker]

-----------------------------------------------------------------------------
(* Version 2: the filter rows. *)

AnyTag(row, kind, values) == values # {} => row.tags \cap Tagged(kind, values) # {}
NoTag(row, kind, values) == row.tags \cap Tagged(kind, values) = {}

\* collection_name and the lists of collections come down to one list of names.
CollectionsNamed(r) == Given(r, "collection_name") \/ Given(r, "collection_whitelist")
\* (CollectionsAsked: a faulty variant that forgets the excluded ones.)
CollectionsAsked(r) ==
  IF ~ Given(r, "collection_name") THEN Asked(r, "collection_whitelist")
  ELSE {c \in r["collection_name"] : OneOf(r, "collection_whitelist", c)}
Collections(r) ==
  (IF ~ Given(r, "collection_name") THEN Asked(r, "collection_whitelist")
   ELSE {c \in r["collection_name"] : OneOf(r, "collection_whitelist", c)})
  \ Asked(r, "collection_blacklist")

\* A longer list is compared with filter[1], and one that is empty with no name at all.
CollectionsMatch(row, r) ==
  CollectionsNamed(r) =>
    IF Cardinality(Collections(r)) > MaxIndexedNames THEN row.collection \in Collections(r)
    ELSE row.tags \cap Tagged("c", Collections(r)) # {}

ExcludedCollectionsMatch(row, r) ==
  ~ CollectionsNamed(r) =>
    IF Cardinality(Asked(r, "collection_blacklist")) >= MaxExcludedNames
    THEN row.collection \notin Asked(r, "collection_blacklist")
    ELSE NoTag(row, "c", Asked(r, "collection_blacklist"))

PartiesMatch(row, r) ==
  /\ AnyTag(row, "o", Asked(r, "owner"))
  /\ Given(r, "account") =>
       row.tags \cap (Tagged("e", r["account"]) \cup Tagged("b", r["account"])) # {}
  /\ AnyTag(row, "e", Asked(r, "seller"))
  /\ AnyTag(row, "b", Asked(r, "buyer"))
  /\ NoTag(row, "e", Asked(r, "seller_blacklist"))
  /\ NoTag(row, "b", Asked(r, "buyer_blacklist"))

\* The templates a request names are looked up with the collections and schemas it asks for.
TemplateIds(r) == Asked(r, "template_id")
WithoutTemplate(r) == Null \in TemplateIds(r)
ByTemplate(r) == ~ WithoutTemplate(r) /\ TemplateIds(r) # {}
TemplateRows(r) ==
  {t \in Templates : /\ Given(r, "search") => r["search"] \in Name(t.immutable)
                     /\ CollectionsNamed(r) => t.collection \in Collections(r)
                     /\ OneOf(r, "schema_name", t.schema)
                     /\ t.id \in TemplateIds(r)}

TemplatesMatch(row, r) ==
  /\ WithoutTemplate(r) => <<"f", "nt">> \in row.tags
  /\ IF ByTemplate(r)
     THEN row.tags \cap Tagged("t", {t.id : t \in TemplateRows(r)}) # {}
     ELSE /\ Given(r, "search") => r["search"] \in row.names
          /\ AnyTag(row, "s", Asked(r, "schema_name"))
          /\ CollectionsMatch(row, r)

FlagMatches(row, r, p, flag, value) ==
  Given(r, p) => (r[p] = value) = (<<"f", flag>> \in row.tags)

FlagsMatch(row, r) ==
  /\ FlagMatches(row, r, "burned", "b", TRUE)
  /\ FlagMatches(row, r, "is_transferable", "nx", FALSE)
  /\ FlagMatches(row, r, "is_burnable", "nb", FALSE)

\* A name has a column of its own, with the names of all assets.
DataTagsMatch(row, r) ==
  \A p \in DataParameters \cap DOMAIN r :
    IF r[p][1] = "name" THEN row.names = {r[p][2]} ELSE <<"d", r[p][1], r[p][2]>> \in row.tags

AssetRowMatches(row, r) ==
  /\ Asked(r, "asset_id") # {} => row.ids \cap r["asset_id"] # {}
  /\ \A p \in NameParameters \cap DOMAIN r : r[p] \in row.names

MarketplaceRowMatches(row, r) ==
  IF Given(r, "marketplace") THEN {row.maker, row.taker} \cap r["marketplace"] # {}
  ELSE OneOf(r, "maker_marketplace", row.maker) /\ OneOf(r, "taker_marketplace", row.taker)

ListingRowMatches(row, assets, r) ==
  /\ Given(r, "show_seller_contracts") /\ ~ r["show_seller_contracts"] =>
       ~ row.contract \/ row.seller \in Asked(r, "contract_whitelist")
  /\ MarketplaceRowMatches(row, r)
  /\ TemplateMintMatches(row.mint, r)
  /\ EffectiveMintMatches(row.mint, assets, r)

PriceAsked(r) == Given(r, "min_price") \/ Given(r, "max_price")
PriceAllowed(r) ==
  PriceAsked(r) =>
    /\ Cardinality(Asked(r, "symbol")) = 1
    /\ Asked(r, "symbol") \subseteq DOMAIN Precision
PriceMatches(row, r) ==
  PriceAsked(r) =>
    LET unit == 10 ^ Precision[CHOOSE s \in r["symbol"] : TRUE]
    IN  /\ Given(r, "min_price") => row.price >= r["min_price"] * unit
        /\ Given(r, "max_price") => row.price <= r["max_price"] * unit

\* Assets, these included, of a template of the row that one of the accounts owns.
HidesTemplate(row, assets, r) ==
  \E a \in assets \cup Others :
    <<"t", a.template>> \in row.tags /\ a.owner \in Asked(r, "hide_templates_by_accounts")

RowMatches(row, assets, r) ==
  /\ PartiesMatch(row, r)
  /\ TemplatesMatch(row, r)
  /\ FlagsMatch(row, r)
  /\ ExcludedCollectionsMatch(row, r)
  /\ DataTagsMatch(row, r)
  /\ ListingRowMatches(row, assets, r)
  /\ AssetRowMatches(row, r)
  /\ ~ HidesTemplate(row, assets, r)
  /\ NoTag(row, "t", Asked(r, "template_blacklist"))
  /\ AtMost(r, "max_assets", row.count)
  /\ AtLeast(r, "min_assets", row.count)
  /\ OneOf(r, "symbol", row.symbol)
  /\ PriceMatches(row, r)
  /\ OneOf(r, "state", row.state)

RefusedV2(r) == ~ PriceAllowed(r) \/ MintRangeRefused(r) \/ MintScopeRefused(r)

\* COUNT(*) sees the condition of one sort, and not that of the other.
CountsV2(s, r) ==
  /\ HasRow(s)
  /\ RowMatches(FilterRow(s), s.assets, r)
  /\ EffectiveMintSorts(FilterRow(s).mint, s.assets, r)

FindsV2(s, r) ==
  /\ CountsV2(s, r)
  /\ Given(r, "sort") /\ r["sort"] = "template_mint" => FilterRow(s).mint # Empty

\* A page of version 2: of the rows it reads ahead, those that are not stale.
Ahead(page, limit) == (page * limit * 5 + 3) \div 4
Upto(seq, n) == SubSeq(seq, 1, Min({n, Len(seq)}))
Page(rows, page, limit) == SubSeq(rows, (page - 1) * limit + 1, Min({page * limit, Len(rows)}))

Entries == {i \in DOMAIN listings : ~ listings[i]}
Fresh(rows) == SelectSeq(rows, LAMBDA i : i \in Entries)
AllRows == [i \in DOMAIN listings |-> i]
Served(page, limit) == Page(Fresh(Upto(AllRows, Ahead(page, limit))), page, limit)

-----------------------------------------------------------------------------
(* Where the two searches answer differently, by what the code does:        *)

\* - a bundle of version 1 needs one asset for all conditions, in version 2
\*   the tags of different assets add up, and flags are those of all assets;
OfBundle(s, r) ==
  /\ Cardinality(s.assets) > 1
  /\ LET asked == DOMAIN r \cap (AssetParameters \cup DataParameters \cup NameParameters
                                 \cup {"search", "template_blacklist"})
     IN  Cardinality(asked) > 1 \/ ~ (asked \subseteq {"asset_id", "owner", "schema_name"})

\* - an asset without a template may be transferred and burned in version 1,
\*   and neither in version 2; a list of one template hides it in version 1;
OfUntemplated(s, r) ==
  /\ \E a \in s.assets : a.template = Null
  /\ \/ Given(r, "is_transferable") \/ Given(r, "is_burnable")
     \/ Cardinality(Asked(r, "template_blacklist")) = 1

\* - version 1 looks for an attribute where the parameter says, version 2 in
\*   what is left of it when the data of asset and template are merged;
Home(p, a) ==
  CASE p \in {"data", "template_data", "match", "search"} -> "template"
    [] p \in {"immutable_data", "match_immutable_name"} -> "immutable"
    [] OTHER -> "mutable"
HomeOf(k, a) ==
  {h \in {"template", "immutable", "mutable", "changed"} :
     k \in DOMAIN (CASE h = "template" -> TemplateOf(a).immutable
                     [] h = "immutable" -> a.immutable
                     [] h = "mutable" -> a.mutable
                     [] OTHER -> TemplateOf(a).mutable)}
OfData(s, r) ==
  \E a \in s.assets :
    \/ \E p \in DataParameters \cap DOMAIN r : HomeOf(r[p][1], a) \notin {{}, {Home(p, a)}}
    \/ \E p \in (NameParameters \cup {"search"}) \cap DOMAIN r :
         HomeOf("name", a) \notin {{}, {Home(p, a)}}

\* - version 1 drops listings without a buyer with the buyers it excludes, does
\*   not apply the lists of collections to a collection_name, and reads a
\*   template mint only once its job has stored it;
OfListing(s, r) ==
  \/ Given(r, "buyer_blacklist") /\ s.buyer = Null
  \/ /\ Given(r, "collection_name")
     /\ Given(r, "collection_whitelist") \/ Given(r, "collection_blacklist")
  \/ TemplateMintAsked(r) /\ s.mint = Unmade

\* - version 2 has no rows of cancelled sales, none without a mint in a sort by
\*   template mint, and alone hides templates by their owners.
OfRows(s, r) ==
  \/ ~ HasRow(s)
  \/ Given(r, "sort") /\ r["sort"] = "template_mint" /\ FilterRow(s).mint = Empty
  \/ Given(r, "hide_templates_by_accounts")

Diverges(s, r) ==
  OfBundle(s, r) \/ OfUntemplated(s, r) \/ OfData(s, r) \/ OfListing(s, r) \/ OfRows(s, r)

-----------------------------------------------------------------------------
\* Requests that both versions take find the same sales in the filter rows as
\* in the tables, the cases above apart: no combination of parameters loses a
\* condition on its way into tags, lookups of templates or filter[1].
SearchesAgree ==
  ~ Refused(request) /\ ~ RefusedV2(request) /\ ~ Diverges(sale, request) =>
    (FindsV2(sale, request) <=> Finds(sale, request))

\* The stored range of a listing, where it is read instead of the mints of the
\* assets, gives the same answer as these in both versions.
StoredRangeIsExact ==
  EffectiveMintAsked(request) =>
    LET exact == /\ Mints(sale.assets) # {}
                 /\ \A m \in Mints(sale.assets) : /\ AtLeast(request, "min_effective_mint", m)
                                                  /\ AtMost(request, "max_effective_mint", m)
    IN  /\ EffectiveMintMatches(sale.mint, sale.assets, request) <=> exact
        /\ EffectiveMintMatches(FilterRow(sale).mint, sale.assets, request) <=> exact

\* A page has its share of the entries that are not stale, and with it every
\* entry is on one page, as long as no more rows are stale than were read ahead.
PagesAreFull ==
  \A page \in 1..2, limit \in 1..4 :
    LET read == Upto(AllRows, Ahead(page, limit))
        stale == Len(read) - Len(Fresh(read))
    IN  stale <= Ahead(page, limit) - page * limit =>
          Served(page, limit) = Page(Fresh(AllRows), page, limit)
=============================================================================
