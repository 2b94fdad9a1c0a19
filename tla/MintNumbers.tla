----------------------------- MODULE MintNumbers -----------------------------
(***************************************************************************)
(* The mint numbers of assets, given in the background                       *)
(* (src/definitions/procedures/atomicassets_mints.sql), and the mint ranges  *)
(* of sales that are computed from them                                     *)
(* (src/definitions/procedures/atomicmarket_sale_mints.sql), while blocks    *)
(* add and fork assets and sales.                                           *)
(***************************************************************************)
EXTENDS Integers, Sequences, FiniteSets, FiniteSetsExt, SequencesExt

CONSTANTS
  Templates,  \* and 0: no template
  Callers,    \* sessions that may run the procedure, one left over by a dead process
  Limit,      \* max_assets_to_update
  MaxBlocks,  \* bound: heights
  MaxAssets,  \* bound: assets alive
  MaxSales,   \* bound: sales alive
  MaxStops    \* bound: procedures cut off

\* Template ids are positive, and NULL is none of them.
MintInstance == Templates \subseteq Nat \ {0} /\ Limit \in Nat /\ MaxAssets \in Nat

VARIABLES
  assets,   \* the committed assets, by asset_id: template, block
  mint,     \* template_mint of each, 0 for NULL
  sales,    \* the committed sales: block, assets, range (<<>> for NULL)
  head, lib,
  call,     \* of each caller: what it will do
  stops

mintVars == <<assets, mint, sales, head, lib, call, stops>>

NoTemplate == 0
Idle == [at |-> "idle", lib |-> 0, plan |-> <<>>]  \* plan: asset_id -> number

Init ==
  /\ assets = <<>> /\ mint = <<>> /\ sales = <<>> /\ head = 0 /\ lib = 0
  /\ call = [c \in Callers |-> Idle] /\ stops = 0

Final(a) == assets[a].block <= lib

-----------------------------------------------------------------------------
(* The chain, through the block writer.  Ids are given in order.            *)

Block(templates, sold) ==
  /\ head < MaxBlocks /\ head' = head + 1
  /\ Len(assets) + Len(templates) <= MaxAssets
  /\ assets' = assets \o [i \in DOMAIN templates |-> [template |-> templates[i], block |-> head + 1]]
  /\ mint' = mint \o [i \in DOMAIN templates |-> 0]
  /\ sold = {} \/ Len(sales) < MaxSales
  /\ sales' = IF sold = {} THEN sales
              ELSE Append(sales, [block |-> head + 1, assets |-> sold, range |-> <<>>])
  /\ UNCHANGED <<lib, call, stops>>

\* The rows of the orphaned blocks are deleted: the last ones, as rows are in
\* the order of their blocks.
Kept(rows, b) == SubSeq(rows, 1, Cardinality({i \in DOMAIN rows : rows[i].block < b}))
Fork(b) ==
  /\ lib < b /\ b <= head /\ head' = b - 1
  /\ assets' = Kept(assets, b) /\ mint' = SubSeq(mint, 1, Len(assets')) /\ sales' = Kept(sales, b)
  /\ UNCHANGED <<lib, call, stops>>

\* The reader may know of irreversible blocks it has not come to.
AdvanceLib ==
  /\ lib < MaxBlocks /\ lib' = lib + 1
  /\ UNCHANGED <<assets, mint, sales, head, call, stops>>

-----------------------------------------------------------------------------
(* update_atomicassets_mints: the query, then one commit for each asset.    *)

Call(c) ==
  /\ call[c].at = "idle" /\ call' = [call EXCEPT ![c] = [Idle EXCEPT !.at = "called", !.lib = lib]]
  /\ UNCHANGED <<assets, mint, sales, head, lib, stops>>

\* (AnyBlock: a faulty variant that numbers reversible assets too.)
AnyBlock(c) ==
  {a \in DOMAIN assets : assets[a].template # NoTemplate /\ mint[a] = 0}
Unnumbered(c) ==
  {a \in DOMAIN assets : /\ assets[a].template # NoTemplate /\ mint[a] = 0
                         /\ assets[a].block <= call[c].lib}

\* The number of the last numbered asset of the template.
LastMint(t) ==
  LET numbered == {a \in DOMAIN assets : assets[a].template = t /\ mint[a] # 0}
  IN IF numbered = {} THEN 0 ELSE mint[Max(numbered)]

\* ORDER BY template_id, asset_id LIMIT; then by asset_id.
Before(a, b) == \/ assets[a].template < assets[b].template
                \/ assets[a].template = assets[b].template /\ a < b
Selected(S) == {a \in S : Cardinality({b \in S : Before(b, a)}) < Limit}

Query(c) ==
  /\ call[c].at = "called"
  /\ LET chosen == Selected(Unnumbered(c))
         rank(a) == Cardinality({b \in chosen : assets[b].template = assets[a].template /\ b <= a})
     IN call' = [call EXCEPT ![c].at = "loop",
                   ![c].plan = [a \in chosen |-> LastMint(assets[a].template) + rank(a)]]
  /\ UNCHANGED <<assets, mint, sales, head, lib, stops>>

\* The loop goes through the rows of the query in the order of their ids.
Update(c) ==
  /\ call[c].at = "loop"
  /\ LET plan == call[c].plan
         row == Min(DOMAIN plan)
     IN IF DOMAIN plan = {} THEN call' = [call EXCEPT ![c] = Idle] /\ UNCHANGED mint
        ELSE /\ call' = [call EXCEPT ![c].plan = [a \in DOMAIN plan \ {row} |-> plan[a]]]
             /\ mint' = IF row \in DOMAIN mint THEN [mint EXCEPT ![row] = plan[row]] ELSE mint
  /\ UNCHANGED <<assets, sales, head, lib, stops>>

\* The statement timeout, the end of the session.
Cut(c) ==
  /\ call[c].at = "loop" /\ stops < MaxStops /\ stops' = stops + 1
  /\ call' = [call EXCEPT ![c] = Idle]
  /\ UNCHANGED <<assets, mint, sales, head, lib>>

-----------------------------------------------------------------------------
(* update_atomicmarket_sale_mints, one statement.                           *)

\* Not while an asset with a template has no number.
\* (SomeNumbered: a faulty variant without the HAVING.)
SomeNumbered(s) == \E a \in sales[s].assets : mint[a] # 0
Resolvable(s) == \A a \in sales[s].assets : assets[a].template # NoTemplate => mint[a] # 0

RangeOf(s) ==
  LET numbers == {mint[a] : a \in sales[s].assets} \ {0}
  IN IF numbers = {} THEN <<"empty">> ELSE <<Min(numbers), Max(numbers)>>

ResolveSales ==
  /\ \E s \in DOMAIN sales : sales[s].range = <<>> /\ sales[s].block <= lib /\ Resolvable(s)
  /\ sales' = [s \in DOMAIN sales |->
       IF sales[s].range = <<>> /\ sales[s].block <= lib /\ Resolvable(s)
       THEN [sales[s] EXCEPT !.range = RangeOf(s)] ELSE sales[s]]
  /\ UNCHANGED <<assets, mint, head, lib, call, stops>>

-----------------------------------------------------------------------------
\* A sale bundles two assets, numbered before it or not, with a template or without.
Next ==
  \/ \E templates \in SeqOf(Templates \cup {NoTemplate}, 2) :
       \E sold \in SUBSET (DOMAIN assets \cup (Len(assets) + 1)..(Len(assets) + Len(templates))) :
         Cardinality(sold) \in {0, 2} /\ Block(templates, sold)
  \/ \E b \in 1..MaxBlocks : Fork(b)
  \/ AdvanceLib \/ ResolveSales
  \/ \E c \in Callers : Call(c) \/ Query(c) \/ Update(c) \/ Cut(c)

\* The chain goes on, the job is run again.
Fairness ==
  /\ WF_mintVars(AdvanceLib)
  /\ \A c \in Callers : WF_mintVars(Call(c)) /\ WF_mintVars(Query(c)) /\ WF_mintVars(Update(c))

Spec == Init /\ [][Next]_mintVars /\ Fairness

-----------------------------------------------------------------------------
\* The irreversible assets of a template are numbered without gap in the order
\* of their ids, and no number is ever changed, whatever runs were cut off or
\* overlap (atomicassets_mints.sql:37, atomicassets/index.ts:513).
OfTemplate(t) == {a \in DOMAIN assets : assets[a].template = t}
Numbers == INSTANCE Numbering WITH
  Groups <- Templates, Things <- 1..MaxAssets,
  due <- [t \in Templates |-> {a \in OfTemplate(t) : Final(a)}],
  number <- [t \in Templates |-> [a \in {b \in OfTemplate(t) : mint[b] # 0} |-> mint[a]]]

MintsAreNumbering == Numbers!Spec /\ Numbers!AllNumbered

\* A range, once it is there, is the one of the numbers all its assets get
\* (atomicmarket_sale_mints.sql: HAVING).
RangesAreFinal ==
  \A s \in DOMAIN sales : sales[s].range # <<>> => Resolvable(s) /\ sales[s].range = RangeOf(s)
=============================================================================
