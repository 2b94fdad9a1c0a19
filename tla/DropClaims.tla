------------------------------ MODULE DropClaims ------------------------------
(***************************************************************************)
(* The drops of an atomicdropsx contract and the claims of them             *)
(* (src/src/filler/handlers/atomicdropsx/processors/{drops,claims}.ts), as   *)
(* tables of HandlerRows.                                                   *)
(*                                                                          *)
(* A claim does not say what it cost: the price is read from the drop's row *)
(* when the claim is processed, after all changes of the group.             *)
(***************************************************************************)
EXTENDS Integers, FiniteSets, Sequences, SequencesExt

CONSTANTS Drops, Prices, Limits, Amounts, Window   \* blocks of a group

Absent == 0

Direct == {"claimdrop", "triggerdrop"}
Whitelisted == {"claimdropwl", "claimdropkey"}

Actions ==
  [name: {"lognewdrop"}, drop: Drops, price: Prices]
  \cup [name: {"setdropprice"}, drop: Drops, price: Prices]
  \cup [name: {"setdroplimit"}, drop: Drops, max: Limits \cup {Absent}]
  \cup [name: {"erasedrop"}, drop: Drops]
  \cup [name: {"claimdrop", "claimdropwl"}, drop: Drops, amount: Amounts]

-----------------------------------------------------------------------------
(* The contract (external).  prices are those a drop has had, by block; a   *)
(* claim is known by its global sequence.                                   *)

None == [known |-> FALSE]

Genesis == [drops |-> [d \in Drops |-> None], count |-> 0, claims |-> {}]

Allowed(l, n, a) ==
  IF a.name = "lognewdrop" THEN ~l.drops[a.drop].known
  ELSE l.drops[a.drop].known /\ ~l.drops[a.drop].erased

Price(d) == d.prices[Len(d.prices)].value

Obey(l, n, a) ==
  LET k == l.count + 1
      d == l.drops[a.drop]
      put(x) == [l EXCEPT !.count = k, !.drops[a.drop] = x]
      price == [value |-> a.price, at |-> n]
  IN  CASE a.name = "lognewdrop" ->
             put([known |-> TRUE, erased |-> FALSE, max |-> Absent, prices |-> <<price>>, at |-> n])
        [] a.name = "setdropprice" -> put([d EXCEPT !.prices = Append(@, price), !.at = n])
        [] a.name = "setdroplimit" ->
             put([d EXCEPT !.max = IF a.max = Absent THEN @ ELSE a.max, !.at = n])
        [] a.name = "erasedrop" -> put([d EXCEPT !.erased = TRUE, !.at = n])
        [] OTHER ->
             [l EXCEPT !.count = k,
                       !.claims = @ \cup {[seq |-> k, drop |-> a.drop, amount |-> a.amount,
                                           whitelist |-> a.name \in Whitelisted, at |-> n,
                                           turn |-> Len(d.prices)]}]

Past ==
  {<< <<>> >>}
  \cup {<< <<[name |-> "lognewdrop", drop |-> d, price |-> p]>> >> : d \in Drops, p \in Prices}

-----------------------------------------------------------------------------
\* AtomicDropsUpdatePriority.  (ClaimsFirst: a faulty variant.)
ClaimsFirst(name) == IF name = "lognewdrop" THEN 20 ELSE IF name = "claimdrop" THEN 10 ELSE 30
Priority(name) ==
  CASE name = "lognewdrop" -> 20
    [] name \in {"setdropdata", "setdropprice", "setdroplimit", "setdroptimes", "erasedrop"} -> 30
    [] OTHER -> 40

Jobs(before, after, n, block) ==
  [k \in DOMAIN block |-> [priority |-> Priority(block[k].name), name |-> block[k].name,
                           call |-> block[k], block |-> n, seq |-> before.count + k]]

-----------------------------------------------------------------------------
NoRow == [known |-> FALSE]
NoRows == [drops |-> [d \in Drops |-> NoRow], claims |-> {}]

LogNewDrop(r, j) ==
  [r EXCEPT !.drops[j.call.drop] = [known |-> TRUE, erased |-> FALSE, max |-> Absent,
                                    price |-> j.call.price, at |-> j.block]]

\* max_claimable is written only when the action carries it.
\* (Unconditional: a faulty variant.)
Unconditional(d, j) == [d EXCEPT !.max = j.call.max]
SetDropLimit(d, j) == IF j.call.max = Absent THEN d ELSE [d EXCEPT !.max = j.call.max]

\* An update of a row that is not there does nothing.
Update(r, j) ==
  LET changed(d) == CASE j.name = "setdropprice" -> [d EXCEPT !.price = j.call.price]
                      [] j.name = "setdroplimit" -> SetDropLimit(d, j)
                      [] OTHER -> [d EXCEPT !.erased = TRUE]
  IN  IF r.drops[j.call.drop] = NoRow THEN r
      ELSE [r EXCEPT !.drops[j.call.drop] = [changed(@) EXCEPT !.at = j.block]]

RecordClaim(r, j) ==
  LET d == r.drops[j.call.drop]
  IN  [r EXCEPT !.claims = @ \cup
         {[seq |-> j.seq, drop |-> j.call.drop, amount |-> j.call.amount, at |-> j.block,
           whitelist |-> j.name \in Whitelisted,
           total |-> IF d = NoRow THEN Absent ELSE d.price * j.call.amount]}]

Seed(r, l) == r
Begin(r, buffered) == r

Run(r, j) ==
  CASE j.name = "lognewdrop" -> LogNewDrop(r, j)
    [] j.name \in {"setdropprice", "setdroplimit", "erasedrop"} -> Update(r, j)
    [] OTHER -> RecordClaim(r, j)

Commit(r) == r
Loaded(r) == r
RolledBack(old, now) == old

-----------------------------------------------------------------------------
\* What a claim may cost: the price of its time, or a later one that shares its
\* group; never one that was past or that was set in another group.
Costs(l, c) ==
  LET prices == l.drops[c.drop].prices
  IN  {prices[i].value * c.amount :
         i \in {k \in c.turn..Len(prices) : k = c.turn \/ prices[k].at < c.at + Window}}

Says(l, r) ==
  /\ \A d \in Drops :
       LET x == l.drops[d] IN
       IF ~x.known THEN r.drops[d] = NoRow
       ELSE r.drops[d] = [known |-> TRUE, erased |-> x.erased, max |-> x.max,
                          price |-> Price(x), at |-> x.at]
  /\ Cardinality(r.claims) = Cardinality(l.claims)
  /\ \A c \in l.claims : \E row \in r.claims :
       /\ row.seq = c.seq /\ row.drop = c.drop /\ row.amount = c.amount /\ row.at = c.at
       /\ row.whitelist = c.whitelist
       /\ row.total \in Costs(l, c)
=============================================================================
