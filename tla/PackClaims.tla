------------------------------ MODULE PackClaims ------------------------------
(***************************************************************************)
(* A pack of an atomicpacksx contract, its rolls and the claims of it       *)
(* (src/src/filler/handlers/atomicpacksx/processors/{packs,rolls,claims}.ts *)
(* with the write buffer of src/src/filler/database.ts), as tables of       *)
(* HandlerRows.                                                             *)
(*                                                                          *)
(* The reader starts after the genesis, so a pack may have been opened      *)
(* before it looked.  A group collects its inserts and updates, so that     *)
(* nobody counts the rows an update reached, and the last version of a row  *)
(* is the one that is inserted.                                             *)
(***************************************************************************)
EXTENDS Integers, FiniteSets, Sequences, SequencesExt

CONSTANTS
  Openings,   \* pack assets that are opened while the reader looks
  Missed,     \* and those that were opened before
  Outcomes, Rolls, Window

Assets == Openings \cup Missed

CLAIMED == 0
RESOLVED == 1
PICKED_UP == 3

Actions ==
  [name: {"announcepack", "setpackdata"}]
  \cup [name: {"addroll"}, outcomes: Outcomes]       \* lognewroll and addpackroll
  \cup [name: {"unbox"}, asset: Openings]
  \cup [name: {"logresult", "claimunboxed"}, asset: Assets]

-----------------------------------------------------------------------------
(* The contract (external).  The pickup comes in a later block than the     *)
(* opening, so every opening leaves a delta.                                *)

Genesis == [pack |-> [born |-> 0, edits |-> {}],
            rolls |-> <<>>,
            claims |-> [x \in Assets |-> [state |-> IF x \in Missed THEN CLAIMED ELSE -1,
                                          at |-> 0, opened |-> 0]]]

Allowed(l, n, a) ==
  CASE a.name = "announcepack" -> l.pack.born = 0
    [] a.name = "setpackdata" -> l.pack.born # 0 /\ n \notin l.pack.edits
    [] a.name = "addroll" -> l.pack.born # 0 /\ Len(l.rolls) < Rolls
    [] a.name = "unbox" -> l.pack.born # 0 /\ l.claims[a.asset].state = -1
    [] a.name = "logresult" -> l.claims[a.asset].state = CLAIMED
    [] OTHER -> l.claims[a.asset].state = RESOLVED /\ l.claims[a.asset].opened < n

Obey(l, n, a) ==
  CASE a.name = "announcepack" -> [l EXCEPT !.pack.born = n]
    [] a.name = "setpackdata" -> [l EXCEPT !.pack.edits = @ \cup {n}]
    [] a.name = "addroll" -> [l EXCEPT !.rolls = Append(@, [outcomes |-> a.outcomes, at |-> n])]
    [] a.name = "unbox" ->
         [l EXCEPT !.claims[a.asset] = [state |-> CLAIMED, at |-> 0, opened |-> n]]
    [] a.name = "logresult" -> [l EXCEPT !.claims[a.asset].state = RESOLVED, !.claims[a.asset].at = n]
    [] OTHER -> [l EXCEPT !.claims[a.asset].state = PICKED_UP, !.claims[a.asset].at = n]

Past == {<< <<>> >>, << <<[name |-> "announcepack"]>> >>}

-----------------------------------------------------------------------------
\* AtomicPacksUpdatePriority.  (LateRows: a faulty variant, the rows after the
\* actions on them.)
LateRows(name) == IF name = "unboxpacks" THEN 45 ELSE IF name = "logresult" THEN 40 ELSE 50
Priority(name) ==
  CASE name = "packs" -> 11
    [] name = "unboxpacks" -> 13
    [] name = "lognewroll" -> 20
    [] name = "addpackroll" -> 30
    [] name = "logresult" -> 40
    [] OTHER -> 50

\* The traces of an action that the handler listens to.
Traces(a, roll) ==
  CASE a.name = "addroll" ->
         <<[name |-> "lognewroll", roll |-> roll], [name |-> "addpackroll", outcomes |-> a.outcomes]>>
    [] a.name \in {"logresult", "claimunboxed"} -> <<a>>
    [] OTHER -> <<>>

Jobs(before, after, n, block) ==
  LET rolled(k) == Len(SelectSeq(SubSeq(block, 1, k), LAMBDA a : a.name = "addroll"))
      traces == FlattenSeq([k \in DOMAIN block |-> Traces(block[k], Len(before.rolls) + rolled(k))])
      opened == {x \in Openings : before.claims[x].state = -1 /\ after.claims[x].state # -1}
  IN  [k \in DOMAIN traces |-> [priority |-> Priority(traces[k].name), name |-> traces[k].name,
                                call |-> traces[k], block |-> n]]
      \o (IF before.pack = after.pack THEN <<>>
          ELSE <<[priority |-> Priority("packs"), name |-> "packs", block |-> n]>>)
      \o SetToSeq({[priority |-> Priority("unboxpacks"), name |-> "unboxpacks", asset |-> x,
                    block |-> n] : x \in opened})

-----------------------------------------------------------------------------
(* The tables.  Only of a pack's row does it matter what the write buffer   *)
(* holds: waiting is that row.  failed is a foreign key that the commit     *)
(* finds without its parent.                                                *)

NoRow == [state |-> -1]
NoPack == [created |-> 0, updated |-> 0]
NoRows == [buffered |-> FALSE, waiting |-> NoPack, pack |-> NoPack, rolls |-> <<>>,
           claims |-> [x \in Assets |-> NoRow], results |-> {}, failed |-> FALSE]

Seed(r, l) == r
Begin(r, buffered) == [r EXCEPT !.buffered = buffered]

\* INSERT ... ON CONFLICT DO UPDATE, except for the block of creation.
\* (Overwrites: a faulty variant.)
Overwrites(old, new) == new
Upserted(old, new) == IF old = NoPack THEN new ELSE [new EXCEPT !.created = old.created]

PacksDelta(r, j) ==
  LET new == [created |-> j.block, updated |-> j.block]
  IN  IF r.buffered THEN [r EXCEPT !.waiting = new]
      ELSE [r EXCEPT !.pack = Upserted(@, new)]

LogNewRoll(r, j) == [r EXCEPT !.rolls = Append(@, [outcomes |-> "[]"])]

\* The latest roll that has no outcomes yet.
AddPackRoll(r, j) ==
  LET k == SelectLastInSeq(r.rolls, LAMBDA x : x.outcomes = "[]")
  IN  IF k = 0 THEN r ELSE [r EXCEPT !.rolls[k].outcomes = j.call.outcomes]

UnboxPacksDelta(r, j) ==
  [r EXCEPT !.claims[j.asset] =
     IF @ = NoRow THEN [state |-> CLAIMED, orphan |-> FALSE, at |-> 0]
     ELSE [@ EXCEPT !.state = CLAIMED]]

\* A buffered update claims to have changed a row (UpdateBuffer.add()).
LogResult(r, j) ==
  LET x == j.call.asset
      reached == r.claims[x] # NoRow
      resolved == [state |-> RESOLVED, orphan |-> ~reached, at |-> j.block]
  IN  [r EXCEPT !.claims[x] = IF reached THEN [@ EXCEPT !.state = RESOLVED, !.at = j.block]
                              ELSE IF r.buffered THEN @ ELSE resolved,
                !.results = @ \cup {x}]

ClaimUnboxed(r, j) ==
  LET x == j.call.asset
  IN  IF r.claims[x].state < RESOLVED THEN r
      ELSE [r EXCEPT !.claims[x].state = PICKED_UP, !.claims[x].at = j.block]

Run(r, j) ==
  CASE j.name = "packs" -> PacksDelta(r, j)
    [] j.name = "unboxpacks" -> UnboxPacksDelta(r, j)
    [] j.name = "lognewroll" -> LogNewRoll(r, j)
    [] j.name = "addpackroll" -> AddPackRoll(r, j)
    [] j.name = "logresult" -> LogResult(r, j)
    [] OTHER -> ClaimUnboxed(r, j)

\* The flush, and the deferred foreign keys of the results.
Commit(r) ==
  [r EXCEPT !.buffered = FALSE, !.waiting = NoPack,
            !.pack = IF r.waiting = NoPack THEN @ ELSE Upserted(@, r.waiting),
            !.failed = @ \/ \E x \in r.results : r.claims[x] = NoRow]

Loaded(r) == r
RolledBack(old, now) == old

-----------------------------------------------------------------------------
Near(a, b) == a < b + Window /\ b < a + Window

\* The outcomes belong to the roll, or to one that a group may have brought with it.
RollsSay(l, r) ==
  /\ Len(r.rolls) = Len(l.rolls)
  /\ \E p \in [DOMAIN l.rolls -> DOMAIN l.rolls] :
       /\ Cardinality({p[k] : k \in DOMAIN p}) = Len(l.rolls)
       /\ \A k \in DOMAIN p : /\ r.rolls[k].outcomes = l.rolls[p[k]].outcomes
                              /\ Near(l.rolls[k].at, l.rolls[p[k]].at)

PackSays(l, r) ==
  /\ r.pack.created = l.pack.born
       \/ \E n \in l.pack.edits : r.pack.created = n /\ Near(n, l.pack.born)
  /\ \A n \in l.pack.edits \cup {l.pack.born} : n <= r.pack.updated

\* An opening that was missed has a row from its resolution on, if its commit
\* could be made at all.
ClaimsSay(l, r) ==
  \A x \in Assets :
    LET c == l.claims[x] IN
    IF c.state = -1 \/ (x \in Missed /\ c.state = CLAIMED) THEN r.claims[x] = NoRow
    ELSE r.claims[x] = [state |-> c.state, orphan |-> x \in Missed, at |-> c.at]

\* The rolls in the order of the contract, each with its own outcomes.
RollsAreExact(l, r) == \A k \in DOMAIN l.rolls : r.rolls[k].outcomes = l.rolls[k].outcomes

Says(l, r) == PackSays(l, r) /\ RollsSay(l, r) /\ (r.failed \/ ClaimsSay(l, r))
=============================================================================
