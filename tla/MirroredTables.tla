---------------------------- MODULE MirroredTables ----------------------------
(***************************************************************************)
(* The tables that are mirrored row by row, as tables of HandlerRows: a     *)
(* schema, a template with its mutable data, a balance                      *)
(* (src/src/filler/handlers/atomicassets/processors/{schemas,templates,     *)
(* balances}.ts) and a rule of the market, for bonus fees and royalties     *)
(* (src/src/filler/handlers/atomicmarket/processors/{bonusfees,royalties,   *)
(* balances,marketplaces}.ts), with replace() of src/src/filler/database.ts.*)
(*                                                                          *)
(* SHIP sends the row that a block leaves, or the one it removed.  A group  *)
(* collects what it replaces, and keeps the last version of each row.       *)
(***************************************************************************)
EXTENDS Integers, FiniteSets, Sequences, SequencesExt, FiniteSetsExt

CONSTANTS Values, Window   \* blocks of a group

Absent == 0
Infinity == 1000   \* beyond any block

Actions == [name: {"setrule", "extendschema", "setbalance", "settempldata"}, value: Values]
           \cup [name: {"delrule", "emptybalance", "mintasset", "deltemplate"}]

-----------------------------------------------------------------------------
(* The contracts (external).  Of a row the ledger keeps what each block that  *)
(* touched it left there: SHIP sends what a block changed, however it did.    *)

NoHistory == [n \in {} |-> Absent]
Before(row, n) ==
  LET past == {m \in DOMAIN row : m < n} IN IF past = {} THEN Absent ELSE row[Max(past)]
Value(row) == Before(row, Infinity)

Changes(row) == {n \in DOMAIN row : row[n] # Before(row, n)}
Born(row) == Max({n \in Changes(row) : Before(row, n) = Absent})
LastChange(row) == Max(Changes(row))

Genesis == [schema |-> NoHistory, rule |-> NoHistory, balance |-> NoHistory,
            templ |-> [born |-> 0, issued |-> 0, data |-> Absent, gone |-> 0]]

Allowed(l, n, a) ==
  CASE a.name \in {"setrule", "extendschema", "setbalance"} -> TRUE
    [] a.name = "delrule" -> Value(l.rule) # Absent
    [] a.name = "emptybalance" -> Value(l.balance) # Absent
    [] a.name = "settempldata" -> Value(l.schema) # Absent /\ l.templ.gone = 0
    [] OTHER -> l.templ.born # 0 /\ l.templ.issued = 0 /\ l.templ.gone = 0

Left(row, n, v) == [m \in DOMAIN row \cup {n} |-> IF m = n THEN v ELSE row[m]]

\* A template is made by the action that gives it its first data.
Obey(l, n, a) ==
  CASE a.name = "setrule" -> [l EXCEPT !.rule = Left(@, n, a.value)]
    [] a.name = "extendschema" -> [l EXCEPT !.schema = Left(@, n, a.value)]
    [] a.name = "setbalance" -> [l EXCEPT !.balance = Left(@, n, a.value)]
    [] a.name = "settempldata" ->
         [l EXCEPT !.templ.born = IF @ = 0 THEN n ELSE @, !.templ.data = a.value]
    [] a.name = "delrule" -> [l EXCEPT !.rule = Left(@, n, Absent)]
    [] a.name = "emptybalance" -> [l EXCEPT !.balance = Left(@, n, Absent)]
    [] a.name = "mintasset" -> [l EXCEPT !.templ.issued = 1]
    [] OTHER -> [l EXCEPT !.templ.gone = n, !.templ.data = Absent]

Past == {<< <<>> >>, << <<[name |-> "extendschema", value |-> CHOOSE v \in Values : TRUE],
                          [name |-> "setrule", value |-> CHOOSE v \in Values : TRUE]>> >>}

-----------------------------------------------------------------------------
\* AtomicAssetsUpdatePriority, AtomicMarketUpdatePriority.  (TemplatesFirst: a
\* faulty variant.)
TemplatesFirst(table) == IF table \in {"templates", "templates2"} THEN 15 ELSE 20
Priority(table) ==
  CASE table \in {"rule", "balance"} -> 10
    [] table = "schema" -> 20
    [] OTHER -> 40

Delta(table, n, present, row) ==
  [priority |-> Priority(table), table |-> table, block |-> n, present |-> present, row |-> row]

If(condition, x) == IF condition THEN <<x>> ELSE <<>>

\* The template's own row does not hold its mutable data.
Jobs(before, after, n, block) ==
  LET plain(t) == If(Value(before[t]) # Value(after[t]),
                     Delta(t, n, Value(after[t]) # Absent, Value(after[t])))
      b == before.templ
      t == after.templ
  IN  plain("schema") \o plain("rule") \o plain("balance")
      \o If(t.born # 0 /\ [b EXCEPT !.data = t.data] # t /\ ~(t.born = n /\ t.gone = n),
            Delta("templates", n, t.gone = 0, t.issued))
      \o If(b.data # t.data, Delta("templates2", n, t.data # Absent, t.data))

-----------------------------------------------------------------------------
(* The tables.  waiting is what the write buffer holds of the tables that   *)
(* are replaced; the other statements flush it first.                       *)

NoRow == [value |-> Absent, created |-> 0]
NoTempl == [created |-> 0, issued |-> 0, data |-> Absent, gone |-> 0]
NoRows == [buffered |-> FALSE, waiting |-> [schema |-> NoRow, rule |-> NoRow],
           schema |-> NoRow, rule |-> NoRow, balance |-> [value |-> Absent, at |-> 0],
           templ |-> NoTempl, failed |-> FALSE]

Seed(r, l) == r
Begin(r, buffered) == [r EXCEPT !.buffered = buffered]

\* The upsert of replace(), which leaves the block of creation alone.
\* (CreatedAnew: a faulty variant.)
CreatedAnew(old, new) == new
Upserted(old, new) ==
  IF new = NoRow THEN old ELSE IF old = NoRow THEN new ELSE [new EXCEPT !.created = old.created]

Flushed(r) ==
  [r EXCEPT !.schema = Upserted(@, r.waiting.schema), !.rule = Upserted(@, r.waiting.rule),
            !.waiting = [schema |-> NoRow, rule |-> NoRow]]

Replace(r, j) ==
  LET new == [value |-> j.row, created |-> j.block]
  IN  IF r.buffered THEN [r EXCEPT !.waiting[j.table] = new]
      ELSE [r EXCEPT ![j.table] = Upserted(@, new)]

\* A rule that is gone is deleted.  (Unflushed: a faulty variant.)
Unflushed(r) == [r EXCEPT !.rule = NoRow]
DeleteRule(r) == [Flushed(r) EXCEPT !.rule = NoRow]

\* Deleted and inserted again.
BalancesDelta(r, j) ==
  [Flushed(r) EXCEPT !.balance = IF j.present THEN [value |-> j.row, at |-> j.block]
                                 ELSE [value |-> Absent, at |-> 0]]

\* A template that was never stored has nothing to mark deleted; a new one
\* needs its schema.
TemplatesDelta(r, j) ==
  LET f == Flushed(r)
      stored == f.templ.created # 0
      gone == IF j.present THEN 0 ELSE j.block
  IN  CASE stored -> [f EXCEPT !.templ.issued = j.row, !.templ.gone = gone]
        [] ~stored /\ ~j.present -> f
        [] ~stored /\ j.present /\ f.schema = NoRow -> [f EXCEPT !.failed = TRUE]
        [] OTHER -> [f EXCEPT !.templ = [NoTempl EXCEPT !.created = j.block, !.issued = j.row]]

Templates2Delta(r, j) ==
  LET f == Flushed(r)
  IN  IF j.present /\ f.schema = NoRow THEN [f EXCEPT !.failed = TRUE]
      ELSE IF f.templ.created = 0 THEN f
      ELSE [f EXCEPT !.templ.data = IF j.present THEN j.row ELSE Absent]

Run(r, j) ==
  CASE j.table = "rule" /\ ~j.present -> DeleteRule(r)
    [] j.table = "schema" \/ (j.table = "rule" /\ j.present) -> Replace(r, j)
    [] j.table = "balance" -> BalancesDelta(r, j)
    [] j.table = "templates" -> TemplatesDelta(r, j)
    [] OTHER -> Templates2Delta(r, j)

Commit(r) == [Flushed(r) EXCEPT !.buffered = FALSE]
Loaded(r) == r
RolledBack(old, now) == old

-----------------------------------------------------------------------------
\* The creation is dated by the block of the row's birth, or by a change that
\* a group may have brought with it.
RowSays(x, row) ==
  /\ row.value = Value(x)
  /\ Value(x) # Absent =>
       \/ row.created = Born(x)
       \/ row.created \in Changes(x) /\ row.created \in Born(x)..(Born(x) + Window - 1)

Says(l, r) ==
  /\ ~r.failed
  /\ RowSays(l.schema, r.schema) /\ RowSays(l.rule, r.rule)
  /\ r.balance.value = Value(l.balance)
  /\ Value(l.balance) # Absent => r.balance.at = LastChange(l.balance)
  /\ IF l.templ.born # 0 /\ l.templ.born = l.templ.gone THEN r.templ = NoTempl
     ELSE r.templ = [created |-> l.templ.born, issued |-> l.templ.issued,
                     data |-> l.templ.data, gone |-> l.templ.gone]
=============================================================================
