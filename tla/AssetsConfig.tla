------------------------------ MODULE AssetsConfig ------------------------------
(***************************************************************************)
(* The AtomicAssets configuration, as a row and as AtomicAssetsHandler.config *)
(* and tokenconfigs in memory, and the collections that are decoded by it   *)
(* (src/src/filler/handlers/atomicassets/processors/{config,collections}.ts *)
(* and init() of index.ts), as tables of HandlerRows.                       *)
(*                                                                          *)
(* A delta is compared with the memory and written to the row.  Nothing     *)
(* reads the row again when a fork has rolled it back.                      *)
(***************************************************************************)
EXTENDS Integers, FiniteSets, Sequences, SequencesExt

CONSTANTS Tokens, Collections

Versions == 1..2
Formats == 1..2          \* the number of fields of collection_format

Actions == [name: {"setversion", "admincoledit"}] \cup [name: {"addconftoken"}, token: Tokens]
           \cup [name: {"createcol"}, collection: Collections, fields: Formats]
           \cup [name: {"mintasset"}]

-----------------------------------------------------------------------------
(* The contract (external).  Its config row counts the mints too.           *)

Genesis == [version |-> 1, format |-> 1, tokens |-> {}, counter |-> 0,
            cols |-> [c \in Collections |-> 0]]

Allowed(l, n, a) ==
  CASE a.name = "setversion" -> l.version = 1
    [] a.name = "admincoledit" -> l.format = 1
    [] a.name = "addconftoken" -> a.token \notin l.tokens
    [] a.name = "createcol" -> l.cols[a.collection] = 0 /\ a.fields <= l.format
    [] OTHER -> l.counter = 0

Obey(l, n, a) ==
  CASE a.name = "setversion" -> [l EXCEPT !.version = 2]
    [] a.name = "admincoledit" -> [l EXCEPT !.format = 2]
    [] a.name = "addconftoken" -> [l EXCEPT !.tokens = @ \cup {a.token}]
    [] a.name = "createcol" -> [l EXCEPT !.cols[a.collection] = a.fields]
    [] OTHER -> [l EXCEPT !.counter = @ + 1]

Past == {<< <<>> >>}

\* TABLE_CONFIG and TABLE_COLLECTIONS.  (DecodesFirst: a faulty variant.)
DecodesFirst == 30
TableConfig == 10
TableCollections == 20

ConfigOf(l) == [format |-> l.format, tokens |-> l.tokens]

Jobs(before, after, n, block) ==
  LET config == [priority |-> TableConfig, name |-> "config", value |-> ConfigOf(after)]
      version == [priority |-> TableConfig, name |-> "tokenconfigs", version |-> after.version,
                  block |-> n]
      new == {c \in Collections : before.cols[c] # after.cols[c]}
      row(c) == [priority |-> TableCollections, name |-> "collections", collection |-> c,
                 fields |-> after.cols[c]]
  IN  (IF before.counter = after.counter /\ ConfigOf(before) = ConfigOf(after) THEN <<>>
       ELSE <<config>>)
      \o (IF before.version = after.version THEN <<>> ELSE <<version>>)
      \o SetToSeq({row(c) : c \in new})

-----------------------------------------------------------------------------
(* The tables, and the memory.  stale is history: a fork has rolled back    *)
(* what the memory still holds.                                             *)

NoRows == [version |-> 1, format |-> 1, tokens |-> {}, marker |-> 0,
           cols |-> [c \in Collections |-> 0],
           mem |-> [version |-> 1, config |-> [format |-> 1, tokens |-> {}]],
           stale |-> FALSE, failed |-> FALSE]

\* Tokens and fields are compared by their number.
ConfigDelta(r, j) ==
  LET c == r.mem.config
      added == IF Cardinality(c.tokens) = Cardinality(j.value.tokens) THEN {}
               ELSE j.value.tokens \ c.tokens
  IN  [r EXCEPT !.tokens = @ \cup added,
                !.format = IF c.format # j.value.format THEN j.value.format ELSE @,
                !.mem.config = j.value]

\* The marker is written by a plain query, which no rollback takes back.
TokenConfigsDelta(r, j) ==
  [r EXCEPT !.version = IF r.mem.version # j.version THEN j.version ELSE @,
            !.marker = IF j.version >= 2 /\ @ = 0 THEN j.block ELSE @,
            !.mem.version = j.version]

\* A collection with more fields than the format in memory cannot be decoded.
CollectionsDelta(r, j) ==
  IF j.fields > r.mem.config.format THEN [r EXCEPT !.failed = TRUE]
  ELSE [r EXCEPT !.cols[j.collection] = j.fields]

Seed(r, l) == r
Begin(r, buffered) == r

Run(r, j) ==
  CASE j.name = "config" -> ConfigDelta(r, j)
    [] j.name = "tokenconfigs" -> TokenConfigsDelta(r, j)
    [] OTHER -> CollectionsDelta(r, j)

Commit(r) == r

Loaded(r) ==
  [r EXCEPT !.mem = [version |-> r.version, config |-> [format |-> r.format, tokens |-> r.tokens]]]

\* A rollback restores the rows old; the process keeps its memory.
RolledBack(old, now) ==
  [old EXCEPT !.mem = now.mem, !.marker = now.marker,
              !.stale = now.stale \/ now.mem # Loaded(old).mem]

-----------------------------------------------------------------------------
ConfigSays(l, r) == r.version = l.version /\ r.format = l.format /\ r.tokens = l.tokens

\* The rows are the contract's, and what is decoded by them is; a fork that
\* orphaned a change of the configuration excepted.
Says(l, r) == r.stale \/ (~r.failed /\ ConfigSays(l, r) /\ r.cols = l.cols)
=============================================================================
