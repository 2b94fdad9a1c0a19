----------------------------- MODULE V2Continuity -----------------------------
(***************************************************************************)
(* The change of an AtomicAssets contract to version 2, as an indexer lives *)
(* through it: the tables that only version 2 of the filler reads, the      *)
(* marker that says none of their deltas was missed, the guard that refuses *)
(* to start without it, and the ways out of a refusal                       *)
(* (src/src/filler/handlers/atomicassets/{index,v2-guard,reconcile}.ts,     *)
(* processors/{config,templates}.ts, src/src/bin/reconcile.ts).             *)
(*                                                                          *)
(* One template stands for the rows of templates, templates2, schematypes   *)
(* and authorswaps.  Branch switches are left out (StateReceiver), and so   *)
(* is a node that serves the command a branch that is orphaned afterwards.  *)
(***************************************************************************)
EXTENDS Integers, Sequences

CONSTANTS
  Data,                        \* mutable template data
  Installed,                   \* the versions of the filler that may be there first
  \* bounds
  MaxHeight, MaxStarts, MaxRepairs

VARIABLES
  chain,      \* each block: what it did to the contract, and what it left
  software,   \* 1 is a filler from before the change, which drops the new tables
  status,     \* of the filler process
  position,   \* contract_readers.block_num
  row,        \* atomicassets_templates: mutable_data, deleted_at_block
  marker,     \* atomicassets_config.v2_marker_block
  repair,     \* the reconcile command: what it does next, since which head block
  blind,      \* history: the blocks whose new tables the rows have missed
  reach,      \* history: how far the rows have ever been
  snapshot,   \* history: the latest block whose rows a reconcile has read
  excused,    \* history: the operator accepted the gap, or the guard could not look
  starts, repairs   \* bounds

vars == <<chain, software, status, position, row, marker, repair, blind, reach, snapshot,
          excused, starts, repairs>>

Unset == 0
Live == 0        \* deleted_at_block is null
Null == "null"   \* mutable_data is null
Events == {"flip", "bump", "touch", "clear", "delete"} \cup Data
NewTables == {"clear", "delete"} \cup Data

\* What an instance has to give.
VersionInstance ==
  /\ Installed \subseteq 1..2
  /\ Data \cap {"flip", "bump", "touch", "clear", "delete", Null} = {}

TypeOK ==
  /\ chain \in Seq([did: Events, left: [version: Nat, mutable: Data \cup {Null}, deleted: Nat]])
  /\ software \in 1..2
  /\ status \in {"stopped", "running", "refused"}
  /\ position \in 0..reach /\ reach \in 0..Len(chain)
  /\ row \in [mutable: Data \cup {Null}, deleted: 0..MaxHeight]
  /\ marker \in 0..MaxHeight /\ snapshot \in 0..MaxHeight
  /\ repair \in [step: {"none", "templates2", "templates", "marker"}, from: 0..MaxHeight]
  /\ blind \subseteq 1..reach /\ excused \in BOOLEAN

-----------------------------------------------------------------------------
(* The contract (external): a template of it, and its version.              *)

Genesis == [version |-> 1, mutable |-> Null, deleted |-> Live]

Obey(l, n, e) ==
  CASE e \in {"flip", "bump"} -> [l EXCEPT !.version = @ + 1]
    [] e \in Data -> [l EXCEPT !.mutable = e]
    [] e = "clear" -> [l EXCEPT !.mutable = Null]
    [] e = "delete" -> [l EXCEPT !.mutable = Null, !.deleted = n]
    [] OTHER -> l

Ledger(h) == IF h = 0 THEN Genesis ELSE chain[h].left
Served == Ledger(Len(chain))

Allowed(l, e) ==
  CASE e = "flip" -> l.version = 1
    [] e = "bump" -> l.version = 2
    [] e = "touch" -> l.deleted = Live
    [] e = "clear" -> l.mutable # Null
    [] OTHER -> l.version > 1 /\ l.deleted = Live

Mine ==
  /\ Len(chain) < MaxHeight
  /\ \E e \in Events :
       /\ Allowed(Served, e)
       /\ chain' = Append(chain, [did |-> e, left |-> Obey(Served, Len(chain) + 1, e)])
  /\ UNCHANGED <<software, status, position, row, marker, repair, blind, reach, snapshot,
                 excused, starts, repairs>>

-----------------------------------------------------------------------------
(* The filler.                                                              *)

Init ==
  /\ chain = <<>> /\ software \in Installed /\ status = "stopped" /\ position = 0
  /\ row = [mutable |-> Null, deleted |-> Live] /\ marker = Unset
  /\ repair = [step |-> "none", from |-> 0]
  /\ blind = {} /\ reach = 0 /\ snapshot = 0 /\ excused = FALSE
  /\ starts = 0 /\ repairs = 0

\* evaluateV2Guard(), by the version the node reports now.
\* (IgnoresGap: a faulty variant.)
IgnoresGap(version, acceptGap) == "proceed"
Decision(version, acceptGap) ==
  IF version < 2 \/ position = 0 \/ marker # Unset THEN "proceed"
  ELSE IF acceptGap THEN "write-marker" ELSE "block"

\* init(): the guard is skipped when the node does not answer.  A refusal ends
\* the process.
Start ==
  /\ status # "running" /\ repair.step = "none"
  /\ starts < MaxStarts /\ starts' = starts + 1
  /\ \E acceptGap, answers \in BOOLEAN :
       LET decision == IF software = 1 \/ ~answers THEN "proceed"
                       ELSE Decision(Served.version, acceptGap)
       IN  /\ status' = IF decision = "block" THEN "refused" ELSE "running"
           /\ marker' = IF decision = "write-marker" THEN position ELSE marker
           /\ excused' = (excused \/ decision = "write-marker" \/ (software = 2 /\ ~answers))
  /\ UNCHANGED <<chain, software, position, row, repair, blind, reach, snapshot, repairs>>

Stop ==
  /\ status = "running" /\ status' = "stopped"
  /\ UNCHANGED <<chain, software, position, row, marker, repair, blind, reach, snapshot,
                 excused, starts, repairs>>

Upgrade ==
  /\ status # "running" /\ software = 1 /\ software' = 2
  /\ UNCHANGED <<chain, status, position, row, marker, repair, blind, reach, snapshot,
                 excused, starts, repairs>>

\* The table deltas of a block that version 2 of the filler listens to.
\* (KeepsStaleData: a faulty variant, a removed row leaves the data alone.)
KeepsStaleData(r, n, e) ==
  CASE e \in Data -> [r EXCEPT !.mutable = e]
    [] e = "delete" -> [r EXCEPT !.deleted = n]
    [] e = "touch" -> [r EXCEPT !.deleted = Live]
    [] OTHER -> r
Templates(r, n, e) ==
  CASE e \in Data -> [r EXCEPT !.mutable = e]
    [] e = "clear" -> [r EXCEPT !.mutable = Null]
    [] e = "delete" -> [r EXCEPT !.mutable = Null, !.deleted = n]
    [] e = "touch" -> [r EXCEPT !.deleted = Live]
    [] OTHER -> r

\* tokenconfigs of version 2 or more is proof only where there is no marker.
TokenConfigs(m, n, e) == IF e \in {"flip", "bump"} /\ m = Unset THEN n ELSE m

Process ==
  LET n == position + 1
  IN  /\ status = "running" /\ n <= Len(chain) /\ position' = n
      /\ reach' = IF n > reach THEN n ELSE reach
      /\ IF software = 1
           THEN /\ blind' = IF chain[n].did \in NewTables THEN blind \cup {n} ELSE blind
                /\ UNCHANGED <<row, marker>>
           ELSE /\ row' = Templates(row, n, chain[n].did)
                /\ marker' = TokenConfigs(marker, n, chain[n].did)
                /\ blind' = blind \ {n}
      /\ UNCHANGED <<chain, software, status, repair, snapshot, excused, starts, repairs>>

-----------------------------------------------------------------------------
(* The ways out of a refusal.                                               *)

\* UPGRADING.md: the position is set back to before the change, for a replay.
Rewind ==
  /\ status = "refused" /\ repair.step = "none"
  /\ repairs < MaxRepairs /\ repairs' = repairs + 1
  /\ \E n \in 0..(position - 1) :
       /\ \A m \in 1..n : chain[m].did # "flip"
       /\ position' = n
  /\ UNCHANGED <<chain, software, status, row, marker, repair, blind, reach, snapshot,
                 excused, starts>>

\* bin/reconcile.ts and assertReaderStopped(); the head block is noted first.
Reconcile ==
  /\ status # "running" /\ repair.step = "none" /\ software = 2
  /\ repairs < MaxRepairs /\ repairs' = repairs + 1
  /\ repair' = [step |-> "templates2", from |-> Len(chain)]
  /\ UNCHANGED <<chain, software, status, position, row, marker, blind, reach, snapshot,
                 excused, starts>>

Walked(h) ==
  /\ snapshot' = IF h > snapshot THEN h ELSE snapshot
  /\ UNCHANGED <<chain, software, status, position, marker, blind, reach, excused, starts,
                 repairs>>

\* A walk of a table ends at some head block h; others: it has further rows.
\* An empty table is not believed while the database holds live rows.
SeedTemplates2 ==
  /\ repair.step = "templates2"
  /\ \E h \in repair.from..Len(chain), others \in BOOLEAN :
       LET seen == Ledger(h).mutable
       IN  /\ others \/ seen # Null \/ row.mutable = Null \/ row.deleted # Live
           /\ row' = IF row.deleted # Live THEN row ELSE [row EXCEPT !.mutable = seen]
           /\ Walked(h)
  /\ repair' = [repair EXCEPT !.step = "templates"]

\* (MarksNothing: a faulty variant, without the deletion diff.)
MarksNothing(r, h) == r
MarkDeleted(r, h) ==
  IF r.deleted = Live /\ Ledger(h).deleted # Live THEN [r EXCEPT !.deleted = repair.from] ELSE r

DiffTemplates ==
  /\ repair.step = "templates"
  /\ \E h \in repair.from..Len(chain), others \in BOOLEAN :
       /\ others \/ Ledger(h).deleted = Live \/ row.deleted # Live
       /\ row' = MarkDeleted(row, h) /\ Walked(h)
  /\ repair' = [repair EXCEPT !.step = "marker"]

WriteMarker ==
  /\ repair.step = "marker"
  /\ marker' = repair.from /\ blind' = {}
  /\ repair' = [repair EXCEPT !.step = "none"]
  /\ UNCHANGED <<chain, software, status, position, row, reach, snapshot, excused, starts,
                 repairs>>

\* The command refuses an empty table, or fails otherwise, between its steps.
ReconcileFails ==
  /\ repair.step # "none" /\ repair' = [repair EXCEPT !.step = "none"]
  /\ UNCHANGED <<chain, software, status, position, row, marker, blind, reach, snapshot,
                 excused, starts, repairs>>

Next ==
  \/ Mine \/ Start \/ Stop \/ Upgrade \/ Process
  \/ Rewind \/ Reconcile \/ SeedTemplates2 \/ DiffTemplates \/ WriteMarker \/ ReconcileFails

Spec == Init /\ [][Next]_vars

-----------------------------------------------------------------------------
\* The marker is not there unless every delta of the new tables up to the
\* position was read, or the gap was closed by a reconcile.
MarkerMeansComplete == marker # Unset /\ ~excused => blind \cap 1..position = {}

\* Rows that have missed nothing say what the contract says, once the reader is
\* back where they have been: after a replay over kept rows with the exact
\* blocks, after a reconcile with deletions no earlier than they were.
RowsAreHealed ==
  LET l == Ledger(position)
  IN  blind = {} /\ position = reach /\ position >= snapshot =>
        /\ row.mutable = l.mutable
        /\ row.deleted = l.deleted \/ (l.deleted # Live /\ row.deleted \in l.deleted..snapshot)

\* UPGRADING.md: "A fresh sync is unaffected": an indexer that version 2 of the
\* filler has filled from the first block on is not refused.
FreshSyncIsUnaffected == Installed = {2} => status # "refused"
=============================================================================
