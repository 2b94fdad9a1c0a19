------------------------------ MODULE FloatRepair ------------------------------
(***************************************************************************)
(* The pass that turns float attributes an older decoder stored as strings   *)
(* into numbers, by the filler's job in slices and by the command, while     *)
(* the filler writes to the same assets                                     *)
(* (src/src/filler/handlers/atomicassets/float-repair.ts,                    *)
(* src/src/bin/repair-float-attributes.ts).                                  *)
(*                                                                          *)
(* The schemas with float attributes are numbered in the order of the        *)
(* cursor, the assets of each from 1.  Both documents of an asset hold one   *)
(* such attribute; what the filler changes in it is its value.               *)
(***************************************************************************)
EXTENDS Integers, FiniteSets, FiniteSetsExt

CONSTANTS
  Pairs,        \* 1..n: (collection, schema)
  Assets,       \* 1..n: assets of each
  Stored,       \* of each asset, the forms of its documents at first
  Forked,       \* pairs that were created in a reversible block
  BatchSize,
  SliceBatches, \* batches of a slice of the job
  \* bounds
  MaxWrites, MaxStarts, MaxFailures

\* The forms of an attribute: a string to be parsed, one that is no finite
\* number, one that is left as it is, a number, and null.
Forms == {"string", "nonfinite", "unfit", "number", "null"}

\* What an instance has to give.
FloatInstance ==
  /\ IsFiniteSet(Pairs) /\ Pairs = 1..Cardinality(Pairs)
  /\ IsFiniteSet(Assets) /\ Assets = 1..Cardinality(Assets)
  /\ Stored \in [Pairs \X Assets -> Forms \X Forms]
  /\ BatchSize \in Nat \ {0}

VARIABLES
  docs,         \* atomicassets_assets: [value, mutable, immutable], by pair and asset
  undo,         \* of each asset, the row before a reversible write, or none
  exists,       \* atomicassets_schemas
  value,        \* what the contract says
  state,        \* dbinfo: [status, pair, asset], or none
  proc,         \* the slice of each process
  jobDone,      \* floatRepairDone
  revived,      \* history: assets whose old document a rollback has put back
  missed,       \* history: assets written to while their batch was computed
  writes, starts, failures   \* bounds

vars == <<docs, undo, exists, value, state, proc, jobDone, revived, missed, writes, starts, failures>>

All == Pairs \X Assets
Job == "job"
Command == "command"
NoState == [status |-> "none", pair |-> 0, asset |-> 0]
\* at: idle, looping, or in a batch (locked, then read: its rows are computed)
Idle == [at |-> "idle", pairs |-> {}, pair |-> 0, after |-> 0, batches |-> 0, rows |-> <<>>]

Init ==
  /\ docs = [x \in All |-> [value |-> 0, mutable |-> Stored[x][1], immutable |-> Stored[x][2]]]
  /\ undo = [x \in All |-> {}] /\ exists = Pairs /\ value = [x \in All |-> 0]
  /\ state = NoState /\ proc = [p \in {Job, Command} |-> Idle] /\ jobDone = FALSE
  /\ revived = {} /\ missed = {} /\ writes = 0 /\ starts = 0 /\ failures = 0

-----------------------------------------------------------------------------
(* The filler, which decodes floats as numbers.                             *)

SetData(x) ==
  /\ writes < MaxWrites /\ writes' = writes + 1 /\ x[1] \in exists
  /\ value' = [value EXCEPT ![x] = 1 - @]
  /\ undo' = [undo EXCEPT ![x] = IF @ = {} THEN {docs[x]} ELSE @]
  /\ docs' = [docs EXCEPT ![x].value = value'[x], ![x].mutable = "number"]
  /\ UNCHANGED <<exists, state, proc, jobDone, revived, missed, starts, failures>>

\* A fork puts the mutable document back; the log holds only what was written.
Rollback(x) ==
  \E old \in undo[x] :
    /\ docs' = [docs EXCEPT ![x].value = old.value, ![x].mutable = old.mutable]
    /\ value' = [value EXCEPT ![x] = old.value] /\ undo' = [undo EXCEPT ![x] = {}]
    /\ revived' = revived \cup {x}
    /\ UNCHANGED <<exists, state, proc, jobDone, missed, writes, starts, failures>>

\* A fork removes a schema, and the assets that had been minted of it.
DropPair(q) ==
  /\ q \in exists \cap Forked /\ exists' = exists \ {q}
  /\ UNCHANGED <<docs, undo, value, state, proc, jobDone, revived, missed, writes, starts, failures>>

-----------------------------------------------------------------------------
(* A slice.                                                                 *)

First(pairs) == IF pairs = {} THEN 0 ELSE Min(pairs)
Repaired(form) == IF form = "string" THEN "number" ELSE IF form = "nonfinite" THEN "null" ELSE form

\* resumeAt: the pair of the cursor, or the first one after it, from its start.
\* (ResumeInside: a faulty variant that keeps the asset for another pair.)
ResumeInside(pairs) ==
  [pair |-> First({q \in pairs : state.pair <= q}), after |-> state.asset]
Resume(pairs) ==
  [pair |-> First({q \in pairs : state.pair <= q}),
   after |-> IF state.pair \in pairs THEN state.asset ELSE 0]

Enter(p, at) ==
  proc' = [proc EXCEPT ![p] = [Idle EXCEPT !.at = "looping", !.pairs = exists,
                                           !.pair = at.pair, !.after = at.after]]

Start(p) ==
  /\ proc[p] = Idle /\ (p = Command => starts < MaxStarts)
  /\ starts' = IF p = Command THEN starts + 1 ELSE starts
  /\ \/ /\ p = Job /\ ~jobDone /\ state.status = "done"
        /\ jobDone' = TRUE /\ UNCHANGED <<state, proc>>
     \/ /\ (p = Job => ~jobDone) /\ state.status # "done"
        /\ Enter(p, Resume(exists)) /\ UNCHANGED <<state, jobDone>>
     \/ /\ p = Command   \* --restart
        /\ state' = NoState /\ Enter(p, [pair |-> First(exists), after |-> 0]) /\ UNCHANGED jobDone
  /\ UNCHANGED <<docs, undo, exists, value, revived, missed, writes, failures>>

Other(p) == IF p = Job THEN Command ELSE Job
Locked(p) == proc[p].at \in {"locked", "read"}

\* A slice ends when the lock is held, or the job has done its share.
BeginBatch(p) ==
  /\ proc[p].at = "looping" /\ proc[p].pair # 0
  /\ proc' = [proc EXCEPT ![p] = IF Locked(Other(p)) \/ (p = Job /\ proc[p].batches >= SliceBatches)
                                 THEN Idle ELSE [@ EXCEPT !.at = "locked"]]
  /\ UNCHANGED <<docs, undo, exists, value, state, jobDone, revived, missed, writes, starts, failures>>

\* The rows of the batch, as the statement's snapshot has them.
Ids(p) ==
  LET left == IF proc[p].pair \in exists THEN {a \in Assets : a > proc[p].after} ELSE {}
  IN  {a \in left : Cardinality({b \in left : b < a}) < BatchSize}

ReadBatch(p) ==
  /\ proc[p].at = "locked"
  /\ proc' = [proc EXCEPT ![p].at = "read",
                          ![p].rows = [x \in {<<proc[p].pair, a>> : a \in Ids(p)} |-> docs[x]]]
  /\ UNCHANGED <<docs, undo, exists, value, state, jobDone, revived, missed, writes, starts, failures>>

\* A row that has changed since is left alone.  (Overwritten: a faulty variant.)
Overwritten(row, now) ==
  [row EXCEPT !.mutable = Repaired(@), !.immutable = Repaired(@)]
Rewritten(row, now) ==
  IF row = now THEN [row EXCEPT !.mutable = Repaired(@), !.immutable = Repaired(@)] ELSE now

\* The UPDATE, the cursor, and COMMIT.
WriteBatch(p) ==
  LET rows == proc[p].rows
      last == IF DOMAIN rows = {} THEN proc[p].after ELSE Max({x[2] : x \in DOMAIN rows})
      rest == {q \in proc[p].pairs : q > proc[p].pair}
      full == Cardinality(DOMAIN rows) >= BatchSize
  IN /\ proc[p].at = "read"
     /\ docs' = [x \in All |-> IF x \in DOMAIN rows /\ x[1] \in exists
                               THEN Rewritten(rows[x], docs[x]) ELSE docs[x]]
     /\ missed' = missed \cup {x \in DOMAIN rows : rows[x] # docs[x]}
     /\ state' = [status |-> "running", pair |-> proc[p].pair, asset |-> last]
     /\ proc' = [proc EXCEPT ![p].at = "looping", ![p].batches = IF p = Job THEN @ + 1 ELSE 0,
                             ![p].rows = <<>>, ![p].pair = IF full THEN @ ELSE First(rest),
                             ![p].after = IF full THEN last ELSE 0]
     /\ UNCHANGED <<undo, exists, value, jobDone, revived, writes, starts, failures>>

\* markDone
Finish(p) ==
  /\ proc[p].at = "looping" /\ proc[p].pair = 0
  /\ proc' = [proc EXCEPT ![p] = Idle]
  /\ \/ Locked(Other(p)) /\ UNCHANGED <<state, jobDone>>
     \/ ~Locked(Other(p)) /\ state' = [state EXCEPT !.status = "done"] /\ jobDone' = (jobDone \/ p = Job)
  /\ UNCHANGED <<docs, undo, exists, value, revived, missed, writes, starts, failures>>

\* A statement fails or a process stops; a filler that starts again forgets
\* that its pass is done.
Fail(p) ==
  /\ failures < MaxFailures /\ failures' = failures + 1
  /\ proc' = [proc EXCEPT ![p] = Idle]
  /\ jobDone' \in IF p = Job THEN {jobDone, FALSE} ELSE {jobDone}
  /\ UNCHANGED <<docs, undo, exists, value, state, revived, missed, writes, starts>>

Next ==
  \/ \E x \in All : SetData(x) \/ Rollback(x)
  \/ \E q \in Pairs : DropPair(q)
  \/ \E p \in {Job, Command} :
       Start(p) \/ BeginBatch(p) \/ ReadBatch(p) \/ WriteBatch(p) \/ Finish(p) \/ Fail(p)

Spec == Init /\ [][Next]_vars

-----------------------------------------------------------------------------
NoStrings(x) == {docs[x].mutable, docs[x].immutable} \cap {"string", "nonfinite"} = {}

\* The pass never puts an old value over what the filler wrote, and once it is
\* done, in whatever slices and by whichever process, every float of a schema
\* that is there is a number, but for assets whose old document a rollback has
\* brought back, or that were written to between the snapshot of their batch
\* and its UPDATE (which passes over them for good).
FloatsAreRepaired ==
  /\ \A x \in All : x[1] \in exists => docs[x].value = value[x]
  /\ state.status = "done" => \A x \in All : x[1] \in exists /\ x \notin revived \cup missed => NoStrings(x)
=============================================================================
