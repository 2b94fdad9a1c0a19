------------------------------ MODULE Migrations ------------------------------
(***************************************************************************)
(* The schema of the database and the process that brings it to the version *)
(* of its image before the readers start                                     *)
(* (src/src/filler/upgrade-db.ts, src/src/bin/{migrate,init-schema}.ts).     *)
(*                                                                          *)
(* Versions are counted from 0, the one of the base tables.  One process     *)
(* migrates at a time, and from one start to the next images get newer and   *)
(* handlers are added to the configuration.                                  *)
(***************************************************************************)
EXTENDS Integers, Sequences

CONSTANTS
  Handlers,    \* names of handlers
  Newest,      \* version of the newest image
  Deferred,    \* the versions with statements that run outside a transaction
  \* bound
  MaxBoots

VARIABLES
  db,          \* committed: the version in dbinfo and, of each handler, the scripts that ran
  built,       \* the deferred statements that ran to their end, each of <<version, handler>>
  image,       \* version of the image
  config,      \* handlers in readers.config.json
  mig,         \* the process
  boots        \* bound

vars == <<db, built, image, config, mig, boots>>

\* Script 0 of a handler creates its tables: setup().
NoTables == <<>>
NoBase == [version |-> -1, ran |-> [h \in Handlers |-> NoTables]]

\* at: where the process is; version: currentVersion, then the one it upgrades
\* to; todo: handlers left in this step; work: what its transaction has written.
\* One handler does not see what another one's scripts do, so any may be next.
Stopped == [at |-> "stopped", version |-> 0, todo |-> {}, work |-> NoBase]

Init ==
  /\ db = NoBase /\ built = {} /\ image = 0 /\ config = {} /\ mig = Stopped /\ boots = 0

Step(at, version, work) == [at |-> at, version |-> version, todo |-> config, work |-> work]

\* The transaction leaves a handler with these scripts.
Scripts(h) == mig.work.ran[h]
Ran(h, scripts) == [mig EXCEPT !.todo = @ \ {h}, !.work.ran[h] = scripts]

-----------------------------------------------------------------------------
Boot ==
  /\ mig.at \in {"stopped", "done"} /\ boots < MaxBoots /\ boots' = boots + 1
  /\ image' \in image..Newest
  /\ config' \in {c \in SUBSET Handlers : c # {} /\ config \subseteq c}
  /\ mig' = [Stopped EXCEPT !.at = "base"]
  /\ UNCHANGED <<db, built>>

\* initBaseTables, also by init-schema.
InitBaseTables ==
  /\ mig.at = "base"
  /\ db' = IF db.version = -1 THEN [db EXCEPT !.version = 0] ELSE db
  /\ mig' = [mig EXCEPT !.at = "begin"]
  /\ UNCHANGED <<built, image, config, boots>>

Begin ==
  /\ mig.at = "begin" /\ mig' = Step("setup", db.version, db)
  /\ UNCHANGED <<db, built, image, config, boots>>

\* A new handler gets its tables and the scripts of the versions the database
\* is past.  (BeforeCurrent: a faulty variant that leaves the current one out.)
BeforeCurrent(version) == [v \in 1..(version - 1) |-> v]
PastVersions(version) == [v \in 1..(IF version <= image THEN version ELSE image) |-> v]

SetUp ==
  /\ mig.at = "setup"
  /\ \E h \in mig.todo :
       mig' = Ran(h, IF Scripts(h) = NoTables THEN <<0>> \o PastVersions(mig.version) ELSE Scripts(h))
  /\ UNCHANGED <<db, built, image, config, boots>>

\* The next version to upgrade to, or the end.
Onward == IF mig.version < image THEN Step("database", mig.version + 1, NoBase) ELSE [Stopped EXCEPT !.at = "done"]

CommitSetUp ==
  /\ mig.at = "setup" /\ mig.todo = {}
  /\ db' = mig.work /\ mig' = Onward
  /\ UNCHANGED <<built, image, config, boots>>

\* BEGIN, and database.sql, which ends with the new version in dbinfo.
BeginVersion ==
  /\ mig.at = "database"
  /\ mig' = Step("scripts", mig.version, [db EXCEPT !.version = mig.version])
  /\ UNCHANGED <<db, built, image, config, boots>>

\* The script of a handler, and what upgrade() does for the version.
RunScript ==
  /\ mig.at = "scripts"
  /\ \E h \in mig.todo :
       mig' = Ran(h, Append(Scripts(h), mig.version))
  /\ UNCHANGED <<db, built, image, config, boots>>

CommitVersion ==
  /\ mig.at = "scripts" /\ mig.todo = {}
  /\ db' = mig.work
  /\ mig' = IF mig.version \in Deferred THEN Step("deferred", mig.version, NoBase) ELSE Onward
  /\ UNCHANGED <<built, image, config, boots>>

RunDeferred ==
  /\ mig.at = "deferred"
  /\ \E h \in mig.todo :
       /\ built' = built \cup {<<mig.version, h>>} /\ mig' = [mig EXCEPT !.todo = @ \ {h}]
  /\ UNCHANGED <<db, image, config, boots>>

DeferredRan ==
  /\ mig.at = "deferred" /\ mig.todo = {} /\ mig' = Onward
  /\ UNCHANGED <<db, built, image, config, boots>>

\* A statement fails, or the process dies: an open transaction is rolled back,
\* and the supervisor starts the process again.
Fail ==
  /\ mig.at \notin {"stopped", "done"} /\ mig' = Stopped
  /\ UNCHANGED <<db, built, image, config, boots>>

Next ==
  \/ Boot \/ InitBaseTables \/ Begin \/ SetUp \/ CommitSetUp \/ BeginVersion \/ RunScript
  \/ CommitVersion \/ RunDeferred \/ DeferredRan \/ Fail

Spec == Init /\ [][Next]_vars

-----------------------------------------------------------------------------
\* Whatever failed on the way, the version in dbinfo tells which scripts have
\* run for every handler that has tables: all of them up to it, in order and
\* once, also for handlers that were added later.  When the readers start, each
\* of their handlers has its tables, at the version of the image, and what
\* was deferred follows a version that is there.
AllUpTo(version) == [i \in 1..(version + 1) |-> i - 1]

VersionMeansMigrated ==
  /\ \A h \in Handlers : db.ran[h] \in {NoTables, AllUpTo(db.version)}
  /\ mig.at = "done" => db.version = image /\ \A h \in config : db.ran[h] # NoTables
  /\ \A d \in built : d[1] <= db.version
=============================================================================
