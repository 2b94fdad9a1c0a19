---------------------------- MODULE Notifications ----------------------------
(***************************************************************************)
(* What reaches the socket clients: the reader queues a notification for     *)
(* every trace it stores and for every fork, publishes them after the commit *)
(* (src/filler/notifier.ts, src/filler/notification-format.ts), and the API  *)
(* server reads the rows they name on a replica before it tells its clients  *)
(* (src/api/notification.ts, src/api/notification-read.ts).                  *)
(***************************************************************************)
EXTENDS Integers, Sequences, FiniteSets, SequencesExt, Functions

CONSTANTS
  Channels,   \* "sales", "assets", ...: each has one listener
  MaxHeight,  \* bound: of the chain
  MaxBlocks,  \* bound: blocks processed, on any branch
  MaxFaults,  \* bound: crashes and failed publications
  Chunk,      \* NOTIFICATION_CHUNK_SIZE
  Attempts,   \* reads of the rows of a message
  Bodies      \* transactions of one id

VARIABLES
  chain,      \* the blocks applied, committed or not
  committed,  \* the chains committed, one after the other; the last is in force
  batch,      \* notifications and publishableFlags
  todo,       \* the batch that is being published
  wire,       \* the messages published
  received,   \* how many of them the server has taken
  tasks,      \* listener callbacks that await their rows
  told,       \* what the clients were sent last
  replica,    \* how far the replica has replayed the commits
  eligible,   \* history: the notifications queued near the head
  lost,       \* history: a committed batch was not published
  blocks, faults

noteVars == <<chain, committed, batch, todo, wire, received, tasks, told, replica,
              eligible, lost, blocks, faults>>

Primary == Last(committed)
Trace(c, h, b, tx) == [type |-> "trace", channel |-> c, height |-> h, block |-> b, tx |-> tx]
Fork(h, b) == [type |-> "fork", channel |-> "", height |-> h, block |-> b, tx |-> 0]

Init ==
  /\ chain = <<>> /\ committed = << <<>> >> /\ batch = <<>> /\ todo = <<>> /\ wire = <<>>
  /\ received = 0 /\ tasks = {} /\ told = <<>> /\ replica = 1
  /\ eligible = {} /\ lost = FALSE /\ blocks = 0 /\ faults = 0

Flagged(notes, flag) == [i \in DOMAIN notes |-> [note |-> notes[i], publishable |-> flag]]

\* (ForkIsGated: a faulty variant that treats a fork as any notification.)
ForkIsGated(near) == near
ForkIsPublishable(near) == TRUE

-----------------------------------------------------------------------------
(* The reader.                                                              *)

\* A block is applied, in a group or alone; near: it is within the head distance.
Apply(near, notes) ==
  /\ todo = <<>> /\ IsPrefix(Primary, chain) /\ blocks < MaxBlocks /\ blocks' = blocks + 1
  /\ Len(chain) < MaxHeight /\ chain' = Append(chain, blocks')
  /\ batch' = batch \o Flagged(notes, near)
  /\ eligible' = IF near THEN eligible \cup ToSet(notes) ELSE eligible
  /\ UNCHANGED <<committed, todo, wire, received, tasks, told, replica, lost, faults>>

\* A block at or below the current one, in a transaction of its own.
ApplyFork(h, near, notes) ==
  /\ todo = <<>> /\ batch = <<>> /\ chain = Primary /\ h \in DOMAIN chain
  /\ blocks < MaxBlocks /\ blocks' = blocks + 1
  /\ chain' = Append(SubSeq(chain, 1, h - 1), blocks')
  /\ batch' = Flagged(<<Fork(h, blocks')>>, ForkIsPublishable(near)) \o Flagged(notes, near)
  /\ eligible' = IF near THEN eligible \cup ToSet(notes) ELSE eligible
  /\ UNCHANGED <<committed, todo, wire, received, tasks, told, replica, lost, faults>>

NotesOf(h, b) ==
  {<<>>} \cup {<<Trace(c, h, b, 1), Trace(d, h, b, tx)>> : c \in Channels, d \in Channels, tx \in Bodies}

\* The publishable ones of a batch, in their order.
Kept(b) == {i \in DOMAIN b : b[i].publishable}
Nth(S, i) == CHOOSE k \in S : Cardinality({m \in S : m <= k}) = i
Publishable(b) == [i \in 1..Cardinality(Kept(b)) |-> b[Nth(Kept(b), i)].note]

Commit ==
  /\ todo = <<>> /\ chain # Primary
  /\ committed' = Append(committed, chain)
  /\ todo' = Publishable(batch) /\ batch' = <<>>
  /\ UNCHANGED <<chain, wire, received, tasks, told, replica, eligible, lost, blocks, faults>>

\* One transaction object per message, under its id or the id with a suffix.
\* (ById: a faulty variant that keys the transactions by their id alone.)
FirstAt(chunk, tx) == CHOOSE i \in DOMAIN chunk : chunk[i].tx = tx /\ \A k \in 1..i - 1 : chunk[k].tx # tx
ById(chunk, tx) == 0
Reference(chunk, tx) ==
  Cardinality({chunk[i].tx : i \in 1..FirstAt(chunk, tx) - 1} \ {0})

TxsOf(chunk) == {chunk[i].tx : i \in DOMAIN chunk} \ {0}
Encode(chunk) ==
  [txs |-> [r \in {Reference(chunk, tx) : tx \in TxsOf(chunk)} |->
              CHOOSE tx \in TxsOf(chunk) : Reference(chunk, tx) = r],
   entries |-> [i \in DOMAIN chunk |->
                  [chunk[i] EXCEPT !.tx = IF @ = 0 THEN -1 ELSE Reference(chunk, chunk[i].tx)]]]

\* A message is dropped whole unless every reference is met and every
\* transaction referred to.
Accepted(m) ==
  /\ Len(m.entries) <= Chunk
  /\ DOMAIN m.txs = {m.entries[i].tx : i \in DOMAIN m.entries} \ {-1}
Decode(m) ==
  IF ~Accepted(m) THEN <<>>
  ELSE [i \in DOMAIN m.entries |-> [m.entries[i] EXCEPT !.tx = IF @ = -1 THEN 0 ELSE m.txs[@]]]

Size(s) == IF Len(s) < Chunk THEN Len(s) ELSE Chunk
Publish ==
  /\ todo # <<>>
  /\ wire' = Append(wire, Encode(SubSeq(todo, 1, Size(todo))))
  /\ todo' = SubSeq(todo, Size(todo) + 1, Len(todo))
  /\ UNCHANGED <<chain, committed, batch, received, tasks, told, replica, eligible, lost, blocks, faults>>

\* The first failing chunk ends the batch; a crash does too, and rolls back what
\* was not committed.
Fail ==
  /\ faults < MaxFaults /\ faults' = faults + 1 /\ (todo # <<>> \/ batch # <<>>)
  /\ lost' = (lost \/ todo # <<>>) /\ todo' = <<>>
  /\ IF todo # <<>> THEN UNCHANGED <<chain, batch, eligible>>
     ELSE /\ chain' = Primary /\ batch' = <<>>
          /\ eligible' = {n \in eligible : n.height \in DOMAIN Primary /\ Primary[n.height] = n.block}
  /\ UNCHANGED <<committed, wire, received, tasks, told, replica, blocks>>

-----------------------------------------------------------------------------
(* The API server.                                                          *)

\* A message is decoded and handed to every listener it concerns.
Concerning(channel, notes) == SelectSeq(notes, LAMBDA n : n.channel = channel \/ n.type = "fork")
Receive ==
  /\ received < Len(wire) /\ received' = received + 1
  /\ LET notes == Decode(wire[received'])
     IN  tasks' = tasks \cup
           {[message |-> received', channel |-> c, attempt |-> 1, notes |-> Concerning(c, notes)] :
              c \in {d \in Channels : Concerning(d, notes) # <<>>}}
  /\ UNCHANGED <<chain, committed, batch, todo, wire, told, replica, eligible, lost, blocks, faults>>

\* The rows on the replica: of a trace, the block that wrote its row last.
Replica == committed[replica]
RowOf(n) == IF n.height \in DOMAIN Replica THEN Replica[n.height] ELSE 0

\* A row is behind until its block column reaches the notified height.
\* (IfMissing: a faulty variant that answers with what the first read found.)
IfMissing(task) == {}
Behind(task) == {n \in ToSet(task.notes) : n.type = "trace" /\ n.height \notin DOMAIN Replica}

ReadAgain(task) ==
  /\ task \in tasks /\ Behind(task) # {} /\ task.attempt < Attempts
  /\ tasks' = (tasks \ {task}) \cup {[task EXCEPT !.attempt = @ + 1]}
  /\ UNCHANGED <<chain, committed, batch, todo, wire, received, told, replica, eligible, lost, blocks, faults>>

Emit(task) ==
  /\ task \in tasks /\ (Behind(task) = {} \/ task.attempt = Attempts)
  /\ tasks' = tasks \ {task}
  /\ told' = [i \in DOMAIN task.notes |->
       [note |-> task.notes[i], row |-> RowOf(task.notes[i]), attempt |-> task.attempt]]
  /\ UNCHANGED <<chain, committed, batch, todo, wire, received, replica, eligible, lost, blocks, faults>>

Replay ==
  /\ replica < Len(committed) /\ replica' = replica + 1
  /\ UNCHANGED <<chain, committed, batch, todo, wire, received, tasks, told, eligible, lost, blocks, faults>>

Next ==
  \/ \E near \in BOOLEAN, notes \in NotesOf(Len(chain) + 1, blocks + 1) : Apply(near, notes)
  \/ \E h \in 1..MaxHeight, near \in BOOLEAN :
       \E notes \in NotesOf(h, blocks + 1) : ApplyFork(h, near, notes)
  \/ Commit \/ Publish \/ Fail \/ Receive \/ Replay
  \/ \E task \in tasks : ReadAgain(task) \/ Emit(task)

Spec == Init /\ [][Next]_noteVars

-----------------------------------------------------------------------------
\* What a client knows that has heard these messages, in this order: a fork
\* takes back the traces of its height and above.
TakesBack(notes, n) == \E i \in DOMAIN notes : notes[i].type = "fork" /\ notes[i].height <= n.height
Remain(notes) ==
  {notes[i] : i \in {k \in DOMAIN notes :
     notes[k].type = "trace" /\ ~TakesBack(SubSeq(notes, k + 1, Len(notes)), notes[k])}}
Known(messages) ==
  UNION {{n \in Remain(messages[i]) : \A k \in i + 1..Len(messages) : ~TakesBack(messages[k], n)}
         : i \in DOMAIN messages}

\* Once a batch is out, whoever listens to the channel knows the traces of the
\* canonical blocks that were near the head, each with its own transaction, and
\* no other (notifier.ts:94, notifier.ts:107, notification-format.ts:52).
ListenersFollowTheChain ==
  todo = <<>> /\ batch = <<>> /\ ~lost =>
    Known([i \in DOMAIN wire |-> Decode(wire[i])])
      = {n \in eligible : n.height \in DOMAIN Primary /\ Primary[n.height] = n.block}

\* A client is given the row as of the notified block or a later one, unless the
\* replica lagged through every read (notification-read.ts:87).
RowsAreServedFresh ==
  \A i \in DOMAIN told :
    told[i].note.type = "trace" /\ told[i].attempt < Attempts => told[i].row # 0
=============================================================================
