------------------------------- MODULE AbiCache -------------------------------
(***************************************************************************)
(* Which ABI decodes an action (src/src/filler/receiver.ts).  While one      *)
(* block is processed, the next ones are already decoded as an estimate,     *)
(* under the ABI the reader knows by then; processing a trace keeps the      *)
(* estimate if it was made under the ABI in force and else decodes again.    *)
(* Both stages share one in-memory cache per contract, filled from the table *)
(* contract_abis, from the node's get_abi, or by a setabi processed.         *)
(*                                                                          *)
(* One contract.  A block is a sequence of its items: Use, an action to      *)
(* decode, or the version an eosio::setabi brings in.                        *)
(***************************************************************************)
EXTENDS Integers, Sequences, SequencesExt

CONSTANTS
  Bodies,      \* what a block may hold: sequences over {Use} and versions 1, 2, ...
  MaxBlocks,   \* bound: height of the chain
  MaxForks,    \* bound
  MaxRestarts, \* bound
  Depth,       \* ship_ds_queue_size: blocks between deserialization and commit
  OrphanAbis,  \* a fork may orphan a setabi
  LateAbis,    \* a restart may replay a block whose setabi follows an action
  Origins,     \* whether contract_abis holds the ABI from before the first block
  RpcFails     \* get_abi may fail

Use == 0
First == 100  \* the version in force before the first block
None == -1    \* no ABI, or an undecoded estimate

VARIABLES
  chain,     \* the active branch
  forks, restarts,
  table,     \* contract_abis: block number -> version
  abis,      \* this.abis[contract]
  next,      \* the number of the next block SHIP sends
  blocks,    \* blocks received, oldest first; the last may still be in preparation
  fetch,     \* for each stage, how far its fetchContractAbi() has come
  inserting, \* the version whose INSERT into contract_abis is under way
  committed, \* contract_readers.block_num
  decoded    \* of the item processed last: the version used and the one in force

vars == <<chain, forks, restarts, table, abis, next, blocks, fetch, inserting, committed, decoded>>

Stages == {"prepare", "process"}

\* An entry of the cache.  block_num is -1 for an ABI of unknown age and
\* Undefined, which compares with nothing, where none was found.
Undefined == -2
Abi(version, num) == [version |-> version, block_num |-> num]
NoAbi == Abi(None, Undefined)
AtMost(m, n) == m # Undefined /\ n # Undefined /\ m <= n

LastOf(S) == CHOOSE n \in S : \A m \in S : m <= n
Sets(s) == \E i \in DOMAIN s : s[i] # Use
Last0(s, default) == IF Sets(s) THEN s[LastOf({i \in DOMAIN s : s[i] # Use})] ELSE default
InForce(c) == LET setting == {n \in DOMAIN c : Sets(c[n])}
              IN  IF setting = {} THEN First ELSE Last0(c[LastOf(setting)], First)
Wanted(b) == Last0(SubSeq(b.body, 1, b.done), b.start)

Idle == [at |-> "idle", abi |-> NoAbi]

Init ==
  /\ chain = <<>> /\ forks = 0 /\ restarts = 0
  /\ \E known \in Origins : table = [n \in IF known THEN {0} ELSE {} |-> First]
  /\ abis = NoAbi /\ next = 1 /\ blocks = <<>>
  /\ fetch = [s \in Stages |-> Idle] /\ inserting = None
  /\ committed = 0 /\ decoded = [used |-> First, wanted |-> First, unseen |-> TRUE]

-----------------------------------------------------------------------------
(* The chain and SHIP.                                                      *)

Extend ==
  /\ Len(chain) < MaxBlocks
  /\ \E body \in Bodies : chain' = Append(chain, body)
  /\ UNCHANGED <<forks, restarts, table, abis, next, blocks, fetch, inserting, committed, decoded>>

Fork ==
  /\ forks < MaxForks /\ forks' = forks + 1
  /\ \E k \in 0..Len(chain) - 1 :
        /\ OrphanAbis \/ \A n \in k + 1..Len(chain) : ~Sets(chain[n])
        /\ chain' = SubSeq(chain, 1, k)
        /\ next' = IF next > k + 1 THEN k + 1 ELSE next
  /\ UNCHANGED <<restarts, table, abis, blocks, fetch, inserting, committed, decoded>>

\* consume(): a block enters once dsLock lets it.  start is in force before it.
\* (AdmitsMore: a faulty variant, off by one.)
AdmitsMore == Len(blocks) <= Depth
Admits == Len(blocks) < Depth
Receive ==
  /\ next <= Len(chain) /\ Admits
  /\ blocks # <<>> => Last(blocks).prepared = Len(Last(blocks).body)
  /\ blocks' = Append(blocks, [num |-> next, body |-> chain[next], start |-> InForce(SubSeq(chain, 1, next - 1)),
                               estimates |-> <<>>, prepared |-> 0, done |-> 0])
  /\ next' = next + 1
  /\ UNCHANGED <<chain, forks, restarts, table, abis, fetch, inserting, committed, decoded>>

-----------------------------------------------------------------------------
(* fetchContractAbi(), in either stage.                                     *)

At(stage) == IF stage = "prepare" THEN Len(blocks) ELSE 1
Working(stage) ==
  /\ blocks # <<>>
  /\ IF stage = "prepare" THEN Last(blocks).prepared < Len(Last(blocks).body)
     ELSE blocks[1].prepared = Len(blocks[1].body) /\ blocks[1].done < Len(blocks[1].body) /\ inserting = None
Item(stage) == LET b == blocks[At(stage)]
               IN  b.body[1 + IF stage = "prepare" THEN b.prepared ELSE b.done]
BlockNum(stage) == blocks[At(stage)].num

\* The stage goes on with the ABI it got.  prepareActionTraces() decodes under
\* it.  handleActionTrace() takes the estimate if the block numbers agree.
\* (UseAnyEstimate: a faulty variant without the comparison.)
UseAnyEstimate(estimate, abi) == estimate.version # None
UseEstimate(estimate, abi) == estimate.version # None /\ estimate.block_num = abi.block_num

Prepared(abi) ==
  /\ blocks' = [blocks EXCEPT ![Len(blocks)].estimates = Append(@, abi), ![Len(blocks)].prepared = @ + 1]
  /\ UNCHANGED decoded
Processed(abi) ==
  LET b == blocks[1]
      estimate == b.estimates[b.done + 1]
  IN  /\ blocks' = [blocks EXCEPT ![1].done = @ + 1]
      /\ decoded' = [used |-> IF UseEstimate(estimate, abi) THEN estimate.version ELSE abi.version,
                     wanted |-> Wanted(b), unseen |-> 0 \notin DOMAIN table /\ Wanted(b) = First]
GoOn(stage, abi) == IF stage = "prepare" THEN Prepared(abi) ELSE Processed(abi)

CacheHit(num) == AtMost(abis.block_num, num)
Lookup(stage) ==
  /\ Working(stage) /\ fetch[stage].at = "idle" /\ Item(stage) = Use
  /\ IF CacheHit(BlockNum(stage))
       THEN GoOn(stage, abis) /\ UNCHANGED fetch
       ELSE fetch' = [fetch EXCEPT ![stage].at = "query"] /\ UNCHANGED <<blocks, decoded>>
  /\ UNCHANGED <<chain, forks, restarts, table, abis, next, inserting, committed>>

Answer(stage, at, abi) == fetch' = [fetch EXCEPT ![stage] = [at |-> at, abi |-> abi]]
Rows(stage, below) == {n \in DOMAIN table : (n <= BlockNum(stage)) = below}

\* fetchAbi(): the last row at or below the block.
QueryAbi(stage) ==
  /\ fetch[stage].at = "query"
  /\ LET rows == Rows(stage, TRUE)
     IN  IF rows = {} THEN Answer(stage, "next", NoAbi)
         ELSE Answer(stage, "answered", Abi(table[LastOf(rows)], LastOf(rows)))
  /\ UNCHANGED <<chain, forks, restarts, table, abis, next, blocks, inserting, committed, decoded>>

\* fetchNextAbi(): else the first above it, of unknown age.
QueryNextAbi(stage) ==
  /\ fetch[stage].at = "next"
  /\ LET rows == Rows(stage, FALSE)
     IN  IF rows = {} THEN Answer(stage, "rpc", NoAbi)
         ELSE Answer(stage, "answered", Abi(table[CHOOSE n \in rows : \A m \in rows : n <= m], -1))
  /\ UNCHANGED <<chain, forks, restarts, table, abis, next, blocks, inserting, committed, decoded>>

\* get_abi: else the one at the head of the chain.
GetAbi(stage) ==
  /\ fetch[stage].at = "rpc"
  /\ \/ Answer(stage, "answered", Abi(InForce(chain), -1))
     \/ RpcFails /\ Answer(stage, "answered", NoAbi)
  /\ UNCHANGED <<chain, forks, restarts, table, abis, next, blocks, inserting, committed, decoded>>

\* (ReplaceAlways: a faulty variant that lets a late answer replace a newer entry.)
ReplaceAlways(abi) == TRUE
Replaces(abi) == abis = NoAbi \/ AtMost(abis.block_num, abi.block_num)

Resume(stage) ==
  /\ fetch[stage].at = "answered"
  /\ LET abi == fetch[stage].abi
     IN  /\ abis' = IF Replaces(abi) THEN abi ELSE abis
         /\ GoOn(stage, abi)
  /\ fetch' = [fetch EXCEPT ![stage] = Idle]
  /\ UNCHANGED <<chain, forks, restarts, table, next, inserting, committed>>

Fetch(stage) == Lookup(stage) \/ QueryAbi(stage) \/ QueryNextAbi(stage) \/ GetAbi(stage) \/ Resume(stage)

-----------------------------------------------------------------------------
(* setabi, the end of a block, and of the process.                          *)

\* Decoding a setabi takes the ABI of eosio, which is another contract's.
PrepareSetAbi ==
  /\ Working("prepare") /\ Item("prepare") # Use
  /\ Prepared(NoAbi)
  /\ UNCHANGED <<chain, forks, restarts, table, abis, next, fetch, inserting, committed>>

\* handleAbiUpdate(): the cache at once, the table through a connection of its own.
HandleAbiUpdate ==
  /\ Working("process") /\ Item("process") # Use
  /\ abis' = Abi(Item("process"), BlockNum("process"))
  /\ inserting' = Item("process")
  /\ UNCHANGED <<chain, forks, restarts, table, next, blocks, fetch, committed, decoded>>

\* Any error of the INSERT passes for "already in cache".
\* (RowOfLatest: a faulty variant that takes the block received last.)
RowOfLatest == BlockNum("prepare")
RowNum == BlockNum("process")
InsertAbi ==
  /\ inserting # None
  /\ LET n == RowNum
     IN  table' = [m \in DOMAIN table \cup {n} |-> IF m \in DOMAIN table THEN table[m] ELSE inserting]
  /\ inserting' = None
  /\ blocks' = [blocks EXCEPT ![1].done = @ + 1]
  /\ UNCHANGED <<chain, forks, restarts, abis, next, fetch, committed, decoded>>

\* The block commits, with the checkpoint or (in a catch-up group) before it.
EndBlock ==
  /\ blocks # <<>> /\ blocks[1].done = Len(blocks[1].body) /\ inserting = None
  /\ committed' \in {committed, blocks[1].num}
  /\ blocks' = Tail(blocks)
  /\ UNCHANGED <<chain, forks, restarts, table, abis, next, fetch, inserting, decoded>>

AbiFirst(body) == \A i \in 2..Len(body) : body[i] = Use

\* The cache is empty and the queues are gone; contract_abis is not.  (After a
\* fork the first block served depends on have_positions: see StateReceiver.)
Restart ==
  /\ restarts < MaxRestarts /\ forks = 0 /\ restarts' = restarts + 1
  /\ LateAbis \/ \A n \in committed + 1..next - 1 : AbiFirst(chain[n])
  /\ abis' = NoAbi /\ blocks' = <<>> /\ fetch' = [s \in Stages |-> Idle] /\ inserting' = None
  /\ next' = committed + 1
  /\ UNCHANGED <<chain, forks, table, committed, decoded>>

Next ==
  \/ Extend \/ Fork \/ Receive \/ PrepareSetAbi \/ HandleAbiUpdate \/ InsertAbi \/ EndBlock \/ Restart
  \/ \E stage \in Stages : Fetch(stage)

Spec == Init /\ [][Next]_vars

-----------------------------------------------------------------------------
TypeOK ==
  /\ chain \in Seq(Bodies) /\ next \in 1..MaxBlocks + 1 /\ committed \in 0..MaxBlocks
  /\ abis.version \in {None, First} \cup Nat /\ abis.block_num \in Undefined..MaxBlocks
  /\ Len(blocks) <= Depth
  /\ \A b \in ToSet(blocks) : Len(b.estimates) = b.prepared /\ b.done <= b.prepared
  /\ \A s \in Stages : fetch[s].at \in {"idle", "query", "next", "rpc", "answered"}

\* receiver.ts:427: every action is decoded by the ABI in force where it stands,
\* however far its block was decoded ahead.  An ABI from before the first block
\* that contract_abis does not hold is out of reach.
DecodedByAbiInForce == decoded.unseen \/ decoded.used = decoded.wanted

\* receiver.ts:696: no late answer from the table replaces the ABI of a setabi
\* that was processed while it was under way.  (A restarted reader replays a
\* setabi after the lookups of blocks decoded ahead, which find the rows the
\* last process left ahead of it.)
CacheNeverAges ==
  [][abis # NoAbi /\ restarts' = 0 => AtMost(abis.block_num, abis'.block_num)]_vars

\* receiver.ts:537: what a restarted reader finds in contract_abis at a block is
\* the ABI that block left in force.
DurableAbiIsInForce ==
  \A n \in DOMAIN table : n \in 1..Len(chain) => table[n] = InForce(SubSeq(chain, 1, n))
=============================================================================
