----------------------------- MODULE MCHeadBlocks -----------------------------
(***************************************************************************)
(* TLC instances of what becomes of the blocks near the head: the rows of    *)
(* StateReceiver, the mint numbers of the assets in them, and the repair of  *)
(* float attributes while they are written.  They share no state here, so a  *)
(* behaviour is one of them: part chooses which.                            *)
(***************************************************************************)
EXTENDS StateReceiver

CONSTANTS
  Templates, Callers, Limit, MaxBlocks, MaxAssets, MaxSales, MaxStops,
  Pairs, Assets, Stored, Forked, BatchSize, SliceBatches, MaxWrites, MaxStarts, MaxFailures

VARIABLES part, assets, mint, sales, head, final, call, stops,
          docs, undoDocs, exists, said, pass, proc, jobDone, revived, missed, writes, starts, failures

receiver == vars
mints == <<assets, mint, sales, head, final, call, stops>>
floats == <<docs, undoDocs, exists, said, pass, proc, jobDone, revived, missed, writes, starts, failures>>

M == INSTANCE MintNumbers WITH lib <- final
F == INSTANCE FloatRepair WITH undo <- undoDocs, value <- said, state <- pass
ASSUME MintInstanceAssumption == M!MintInstance
ASSUME FloatInstanceAssumption == F!FloatInstance

\* Two schemas of two assets; the first asset of each holds a string and a
\* non-finite one, the second a string alone.
Mixed == [x \in {1, 2} \X {1, 2} |->
            IF x[2] = 1 THEN <<"string", "nonfinite">> ELSE <<"unfit", "string">>]

HeadInit == part \in {"receiver", "mints", "floats"} /\ Init /\ M!Init /\ F!Init

HeadNext ==
  /\ UNCHANGED part
  /\ \/ part = "receiver" /\ Next /\ UNCHANGED <<mints, floats>>
     \/ part = "mints" /\ M!Next /\ UNCHANGED <<receiver, floats>>
     \/ part = "floats" /\ F!Next /\ UNCHANGED <<receiver, mints>>

\* The fairness of each part, where it is the one that runs.
Runs(p) == part = p
HeadFairness ==
  /\ WF_vars(Runs("receiver") /\ Process) /\ WF_vars(Runs("receiver") /\ Start)
  /\ WF_vars(Runs("receiver") /\ WatchdogExit)
  /\ WF_mints(Runs("mints") /\ M!AdvanceLib)
  /\ \A c \in Callers : /\ WF_mints(Runs("mints") /\ M!Call(c))
                       /\ WF_mints(Runs("mints") /\ M!Query(c))
                       /\ WF_mints(Runs("mints") /\ M!Update(c))

HeadSpec == HeadInit /\ [][HeadNext]_<<part, receiver, mints, floats>> /\ HeadFairness

-----------------------------------------------------------------------------
\* MintNumbers: the procedure implements Numbering; ranges of sales are final.
MintsAreNumbering == M!MintsAreNumbering
RangesAreFinal == M!RangesAreFinal
\* FloatRepair: no old value over a new one, and no string left behind.
FloatsAreRepaired == F!FloatsAreRepaired
=============================================================================
