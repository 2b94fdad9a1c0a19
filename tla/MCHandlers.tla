------------------------------ MODULE MCHandlers ------------------------------
(***************************************************************************)
(* HandlerRows for each contract's handler in turn: every behaviour has one  *)
(* of them, chosen at the start.                                            *)
(***************************************************************************)
EXTENDS Integers, Sequences, FiniteSetsExt

CONSTANTS Contracts, DbGroupBlocks, MaxHeight, MaxActions, MaxPerBlock, MaxForks

VARIABLES contract, chain, lib, rows, undo, forks

handler == <<chain, lib, rows, undo, forks>>

A == INSTANCE MarketTrades WITH
       Auctions <- {"a1"}, Buyoffers <- {}, TemplateBuyoffers <- {}, Bidders <- {"p", "q"}
OfAuctions == INSTANCE HandlerRows WITH
  Actions <- A!Actions, Genesis <- A!Genesis, Past <- A!Past, Allowed <- A!Allowed,
  Obey <- A!Obey, NoRows <- A!NoRows, Seed <- A!Seed, Jobs <- A!Jobs, Begin <- A!Begin,
  Run <- A!Run, Commit <- A!Commit, RolledBack <- A!RolledBack, Loaded <- A!Loaded,
  Says <- A!Says

B == INSTANCE MarketTrades WITH
       Auctions <- {}, Buyoffers <- {"b1"}, TemplateBuyoffers <- {"t1"}, Bidders <- {}
OfBuyoffers == INSTANCE HandlerRows WITH
  Actions <- B!Actions, Genesis <- B!Genesis, Past <- B!Past, Allowed <- B!Allowed,
  Obey <- B!Obey, NoRows <- B!NoRows, Seed <- B!Seed, Jobs <- B!Jobs, Begin <- B!Begin,
  Run <- B!Run, Commit <- B!Commit, RolledBack <- B!RolledBack, Loaded <- B!Loaded,
  Says <- B!Says, MaxActions <- 3

S == INSTANCE AuthorSwaps WITH
       Owner <- "o", Accounts <- {"p", "q"}
OfSwaps == INSTANCE HandlerRows WITH
  Actions <- S!Actions, Genesis <- S!Genesis, Past <- S!Past, Allowed <- S!Allowed,
  Obey <- S!Obey, NoRows <- S!NoRows, Seed <- S!Seed, Jobs <- S!Jobs, Begin <- S!Begin,
  Run <- S!Run, Commit <- S!Commit, RolledBack <- S!RolledBack, Loaded <- S!Loaded,
  Says <- S!Says

C == INSTANCE AssetsConfig WITH
       Tokens <- {"t"}, Collections <- {"c"}
OfConfig == INSTANCE HandlerRows WITH
  Actions <- C!Actions, Genesis <- C!Genesis, Past <- C!Past, Allowed <- C!Allowed,
  Obey <- C!Obey, NoRows <- C!NoRows, Seed <- C!Seed, Jobs <- C!Jobs, Begin <- C!Begin,
  Run <- C!Run, Commit <- C!Commit, RolledBack <- C!RolledBack, Loaded <- C!Loaded,
  Says <- C!Says

M == INSTANCE MirroredTables WITH
       Values <- {1, 2}, Window <- DbGroupBlocks
OfMirrors == INSTANCE HandlerRows WITH
  Actions <- M!Actions, Genesis <- M!Genesis, Past <- M!Past, Allowed <- M!Allowed,
  Obey <- M!Obey, NoRows <- M!NoRows, Seed <- M!Seed, Jobs <- M!Jobs, Begin <- M!Begin,
  Run <- M!Run, Commit <- M!Commit, RolledBack <- M!RolledBack, Loaded <- M!Loaded,
  Says <- M!Says, MaxHeight <- 3, MaxActions <- 3

D == INSTANCE DropClaims WITH
       Drops <- {"d"}, Prices <- {1, 2}, Limits <- {5}, Amounts <- {1}, Window <- DbGroupBlocks
OfDrops == INSTANCE HandlerRows WITH
  Actions <- D!Actions, Genesis <- D!Genesis, Past <- D!Past, Allowed <- D!Allowed,
  Obey <- D!Obey, NoRows <- D!NoRows, Seed <- D!Seed, Jobs <- D!Jobs, Begin <- D!Begin,
  Run <- D!Run, Commit <- D!Commit, RolledBack <- D!RolledBack, Loaded <- D!Loaded,
  Says <- D!Says, MaxActions <- 3

P == INSTANCE PackClaims WITH
       Openings <- {"u"}, Missed <- {"m"}, Outcomes <- {"x", "y"}, Rolls <- 2, Window <- DbGroupBlocks
OfPacks == INSTANCE HandlerRows WITH
  Actions <- P!Actions, Genesis <- P!Genesis, Past <- P!Past, Allowed <- P!Allowed,
  Obey <- P!Obey, NoRows <- P!NoRows, Seed <- P!Seed, Jobs <- P!Jobs, Begin <- P!Begin,
  Run <- P!Run, Commit <- P!Commit, RolledBack <- P!RolledBack, Loaded <- P!Loaded,
  Says <- P!Says

L == INSTANCE LinkStates WITH
       Links <- {"k"}, Claimers <- {"p", "q"}
OfLinks == INSTANCE HandlerRows WITH
  Actions <- L!Actions, Genesis <- L!Genesis, Past <- L!Past, Allowed <- L!Allowed,
  Obey <- L!Obey, NoRows <- L!NoRows, Seed <- L!Seed, Jobs <- L!Jobs, Begin <- L!Begin,
  Run <- L!Run, Commit <- L!Commit, RolledBack <- L!RolledBack, Loaded <- L!Loaded,
  Says <- L!Says

N == INSTANCE CardNumbers WITH
       Cards <- {1, 2, 3}, Groups <- {"g"}, Owners <- {"p", "q"}
OfCards == INSTANCE HandlerRows WITH
  Actions <- N!Actions, Genesis <- N!Genesis, Past <- N!Past, Allowed <- N!Allowed,
  Obey <- N!Obey, NoRows <- N!NoRows, Seed <- N!Seed, Jobs <- N!Jobs, Begin <- N!Begin,
  Run <- N!Run, Commit <- N!Commit, RolledBack <- N!RolledBack, Loaded <- N!Loaded,
  Says <- N!Says, MaxActions <- 3

G == INSTANCE ActionLogs WITH
       Settled <- {<<"sale", "auction">>, <<"buyoffer", "template_buyoffer">>}
OfLogs == INSTANCE HandlerRows WITH
  Actions <- G!Actions, Genesis <- G!Genesis, Past <- G!Past, Allowed <- G!Allowed,
  Obey <- G!Obey, NoRows <- G!NoRows, Seed <- G!Seed, Jobs <- G!Jobs, Begin <- G!Begin,
  Run <- G!Run, Commit <- G!Commit, RolledBack <- G!RolledBack, Loaded <- G!Loaded,
  Says <- G!Says, MaxHeight <- 3, MaxActions <- 2, MaxPerBlock <- 1

-----------------------------------------------------------------------------
Init ==
  /\ contract \in Contracts
  /\ \/ contract = "auctions" /\ OfAuctions!Init
     \/ contract = "buyoffers" /\ OfBuyoffers!Init
     \/ contract = "swaps" /\ OfSwaps!Init
     \/ contract = "config" /\ OfConfig!Init
     \/ contract = "mirrors" /\ OfMirrors!Init
     \/ contract = "drops" /\ OfDrops!Init
     \/ contract = "packs" /\ OfPacks!Init
     \/ contract = "links" /\ OfLinks!Init
     \/ contract = "cards" /\ OfCards!Init
     \/ contract = "logs" /\ OfLogs!Init

Next ==
  /\ UNCHANGED contract
  /\ \/ contract = "auctions" /\ OfAuctions!Next
     \/ contract = "buyoffers" /\ OfBuyoffers!Next
     \/ contract = "swaps" /\ OfSwaps!Next
     \/ contract = "config" /\ OfConfig!Next
     \/ contract = "mirrors" /\ OfMirrors!Next
     \/ contract = "drops" /\ OfDrops!Next
     \/ contract = "packs" /\ OfPacks!Next
     \/ contract = "links" /\ OfLinks!Next
     \/ contract = "cards" /\ OfCards!Next
     \/ contract = "logs" /\ OfLogs!Next

Spec == Init /\ [][Next]_<<contract, handler>>

-----------------------------------------------------------------------------
\* Auctions, bids and buyoffers: what the market's contract holds, dated and
\* settled by its own actions (atomicmarket/processors/{auctions,buyoffers}.ts).
TradesFollowContract ==
  /\ contract = "auctions" => OfAuctions!RowsFollowContract
  /\ contract = "buyoffers" => OfBuyoffers!RowsFollowContract

\* Author swaps, configuration, and the tables mirrored row by row
\* (atomicassets/processors/{logs,config,collections,schemas,templates}.ts).
AssetTablesFollowContract ==
  /\ contract = "swaps" => OfSwaps!RowsFollowContract
  /\ contract = "config" => OfConfig!RowsFollowContract
  /\ contract = "mirrors" => OfMirrors!RowsFollowContract

\* Drops and their claims, packs and their rolls, links, the cards of
\* simpleassets as numbered by their snapshot and by the blocks replayed after
\* it, and the logs of all contracts' actions with the royalty payouts
\* (atomicdropsx, atomicpacksx, atomictools, simpleassets, processors/logs.ts).
ToolRowsFollowContract ==
  /\ contract = "drops" => OfDrops!RowsFollowContract
  /\ contract = "packs" => OfPacks!RowsFollowContract
  /\ contract = "links" => OfLinks!RowsFollowContract
  /\ contract = "cards" => OfCards!RowsFollowContract
  /\ contract = "logs" => OfLogs!RowsFollowContract

\* PackClaims: rolls.ts and its test: addpackroll "always targets the latest
\* unfilled roll", so that each roll has the outcomes that were added to it.
RollsAreExact == contract = "packs" => P!RollsAreExact(OfPacks!Ledger(chain), rows)
=============================================================================
