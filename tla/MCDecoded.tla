------------------------------ MODULE MCDecoded ------------------------------
(***************************************************************************)
(* TLC instances of what is derived from the blocks of a chain: the queue    *)
(* and the rows of the statistics, the actions as decoded by cached ABIs,   *)
(* the notifications, the configuration of the market and the filters of its *)
(* sales.  They share no state, so a behaviour is one of them: part chooses  *)
(* which.                                                                   *)
(***************************************************************************)
EXTENDS StatsMarkets, MCSearches

CONSTANTS
  AbiBodies, AbiBlocks, AbiForks, AbiRestarts, AbiDepth, \* of AbiCache, as they are named there
  Origins, RpcFails,
  NoteChannels, NoteHeight, NoteBlocks, NoteFaults, Chunk, Attempts, NoteBodies, \* of Notifications
  FilterSales, FilterAssets, FilterAssetsOf, FilterCommands, FilterPartitions, FilterBatch,
  FilterWrites, FilterRefreshes,                         \* of SalesFilters
  MarketSales, MarketTokens, MarketGroup, MarketSeeds, MarketHeight, MarketActions, MarketLag,
  MarketFaults,                                          \* of MarketConfig
  ShownBidders, ShownEnd, Ttl, Patience, ShownReads, ShownHalves \* of ListingStates

\* At most one setabi in a block.
ASSUME AbiAssumption ==
  /\ \A body \in AbiBodies :
        body \in Seq(Nat) /\ \A i, j \in DOMAIN body : body[i] # 0 /\ body[j] # 0 => i = j
  /\ AbiBlocks \in Nat /\ Origins \subseteq BOOLEAN

\* A transaction has a positive number: 0 is none.
ASSUME NoteAssumption == Chunk \in Nat \ {0} /\ Attempts \in Nat /\ NoteBodies \subseteq Nat \ {0}

ASSUME FilterAssumption ==
  /\ FilterSales \subseteq Nat /\ IsFiniteSet(FilterSales) /\ FilterPartitions \in Nat \ {0}
  /\ FilterAssetsOf \in [FilterSales -> SUBSET FilterAssets]

ASSUME ShownAssumption == {ShownEnd, Patience} \subseteq Nat /\ Ttl \in Nat \ {0}

VARIABLES
  part,
  active, abiForks, restarts, table, abis, next, blocks, fetch, inserting, done, decoded,
  applied, committed, batch, todo, wire, received, tasks, told, replica, eligible, lost, seen,
  faults,
  chain, lib, rows, undo, idx, position, read, mem, marketFaults,
  sale, offer, owner, filter, changed, call, phase, saleWrites, refreshes,
  searched, request, listings,
  row, halves, version, versionChanged, cache, reads

statsVars == vars
abiVars == <<active, abiForks, restarts, table, abis, next, blocks, fetch, inserting, done, decoded>>
noteVars == <<applied, committed, batch, todo, wire, received, tasks, told, replica, eligible,
              lost, seen, faults>>
marketVars == <<chain, lib, rows, undo, idx, position, read, mem, marketFaults>>
filterVars == <<sale, offer, owner, filter, changed, call, phase, saleWrites, refreshes>>
searchVars == <<searched, request, listings>>
stateVars == <<row, halves, version, versionChanged, cache, reads>>
queryVars == <<filterVars, searchVars, stateVars>>

OneSetAbi == {<<0>>, <<0, 1, 0>>, <<2, 0>>, <<0, 3>>, <<4>>}

\* Blocks decoded ahead, with actions before and after their setabi; forks that
\* orphan no setabi, and restarts that replay none after an action.
Abi == INSTANCE AbiCache WITH
  Bodies <- AbiBodies, MaxBlocks <- AbiBlocks, MaxForks <- AbiForks,
  MaxRestarts <- AbiRestarts, Depth <- AbiDepth, OrphanAbis <- FALSE, LateAbis <- FALSE,
  chain <- active, forks <- abiForks, committed <- done

\* Messages of a few notifications each, forks, failures, a replica that lags.
Notes == INSTANCE Notifications WITH
  Channels <- NoteChannels, MaxHeight <- NoteHeight, MaxBlocks <- NoteBlocks,
  MaxFaults <- NoteFaults, Bodies <- NoteBodies,
  chain <- applied, blocks <- seen

\* Across the change to version 2, in groups of blocks, with forks and crashes.
Market == INSTANCE MarketConfigProofs WITH
  Sales <- MarketSales, Tokens <- MarketTokens, DbGroupBlocks <- MarketGroup,
  SeedAtHead <- MarketSeeds, MaxHeight <- MarketHeight, MaxActions <- MarketActions,
  MaxLag <- MarketLag, MaxFaults <- MarketFaults, faults <- marketFaults

OneAssetEach == [s \in FilterSales |-> FilterAssets]

\* Sales that share an asset; the command with its partitions, beside the filler's
\* drain, in small batches.
Filters == INSTANCE SalesFilters WITH
  Sales <- FilterSales, Assets <- FilterAssets, AssetsOf <- FilterAssetsOf,
  Commands <- FilterCommands, Partitions <- FilterPartitions, BatchSize <- FilterBatch,
  MaxWrites <- FilterWrites, MaxRefreshes <- FilterRefreshes,
  queue <- changed, writes <- saleWrites

\* Requests of two parameters, more than one name as many as an index takes.
Search == INSTANCE SalesSearch WITH
  Sales <- SearchSales, Templates <- SearchTemplates, Others <- SearchOthers,
  CodeAccounts <- {"contract"}, Precision <- SearchPrecision,
  RequestValues <- SearchValues,
  MaxParameters <- 2, MaxIndexedNames <- 1, MaxExcludedNames <- 2, MaxListings <- 6,
  sale <- searched

\* An auction, on a clock of two ticks a second; the version is cached for a
\* while, several requests read it at a time.
Shown == INSTANCE ListingStates WITH
  Bidders <- ShownBidders, EndTime <- ShownEnd, MaxReads <- ShownReads,
  MaxHalves <- ShownHalves, changed <- versionChanged

DecodedInit ==
  /\ part \in {"stats", "abi", "notes", "market", "filters", "search", "states"}
  /\ Init /\ Abi!Init /\ Notes!Init /\ Market!Init /\ Filters!Init /\ Search!Init /\ Shown!Init
  /\ part # "abi" => table = <<>>
  /\ part # "market" => rows = Market!NoRows(1, {})
  /\ part # "search" => searched = SearchBase
  /\ part # "states" => row = [kind |-> "template_buyoffer", state |-> "LISTED"] /\ version

DecodedNext ==
  /\ UNCHANGED part
  /\ \/ part = "stats" /\ Next /\ UNCHANGED <<abiVars, noteVars, marketVars, queryVars>>
     \/ part = "abi" /\ Abi!Next /\ UNCHANGED <<statsVars, noteVars, marketVars, queryVars>>
     \/ part = "notes" /\ Notes!Next /\ UNCHANGED <<statsVars, abiVars, marketVars, queryVars>>
     \/ part = "market" /\ Market!Next /\ UNCHANGED <<statsVars, abiVars, noteVars, queryVars>>
     \/ /\ UNCHANGED <<statsVars, abiVars, noteVars, marketVars>>
        /\ \/ part = "filters" /\ Filters!Next /\ UNCHANGED <<searchVars, stateVars>>
           \/ part = "search" /\ Search!Next /\ UNCHANGED <<filterVars, stateVars>>
           \/ part = "states" /\ Shown!Next /\ UNCHANGED <<filterVars, searchVars>>

DecodedSpec ==
  DecodedInit /\ [][DecodedNext]_<<part, statsVars, abiVars, noteVars, marketVars, queryVars>>

-----------------------------------------------------------------------------
\* AbiCache: what is decoded, and by which ABI.
DecodedByAbiInForce == part = "abi" => Abi!DecodedByAbiInForce
DurableAbiIsInForce == part = "abi" => Abi!DurableAbiIsInForce
CacheNeverAges == Abi!CacheNeverAges

\* Notifications: what listeners and clients are told.
ListenersFollowTheChain == part = "notes" => Notes!ListenersFollowTheChain
RowsAreServedFresh == part = "notes" => Notes!RowsAreServedFresh

\* MarketConfig: settlements, legacy bundles and the marker of version 2.
SettlementsAreKept == part = "market" => Market!SettlementsAreKept
BundlesAreDissolved == part = "market" => Market!BundlesAreDissolved
MarkerIsFlip == part = "market" => Market!MarkerIsFlip

\* SalesFilters, SalesSearch and ListingStates: the filter rows of sales follow
\* the tables, a search in them finds what the tables hold, and lists by a state
\* have the listings that are shown in it, by a version that is not too old.
QueriesFollowTables ==
  /\ part = "filters" => Filters!StaleFiltersAreQueued
  /\ part = "search" => Search!SearchesAgree /\ Search!StoredRangeIsExact /\ Search!PagesAreFull
  /\ part = "states" => Shown!StatesAreShown /\ Shown!VersionIsNoLatch
=============================================================================
