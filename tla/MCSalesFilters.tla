---------------------------- MODULE MCSalesFilters ----------------------------
(***************************************************************************)
(* TLC instance of the sales filters: two invocations of the command beside  *)
(* each other and the filler's drain.                                       *)
(***************************************************************************)
EXTENDS SalesFilters

OneAsset == [s \in Sales |-> Assets]
=============================================================================
