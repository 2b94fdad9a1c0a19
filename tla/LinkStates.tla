------------------------------ MODULE LinkStates ------------------------------
(***************************************************************************)
(* The links of an atomictools contract                                     *)
(* (src/src/filler/handlers/atomictools/processors/links.ts), as tables of  *)
(* HandlerRows.                                                             *)
(***************************************************************************)
EXTENDS Integers, FiniteSets, Sequences

CONSTANTS Links, Claimers

Nobody == "null"

Actions == [name: {"lognewlink", "loglinkstart", "cancellink"}, link: Links]
           \cup [name: {"claimlink"}, link: Links, claimer: Claimers]

None == [state |-> "NONE", claimer |-> Nobody, created |-> 0, updated |-> 0]
Genesis == [k \in Links |-> None]

Allowed(l, n, a) ==
  CASE a.name = "lognewlink" -> l[a.link].state = "NONE"
    [] a.name = "loglinkstart" -> l[a.link].state = "WAITING"
    [] a.name = "cancellink" -> l[a.link].state \in {"WAITING", "CREATED"}
    [] OTHER -> l[a.link].state = "CREATED"

Target(name) ==
  CASE name = "lognewlink" -> "WAITING" [] name = "loglinkstart" -> "CREATED"
    [] name = "cancellink" -> "CANCELED" [] OTHER -> "CLAIMED"

Obey(l, n, a) ==
  [l EXCEPT ![a.link] =
     [state |-> Target(a.name),
      claimer |-> IF a.name = "claimlink" THEN a.claimer ELSE Nobody,
      created |-> IF a.name = "lognewlink" THEN n ELSE @.created, updated |-> n]]

Past == {<< <<>> >>} \cup {<< <<[name |-> "lognewlink", link |-> k]>> >> : k \in Links}

-----------------------------------------------------------------------------
\* ACTION_CREATE_LINK, ACTION_UPDATE_LINK.  (OneStep: a faulty variant.)
OneStep(name) == IF name \in {"lognewlink", "loglinkstart"} THEN 30 ELSE 20
Priority(name) == IF name = "lognewlink" THEN 20 ELSE 30

Jobs(before, after, n, block) ==
  [k \in DOMAIN block |-> [priority |-> Priority(block[k].name), call |-> block[k], block |-> n]]

NoRows == Genesis

Seed(r, l) == r
Begin(r, buffered) == r

Run(r, j) ==
  LET k == j.call.link
      state == Target(j.call.name)
  IN  IF state = "WAITING"
        THEN [r EXCEPT ![k] = [state |-> state, claimer |-> Nobody, created |-> j.block,
                               updated |-> j.block]]
      ELSE IF r[k] = None THEN r
      ELSE [r EXCEPT ![k] = [@ EXCEPT !.state = state, !.updated = j.block,
                               !.claimer = IF state = "CLAIMED" THEN j.call.claimer ELSE @]]

Commit(r) == r
Loaded(r) == r
RolledBack(old, now) == old

Says(l, r) == r = l
=============================================================================
