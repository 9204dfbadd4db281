------------------------------ MODULE Dispatch -----------------------------
(***************************************************************************)
(* The data structure that node replication replicates (trait Dispatch of  *)
(* verified-node-replication/src/lib.rs). The trait leaves the structure   *)
(* to the user; this is the one that forgets nothing: its state is the     *)
(* sequence of updates applied so far, an update answers the state it ran  *)
(* on, and a read answers the whole state. The state and every answer of   *)
(* any other structure is a function of these.                             *)
(***************************************************************************)
EXTENDS Integers, Sequences

init_spec == << >>

dispatch_mut_spec(view, op) == [view |-> Append(view, op), ret |-> view]

dispatch_spec(view) == view

(* The state after the first `version' updates of a log, computed as the    *)
(* source does, update by update, and what that comes to.                  *)
replay(log, version) ==
  LET state[v \in 0 .. version] ==
        IF v = 0 THEN init_spec ELSE dispatch_mut_spec(state[v - 1], log[v].op).view
  IN  state[version]

compute_nrstate_at_version(log, version) == [i \in 1 .. version |-> log[i].op]
=============================================================================
