-------------------------- MODULE RwLockRefinement -------------------------
(***************************************************************************)
(* The reader-writer lock implements the token machine of spec/rwlock.rs.  *)
(***************************************************************************)
EXTENDS RwLock

Waiting == {t \in Thread : pc[t] = "check_count"}

Writing == {t \in Thread : pc[t] \in {"writing", "unlock"}}

Pending == {t \in Thread : pc[t] \in {"load_exc", "abandon"}}

Reading == {t \in Thread : pc[t] = "reading"}

(* The bag in which f[t] occurs once for every t of S. *)
BagOf(f, S) == [x \in {f[t] : t \in S} |-> Cardinality({t \in S : f[t] = x})]

Guards == [t \in Thread |-> <<Slot[t], perms[t]>>]

interp_storage == IF Writing # {} THEN NoData ELSE data

interp_exc_pending == IF Waiting = {} THEN -1 ELSE idx[CHOOSE t \in Waiting : TRUE]

interp_exc_guard == Writing # {}

interp_shared_pending == BagOf(Slot, Pending)

interp_shared_guard == BagOf(Guards, Reading)

Tokens == INSTANCE RwLockSpec WITH
  storage        <- interp_storage,
  exc_pending    <- interp_exc_pending,
  exc_guard      <- interp_exc_guard,
  shared_pending <- interp_shared_pending,
  shared_guard   <- interp_shared_guard

(* Every atomic access of the lock is a transition of the token machine or *)
(* changes no token: the ghost code of exec/rwlock.rs claims the same.     *)
RefinesRwLockSpec == Tokens!Spec
=============================================================================
