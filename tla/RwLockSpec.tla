----------------------------- MODULE RwLockSpec ----------------------------
(***************************************************************************)
(* The token state machine RwLockSpec of spec/rwlock.rs. There are no      *)
(* threads: readers and writers are tokens, and several readers of one     *)
(* slot are several copies of a token in a bag.                            *)
(***************************************************************************)
EXTENDS Integers, Bags

CONSTANTS rc_width, Data, NoData

VARIABLES
  storage,          \* the protected value, NoData while it is withdrawn
  exc_locked,
  ref_counts,
  exc_pending,      \* next slot of the writer that waits; -1: none
  exc_guard,        \* does a writer hold the lock?
  shared_pending,   \* bag of slots
  shared_guard      \* bag of pairs of a slot and the guarded value

vars == <<storage, exc_locked, ref_counts, exc_pending, exc_guard, shared_pending, shared_guard>>

Slots == 0 .. rc_width - 1

None == -1

Init ==
  /\ storage \in Data
  /\ exc_locked = FALSE
  /\ ref_counts = [r \in Slots |-> 0]
  /\ exc_pending = None
  /\ exc_guard = FALSE
  /\ shared_pending = EmptyBag
  /\ shared_guard = EmptyBag

exc_start ==
  /\ ~exc_locked
  /\ exc_locked' = TRUE
  /\ exc_pending' = 0
  /\ UNCHANGED <<storage, ref_counts, exc_guard, shared_pending, shared_guard>>

exc_check_count ==
  /\ exc_pending \in Slots
  /\ ref_counts[exc_pending] = 0
  /\ exc_pending' = exc_pending + 1
  /\ UNCHANGED <<storage, exc_locked, ref_counts, exc_guard, shared_pending, shared_guard>>

exc_finish ==
  /\ exc_pending = rc_width
  /\ exc_pending' = None
  /\ exc_guard' = TRUE
  /\ storage' = NoData
  /\ UNCHANGED <<exc_locked, ref_counts, shared_pending, shared_guard>>

exc_release(t) ==
  /\ exc_guard
  /\ exc_guard' = FALSE
  /\ exc_locked' = FALSE
  /\ storage' = t
  /\ UNCHANGED <<ref_counts, exc_pending, shared_pending, shared_guard>>

shared_start(r) ==
  /\ ref_counts' = [ref_counts EXCEPT ![r] = @ + 1]
  /\ shared_pending' = shared_pending (+) SetToBag({r})
  /\ UNCHANGED <<storage, exc_locked, exc_pending, exc_guard, shared_guard>>

shared_abandon(r) ==
  /\ BagIn(r, shared_pending)
  /\ ref_counts[r] > 0
  /\ ref_counts' = [ref_counts EXCEPT ![r] = @ - 1]
  /\ shared_pending' = shared_pending (-) SetToBag({r})
  /\ UNCHANGED <<storage, exc_locked, exc_pending, exc_guard, shared_guard>>

shared_finish(r) ==
  /\ ~exc_locked
  /\ BagIn(r, shared_pending)
  /\ shared_pending' = shared_pending (-) SetToBag({r})
  /\ shared_guard' = shared_guard (+) SetToBag({<<r, storage>>})
  /\ UNCHANGED <<storage, exc_locked, ref_counts, exc_pending, exc_guard>>

shared_release(val) ==
  /\ BagIn(val, shared_guard)
  /\ shared_guard' = shared_guard (-) SetToBag({val})
  /\ ref_counts' = [ref_counts EXCEPT ![val[1]] = @ - 1]
  /\ UNCHANGED <<storage, exc_locked, exc_pending, exc_guard, shared_pending>>

Next ==
  \/ exc_start
  \/ exc_check_count
  \/ exc_finish
  \/ \E t \in Data : exc_release(t)
  \/ \E r \in Slots : shared_start(r) \/ shared_abandon(r) \/ shared_finish(r)
  \/ \E val \in Slots \X Data : shared_release(val)

Spec == Init /\ [][Next]_vars
=============================================================================
