------------------------------- MODULE RwLock ------------------------------
(***************************************************************************)
(* The distributed reader-writer lock of node replication                  *)
(* (verified-node-replication/src/exec/rwlock.rs), one action per atomic   *)
(* access. A writer announces itself in exc_locked and then waits for      *)
(* every reference count in turn; a reader raises the count of its slot    *)
(* and then looks at exc_locked, backing out if a writer is there.         *)
(*                                                                         *)
(* A thread that spins on a value is blocked until the value changes.      *)
(***************************************************************************)
EXTENDS Integers, FiniteSets

CONSTANTS
  Thread,     \* the threads that use the lock
  rc_width,   \* number of reference counts
  Slot,       \* Slot[t]: the tid that thread t passes to acquire_read
  Data,       \* what the lock protects
  NoData,     \* content of the cell while a writer has taken the data out
  MAX_RC      \* largest reference count

ASSUME RwLockAssumption ==
  /\ IsFiniteSet(Thread)
  /\ rc_width \in Nat \ {0}
  /\ Slot \in [Thread -> 0 .. rc_width - 1]
  /\ NoData \notin Data
  /\ MAX_RC \in Nat

VARIABLES
  data,         \* the cell
  exc_locked,   \* is the writer lock held or being acquired?
  ref_counts,   \* per slot, the readers that hold or try to get the lock
  pc,           \* what each thread does next
  idx,          \* the slot a writer looks at next
  rc,           \* the count a reader has loaded
  perms         \* the data a read guard gives access to (ghost)

vars == <<data, exc_locked, ref_counts, pc, idx, rc, perms>>

Slots == 0 .. rc_width - 1

WriterPCs == {"check_count", "writing", "unlock"}

(* A reader in these states is counted in its slot. *)
CountedPCs == {"load_exc", "abandon", "reading"}

ReaderPCs == {"load_rc", "cas_rc"} \cup CountedPCs

Goto(t, label) == pc' = [pc EXCEPT ![t] = label]

Init ==
  /\ data \in Data
  /\ exc_locked = FALSE
  /\ ref_counts = [r \in Slots |-> 0]
  /\ pc = [t \in Thread |-> "idle"]
  /\ idx = [t \in Thread |-> 0]
  /\ rc = [t \in Thread |-> 0]
  /\ perms = [t \in Thread |-> NoData]

-----------------------------------------------------------------------------
(* acquire_write *)

StartExclusive(t) ==
  /\ pc[t] = "idle"
  /\ ~exc_locked
  /\ exc_locked' = TRUE
  /\ idx' = [idx EXCEPT ![t] = 0]
  /\ Goto(t, "check_count")
  /\ UNCHANGED <<data, ref_counts, rc, perms>>

(* Mutant: goes on to the next slot although readers are counted. *)
CheckCount_NoWait(t) ==
  /\ pc[t] = "check_count"
  /\ idx[t] < rc_width
  /\ idx' = [idx EXCEPT ![t] = @ + 1]
  /\ UNCHANGED <<data, exc_locked, ref_counts, pc, rc, perms>>

CheckCount(t) ==
  /\ pc[t] = "check_count"
  /\ idx[t] < rc_width
  /\ ref_counts[idx[t]] = 0
  /\ idx' = [idx EXCEPT ![t] = @ + 1]
  /\ UNCHANGED <<data, exc_locked, ref_counts, pc, rc, perms>>

TakeData(t) ==
  /\ pc[t] = "check_count"
  /\ idx[t] = rc_width
  /\ data' = NoData
  /\ Goto(t, "writing")
  /\ UNCHANGED <<exc_locked, ref_counts, idx, rc, perms>>

(* release_write *)

PutData(t, val) ==
  /\ pc[t] = "writing"
  /\ data' = val
  /\ Goto(t, "unlock")
  /\ UNCHANGED <<exc_locked, ref_counts, idx, rc, perms>>

ReleaseExclusive(t) ==
  /\ pc[t] = "unlock"
  /\ exc_locked' = FALSE
  /\ Goto(t, "idle")
  /\ UNCHANGED <<data, ref_counts, idx, rc, perms>>

-----------------------------------------------------------------------------
(* acquire_read *)

(* Mutant: does not look whether there is room for another reader. *)
LoadCount_NoLimit(t) ==
  /\ pc[t] \in {"idle", "load_rc"}
  /\ rc' = [rc EXCEPT ![t] = ref_counts[Slot[t]]]
  /\ Goto(t, "cas_rc")
  /\ UNCHANGED <<data, exc_locked, ref_counts, idx, perms>>

LoadCount(t) ==
  /\ pc[t] \in {"idle", "load_rc"}
  /\ rc' = [rc EXCEPT ![t] = ref_counts[Slot[t]]]
  /\ Goto(t, IF ref_counts[Slot[t]] = MAX_RC THEN "panicked" ELSE "cas_rc")
  /\ UNCHANGED <<data, exc_locked, ref_counts, idx, perms>>

(* Mutant: an unconditional store of the incremented count. *)
CasCount_Store(t) ==
  /\ pc[t] = "cas_rc"
  /\ ref_counts' = [ref_counts EXCEPT ![Slot[t]] = rc[t] + 1]
  /\ Goto(t, "load_exc")
  /\ UNCHANGED <<data, exc_locked, idx, rc, perms>>

CasCount(t) ==
  /\ pc[t] = "cas_rc"
  /\ \/ /\ ref_counts[Slot[t]] = rc[t]
        /\ ref_counts' = [ref_counts EXCEPT ![Slot[t]] = rc[t] + 1]
        /\ Goto(t, "load_exc")
     \/ /\ ref_counts[Slot[t]] # rc[t]
        /\ UNCHANGED ref_counts
        /\ Goto(t, "load_rc")
  /\ UNCHANGED <<data, exc_locked, idx, rc, perms>>

(* Mutant: enters without looking for a writer. *)
LoadExclusive_Ignore(t) ==
  /\ pc[t] = "load_exc"
  /\ perms' = [perms EXCEPT ![t] = data]
  /\ Goto(t, "reading")
  /\ UNCHANGED <<data, exc_locked, ref_counts, idx, rc>>

LoadExclusive(t) ==
  /\ pc[t] = "load_exc"
  /\ \/ /\ exc_locked
        /\ UNCHANGED perms
        /\ Goto(t, "abandon")
     \/ /\ ~exc_locked
        /\ perms' = [perms EXCEPT ![t] = data]
        /\ Goto(t, "reading")
  /\ UNCHANGED <<data, exc_locked, ref_counts, idx, rc>>

(* Mutant: backs out without lowering the count. *)
Abandon_Keep(t) ==
  /\ pc[t] = "abandon"
  /\ Goto(t, "load_rc")
  /\ UNCHANGED <<data, exc_locked, ref_counts, idx, rc, perms>>

Abandon(t) ==
  /\ pc[t] = "abandon"
  /\ ref_counts' = [ref_counts EXCEPT ![Slot[t]] = @ - 1]
  /\ Goto(t, "load_rc")
  /\ UNCHANGED <<data, exc_locked, idx, rc, perms>>

(* release_read *)

ReleaseRead(t) ==
  /\ pc[t] = "reading"
  /\ ref_counts' = [ref_counts EXCEPT ![Slot[t]] = @ - 1]
  /\ perms' = [perms EXCEPT ![t] = NoData]
  /\ Goto(t, "idle")
  /\ UNCHANGED <<data, exc_locked, idx, rc>>

-----------------------------------------------------------------------------
Write(t) ==
  \/ StartExclusive(t)
  \/ CheckCount(t)
  \/ TakeData(t)
  \/ \E val \in Data : PutData(t, val)
  \/ ReleaseExclusive(t)

Read(t) ==
  \/ LoadCount(t)
  \/ CasCount(t)
  \/ LoadExclusive(t)
  \/ Abandon(t)
  \/ ReleaseRead(t)

Next == \E t \in Thread : Write(t) \/ Read(t)

Spec == Init /\ [][Next]_vars

-----------------------------------------------------------------------------
(* A count never passes the limit, where it would wrap (acquire_read).      *)
RwLockTypeOK ==
  /\ data \in Data \cup {NoData}
  /\ exc_locked \in BOOLEAN
  /\ ref_counts \in [Slots -> 0 .. MAX_RC]
  /\ pc \in [Thread -> {"idle", "panicked"} \cup WriterPCs \cup ReaderPCs]
  /\ idx \in [Thread -> 0 .. rc_width]
  /\ rc \in [Thread -> 0 .. MAX_RC]
  /\ perms \in [Thread -> Data \cup {NoData}]

Counted(r) == {t \in Thread : pc[t] \in CountedPCs /\ Slot[t] = r}

(* Every count is the number of readers between raising and lowering it:   *)
(* none is lost to a concurrent update (spec/rwlock.rs                     *)
(* shared_counts_agree).                                                   *)
shared_counts_agree == \A r \in Slots : ref_counts[r] = Cardinality(Counted(r))

(* One writer at a time from the moment exc_locked is taken, and while it  *)
(* waits no reader gets in behind it: the slots it has passed are free of  *)
(* read guards although they may be counted again (exc_inv).               *)
exc_inv ==
  /\ exc_locked <=> \E t \in Thread : pc[t] \in WriterPCs
  /\ \A t, u \in Thread : pc[t] \in WriterPCs /\ pc[u] \in WriterPCs => t = u
  /\ \A t, u \in Thread :
       pc[t] = "check_count" /\ pc[u] = "reading" => Slot[u] >= idx[t]

(* A writer that has the data out of the cell, or is about to unlock, is   *)
(* alone: no reader borrows the cell meanwhile.                            *)
Exclusion ==
  \A t, u \in Thread : pc[t] \in {"writing", "unlock"} => pc[u] # "reading"

(* What a read guard refers to is in the cell, unchanged since the guard   *)
(* was handed out (shared_inv_agree).                                      *)
shared_inv_agree ==
  \A t \in Thread : pc[t] = "reading" => perms[t] = data /\ perms[t] # NoData
=============================================================================
