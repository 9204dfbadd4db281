---------------------------- MODULE RwLockProofs ---------------------------
(***************************************************************************)
(* The reader-writer lock is correct for every number of threads and slots *)
(* and every assignment of slots to threads, shared slots included, and it *)
(* implements the token machine.                                           *)
(***************************************************************************)
EXTENDS RwLockRefinement, FiniteSetTheorems, TLAPS

USE RwLockAssumption

(* A reader that is about to raise a count has seen that there is room.    *)
RoomSeen == \A t \in Thread : pc[t] = "cas_rc" => rc[t] # MAX_RC

(* The cell is empty exactly while a writer has its content. *)
CellEmpty == data = NoData <=> \E t \in Thread : pc[t] = "writing"

IndInv ==
  /\ RwLockTypeOK
  /\ shared_counts_agree
  /\ exc_inv
  /\ Exclusion
  /\ shared_inv_agree
  /\ RoomSeen
  /\ CellEmpty

LEMMA CountedFinite ==
  ASSUME NEW r PROVE IsFiniteSet(Counted(r)) /\ Cardinality(Counted(r)) \in Nat
  BY FS_Subset, FS_CardinalityType DEF Counted

(* A step that leaves the thread counted, or uncounted. *)
LEMMA CountSame ==
  ASSUME RwLockTypeOK, NEW t \in Thread, NEW label,
         pc' = [pc EXCEPT ![t] = label],
         pc[t] \in CountedPCs <=> label \in CountedPCs,
         ref_counts' = ref_counts, shared_counts_agree
  PROVE  shared_counts_agree'
<1>1. ASSUME NEW r \in Slots PROVE Counted(r)' = Counted(r)
  BY DEF Counted, RwLockTypeOK
<1> QED
  BY <1>1 DEF shared_counts_agree

(* The reader that raises the count of its slot becomes counted in it. *)
LEMMA CountUp ==
  ASSUME RwLockTypeOK, shared_counts_agree, NEW t \in Thread, NEW label \in CountedPCs,
         pc[t] \notin CountedPCs, pc' = [pc EXCEPT ![t] = label],
         ref_counts' = [ref_counts EXCEPT ![Slot[t]] = ref_counts[Slot[t]] + 1]
  PROVE  shared_counts_agree'
<1>1. ASSUME NEW r \in Slots, r # Slot[t] PROVE Counted(r)' = Counted(r)
  BY <1>1 DEF Counted, RwLockTypeOK
<1>2. Counted(Slot[t])' = Counted(Slot[t]) \cup {t} /\ t \notin Counted(Slot[t])
  BY DEF Counted, RwLockTypeOK
<1>3. Cardinality(Counted(Slot[t])') = Cardinality(Counted(Slot[t])) + 1
  BY <1>2, CountedFinite, FS_AddElement
<1> QED
  BY <1>1, <1>3 DEF shared_counts_agree, RwLockTypeOK, Slots

(* A slot in which some reader is counted can be lowered. *)
LEMMA NoUnderflow ==
  ASSUME RwLockTypeOK, shared_counts_agree, NEW t \in Thread, pc[t] \in CountedPCs
  PROVE  ref_counts[Slot[t]] > 0
<1>1. t \in Counted(Slot[t])
  BY DEF Counted
<1>2. Cardinality(Counted(Slot[t])) # 0
  BY <1>1, CountedFinite, FS_EmptySet
<1> QED
  BY <1>2, CountedFinite DEF shared_counts_agree, Slots, RwLockTypeOK

(* The reader that lowers the count of its slot leaves it. *)
LEMMA CountDown ==
  ASSUME RwLockTypeOK, shared_counts_agree, NEW t \in Thread,
         NEW label \in {"load_rc", "idle"},
         pc[t] \in CountedPCs, pc' = [pc EXCEPT ![t] = label],
         ref_counts' = [ref_counts EXCEPT ![Slot[t]] = ref_counts[Slot[t]] - 1]
  PROVE  shared_counts_agree'
<1>1. ASSUME NEW r \in Slots, r # Slot[t] PROVE Counted(r)' = Counted(r)
  BY <1>1 DEF Counted, RwLockTypeOK
<1>2. Counted(Slot[t])' = Counted(Slot[t]) \ {t} /\ t \in Counted(Slot[t])
  BY DEF Counted, CountedPCs, RwLockTypeOK
<1>3. Cardinality(Counted(Slot[t])') = Cardinality(Counted(Slot[t])) - 1
  BY <1>2, CountedFinite, FS_RemoveElement
<1> QED
  BY <1>1, <1>3 DEF shared_counts_agree, RwLockTypeOK, Slots

LEMMA InitInv == Init => IndInv
<1> SUFFICES ASSUME Init PROVE IndInv
  OBVIOUS
<1>1. ASSUME NEW r \in Slots PROVE Counted(r) = {}
  BY DEF Init, Counted, CountedPCs
<1>2. shared_counts_agree
  BY <1>1, FS_EmptySet DEF Init, shared_counts_agree
<1>3. pc \in [Thread -> {"idle", "panicked"} \cup WriterPCs \cup ReaderPCs]
  BY DEF Init
<1>4. /\ ref_counts \in [Slots -> 0 .. MAX_RC]
      /\ idx \in [Thread -> 0 .. rc_width]
      /\ rc \in [Thread -> 0 .. MAX_RC]
  BY DEF Init
<1> QED
  BY <1>2, <1>3, <1>4 DEF Init, IndInv, RwLockTypeOK, exc_inv, Exclusion, shared_inv_agree, RoomSeen, CellEmpty,
     WriterPCs

LEMMA StepInv == IndInv /\ [Next]_vars => IndInv'
<1> SUFFICES ASSUME IndInv, [Next]_vars PROVE IndInv'
  OBVIOUS
<1> USE DEF Goto, WriterPCs, ReaderPCs, CountedPCs
<1>1. ASSUME NEW t \in Thread, StartExclusive(t) PROVE IndInv'
  <2>1. shared_counts_agree'
    BY <1>1, CountSame DEF StartExclusive, IndInv
  <2>2. RwLockTypeOK'
    BY <1>1 DEF StartExclusive, IndInv, RwLockTypeOK
  <2> QED
    BY <1>1, <2>1, <2>2 DEF StartExclusive, IndInv, RwLockTypeOK, exc_inv, Exclusion, shared_inv_agree,
       RoomSeen, CellEmpty
<1>2. ASSUME NEW t \in Thread, CheckCount(t) PROVE IndInv'
  <2>1. RwLockTypeOK' /\ shared_counts_agree'
    BY <1>2 DEF CheckCount, IndInv, RwLockTypeOK, shared_counts_agree, Counted
  <2>2. Counted(idx[t]) = {}
    BY <1>2, CountedFinite, FS_EmptySet DEF CheckCount, IndInv, RwLockTypeOK, shared_counts_agree, Slots
  <2>3. \A u \in Thread : pc[u] = "reading" => Slot[u] # idx[t]
    BY <2>2 DEF Counted
  <2>4. exc_inv'
    BY <1>2, <2>3 DEF CheckCount, IndInv, RwLockTypeOK, exc_inv
  <2> QED
    BY <1>2, <2>1, <2>4 DEF CheckCount, IndInv, Exclusion, shared_inv_agree, RoomSeen, CellEmpty
<1>3. ASSUME NEW t \in Thread, TakeData(t) PROVE IndInv'
  <2>1. shared_counts_agree'
    BY <1>3, CountSame DEF TakeData, IndInv
  <2>3. RwLockTypeOK'
    BY <1>3 DEF TakeData, IndInv, RwLockTypeOK
  <2>2. \A u \in Thread : pc[u] # "reading"
    BY <1>3 DEF TakeData, IndInv, RwLockTypeOK, exc_inv
  <2> QED
    BY <1>3, <2>1, <2>2, <2>3 DEF TakeData, IndInv, RwLockTypeOK, exc_inv, Exclusion, shared_inv_agree,
       RoomSeen, CellEmpty
<1>4. ASSUME NEW t \in Thread, NEW val \in Data, PutData(t, val) PROVE IndInv'
  <2>1. shared_counts_agree'
    BY <1>4, CountSame DEF PutData, IndInv
  <2>2. RwLockTypeOK'
    BY <1>4 DEF PutData, IndInv, RwLockTypeOK
  <2> QED
    BY <1>4, <2>1, <2>2 DEF PutData, IndInv, RwLockTypeOK, exc_inv, Exclusion, shared_inv_agree,
       RoomSeen, CellEmpty
<1>5. ASSUME NEW t \in Thread, ReleaseExclusive(t) PROVE IndInv'
  <2>1. shared_counts_agree'
    BY <1>5, CountSame DEF ReleaseExclusive, IndInv
  <2>2. RwLockTypeOK'
    BY <1>5 DEF ReleaseExclusive, IndInv, RwLockTypeOK
  <2> QED
    BY <1>5, <2>1, <2>2 DEF ReleaseExclusive, IndInv, RwLockTypeOK, exc_inv, Exclusion, shared_inv_agree,
       RoomSeen, CellEmpty
<1>6. ASSUME NEW t \in Thread, LoadCount(t) PROVE IndInv'
  <2>1. shared_counts_agree'
    BY <1>6, CountSame DEF LoadCount, IndInv
  <2>2. RwLockTypeOK'
    BY <1>6 DEF LoadCount, IndInv, RwLockTypeOK, Slots
  <2> QED
    BY <1>6, <2>1, <2>2 DEF LoadCount, IndInv, RwLockTypeOK, exc_inv, Exclusion, shared_inv_agree,
       RoomSeen, CellEmpty
<1>7. ASSUME NEW t \in Thread, CasCount(t) PROVE IndInv'
  <2>1. CASE ref_counts[Slot[t]] = rc[t]
    <3>1. ref_counts' = [ref_counts EXCEPT ![Slot[t]] = ref_counts[Slot[t]] + 1]
      BY <1>7, <2>1 DEF CasCount
    <3>2. shared_counts_agree'
      BY <1>7, <2>1, <3>1, CountUp DEF CasCount, IndInv
    <3>3. RwLockTypeOK'
      <4>1. rc[t] + 1 \in 0 .. MAX_RC
        BY <1>7 DEF CasCount, IndInv, RwLockTypeOK, RoomSeen
      <4>2. ref_counts' \in [Slots -> 0 .. MAX_RC]
        BY <2>1, <3>1, <4>1 DEF IndInv, RwLockTypeOK, Slots
      <4> QED
        BY <1>7, <2>1, <4>2 DEF CasCount, IndInv, RwLockTypeOK
    <3> QED
      BY <1>7, <2>1, <3>2, <3>3 DEF CasCount, IndInv, RwLockTypeOK, exc_inv, Exclusion,
         shared_inv_agree, RoomSeen, CellEmpty
  <2>2. CASE ref_counts[Slot[t]] # rc[t]
    <3>1. shared_counts_agree'
      BY <1>7, <2>2, CountSame DEF CasCount, IndInv
    <3>2. RwLockTypeOK'
      BY <1>7, <2>2 DEF CasCount, IndInv, RwLockTypeOK
    <3> QED
      BY <1>7, <2>2, <3>1, <3>2 DEF CasCount, IndInv, RwLockTypeOK, exc_inv, Exclusion,
         shared_inv_agree, RoomSeen, CellEmpty
  <2> QED
    BY <2>1, <2>2
<1>8. ASSUME NEW t \in Thread, LoadExclusive(t) PROVE IndInv'
  <2>1. shared_counts_agree'
    BY <1>8, CountSame DEF LoadExclusive, IndInv
  <2>2. RwLockTypeOK'
    BY <1>8 DEF LoadExclusive, IndInv, RwLockTypeOK
  <2> QED
    BY <1>8, <2>1, <2>2 DEF LoadExclusive, IndInv, RwLockTypeOK, exc_inv, Exclusion, shared_inv_agree,
       RoomSeen, CellEmpty
<1>9. ASSUME NEW t \in Thread, Abandon(t) PROVE IndInv'
  <2>0. /\ ref_counts' = [ref_counts EXCEPT ![Slot[t]] = ref_counts[Slot[t]] - 1]
        /\ pc' = [pc EXCEPT ![t] = "load_rc"]
        /\ pc[t] \in CountedPCs
    BY <1>9 DEF Abandon
  <2>1. shared_counts_agree'
    BY <2>0, CountDown DEF IndInv
  <2>3. ref_counts[Slot[t]] > 0
    BY <2>0, NoUnderflow DEF IndInv
  <2>2. RwLockTypeOK'
    BY <1>9, <2>3 DEF Abandon, IndInv, RwLockTypeOK, Slots
  <2> QED
    BY <1>9, <2>1, <2>2 DEF Abandon, IndInv, RwLockTypeOK, exc_inv, Exclusion, shared_inv_agree,
       RoomSeen, CellEmpty
<1>10. ASSUME NEW t \in Thread, ReleaseRead(t) PROVE IndInv'
  <2>0. /\ ref_counts' = [ref_counts EXCEPT ![Slot[t]] = ref_counts[Slot[t]] - 1]
        /\ pc' = [pc EXCEPT ![t] = "idle"]
        /\ pc[t] \in CountedPCs
    BY <1>10 DEF ReleaseRead
  <2>1. shared_counts_agree'
    BY <2>0, CountDown DEF IndInv
  <2>3. ref_counts[Slot[t]] > 0
    BY <2>0, NoUnderflow DEF IndInv
  <2>2. RwLockTypeOK'
    BY <1>10, <2>3 DEF ReleaseRead, IndInv, RwLockTypeOK, Slots
  <2> QED
    BY <1>10, <2>1, <2>2 DEF ReleaseRead, IndInv, RwLockTypeOK, exc_inv, Exclusion, shared_inv_agree,
       RoomSeen, CellEmpty
<1>11. CASE UNCHANGED vars
  BY <1>11 DEF vars, IndInv, RwLockTypeOK, shared_counts_agree, Counted, exc_inv, Exclusion,
     shared_inv_agree, RoomSeen, CellEmpty
<1> QED
  BY <1>1, <1>2, <1>3, <1>4, <1>5, <1>6, <1>7, <1>8, <1>9, <1>10, <1>11 DEF Next, Write, Read

LEMMA Invariance == Spec => []IndInv
  BY InitInv, StepInv, PTL DEF Spec

(* The counts stay within 0 .. MAX_RC: acquire_read neither overflows nor  *)
(* underflows them, and every other variable keeps its type.               *)
THEOREM RwLockTypeCorrect == Spec => []RwLockTypeOK
  BY Invariance, PTL DEF IndInv

(* Every count is exactly the number of readers counted in its slot.       *)
THEOREM CountsAgree == Spec => []shared_counts_agree
  BY Invariance, PTL DEF IndInv

(* acquire_write: a writer that has passed all slots is alone.             *)
THEOREM MutualExclusion == Spec => []Exclusion
  BY Invariance, PTL DEF IndInv

(* acquire_read: what a guard refers to stays in the cell, unchanged.      *)
THEOREM GuardsStable == Spec => []shared_inv_agree
  BY Invariance, PTL DEF IndInv

-----------------------------------------------------------------------------
(* Bags of tokens *)

LEMMA BagAdd ==
  ASSUME NEW f, NEW S, IsFiniteSet(S), NEW t, t \notin S
  PROVE  BagOf(f, S \cup {t}) = Tokens!(+)(BagOf(f, S), Tokens!SetToBag({f[t]}))
<1> DEFINE T == S \cup {t}
           A(x) == {u \in S : f[u] = x}
           B(x) == {u \in T : f[u] = x}
<1>1. {f[u] : u \in T} = {f[u] : u \in S} \cup {f[t]}
  OBVIOUS
<1>2. \A x : IsFiniteSet(A(x)) /\ Cardinality(A(x)) \in Nat
  BY FS_Subset, FS_CardinalityType
<1>3. Cardinality(B(f[t])) = Cardinality(A(f[t])) + 1
  <2> DEFINE P == A(f[t])
             Q == B(f[t])
  <2>1. Q = P \cup {t} /\ t \notin P
    OBVIOUS
  <2>2. IsFiniteSet(P)
    BY <1>2
  <2> HIDE DEF P, Q
  <2>3. Cardinality(Q) = Cardinality(P) + 1
    BY <2>1, <2>2, FS_AddElement
  <2> QED BY <2>3 DEF P, Q
<1>4. ASSUME NEW x, x # f[t] PROVE B(x) = A(x)
  BY <1>4
<1>5. ASSUME NEW x, x \notin {f[u] : u \in S} PROVE Cardinality(A(x)) = 0
  <2>1. A(x) = {}
    BY <1>5
  <2> QED BY <2>1, FS_EmptySet
<1>6. BagOf(f, S) = [x \in {f[u] : u \in S} |-> Cardinality(A(x))]
  BY DEF BagOf
<1>7. BagOf(f, T) = [x \in {f[u] : u \in T} |-> Cardinality(B(x))]
  BY DEF BagOf
<1> DEFINE DS == {f[u] : u \in S}
           DT == {f[u] : u \in T}
<1> HIDE DEF A, B, T, DS, DT
<1>8. [x \in DT |-> Cardinality(B(x))]
        = [x \in DS \cup {f[t]} |-> (IF x \in DS THEN Cardinality(A(x)) ELSE 0)
                                     + (IF x \in {f[t]} THEN 1 ELSE 0)]
  <2>1. DT = DS \cup {f[t]}
    BY <1>1 DEF DS, DT
  <2>2. ASSUME NEW x \in DT
        PROVE  Cardinality(B(x)) = (IF x \in DS THEN Cardinality(A(x)) ELSE 0)
                                     + (IF x \in {f[t]} THEN 1 ELSE 0)
    <3>1. x \notin DS => Cardinality(A(x)) = 0
      BY <1>5 DEF DS
    <3>2. x # f[t] => Cardinality(B(x)) = Cardinality(A(x)) /\ x \in DS
      BY <1>4, <2>1
    <3> QED BY <1>2, <1>3, <3>1, <3>2
  <2> QED BY <2>1, <2>2
<1> QED BY <1>6, <1>7, <1>8 DEF T, DS, DT, Tokens!(+), Tokens!SetToBag

LEMMA BagRemove ==
  ASSUME NEW f, NEW S, IsFiniteSet(S), NEW t \in S
  PROVE  BagOf(f, S \ {t}) = Tokens!(-)(BagOf(f, S), Tokens!SetToBag({f[t]}))
<1> DEFINE T == S \ {t}
           A(x) == {u \in S : f[u] = x}
           B(x) == {u \in T : f[u] = x}
<1>2. \A x : /\ IsFiniteSet(A(x)) /\ Cardinality(A(x)) \in Nat
             /\ IsFiniteSet(B(x)) /\ Cardinality(B(x)) \in Nat
  BY FS_Subset, FS_CardinalityType
<1>3. Cardinality(B(f[t])) = Cardinality(A(f[t])) - 1
  <2> DEFINE P == A(f[t])
             Q == B(f[t])
  <2>1. Q = P \ {t} /\ t \in P
    OBVIOUS
  <2>2. IsFiniteSet(P)
    BY <1>2
  <2> HIDE DEF P, Q
  <2>3. Cardinality(Q) = Cardinality(P) - 1
    BY <2>1, <2>2, FS_RemoveElement
  <2> QED BY <2>3 DEF P, Q
<1>4. ASSUME NEW x, x # f[t] PROVE B(x) = A(x)
  BY <1>4
<1>5. ASSUME NEW x PROVE Cardinality(B(x)) > 0 <=> x \in {f[u] : u \in T}
  <2>1. Cardinality(B(x)) = 0 <=> B(x) = {}
    BY <1>2, FS_EmptySet
  <2>2. B(x) # {} <=> x \in {f[u] : u \in T}
    OBVIOUS
  <2>3. Cardinality(B(x)) \in Nat
    BY <1>2
  <2> HIDE DEF B
  <2> QED BY <2>1, <2>2, <2>3
<1>6. BagOf(f, S) = [x \in {f[u] : u \in S} |-> Cardinality(A(x))]
  BY DEF BagOf
<1>7. BagOf(f, T) = [x \in {f[u] : u \in T} |-> Cardinality(B(x))]
  BY DEF BagOf
<1>8. {f[u] : u \in T} \subseteq {f[u] : u \in S}
  OBVIOUS
<1> DEFINE DS == {f[u] : u \in S}
           DT == {f[u] : u \in T}
           C == [x \in DS |-> IF x \in {f[t]} THEN Cardinality(A(x)) - 1 ELSE Cardinality(A(x))]
<1> HIDE DEF A, B, T, DS, DT
<1>9. ASSUME NEW x \in DS PROVE C[x] = Cardinality(B(x))
  BY <1>2, <1>3, <1>4
<1> HIDE DEF C
<1>10. {x \in DS : C[x] > 0} = DT
  BY <1>5, <1>8, <1>9 DEF DS, DT
<1>11. [x \in DT |-> Cardinality(B(x))] = [x \in {d \in DS : C[d] > 0} |-> C[x]]
  BY <1>9, <1>10
<1>12. DOMAIN C = DS
  BY DEF C
<1>13. BagOf(f, T) = [x \in {d \in DOMAIN C : C[d] > 0} |-> C[x]]
  BY <1>7, <1>11, <1>12 DEF DT
<1>14. C = [x \in DOMAIN BagOf(f, S) |->
              IF x \in DOMAIN Tokens!SetToBag({f[t]})
              THEN BagOf(f, S)[x] - Tokens!SetToBag({f[t]})[x] ELSE BagOf(f, S)[x]]
  BY <1>6 DEF C, DS, Tokens!SetToBag
<1> QED BY <1>13, <1>14 DEF T, Tokens!(-)

LEMMA BagSame ==
  ASSUME NEW f, NEW g, NEW S, \A u \in S : f[u] = g[u]
  PROVE  BagOf(f, S) = BagOf(g, S)
<1>1. {f[u] : u \in S} = {g[u] : u \in S}
  OBVIOUS
<1>2. \A x : {u \in S : f[u] = x} = {u \in S : g[u] = x}
  OBVIOUS
<1> QED BY <1>1, <1>2 DEF BagOf

-----------------------------------------------------------------------------
(* Every step is a transition of the token machine or changes no token *)

LEMMA FiniteSets == IsFiniteSet(Pending) /\ IsFiniteSet(Reading)
BY FS_Subset DEF Pending, Reading

(* Only t changes its label, from f[t] to g[t]. *)
Relabelled(f, g, S, t) == IsFiniteSet(S) /\ \A u \in S \ {t} : g[u] = f[u]

(* The bag of tokens with labels f held by S becomes the one with labels g *)
(* held by T.                                                              *)
BagMoves(f, g, S, T, t) ==
  /\ T = S /\ t \notin S => BagOf(g, T) = BagOf(f, S)
  /\ T = S \cup {t} /\ t \notin S =>
       BagOf(g, T) = Tokens!(+)(BagOf(f, S), Tokens!SetToBag({g[t]}))
  /\ T = S \ {t} /\ t \in S =>
       BagOf(g, T) = Tokens!(-)(BagOf(f, S), Tokens!SetToBag({f[t]}))

LEMMA BagStep ==
  ASSUME NEW f, NEW g, NEW S, NEW T, NEW t, Relabelled(f, g, S, t)
  PROVE  BagMoves(f, g, S, T, t)
<1>0. IsFiniteSet(S) /\ \A u \in S \ {t} : g[u] = f[u]
  BY DEF Relabelled
<1>1. CASE t \notin S
  <2>1. BagOf(g, S) = BagOf(f, S)
    BY <1>0, <1>1, BagSame
  <2>2. BagOf(g, S \cup {t}) = Tokens!(+)(BagOf(g, S), Tokens!SetToBag({g[t]}))
    BY <1>0, <1>1, BagAdd
  <2> QED BY <1>1, <2>1, <2>2 DEF BagMoves
<1>2. CASE t \in S
  <2>1. BagOf(g, S \ {t}) = BagOf(f, S \ {t})
    BY <1>0, BagSame
  <2>2. BagOf(f, S \ {t}) = Tokens!(-)(BagOf(f, S), Tokens!SetToBag({f[t]}))
    BY <1>0, <1>2, BagRemove
  <2> QED BY <1>2, <2>1, <2>2 DEF BagMoves
<1> QED BY <1>1, <1>2

(* The tokens of the readers after a step of thread t. *)
LEMMA ReaderTokens ==
  ASSUME NEW t \in Thread, pc' = [pc EXCEPT ![t] = pc'[t]], RwLockTypeOK,
         \A u \in Thread \ {t} : perms'[u] = perms[u]
  PROVE  /\ pc[t] \notin {"load_exc", "abandon"} /\ pc'[t] \notin {"load_exc", "abandon"} =>
              interp_shared_pending' = interp_shared_pending
         /\ pc[t] \in {"load_exc", "abandon"} /\ pc'[t] \in {"load_exc", "abandon"} =>
              interp_shared_pending' = interp_shared_pending
         /\ pc[t] \notin {"load_exc", "abandon"} /\ pc'[t] \in {"load_exc", "abandon"} =>
              interp_shared_pending' = Tokens!(+)(interp_shared_pending, Tokens!SetToBag({Slot[t]}))
         /\ pc[t] \in {"load_exc", "abandon"} /\ pc'[t] \notin {"load_exc", "abandon"} =>
              interp_shared_pending' = Tokens!(-)(interp_shared_pending, Tokens!SetToBag({Slot[t]}))
         /\ pc[t] # "reading" /\ pc'[t] # "reading" => interp_shared_guard' = interp_shared_guard
         /\ pc[t] # "reading" /\ pc'[t] = "reading" =>
              interp_shared_guard' = Tokens!(+)(interp_shared_guard,
                                                Tokens!SetToBag({<<Slot[t], perms'[t]>>}))
         /\ pc[t] = "reading" /\ pc'[t] # "reading" =>
              interp_shared_guard' = Tokens!(-)(interp_shared_guard,
                                                Tokens!SetToBag({<<Slot[t], perms[t]>>}))
<1>1. /\ pc'[t] \in {"load_exc", "abandon"} => Pending' = Pending \cup {t}
      /\ pc'[t] \notin {"load_exc", "abandon"} => Pending' = Pending \ {t}
      /\ pc'[t] = "reading" => Reading' = Reading \cup {t}
      /\ pc'[t] # "reading" => Reading' = Reading \ {t}
      /\ t \in Pending <=> pc[t] \in {"load_exc", "abandon"}
      /\ t \in Reading <=> pc[t] = "reading"
  BY DEF Pending, Reading, RwLockTypeOK
<1>2. /\ \A u \in Reading \ {t} : Guards'[u] = Guards[u]
      /\ Guards[t] = <<Slot[t], perms[t]>> /\ Guards'[t] = <<Slot[t], perms'[t]>>
  BY DEF Guards, Reading
<1>3. /\ interp_shared_pending = BagOf(Slot, Pending) /\ interp_shared_pending' = BagOf(Slot, Pending')
      /\ interp_shared_guard = BagOf(Guards, Reading) /\ interp_shared_guard' = BagOf(Guards', Reading')
  BY DEF interp_shared_pending, interp_shared_guard, BagOf
<1> DEFINE S == Pending
           T == Pending'
           R == Reading
           Q == Reading'
           f == Guards
           g == Guards'
<1>4. BagMoves(Slot, Slot, S, T, t)
  <2>1. Relabelled(Slot, Slot, S, t)
    BY FiniteSets DEF Relabelled
  <2> HIDE DEF S, T
  <2> QED BY <2>1, BagStep
<1>5. BagMoves(f, g, R, Q, t)
  <2>1. Relabelled(f, g, R, t)
    BY <1>2, FiniteSets DEF Relabelled
  <2> HIDE DEF R, Q, f, g
  <2> QED BY <2>1, BagStep
<1> HIDE DEF S, T, R, Q, f, g
<1>6. /\ interp_shared_pending = BagOf(Slot, S) /\ interp_shared_pending' = BagOf(Slot, T)
      /\ interp_shared_guard = BagOf(f, R) /\ interp_shared_guard' = BagOf(g, Q)
      /\ f[t] = <<Slot[t], perms[t]>> /\ g[t] = <<Slot[t], perms'[t]>>
  BY <1>2, <1>3 DEF S, T, R, Q, f, g
<1>7. /\ pc'[t] \in {"load_exc", "abandon"} => T = S \cup {t}
      /\ pc'[t] \notin {"load_exc", "abandon"} => T = S \ {t}
      /\ pc'[t] = "reading" => Q = R \cup {t}
      /\ pc'[t] # "reading" => Q = R \ {t}
      /\ t \in S <=> pc[t] \in {"load_exc", "abandon"}
      /\ t \in R <=> pc[t] = "reading"
  BY <1>1 DEF S, T, R, Q
<1>8. /\ t \notin S => S \ {t} = S
      /\ t \notin R => R \ {t} = R
      /\ t \in S => S \cup {t} = S
  OBVIOUS
<1>9. /\ pc[t] \notin {"load_exc", "abandon"} /\ pc'[t] \notin {"load_exc", "abandon"} =>
           BagOf(Slot, T) = BagOf(Slot, S)
      /\ pc[t] \in {"load_exc", "abandon"} /\ pc'[t] \in {"load_exc", "abandon"} =>
           BagOf(Slot, T) = BagOf(Slot, S)
      /\ pc[t] # "reading" /\ pc'[t] # "reading" => BagOf(g, Q) = BagOf(f, R)
  BY <1>4, <1>5, <1>7, <1>8 DEF BagMoves
<1>10. /\ t \notin S /\ pc'[t] \in {"load_exc", "abandon"} =>
            BagOf(Slot, T) = Tokens!(+)(BagOf(Slot, S), Tokens!SetToBag({Slot[t]}))
       /\ t \in S /\ pc'[t] \notin {"load_exc", "abandon"} =>
            BagOf(Slot, T) = Tokens!(-)(BagOf(Slot, S), Tokens!SetToBag({Slot[t]}))
       /\ t \notin R /\ pc'[t] = "reading" =>
            BagOf(g, Q) = Tokens!(+)(BagOf(f, R), Tokens!SetToBag({g[t]}))
       /\ t \in R /\ pc'[t] # "reading" =>
            BagOf(g, Q) = Tokens!(-)(BagOf(f, R), Tokens!SetToBag({f[t]}))
  BY <1>4, <1>5, <1>7 DEF BagMoves
<1> QED BY <1>6, <1>7, <1>9, <1>10

(* The tokens of the writers, and of none. *)
WriterToken(t) ==
  /\ pc[t] \in WriterPCs =>
       /\ exc_locked
       /\ interp_exc_guard = (pc[t] # "check_count")
       /\ interp_exc_pending = IF pc[t] = "check_count" THEN idx[t] ELSE -1
       /\ interp_storage = IF pc[t] = "check_count" THEN data ELSE NoData
  /\ ~exc_locked => ~interp_exc_guard /\ interp_exc_pending = -1 /\ interp_storage = data

LEMMA WriterTokens ==
  ASSUME IndInv, NEW t \in Thread
  PROVE  WriterToken(t)
<1>1. RwLockTypeOK /\ exc_inv
  BY DEF IndInv
<1>2. ASSUME pc[t] \in WriterPCs
      PROVE  /\ exc_locked
             /\ interp_exc_guard = (pc[t] # "check_count")
             /\ interp_exc_pending = IF pc[t] = "check_count" THEN idx[t] ELSE -1
             /\ interp_storage = IF pc[t] = "check_count" THEN data ELSE NoData
  <2>1. exc_locked /\ \A u \in Thread : pc[u] \in WriterPCs => u = t
    BY <1>1, <1>2 DEF exc_inv
  <2>2. CASE pc[t] = "check_count"
    <3>1. Waiting = {t} /\ Writing = {}
      BY <2>1, <2>2 DEF Waiting, Writing, WriterPCs
    <3> QED BY <2>1, <2>2, <3>1 DEF interp_exc_guard, interp_exc_pending, interp_storage
  <2>3. CASE pc[t] # "check_count"
    <3>1. Waiting = {} /\ Writing = {t}
      BY <1>2, <2>1, <2>3 DEF Waiting, Writing, WriterPCs
    <3> QED BY <2>1, <2>3, <3>1 DEF interp_exc_guard, interp_exc_pending, interp_storage
  <2> QED BY <2>2, <2>3
<1>3. ASSUME ~exc_locked PROVE ~interp_exc_guard /\ interp_exc_pending = -1 /\ interp_storage = data
  <2>1. Waiting = {} /\ Writing = {}
    BY <1>1, <1>3 DEF exc_inv, Waiting, Writing, WriterPCs
  <2> QED BY <2>1 DEF interp_exc_guard, interp_exc_pending, interp_storage
<1> QED BY <1>2, <1>3 DEF WriterToken

LEMMA WriterTokensNext ==
  ASSUME NEW t \in Thread
  PROVE  IndInv' => WriterToken(t)'
<1>1. IndInv => WriterToken(t)
  BY WriterTokens
<1> QED BY <1>1, PTL

(* A thread that is no writer leaves the writers' tokens alone. *)
LEMMA WriterTokensStay ==
  ASSUME RwLockTypeOK, NEW t \in Thread, pc' = [pc EXCEPT ![t] = pc'[t]], UNCHANGED <<idx, data>>,
         pc[t] \notin WriterPCs, pc'[t] \notin WriterPCs
  PROVE  UNCHANGED <<interp_exc_guard, interp_exc_pending, interp_storage>>
<1>1. Writing' = Writing /\ Waiting' = Waiting
  BY DEF Writing, Waiting, RwLockTypeOK, WriterPCs
<1> QED BY <1>1 DEF interp_exc_guard, interp_exc_pending, interp_storage

(* The steps of a writer. *)
LEMMA WriterRefines ==
  ASSUME IndInv, IndInv', NEW t \in Thread, Write(t)
  PROVE  \/ Tokens!exc_start \/ Tokens!exc_check_count \/ Tokens!exc_finish
         \/ \E val \in Data : Tokens!exc_release(val)
         \/ UNCHANGED Tokens!vars
<1>0. /\ RwLockTypeOK /\ exc_inv /\ CellEmpty
  BY DEF IndInv
<1>1. /\ pc' = [pc EXCEPT ![t] = pc'[t]] /\ UNCHANGED <<ref_counts, perms>>
      /\ pc[t] \in {"idle"} \cup WriterPCs /\ pc'[t] \in {"idle"} \cup WriterPCs
  BY <1>0 DEF Write, StartExclusive, CheckCount, TakeData, PutData, ReleaseExclusive, Goto, RwLockTypeOK,
              WriterPCs
<1>2. UNCHANGED <<interp_shared_pending, interp_shared_guard>>
  BY <1>0, <1>1, ReaderTokens DEF WriterPCs
<1>3. CASE StartExclusive(t)
  <2>1. /\ pc'[t] = "check_count" /\ ~exc_locked /\ exc_locked' = TRUE /\ idx'[t] = 0 /\ data' = data
    BY <1>0, <1>3 DEF StartExclusive, Goto, RwLockTypeOK
  <2>2. /\ ~interp_exc_guard /\ interp_exc_pending = -1 /\ interp_storage = data
        /\ ~interp_exc_guard' /\ interp_exc_pending' = 0 /\ interp_storage' = data'
    BY <2>1, WriterTokens, WriterTokensNext DEF WriterToken, WriterPCs
  <2>3. interp_exc_guard' = interp_exc_guard
    BY <2>2 DEF interp_exc_guard
  <2> QED BY <1>1, <1>2, <2>1, <2>2, <2>3 DEF Tokens!exc_start
<1>4. CASE CheckCount(t)
  <2>1. /\ pc[t] = "check_count" /\ pc'[t] = "check_count" /\ idx[t] < rc_width /\ idx[t] \in Nat
        /\ ref_counts[idx[t]] = 0 /\ idx'[t] = idx[t] + 1 /\ UNCHANGED <<data, exc_locked>>
    BY <1>0, <1>4 DEF CheckCount, RwLockTypeOK
  <2>2. /\ ~interp_exc_guard /\ interp_exc_pending = idx[t] /\ interp_storage = data
        /\ ~interp_exc_guard' /\ interp_exc_pending' = idx'[t] /\ interp_storage' = data'
    BY <2>1, WriterTokens, WriterTokensNext DEF WriterToken, WriterPCs
  <2>3. interp_exc_guard' = interp_exc_guard
    BY <2>2 DEF interp_exc_guard
  <2> QED BY <1>1, <1>2, <2>1, <2>2, <2>3 DEF Tokens!exc_check_count, Tokens!Slots
<1>5. CASE TakeData(t)
  <2>1. /\ pc[t] = "check_count" /\ pc'[t] = "writing" /\ idx[t] = rc_width /\ UNCHANGED exc_locked
    BY <1>0, <1>5 DEF TakeData, Goto, RwLockTypeOK
  <2>2. /\ interp_exc_pending = rc_width
        /\ interp_exc_guard' = TRUE /\ interp_exc_pending' = -1 /\ interp_storage' = NoData
    BY <2>1, WriterTokens, WriterTokensNext DEF WriterToken, WriterPCs
  <2> QED BY <1>1, <1>2, <2>1, <2>2 DEF Tokens!exc_finish, Tokens!None
<1>6. CASE \E val \in Data : PutData(t, val)
  <2>1. /\ pc[t] = "writing" /\ pc'[t] = "unlock" /\ UNCHANGED exc_locked
    BY <1>0, <1>6 DEF PutData, Goto, RwLockTypeOK
  <2>2. /\ interp_exc_guard = TRUE /\ interp_exc_pending = -1 /\ interp_storage = NoData
        /\ interp_exc_guard' = TRUE /\ interp_exc_pending' = -1 /\ interp_storage' = NoData
    BY <2>1, WriterTokens, WriterTokensNext DEF WriterToken, WriterPCs
  <2> QED BY <1>1, <1>2, <2>1, <2>2 DEF Tokens!vars
<1>7. CASE ReleaseExclusive(t)
  <2>1. /\ pc[t] = "unlock" /\ exc_locked' = FALSE /\ data' = data
    BY <1>7 DEF ReleaseExclusive
  <2>2. data \in Data
    <3>1. \A u \in Thread : pc[u] # "writing"
      BY <1>0, <2>1 DEF exc_inv, WriterPCs
    <3> QED BY <1>0, <3>1 DEF CellEmpty, RwLockTypeOK
  <2>3. /\ interp_exc_guard /\ interp_exc_pending = -1
        /\ ~interp_exc_guard' /\ interp_exc_pending' = -1 /\ interp_storage' = data
    BY <2>1, WriterTokens, WriterTokensNext DEF WriterToken, WriterPCs
  <2>4. interp_exc_guard' = FALSE
    BY <2>3 DEF interp_exc_guard
  <2> QED BY <1>1, <1>2, <2>1, <2>2, <2>3, <2>4 DEF Tokens!exc_release
<1> QED BY <1>3, <1>4, <1>5, <1>6, <1>7 DEF Write

(* The steps of a reader. *)
LEMMA ReaderRefines ==
  ASSUME IndInv, IndInv', NEW t \in Thread, Read(t)
  PROVE  \/ \E r \in Slots : \/ Tokens!shared_start(r) \/ Tokens!shared_abandon(r)
                             \/ Tokens!shared_finish(r)
         \/ \E val \in Slots \X Data : Tokens!shared_release(val)
         \/ UNCHANGED Tokens!vars
<1>0. RwLockTypeOK /\ shared_counts_agree /\ shared_inv_agree
  BY DEF IndInv
<1>1. /\ pc' = [pc EXCEPT ![t] = pc'[t]] /\ UNCHANGED <<exc_locked, idx, data>>
      /\ pc[t] \notin WriterPCs /\ pc'[t] \notin WriterPCs
      /\ \A u \in Thread \ {t} : perms'[u] = perms[u]
      /\ Slot[t] \in Slots
  BY <1>0 DEF Read, LoadCount, CasCount, LoadExclusive, Abandon, ReleaseRead, Goto, RwLockTypeOK,
              WriterPCs, Slots
<1>2. UNCHANGED <<interp_exc_guard, interp_exc_pending, interp_storage>>
  BY <1>0, <1>1, WriterTokensStay
<1>3. CASE LoadCount(t) \/ (CasCount(t) /\ ref_counts[Slot[t]] # rc[t])
  <2>1. /\ pc[t] \in {"idle", "load_rc", "cas_rc"} /\ pc'[t] \in {"panicked", "cas_rc", "load_rc"}
        /\ UNCHANGED ref_counts
    BY <1>0, <1>3 DEF LoadCount, CasCount, Goto, RwLockTypeOK
  <2>2. UNCHANGED <<interp_shared_pending, interp_shared_guard>>
    BY <1>0, <1>1, <2>1, ReaderTokens
  <2> QED BY <1>1, <1>2, <2>1, <2>2 DEF Tokens!vars
<1>4. CASE CasCount(t) /\ ref_counts[Slot[t]] = rc[t]
  <2>1. /\ pc[t] = "cas_rc" /\ pc'[t] = "load_exc"
        /\ ref_counts' = [ref_counts EXCEPT ![Slot[t]] = @ + 1]
    BY <1>0, <1>4 DEF CasCount, Goto, RwLockTypeOK
  <2>2. /\ interp_shared_pending' = Tokens!(+)(interp_shared_pending, Tokens!SetToBag({Slot[t]}))
        /\ interp_shared_guard' = interp_shared_guard
    BY <1>0, <1>1, <2>1, ReaderTokens
  <2>3. Tokens!shared_start(Slot[t])
    BY <1>1, <1>2, <2>1, <2>2 DEF Tokens!shared_start
  <2> QED BY <1>1, <2>3
<1>5. CASE LoadExclusive(t) /\ exc_locked
  <2>1. pc[t] = "load_exc" /\ pc'[t] = "abandon" /\ UNCHANGED ref_counts
    BY <1>0, <1>5 DEF LoadExclusive, Goto, RwLockTypeOK
  <2>2. UNCHANGED <<interp_shared_pending, interp_shared_guard>>
    BY <1>0, <1>1, <2>1, ReaderTokens
  <2> QED BY <1>1, <1>2, <2>1, <2>2 DEF Tokens!vars
<1>6. CASE LoadExclusive(t) /\ ~exc_locked
  <2>1. /\ pc[t] = "load_exc" /\ pc'[t] = "reading" /\ UNCHANGED ref_counts /\ perms'[t] = data
    BY <1>0, <1>6 DEF LoadExclusive, Goto, RwLockTypeOK
  <2>2. interp_storage = data
    BY <1>6, WriterTokens DEF WriterToken
  <2>3. /\ interp_shared_pending' = Tokens!(-)(interp_shared_pending, Tokens!SetToBag({Slot[t]}))
        /\ interp_shared_guard' = Tokens!(+)(interp_shared_guard,
                                            Tokens!SetToBag({<<Slot[t], perms'[t]>>}))
    BY <1>0, <1>1, <2>1, ReaderTokens
  <2>4. interp_shared_guard' = Tokens!(+)(interp_shared_guard,
                                          Tokens!SetToBag({<<Slot[t], interp_storage>>}))
    BY <2>1, <2>2, <2>3
  <2>5. Tokens!BagIn(Slot[t], interp_shared_pending)
    BY <2>1 DEF Tokens!BagIn, Tokens!BagToSet, interp_shared_pending, BagOf, Pending
  <2>6. Tokens!shared_finish(Slot[t])
    BY <1>1, <1>2, <1>6, <2>1, <2>3, <2>4, <2>5 DEF Tokens!shared_finish
  <2> QED BY <1>1, <2>6
<1>7. CASE Abandon(t)
  <2>1. /\ pc[t] = "abandon" /\ pc'[t] = "load_rc"
        /\ ref_counts' = [ref_counts EXCEPT ![Slot[t]] = @ - 1]
    BY <1>0, <1>7 DEF Abandon, Goto, RwLockTypeOK
  <2>2. ref_counts[Slot[t]] > 0
    BY <1>0, <2>1, NoUnderflow DEF CountedPCs
  <2>3. /\ interp_shared_pending' = Tokens!(-)(interp_shared_pending, Tokens!SetToBag({Slot[t]}))
        /\ interp_shared_guard' = interp_shared_guard
    BY <1>0, <1>1, <2>1, ReaderTokens
  <2>4. Tokens!BagIn(Slot[t], interp_shared_pending)
    BY <2>1 DEF Tokens!BagIn, Tokens!BagToSet, interp_shared_pending, BagOf, Pending
  <2>5. Tokens!shared_abandon(Slot[t])
    BY <1>1, <1>2, <2>1, <2>2, <2>3, <2>4 DEF Tokens!shared_abandon
  <2> QED BY <1>1, <2>5
<1>8. CASE ReleaseRead(t)
  <2> DEFINE val == <<Slot[t], perms[t]>>
  <2>1. /\ pc[t] = "reading" /\ pc'[t] = "idle"
        /\ ref_counts' = [ref_counts EXCEPT ![Slot[t]] = @ - 1]
    BY <1>0, <1>8 DEF ReleaseRead, Goto, RwLockTypeOK
  <2>2. val \in Slots \X Data
    <3>1. perms[t] = data /\ perms[t] # NoData /\ data \in Data \cup {NoData}
      BY <1>0, <2>1 DEF shared_inv_agree, RwLockTypeOK
    <3> QED BY <1>1, <3>1
  <2>3. /\ interp_shared_guard' = Tokens!(-)(interp_shared_guard, Tokens!SetToBag({val}))
        /\ interp_shared_pending' = interp_shared_pending
    BY <1>0, <1>1, <2>1, ReaderTokens
  <2>4. Tokens!BagIn(val, interp_shared_guard)
    <3>1. t \in Reading /\ Guards[t] = val
      BY <2>1 DEF Reading, Guards
    <3>2. val \in {Guards[u] : u \in Reading}
      BY <3>1
    <3> HIDE DEF val
    <3> QED BY <3>2 DEF Tokens!BagIn, Tokens!BagToSet, interp_shared_guard, BagOf
  <2>5. val[1] = Slot[t]
    OBVIOUS
  <2>6. ref_counts' = [ref_counts EXCEPT ![val[1]] = @ - 1]
    BY <2>1, <2>5
  <2> HIDE DEF val
  <2>7. Tokens!shared_release(val)
    BY <1>1, <1>2, <2>3, <2>4, <2>6 DEF Tokens!shared_release
  <2> QED BY <2>2, <2>7
<1> QED BY <1>3, <1>4, <1>5, <1>6, <1>7, <1>8 DEF Read

(* Every atomic access of acquire and release, for reading and for         *)
(* writing, is a transition of the token machine of spec/rwlock.rs or      *)
(* leaves its tokens alone, with any number of readers on one slot.        *)
THEOREM RefinesRwLockSpecCorrect == Spec => RefinesRwLockSpec
<1>1. Init => Tokens!Init
  <2> SUFFICES ASSUME Init PROVE Tokens!Init
    OBVIOUS
  <2>1. Waiting = {} /\ Writing = {} /\ Pending = {} /\ Reading = {}
    BY DEF Init, Waiting, Writing, Pending, Reading
  <2>2. interp_shared_pending = Tokens!EmptyBag /\ interp_shared_guard = Tokens!EmptyBag
    <3>1. \A f : BagOf(f, {}) = [x \in {} |-> 1]
      BY DEF BagOf
    <3> QED BY <2>1, <3>1 DEF interp_shared_pending, interp_shared_guard, Tokens!EmptyBag, Tokens!SetToBag
  <2>3. interp_storage = data /\ interp_exc_pending = -1 /\ interp_exc_guard = FALSE
    BY <2>1 DEF interp_storage, interp_exc_pending, interp_exc_guard
  <2> QED BY <2>2, <2>3 DEF Init, Tokens!Init, Tokens!None, Tokens!Slots, Slots
<1>2. IndInv /\ IndInv' /\ [Next]_vars => [Tokens!Next]_(Tokens!vars)
  <2> SUFFICES ASSUME IndInv, IndInv', [Next]_vars PROVE Tokens!Next \/ UNCHANGED Tokens!vars
    OBVIOUS
  <2>1. CASE Next
    <3>1. PICK t \in Thread : Write(t) \/ Read(t)
      BY <2>1 DEF Next
    <3>2. Tokens!Slots = Slots
      BY DEF Tokens!Slots, Slots
    <3>3. CASE Write(t)
      BY <3>3, WriterRefines DEF Tokens!Next
    <3>4. CASE Read(t)
      BY <3>2, <3>4, ReaderRefines DEF Tokens!Next
    <3> QED BY <3>1, <3>3, <3>4
  <2>2. CASE UNCHANGED vars
    BY <2>2 DEF vars, Tokens!vars, interp_storage, interp_exc_pending, interp_exc_guard,
                interp_shared_pending, interp_shared_guard, Waiting, Writing, Pending, Reading,
                BagOf, Guards
  <2> QED BY <2>1, <2>2
<1> QED BY <1>1, <1>2, Invariance, PTL DEF Spec, RefinesRwLockSpec, Tokens!Spec
=============================================================================
