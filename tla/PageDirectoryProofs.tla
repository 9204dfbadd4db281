------------------------ MODULE PageDirectoryProofs ------------------------
(***************************************************************************)
(* Proofs about the page table implementation, for every number of entries *)
(* per directory, every set of pages, addresses and entries, and every     *)
(* contents of the pages that are not allocated.                           *)
(*                                                                         *)
(*   AllocationSucceeds: map_frame never asks the allocator in vain inside *)
(*   its recursion, where it could no longer fail without leaving empty    *)
(*   directories behind.                                                   *)
(*                                                                         *)
(*   PageTableInv: the allocated pages are a tree between any two memory   *)
(*   accesses. The inductive invariant TreeInv gives every page its place  *)
(*   in the tree, and says where in it the running call is.                *)
(*                                                                         *)
(*   RefinesPageTableSpec: the walk of the MMU finds exactly the leaves of *)
(*   that tree, and each step of a call changes the leaves as the page     *)
(*   table specification says, or leaves them alone.                       *)
(*                                                                         *)
(*   WalkMatchesTree, L1RefinesL0: between any two accesses that tree is   *)
(*   one of layer 1 (l1.rs) with the mappings the MMU finds, so that what  *)
(*   DirectoryProofs says of every such tree holds of the one in memory.   *)
(*                                                                         *)
(*   OperationsRefineL1: a call leaves behind the tree that layer 1        *)
(*   computes for it. A step changes one word of one directory; what that  *)
(*   means for the tree is carried up the path to the root, and HInv says  *)
(*   at every point of a call what of the call layer 1 still has to do.    *)
(***************************************************************************)
EXTENDS PageDirectoryProperties, FiniteSetTheorems, TLAPS

(* Whatever the words of the memory are, the activations are a sequence.   *)
StackIsSequence == \E S : stack \in Seq(S)

(* The free pages are enough for the layers below the one the call is in,  *)
(* and the call is not yet below the layer of its page size.               *)
EnoughPages ==
  pc \in {"map", "insert"} =>
    /\ Cardinality(Page \ regions) >= 3 - layer
    /\ \E l \in 1 .. 3 : entry_size(l) = call.pte.frame.size /\ layer <= l

IndInv == StackIsSequence /\ EnoughPages

-----------------------------------------------------------------------------
(* Sets of free pages. *)

LEMMA FreePagesFinite ==
  IsFiniteSet(Page \ regions) /\ Cardinality(Page \ regions) \in Nat
<1>1. IsFiniteSet(Page \ regions)
  BY MemoryAssumption, FS_Difference
<1> QED
  BY <1>1, FS_CardinalityType

LEMMA AllocTakesOne ==
  ASSUME NEW page \in Page, alloc_page(page)
  PROVE  Cardinality(Page \ regions') = Cardinality(Page \ regions) - 1
<1>1. page \in Page \ regions /\ Page \ regions' = (Page \ regions) \ {page}
  BY DEF alloc_page
<1> QED
  BY <1>1, FreePagesFinite, FS_RemoveElement

-----------------------------------------------------------------------------
(* The stack of activations. *)

LEMMA LayerType == StackIsSequence => layer \in Int /\ Len(stack) \in Nat
  BY DEF StackIsSequence, layer

(* One layer down, whatever the new activation is. *)
LEMMA DescendFacts ==
  ASSUME StackIsSequence, NEW ptr, Descend(ptr)
  PROVE  StackIsSequence' /\ layer' = layer + 1
<1> DEFINE a == [ptr |-> ptr, base |-> entry_base(layer, Top.base, idx(layer))]
<1>1. stack' = Append(stack, a)
  BY DEF Descend
<1> HIDE DEF a
<1>2. PICK S : stack \in Seq(S)
  BY DEF StackIsSequence
<1>3. stack \in Seq(S \cup {a})
  BY <1>2
<1>4. Append(stack, a) \in Seq(S \cup {a}) /\ Len(Append(stack, a)) = Len(stack) + 1
  BY <1>3
<1>5. layer' = layer + 1
  BY <1>1, <1>2, <1>4 DEF layer
<1> QED
  BY <1>1, <1>4, <1>5 DEF StackIsSequence

LEMMA ReturnFacts ==
  ASSUME StackIsSequence, Return
  PROVE  StackIsSequence'
<1>1. PICK S : stack \in Seq(S)
  BY DEF StackIsSequence
<1>2. SubSeq(stack, 1, Len(stack) - 1) \in Seq(S)
  BY <1>1
<1> QED
  BY <1>2 DEF Return, StackIsSequence, layer

LEMMA StartFacts ==
  ASSUME NEW args, NEW at, Start(args, at)
  PROVE  StackIsSequence' /\ layer' = 0
<1> DEFINE a == [ptr |-> cr3, base |-> 0]
<1>1. stack' = <<a>>
  BY DEF Start
<1> HIDE DEF a
<1>2. <<a>> \in Seq({a}) /\ Len(<<a>>) = 1
  OBVIOUS
<1>3. layer' = 0
  BY <1>1, <1>2 DEF layer
<1> QED
  BY <1>1, <1>2, <1>3 DEF StackIsSequence

LEMMA FinishFacts ==
  ASSUME NEW res, Finish(res)
  PROVE  StackIsSequence' /\ pc' = "idle"
<1>1. << >> \in Seq({})
  OBVIOUS
<1> QED
  BY <1>1 DEF Finish, StackIsSequence

(* Above the layer of its page size the call may go one layer down.        *)
LEMMA RoomBelow ==
  ASSUME StackIsSequence, EnoughPages, pc = "map", ~AtPageSize
  PROVE  /\ \E l \in 1 .. 3 : entry_size(l) = call.pte.frame.size /\ layer + 1 <= l
         /\ layer < 3
<1>1. PICK l \in 1 .. 3 : entry_size(l) = call.pte.frame.size /\ layer <= l
  BY DEF EnoughPages
<1>2. layer # l
  BY <1>1 DEF AtPageSize
<1>3. layer + 1 <= l /\ layer < 3
  BY <1>1, <1>2, LayerType
<1> QED
  BY <1>1, <1>3

-----------------------------------------------------------------------------
LEMMA InitInv == Init => IndInv
<1>1. << >> \in Seq({})
  OBVIOUS
<1> QED
  BY <1>1 DEF Init, IndInv, StackIsSequence, EnoughPages

LEMMA MapStart ==
  ASSUME IndInv, NEW vaddr \in VAddr, NEW pte \in PTE, map_frame(vaddr, pte)
  PROVE  IndInv'
<1>1. /\ Start([vaddr |-> vaddr, pte |-> pte], "map")
      /\ Cardinality(Page \ regions) >= 3
      /\ \E l \in 1 .. 3 : entry_size(l) = pte.frame.size
  BY DEF map_frame, accepted_mapping, alloc_available_pages, contains_entry_size_at_index_atleast
<1>2. StackIsSequence' /\ layer' = 0
  BY <1>1, StartFacts
<1>3. call'.pte = pte /\ regions' = regions
  BY <1>1 DEF Start, memvars
<1>4. \E l \in 1 .. 3 : entry_size(l) = call'.pte.frame.size /\ layer' <= l
  BY <1>1, <1>2, <1>3
<1>5. Cardinality(Page \ regions') >= 3 - layer'
  BY <1>1, <1>2, <1>3, FreePagesFinite
<1> QED
  BY <1>2, <1>4, <1>5 DEF IndInv, EnoughPages

LEMMA UnmapStart ==
  ASSUME IndInv, NEW vaddr \in VAddr, unmap(vaddr)
  PROVE  IndInv'
<1>1. Start([vaddr |-> vaddr], "unmap")
  BY DEF unmap
<1>2. StackIsSequence' /\ pc' = "unmap"
  BY <1>1, StartFacts DEF Start
<1> QED
  BY <1>2 DEF IndInv, EnoughPages

LEMMA MapStepInv ==
  ASSUME IndInv, MapStep
  PROVE  IndInv'
<1> USE DEF IndInv
<1>1. CASE MapDirectorySameSize \/ MapPagePresent \/ MapWritePage
  <2>1. \E res : Finish(res)
    BY <1>1 DEF MapDirectorySameSize, MapPagePresent, MapWritePage
  <2> QED
    BY <2>1, FinishFacts DEF EnoughPages
<1>2. CASE MapDescend
  <2>1. /\ pc = "map" /\ ~AtPageSize
        /\ Descend(address(entry))
        /\ UNCHANGED <<regions, pc, call>>
    BY <1>2 DEF MapDescend
  <2>2. StackIsSequence' /\ layer' = layer + 1
    BY <2>1, DescendFacts
  <2>3. \E l \in 1 .. 3 : entry_size(l) = call'.pte.frame.size /\ layer' <= l
    BY <2>1, <2>2, RoomBelow
  <2>4. Cardinality(Page \ regions') >= 3 - layer'
    BY <2>1, <2>2, FreePagesFinite, LayerType DEF EnoughPages
  <2> QED
    BY <2>2, <2>3, <2>4 DEF EnoughPages
<1>3. CASE insert_empty_directory_alloc
  <2>1. PICK page \in Page : alloc_page(page) /\ Descend(page)
    BY <1>3 DEF insert_empty_directory_alloc
  <2>2. pc = "map" /\ ~AtPageSize /\ call' = call
    BY <1>3 DEF insert_empty_directory_alloc
  <2>3. StackIsSequence' /\ layer' = layer + 1
    BY <2>1, DescendFacts
  <2>4. \E l \in 1 .. 3 : entry_size(l) = call'.pte.frame.size /\ layer' <= l
    BY <2>2, <2>3, RoomBelow
  <2>5. Cardinality(Page \ regions') = Cardinality(Page \ regions) - 1
    BY <2>1, AllocTakesOne
  <2>6. Cardinality(Page \ regions) >= 3 - layer
    BY <2>2 DEF EnoughPages
  <2>7. Cardinality(Page \ regions') >= 3 - layer'
    BY <2>3, <2>5, <2>6, FreePagesFinite, LayerType
  <2> QED
    BY <2>3, <2>4, <2>7 DEF EnoughPages
<1>4. CASE insert_empty_directory_write
  <2>1. pc = "insert" /\ UNCHANGED <<call, stack, regions>>
    BY <1>4 DEF insert_empty_directory_write, write
  <2>2. StackIsSequence' /\ layer' = layer
    BY <2>1 DEF StackIsSequence, layer
  <2> QED
    BY <2>1, <2>2 DEF EnoughPages
<1> QED
  BY <1>1, <1>2, <1>3, <1>4 DEF MapStep

LEMMA UnmapStepInv ==
  ASSUME IndInv, UnmapStep
  PROVE  IndInv'
<1> USE DEF IndInv
<1>1. CASE UnmapDescend
  <2>1. StackIsSequence'
    BY <1>1, DescendFacts DEF UnmapDescend
  <2> QED
    BY <1>1, <2>1 DEF UnmapDescend, EnoughPages
<1>2. CASE UnmapPage \/ UnmapNothing \/ UnmapUnlink
  <2>1. stack' = stack /\ pc' \notin {"map", "insert"}
    BY <1>2 DEF UnmapPage, UnmapNothing, UnmapUnlink
  <2> QED
    BY <2>1 DEF StackIsSequence, EnoughPages
<1>3. CASE UnmapDealloc \/ UnmapKeepDirectory
  <2>1. Return /\ pc' \notin {"map", "insert"}
    BY <1>3 DEF UnmapDealloc, UnmapKeepDirectory, Returning
  <2> QED
    BY <2>1, ReturnFacts DEF EnoughPages
<1>4. CASE UnmapEnd
  BY <1>4, FinishFacts DEF UnmapEnd, EnoughPages
<1> QED
  BY <1>1, <1>2, <1>3, <1>4 DEF UnmapStep

LEMMA StepInv == IndInv /\ [Next]_vars => IndInv'
<1>1. ASSUME IndInv, UNCHANGED vars PROVE IndInv'
  BY <1>1 DEF IndInv, StackIsSequence, EnoughPages, layer, vars
<1> QED
  BY <1>1, MapStart, UnmapStart, MapStepInv, UnmapStepInv DEF Next

(* The three pages that map_frame asks for at its start are enough at the  *)
(* moment its recursion needs a new directory: alloc_page of               *)
(* insert_empty_directory always finds one.                                *)
THEOREM AllocationSucceedsCorrect == Spec => []AllocationSucceeds
<1>1. IndInv => AllocationSucceeds
  <2> SUFFICES ASSUME IndInv, pc = "map", ~AtPageSize
               PROVE  Page \ regions # {}
    BY DEF AllocationSucceeds
  <2>1. layer < 3 /\ layer \in Int
    BY RoomBelow, LayerType DEF IndInv
  <2>2. Cardinality(Page \ regions) >= 3 - layer
    BY DEF IndInv, EnoughPages
  <2>3. Cardinality(Page \ regions) # 0
    BY <2>1, <2>2, FreePagesFinite
  <2> QED
    BY <2>3, FS_EmptySet
<1> QED
  BY <1>1, InitInv, StepInv, PTL DEF Spec

-----------------------------------------------------------------------------
(* The pages form a tree.  Where a page is in it, is a function t of the   *)
(* page: its layer, the directory and the entry that refer to it, and the  *)
(* first address it is about.                                              *)

Node == [lev : Layer, par : PageRegions, slot : EntryIndex, start : Nat]

links(l, word) == word.P /\ is_dir(l, word)

Child(t, p, i) ==
  [lev |-> t[p].lev + 1, par |-> p, slot |-> i, start |-> entry_base(t[p].lev, t[p].start, i)]

(* What maps a page or is empty may stand in layer l. *)
LeafFits(l, word) ==
  word.P => /\ is_page(l, word)
            /\ all_mb0_bits_are_zero(l, word)
            /\ l \in {1, 2} => ~MASK_PG_FLAG_PAT(word.addr)
            /\ aligned(word.addr, entry_size(l))

LinkFits(T, t, p, i, word) ==
  /\ all_mb0_bits_are_zero(t[p].lev, word)
  /\ word.RW /\ word.US /\ ~word.XD
  /\ address(word) \in T \ {cr3}
  /\ t[address(word)] = Child(t, p, i)

WordFits(T, t, p, i, word) ==
  IF links(t[p].lev, word) THEN LinkFits(T, t, p, i, word) ELSE LeafFits(t[p].lev, word)

HasParent(T, mem, t, d) ==
  LET word == mem[t[d].par][t[d].slot]
  IN  t[d].par \in T /\ links(t[t[d].par].lev, word) /\ address(word) = d

Memory == [PageRegions -> [EntryIndex -> Word]]

Tree(T, mem, t) ==
  /\ T \subseteq PageRegions /\ mem \in Memory /\ t \in [PageRegions -> Node]
  /\ cr3 \in T /\ t[cr3].lev = 0 /\ t[cr3].start = 0
  /\ \A p \in T : \A i \in EntryIndex : WordFits(T, t, p, i, mem[p][i])
  /\ \A d \in T \ {cr3} : HasParent(T, mem, t, d)

(* A page is allocated before it is linked, and freed after it is unlinked. *)
AtUnlinked == pc \in {"insert", "dealloc"}

InTree == IF AtUnlinked THEN regions \ {Top.ptr} ELSE regions

Empty(mem, d) == \A i \in EntryIndex : ~mem[d][i].P

(* The directory that may be empty, because the call is in it. *)
MayBeEmpty ==
  CASE AtUnlinked -> {Caller.ptr}
    [] pc = "map" \/ (pc = "unmap_return" /\ ret = "Ok") -> {Top.ptr}
    [] OTHER -> {}

NoneEmpty == \A d \in InTree \ (MayBeEmpty \cup {cr3}) : ~Empty(region_view, d)

(* The activations follow the path of the call's address. *)
ActivationFits(t, k) ==
  /\ stack[k].ptr \in InTree
  /\ t[stack[k].ptr].lev = k - 1
  /\ t[stack[k].ptr].start = stack[k].base
  /\ k > 1 => t[stack[k].ptr].par = stack[k - 1].ptr /\ t[stack[k].ptr].slot = idx(k - 2)

OnPath(k) ==
  /\ stack[k].base <= call.vaddr
  /\ call.vaddr < upper_vaddr(k - 1, stack[k].base)
  /\ k > 1 => stack[k].base = entry_base(k - 2, stack[k - 1].base, idx(k - 2))

Linked(k) == ~AtUnlinked \/ k # Len(stack)

StackFits(t) ==
  /\ Len(stack) \in Nat /\ Len(stack) >= 1 /\ Len(stack) <= 4
  /\ stack[1] = [ptr |-> cr3, base |-> 0]
  /\ \A k \in 1 .. Len(stack) : OnPath(k) /\ (Linked(k) => ActivationFits(t, k))

UnlinkedFits ==
  AtUnlinked =>
    /\ Len(stack) > 1
    /\ Top.ptr \in regions \ {cr3}
    /\ pc = "insert" =>
         Empty(region_view, Top.ptr) /\ ~region_view[Caller.ptr][idx(layer - 1)].P

CallFits ==
  /\ pc \in {"map", "insert"} => call \in MapCall /\ accepted_mapping(call.vaddr, call.pte)
  /\ pc \in {"unmap", "unmap_return", "dealloc"} => call \in UnmapCall
  /\ pc = "unmap_return" => ret # "none"
  /\ pc = "dealloc" => ret = "Ok"
  /\ pc \in {"map", "insert", "unmap"} => ret = "none"

TreeFits(t) ==
  /\ Tree(InTree, region_view, t)
  /\ pc # "idle" => StackFits(t)

TreeInv ==
  /\ TypeOK /\ EnoughPages /\ CallFits /\ UnlinkedFits /\ NoneEmpty
  /\ \E t : TreeFits(t)

-----------------------------------------------------------------------------
(* Products and division. *)
LEMMA ProductType == \A a, b \in Nat : a * b \in Nat
  OBVIOUS

LEMMA DivMod ==
  ASSUME NEW a \in Nat, NEW n \in Nat \ {0}
  PROVE  /\ a \div n \in Nat /\ a % n \in Nat /\ a % n < n
         /\ a = ((a \div n) * n) + (a % n)
  OBVIOUS

LEMMA DivUnique ==
  ASSUME NEW a \in Nat, NEW n \in Nat \ {0}, NEW q \in Nat, q * n <= a, a < q * n + n
  PROVE  a \div n = q /\ a % n = a - (q * n)
<1>1. /\ a \div n \in Nat /\ a % n \in Nat /\ a % n < n
      /\ a = ((a \div n) * n) + (a % n)
  BY DivMod
<1> DEFINE k == a \div n
<1>2. ~(k < q)
  <2> SUFFICES ASSUME k + 1 <= q PROVE FALSE
    BY <1>1
  <2>1. (k + 1) * n <= q * n
    BY <1>1
  <2> QED
    BY <1>1, <2>1
<1>3. ~(q < k)
  <2> SUFFICES ASSUME q + 1 <= k PROVE FALSE
    BY <1>1
  <2>1. (q + 1) * n <= k * n
    BY <1>1
  <2> QED
    BY <1>1, <2>1
<1>4. k = q
  BY <1>1, <1>2, <1>3
<1> QED
  BY <1>1, <1>4

LEMMA AlignedIsMultiple ==
  ASSUME NEW a \in Nat, NEW n \in Nat \ {0}
  PROVE  aligned(a, n) <=> \E k \in Nat : a = k * n
<1>1. ASSUME aligned(a, n) PROVE \E k \in Nat : a = k * n
  <2> DEFINE q == a \div n
  <2>1. q \in Nat /\ a = (q * n) + (a % n) /\ a % n = 0
    BY <1>1, DivMod DEF aligned
  <2> HIDE DEF q
  <2>2. q * n \in Nat
    BY <2>1, ProductType
  <2>3. a = q * n
    BY <2>1, <2>2
  <2> QED
    BY <2>1, <2>3
<1>2. ASSUME NEW k \in Nat, a = k * n PROVE aligned(a, n)
  BY <1>2, DivUnique DEF aligned
<1> QED
  BY <1>1, <1>2

(* The sizes of the four layers. *)
LEMMA Sizes ==
  /\ entry_size(0) = X86_NUM_ENTRIES * entry_size(1)
  /\ entry_size(1) = X86_NUM_ENTRIES * entry_size(2)
  /\ entry_size(2) = X86_NUM_ENTRIES * entry_size(3)
  /\ entry_size(3) = PAGE_SIZE
  /\ X86_NUM_ENTRIES \in Nat /\ X86_NUM_ENTRIES >= 2
  /\ \A l \in Layer : entry_size(l) \in Nat \ {0}
<1>1. /\ entry_size(0) = X86_NUM_ENTRIES * entry_size(1)
      /\ entry_size(1) = X86_NUM_ENTRIES * entry_size(2)
      /\ entry_size(2) = X86_NUM_ENTRIES * entry_size(3)
      /\ entry_size(3) = PAGE_SIZE
  BY DEF entry_size, L0_ENTRY_SIZE, L1_ENTRY_SIZE, L2_ENTRY_SIZE, L3_ENTRY_SIZE
<1>2. X86_NUM_ENTRIES \in Nat /\ X86_NUM_ENTRIES >= 2 /\ PAGE_SIZE \in Nat \ {0}
  BY ArchAssumption
<1>3. \A a, b \in Nat \ {0} : a * b \in Nat \ {0}
  OBVIOUS
<1>4. /\ entry_size(3) \in Nat \ {0} /\ entry_size(2) \in Nat \ {0}
      /\ entry_size(1) \in Nat \ {0} /\ entry_size(0) \in Nat \ {0}
  BY <1>1, <1>2, <1>3
<1> QED
  BY <1>1, <1>2, <1>4 DEF Layer

LEMMA SizesDecrease ==
  entry_size(0) > entry_size(1) /\ entry_size(1) > entry_size(2) /\ entry_size(2) > entry_size(3)
<1>1. \A n \in Nat, s \in Nat \ {0} : n >= 2 => n * s > s
  <2> SUFFICES ASSUME NEW n \in Nat, NEW s \in Nat \ {0}, n >= 2 PROVE n * s > s
    OBVIOUS
  <2>1. n * s >= 2 * s
    OBVIOUS
  <2>2. n * s \in Nat
    BY ProductType
  <2> QED
    BY <2>1, <2>2
<1> QED
  BY <1>1, Sizes DEF Layer

LEMMA EntryBaseType ==
  ASSUME NEW l \in Layer, NEW base \in Nat, NEW i \in EntryIndex
  PROVE  entry_base(l, base, i) \in Nat
<1>1. entry_size(l) \in Nat /\ X86_NUM_ENTRIES \in Nat
  BY Sizes
<1>2. i \in Nat
  BY <1>1 DEF EntryIndex
<1>3. \A a, b \in Nat : a * b \in Nat
  OBVIOUS
<1>4. i * entry_size(l) \in Nat
  BY <1>1, <1>2, <1>3
<1> QED
  BY <1>4 DEF entry_base

-----------------------------------------------------------------------------
(* What the accesses of the memory do to the tree. *)

LEMMA Written ==
  ASSUME NEW mem \in Memory, NEW p \in PageRegions, NEW i \in EntryIndex, NEW w \in Word
  PROVE  /\ [mem EXCEPT ![p][i] = w] \in Memory
         /\ \A q \in PageRegions : \A j \in EntryIndex :
              [mem EXCEPT ![p][i] = w][q][j] = IF q = p /\ j = i THEN w ELSE mem[q][j]
  BY DEF Memory

LEMMA TreeType ==
  ASSUME NEW T, NEW mem, NEW t, Tree(T, mem, t), NEW p \in T
  PROVE  /\ p \in PageRegions /\ t[p] \in Node
         /\ t[p].lev \in Layer /\ t[p].par \in PageRegions /\ t[p].slot \in EntryIndex
         /\ t[p].start \in Nat
         /\ p # cr3 => t[p].par \in T
  BY DEF Tree, Node, HasParent

(* Every directory but the root is where its parent says. *)
LEMMA ChildOfParent ==
  ASSUME NEW T, NEW mem, NEW t, Tree(T, mem, t), NEW d \in T \ {cr3}
  PROVE  /\ t[d].par \in T /\ t[d].slot \in EntryIndex
         /\ links(t[t[d].par].lev, mem[t[d].par][t[d].slot])
         /\ address(mem[t[d].par][t[d].slot]) = d
         /\ t[d] = Child(t, t[d].par, t[d].slot)
<1>1. HasParent(T, mem, t, d) /\ t[d].slot \in EntryIndex
  BY TreeType DEF Tree
<1>2. t[d].par \in T /\ WordFits(T, t, t[d].par, t[d].slot, mem[t[d].par][t[d].slot])
  BY <1>1 DEF Tree, HasParent
<1> QED
  BY <1>1, <1>2 DEF HasParent, WordFits, LinkFits

(* What an entry that refers to a directory says of it. *)
LEMMA LinkedChild ==
  ASSUME NEW T, NEW mem, NEW t, Tree(T, mem, t), NEW p \in T, NEW i \in EntryIndex,
         links(t[p].lev, mem[p][i])
  PROVE  LinkFits(T, t, p, i, mem[p][i])
  BY DEF Tree, WordFits

LEMMA WriteLeaf ==
  ASSUME NEW T, NEW mem, NEW t, Tree(T, mem, t),
         NEW p \in T, NEW i \in EntryIndex, ~links(t[p].lev, mem[p][i]),
         NEW w \in Word, ~links(t[p].lev, w), LeafFits(t[p].lev, w)
  PROVE  Tree(T, [mem EXCEPT ![p][i] = w], t)
<1> DEFINE m == [mem EXCEPT ![p][i] = w]
<1>0. p \in PageRegions /\ T \subseteq PageRegions /\ mem \in Memory
  BY DEF Tree
<1>1. /\ m \in Memory
      /\ \A q \in PageRegions : \A j \in EntryIndex : m[q][j] = IF q = p /\ j = i THEN w ELSE mem[q][j]
  BY <1>0, Written
<1> HIDE DEF m
<1>2. ASSUME NEW q \in T, NEW j \in EntryIndex PROVE WordFits(T, t, q, j, m[q][j])
  <2>1. CASE q = p /\ j = i
    BY <1>0, <1>1, <2>1 DEF WordFits
  <2>2. CASE ~(q = p /\ j = i)
    <3>1. m[q][j] = mem[q][j]
      BY <1>0, <1>1, <2>2
    <3> QED
      BY <3>1 DEF Tree
  <2> QED
    BY <2>1, <2>2
<1>3. ASSUME NEW d \in T \ {cr3} PROVE HasParent(T, m, t, d)
  <2>1. HasParent(T, mem, t, d) /\ t[d].par \in T /\ t[d].slot \in EntryIndex
    BY ChildOfParent DEF Tree
  <2>2. m[t[d].par][t[d].slot] = mem[t[d].par][t[d].slot]
    BY <1>0, <1>1, <2>1 DEF HasParent
  <2> QED
    BY <2>1, <2>2 DEF HasParent
<1>4. /\ T \subseteq PageRegions /\ t \in [PageRegions -> Node]
      /\ cr3 \in T /\ t[cr3].lev = 0 /\ t[cr3].start = 0
  BY DEF Tree
<1>5. Tree(T, m, t)
  BY <1>1, <1>2, <1>3, <1>4 DEF Tree
<1> QED
  BY <1>5 DEF m

(* The words of the pages outside the tree do not matter. *)
LEMMA ChangeOutside ==
  ASSUME NEW T, NEW mem, NEW t, Tree(T, mem, t), NEW m \in Memory, \A p \in T : m[p] = mem[p]
  PROVE  Tree(T, m, t)
<1>1. ASSUME NEW q \in T, NEW j \in EntryIndex PROVE WordFits(T, t, q, j, m[q][j])
  BY DEF Tree
<1>2. ASSUME NEW d \in T \ {cr3} PROVE HasParent(T, m, t, d)
  <2>1. HasParent(T, mem, t, d) /\ t[d].par \in T
    BY ChildOfParent DEF Tree
  <2> QED
    BY <2>1 DEF HasParent
<1>3. /\ T \subseteq PageRegions /\ t \in [PageRegions -> Node]
      /\ cr3 \in T /\ t[cr3].lev = 0 /\ t[cr3].start = 0
  BY DEF Tree
<1> QED
  BY <1>1, <1>2, <1>3 DEF Tree

(* An empty directory is linked. *)
LEMMA AddChild ==
  ASSUME NEW T, NEW mem, NEW t, Tree(T, mem, t),
         NEW p \in T, NEW i \in EntryIndex, ~mem[p][i].P, t[p].lev < 3,
         NEW d \in PageRegions \ T, Empty(mem, d),
         NEW w \in Word, w.P, is_dir(t[p].lev, w), all_mb0_bits_are_zero(t[p].lev, w),
         w.RW, w.US, ~w.XD, address(w) = d
  PROVE  Tree(T \cup {d}, [mem EXCEPT ![p][i] = w], [t EXCEPT ![d] = Child(t, p, i)])
<1> DEFINE m == [mem EXCEPT ![p][i] = w]
           c == Child(t, p, i)
           u == [t EXCEPT ![d] = c]
<1>0. /\ p \in PageRegions /\ T \subseteq PageRegions /\ mem \in Memory
      /\ t \in [PageRegions -> Node] /\ cr3 \in T /\ d # cr3 /\ d # p
  BY DEF Tree
<1>1. /\ m \in Memory
      /\ \A q \in PageRegions : \A j \in EntryIndex : m[q][j] = IF q = p /\ j = i THEN w ELSE mem[q][j]
  BY <1>0, Written
<1>2. c \in Node
  <2>1. t[p].lev \in Layer /\ t[p].start \in Nat
    BY TreeType
  <2>2. t[p].lev + 1 \in Layer
    BY <2>1 DEF Layer
  <2>3. entry_base(t[p].lev, t[p].start, i) \in Nat
    BY <2>1, EntryBaseType
  <2> QED
    BY <1>0, <2>2, <2>3 DEF Child, Node
<1>3. /\ u \in [PageRegions -> Node] /\ u[d] = c
      /\ \A q \in PageRegions : q # d => u[q] = t[q]
  BY <1>0, <1>2
<1>4. \A q \in PageRegions : \A j \in EntryIndex : q # d => Child(u, q, j) = Child(t, q, j)
  BY <1>3 DEF Child
<1> HIDE DEF m, c, u
<1>5. ASSUME NEW q \in T \cup {d}, NEW j \in EntryIndex PROVE WordFits(T \cup {d}, u, q, j, m[q][j])
  <2>1. CASE q = p /\ j = i
    <3>1. m[q][j] = w /\ u[q] = t[p] /\ Child(u, q, j) = c
      BY <1>0, <1>1, <1>3, <1>4, <2>1 DEF c
    <3> QED
      BY <1>0, <1>3, <3>1 DEF WordFits, LinkFits, links
  <2>2. CASE q = d
    <3>1. ~m[q][j].P
      BY <1>0, <1>1, <2>2 DEF Empty
    <3> QED
      BY <3>1 DEF WordFits, LeafFits, links
  <2>3. CASE q # d /\ ~(q = p /\ j = i)
    <3>1. q \in T /\ m[q][j] = mem[q][j] /\ u[q] = t[q] /\ Child(u, q, j) = Child(t, q, j)
      BY <1>0, <1>1, <1>3, <1>4, <2>3
    <3>2. WordFits(T, t, q, j, mem[q][j])
      BY <3>1 DEF Tree
    <3> QED
      BY <1>0, <1>3, <3>1, <3>2 DEF WordFits, LinkFits
  <2> QED
    BY <2>1, <2>2, <2>3
<1>6. ASSUME NEW e \in (T \cup {d}) \ {cr3} PROVE HasParent(T \cup {d}, m, u, e)
  <2>1. CASE e = d
    <3>1. u[e].par = p /\ u[e].slot = i /\ u[p] = t[p] /\ m[p][i] = w
      BY <1>0, <1>1, <1>3, <2>1 DEF c, Child
    <3> QED
      BY <3>1, <2>1 DEF HasParent, links
  <2>2. CASE e # d
    <3>1. HasParent(T, mem, t, e) /\ t[e].par \in T /\ t[e].slot \in EntryIndex
      BY <2>2, ChildOfParent DEF Tree
    <3>2. u[e] = t[e] /\ u[t[e].par] = t[t[e].par]
      BY <1>0, <1>3, <2>2, <3>1
    <3>3. m[t[e].par][t[e].slot] = mem[t[e].par][t[e].slot]
      BY <1>0, <1>1, <3>1 DEF HasParent, links
    <3> QED
      BY <3>1, <3>2, <3>3 DEF HasParent
  <2> QED
    BY <2>1, <2>2
<1>7. u[cr3].lev = 0 /\ u[cr3].start = 0
  BY <1>0, <1>3 DEF Tree
<1>8. Tree(T \cup {d}, m, u)
  BY <1>0, <1>1, <1>3, <1>5, <1>6, <1>7 DEF Tree
<1> QED
  BY <1>8 DEF m, u, c

(* An empty directory is unlinked. *)
LEMMA RemoveChild ==
  ASSUME NEW T, NEW mem, NEW t, Tree(T, mem, t), NEW d \in T \ {cr3}, Empty(mem, d)
  PROVE  Tree(T \ {d}, [mem EXCEPT ![t[d].par][t[d].slot] = zero_entry], t)
<1> DEFINE p == t[d].par
           i == t[d].slot
           w == zero_entry
           m == [mem EXCEPT ![p][i] = w]
<1>0. /\ p \in T /\ i \in EntryIndex /\ links(t[p].lev, mem[p][i]) /\ address(mem[p][i]) = d
      /\ w \in Word /\ ~w.P /\ p # d
      /\ T \subseteq PageRegions /\ mem \in Memory /\ t \in [PageRegions -> Node] /\ cr3 \in T
  <2>1. /\ p \in T /\ i \in EntryIndex /\ links(t[p].lev, mem[p][i]) /\ address(mem[p][i]) = d
        /\ t[d] = Child(t, p, i)
    BY ChildOfParent
  <2>2. p # d
    BY <2>1 DEF links, Empty
  <2>3. w \in Word /\ ~w.P
    BY DEF Word, zero_entry
  <2> HIDE DEF w, p, i
  <2> QED
    BY <2>1, <2>2, <2>3 DEF Tree
<1> HIDE DEF w, p, i
<1>1. /\ m \in Memory
      /\ \A q \in PageRegions : \A j \in EntryIndex : m[q][j] = IF q = p /\ j = i THEN w ELSE mem[q][j]
  BY <1>0, Written
<1> HIDE DEF m
<1>2. ASSUME NEW q \in T \ {d}, NEW j \in EntryIndex PROVE WordFits(T \ {d}, t, q, j, m[q][j])
  <2>1. CASE q = p /\ j = i
    <3>1. ~m[q][j].P
      BY <1>0, <1>1, <2>1
    <3> QED
      BY <3>1 DEF WordFits, LeafFits, links
  <2>2. CASE ~(q = p /\ j = i)
    <3>1. m[q][j] = mem[q][j]
      BY <1>0, <1>1, <2>2
    <3>2. WordFits(T, t, q, j, mem[q][j])
      BY DEF Tree
    <3>3. links(t[q].lev, mem[q][j]) => address(mem[q][j]) # d
      <4> SUFFICES ASSUME links(t[q].lev, mem[q][j]), address(mem[q][j]) = d PROVE FALSE
        OBVIOUS
      <4>1. t[d] = Child(t, q, j)
        BY <3>2 DEF WordFits, LinkFits
      <4> QED
        BY <4>1, <2>2 DEF Child, p, i
    <3> QED
      BY <3>1, <3>2, <3>3 DEF WordFits, LinkFits
  <2> QED
    BY <2>1, <2>2
<1>3. ASSUME NEW e \in (T \ {d}) \ {cr3} PROVE HasParent(T \ {d}, m, t, e)
  <2>1. HasParent(T, mem, t, e) /\ t[e].par \in T /\ t[e].slot \in EntryIndex
    BY ChildOfParent DEF Tree
  <2>2. ~(t[e].par = p /\ t[e].slot = i)
    BY <1>0, <2>1 DEF HasParent
  <2>3. t[e].par # d
    BY <2>1 DEF HasParent, Empty, links
  <2>4. m[t[e].par][t[e].slot] = mem[t[e].par][t[e].slot]
    BY <1>0, <1>1, <2>1, <2>2
  <2> QED
    BY <2>1, <2>3, <2>4 DEF HasParent
<1>4. T \ {d} \subseteq PageRegions /\ cr3 \in T \ {d} /\ t[cr3].lev = 0 /\ t[cr3].start = 0
  BY <1>0 DEF Tree
<1>5. Tree(T \ {d}, m, t)
  BY <1>0, <1>1, <1>2, <1>3, <1>4 DEF Tree
<1> QED
  BY <1>5 DEF m, p, i, w
-----------------------------------------------------------------------------
(* The words that the code writes. *)

LEMMA DirEntryFits ==
  ASSUME NEW l \in 0 .. 2, NEW d \in PageRegions
  PROVE  LET w == new_dir_entry(l, d)
         IN  /\ w \in Word /\ w.P /\ is_dir(l, w) /\ all_mb0_bits_are_zero(l, w)
             /\ w.RW /\ w.US /\ ~w.XD /\ address(w) = d
<1> DEFINE w == new_dir_entry(l, d)
<1>1. w = [P |-> TRUE, RW |-> TRUE, US |-> TRUE, XD |-> FALSE, PS |-> FALSE, addr |-> d]
  BY DEF new_dir_entry, new_entry, permissive_flags
<1>2. d \in Nat /\ d <= MAX_PHYADDR /\ MAX_PHYADDR \in Nat
  BY MemoryAssumption, SizesAssumption, ArchAssumption DEF PageRegions
<1>3. d % (MAX_PHYADDR + 1) = d
  BY <1>2
<1> HIDE DEF w
<1>4. w \in Word
  BY <1>1, <1>2 DEF Word
<1>5. is_dir(l, w) /\ all_mb0_bits_are_zero(l, w)
  BY <1>1, <1>2 DEF is_dir, is_page, all_mb0_bits_are_zero
<1>6. address(w) = d
  BY <1>1, <1>3 DEF address
<1> QED
  BY <1>1, <1>4, <1>5, <1>6 DEF w

(* The number of an aligned address has an even number of pages. *)
LEMMA AlignedEven ==
  ASSUME NEW l \in {1, 2}, NEW a \in Nat, aligned(a, entry_size(l))
  PROVE  ~MASK_PG_FLAG_PAT(a)
<1> DEFINE h == X86_NUM_ENTRIES \div 2
           n == X86_NUM_ENTRIES
           s == PAGE_SIZE
<1>1. h \in Nat /\ n = 2 * h /\ n \in Nat /\ s \in Nat \ {0}
  BY ArchAssumption
<1> HIDE DEF h, n, s
<1>2. \E k \in Nat : a = k * (n * s)
  <2>1. n * s \in Nat \ {0} /\ entry_size(2) = n * s /\ entry_size(1) = n * (n * s)
    BY Sizes, <1>1 DEF Layer, n, s
  <2>0. entry_size(l) \in Nat \ {0}
    BY Sizes DEF Layer
  <2>2. PICK j \in Nat : a = j * entry_size(l)
    BY <2>0, AlignedIsMultiple
  <2>3. CASE l = 2
    BY <2>1, <2>2, <2>3
  <2>4. CASE l = 1
    <3>1. a = (j * n) * (n * s)
      BY <2>1, <2>2, <2>4, <1>1
    <3> QED
      BY <3>1, <1>1, ProductType
  <2> QED
    BY <2>3, <2>4
<1>3. PICK k \in Nat : a = k * (n * s)
  BY <1>2
<1> DEFINE q == 2 * (k * h)
<1>4. q \in Nat /\ a = q * s
  <2>1. k * h \in Nat
    BY <1>1, ProductType
  <2>2. k * ((2 * h) * s) = (2 * (k * h)) * s
    BY <1>1
  <2> QED
    BY <1>1, <1>3, <2>1, <2>2
<1>5. k * h \in Nat /\ q % 2 = 0
  BY <1>1, ProductType
<1> HIDE DEF q
<1>6. a \div s = q
  BY <1>1, <1>4, DivUnique
<1> QED
  BY <1>5, <1>6 DEF MASK_PG_FLAG_PAT, s

(* A page is mapped where its size fits. *)
LEMMA PageEntryFits ==
  ASSUME NEW l \in 1 .. 3, NEW pte \in PTE,
         pte.frame.size = entry_size(l), pte.frame.base <= MAX_PHYADDR,
         aligned(pte.frame.base, pte.frame.size)
  PROVE  LET w == new_page_entry(l, pte)
         IN  w \in Word /\ w.P /\ is_page(l, w) /\ LeafFits(l, w) /\ w.addr = pte.frame.base
<1> DEFINE w == new_page_entry(l, pte)
           a == pte.frame.base
<1>0. a \in Nat /\ pte.flags \in Flags
  BY CallsAssumption DEF PageTableEntry, MemRegion
<1>1. w = [P |-> TRUE, RW |-> pte.flags.is_writable, US |-> ~pte.flags.is_supervisor,
           XD |-> pte.flags.disable_execute, PS |-> l # 3, addr |-> a]
  BY DEF new_page_entry, new_entry
<1>2. w \in Word
  BY <1>0, <1>1 DEF Word, Flags
<1> HIDE DEF w, a
<1>3. w.P /\ is_page(l, w) /\ w.addr = a
  <2>1. w.P = TRUE /\ w.PS = (l # 3) /\ w.addr = a
    BY <1>1
  <2>2. l = 3 \/ w.PS
    BY <2>1
  <2>3. l # 0
    OBVIOUS
  <2> QED
    BY <2>1, <2>2, <2>3 DEF is_page
<1>4. reserved_page_bits(l, a) = 0
  <2>1. PAGE_SIZE \in Nat \ {0} /\ a % entry_size(l) = 0
    BY ArchAssumption DEF aligned, a
  <2>2. 0 \div (2 * PAGE_SIZE) = 0
    BY <2>1
  <2> QED
    BY <2>1, <2>2 DEF reserved_page_bits
<1>5. all_mb0_bits_are_zero(l, w)
  BY <1>3, <1>4 DEF all_mb0_bits_are_zero, a
<1>6. l \in {1, 2} => ~MASK_PG_FLAG_PAT(a)
  BY <1>0, AlignedEven DEF a
<1>7. aligned(w.addr, entry_size(l))
  BY <1>3 DEF a
<1> QED
  BY <1>2, <1>3, <1>5, <1>6, <1>7 DEF LeafFits, w, a

-----------------------------------------------------------------------------
(* The entry of a directory that an address falls into. *)

Covers(l, base, addr) == base <= addr /\ addr < upper_vaddr(l, base)

LEMMA IndexInDirectory ==
  ASSUME NEW l \in Layer, NEW base \in Nat, NEW addr \in Nat, Covers(l, base, addr)
  PROVE  /\ index_for_vaddr(l, base, addr) \in EntryIndex
         /\ entry_base(l, base, index_for_vaddr(l, base, addr)) <= addr
         /\ addr < entry_base(l, base, index_for_vaddr(l, base, addr)) + entry_size(l)
<1> DEFINE s == entry_size(l)
           n == X86_NUM_ENTRIES
           i == (addr - base) \div s
<1>1. s \in Nat \ {0} /\ n \in Nat
  BY Sizes
<1>2. base <= addr /\ addr < base + n * s
  BY DEF Covers, upper_vaddr, entry_base
<1>3. index_for_vaddr(l, base, addr) = i /\ entry_base(l, base, i) = base + i * s
  BY DEF index_for_vaddr, entry_base
<1> HIDE DEF s, n
<1>4. i \in Nat /\ i * s <= addr - base /\ addr - base < i * s + s
  <2> DEFINE a == addr - base
  <2>1. a \in Nat
    BY <1>2
  <2> HIDE DEF a
  <2>2. a \div s \in Nat /\ a % s \in Nat /\ a % s < s /\ a = ((a \div s) * s) + (a % s)
    BY <1>1, <2>1, DivMod
  <2>3. (a \div s) * s \in Nat
    BY <1>1, <2>2, ProductType
  <2>4. a \div s \in Nat /\ (a \div s) * s <= a /\ a < (a \div s) * s + s
    BY <1>1, <2>1, <2>2, <2>3
  <2> QED
    BY <2>4 DEF a
<1> HIDE DEF i
<1>5. i < n
  <2> SUFFICES ASSUME n <= i PROVE FALSE
    BY <1>1, <1>4
  <2>1. n * s <= i * s
    BY <1>1, <1>4
  <2>2. n * s \in Nat /\ i * s \in Nat
    BY <1>1, <1>4, ProductType
  <2> QED
    BY <1>2, <1>4, <2>1, <2>2
<1>6. i * s \in Nat
  BY <1>1, <1>4, ProductType
<1>7. i \in EntryIndex
  BY <1>1, <1>4, <1>5 DEF EntryIndex, n
<1>8. base + i * s <= addr /\ addr < base + i * s + s
  BY <1>1, <1>4, <1>6
<1> QED
  BY <1>3, <1>7, <1>8 DEF s

(* No other entry does. *)
LEMMA IndexUnique ==
  ASSUME NEW l \in Layer, NEW base \in Nat, NEW addr \in Nat, NEW i \in EntryIndex,
         entry_base(l, base, i) <= addr, addr < entry_base(l, base, i) + entry_size(l)
  PROVE  index_for_vaddr(l, base, addr) = i /\ Covers(l, base, addr)
<1> DEFINE s == entry_size(l)
           n == X86_NUM_ENTRIES
<1>1. s \in Nat \ {0} /\ n \in Nat
  BY Sizes
<1>2. i \in Nat /\ i + 1 <= n
  BY <1>1 DEF EntryIndex
<1>3. base + i * s <= addr /\ addr < base + i * s + s
  BY DEF entry_base
<1>4. /\ index_for_vaddr(l, base, addr) = (addr - base) \div s
      /\ Covers(l, base, addr) = (base <= addr /\ addr < base + n * s)
  BY DEF index_for_vaddr, Covers, upper_vaddr, entry_base
<1> HIDE DEF s, n
<1>5. i * s \in Nat /\ n * s \in Nat
  BY <1>1, <1>2, ProductType
<1>6. addr - base \in Nat /\ i * s <= addr - base /\ addr - base < i * s + s
  BY <1>1, <1>3, <1>5
<1>7. (addr - base) \div s = i
  BY <1>1, <1>2, <1>6, DivUnique
<1>8. (i + 1) * s <= n * s /\ (i + 1) * s = i * s + s
  BY <1>1, <1>2
<1>9. base <= addr /\ addr < base + n * s
  BY <1>1, <1>3, <1>5, <1>8
<1> QED
  BY <1>4, <1>7, <1>9

(* The directory an entry refers to is about the addresses of the entry.   *)
LEMMA CoversBelow ==
  ASSUME NEW l \in 0 .. 2, NEW base \in Nat
  PROVE  upper_vaddr(l + 1, base) = base + entry_size(l)
<1>1. X86_NUM_ENTRIES * entry_size(l + 1) = entry_size(l)
  BY Sizes
<1> QED
  BY <1>1 DEF upper_vaddr, entry_base

LEMMA RootCovers ==
  ASSUME NEW addr \in Nat
  PROVE  Covers(0, 0, addr) <=> addr < MAX_BASE
<1>1. X86_NUM_ENTRIES * entry_size(0) = MAX_BASE /\ entry_size(0) \in Nat /\ X86_NUM_ENTRIES \in Nat
  <2>1. entry_size(0) = L0_ENTRY_SIZE /\ entry_size(0) \in Nat /\ X86_NUM_ENTRIES \in Nat
    BY Sizes DEF entry_size, Layer
  <2> HIDE DEF L0_ENTRY_SIZE
  <2> QED
    BY <2>1 DEF MAX_BASE
<1> HIDE DEF MAX_BASE
<1> QED
  BY <1>1 DEF Covers, upper_vaddr, entry_base
-----------------------------------------------------------------------------
(* The activations of a call. *)

LEMMA CallVaddr == TreeInv /\ pc # "idle" => call.vaddr \in Nat
<1>1. TreeInv /\ pc # "idle" => call \in MapCall \/ call \in UnmapCall
  BY DEF TreeInv, TypeOK, CallFits
<1> QED
  BY <1>1, CallsAssumption DEF MapCall, UnmapCall

LEMMA ActivationAt ==
  ASSUME TreeInv, pc # "idle", NEW t, TreeFits(t), NEW k \in 1 .. Len(stack)
  PROVE  /\ Len(stack) \in Nat /\ Len(stack) >= 1 /\ Len(stack) <= 4 /\ k - 1 \in Layer
         /\ stack[k].ptr \in PageRegions /\ stack[k].base \in Nat
         /\ Covers(k - 1, stack[k].base, call.vaddr)
         /\ idx(k - 1) = index_for_vaddr(k - 1, stack[k].base, call.vaddr)
         /\ idx(k - 1) \in EntryIndex
<1>1. OnPath(k)
  BY DEF TreeFits, StackFits
<1>8. Len(stack) \in Nat /\ Len(stack) >= 1 /\ Len(stack) <= 4
  BY DEF TreeFits, StackFits
<1>2. stack \in Seq(Activation)
  BY DEF TreeInv, TypeOK
<1>3. stack[k] \in Activation
  BY <1>2
<1>4. stack[k].ptr \in PageRegions /\ stack[k].base \in Nat
  BY <1>3 DEF Activation
<1>5. k - 1 \in Layer /\ (k - 1) + 1 = k
  BY <1>8 DEF Layer
<1>6. Covers(k - 1, stack[k].base, call.vaddr)
  BY <1>1 DEF OnPath, Covers
<1>7. idx(k - 1) = index_for_vaddr(k - 1, stack[k].base, call.vaddr)
  BY <1>5 DEF idx
<1> QED
  BY <1>4, <1>5, <1>6, <1>7, <1>8, CallVaddr, IndexInDirectory

LEMMA TopFits ==
  ASSUME TreeInv, pc # "idle", ~AtUnlinked, NEW t, TreeFits(t)
  PROVE  /\ layer \in Layer /\ layer \in Nat /\ layer <= 3 /\ Len(stack) = layer + 1
         /\ Len(stack) \in Nat /\ Len(stack) >= 1 /\ Len(stack) <= 4
         /\ Top = stack[Len(stack)] /\ InTree = regions
         /\ Top.ptr \in InTree /\ Top.ptr \in PageRegions /\ Top.base \in Nat
         /\ t[Top.ptr].lev = layer /\ t[Top.ptr].start = Top.base
         /\ Covers(layer, Top.base, call.vaddr)
         /\ idx(layer) = index_for_vaddr(layer, Top.base, call.vaddr)
         /\ idx(layer) \in EntryIndex
         /\ entry = region_view[Top.ptr][idx(layer)] /\ entry \in Word
         /\ WordFits(InTree, t, Top.ptr, idx(layer), entry)
<1>1. Len(stack) \in Nat /\ Len(stack) >= 1 /\ Len(stack) <= 4 /\ Linked(Len(stack)) /\ ActivationFits(t, Len(stack))
  BY DEF TreeFits, StackFits, Linked
<1>2. layer = Len(stack) - 1 /\ Len(stack) \in 1 .. Len(stack)
  BY <1>1 DEF layer
<1>3. /\ layer \in Layer /\ layer \in Nat /\ layer <= 3
      /\ stack[Len(stack)].ptr \in PageRegions /\ stack[Len(stack)].base \in Nat
      /\ Covers(layer, stack[Len(stack)].base, call.vaddr)
      /\ idx(layer) = index_for_vaddr(layer, stack[Len(stack)].base, call.vaddr)
      /\ idx(layer) \in EntryIndex
  BY <1>2, ActivationAt
<1>4. Top = stack[Len(stack)] /\ Top.ptr \in InTree /\ t[Top.ptr].lev = layer /\ t[Top.ptr].start = Top.base
  BY <1>1, <1>2 DEF Top, ActivationFits
<1>5. entry = region_view[Top.ptr][idx(layer)]
  BY DEF entry, spec_read
<1>6. region_view \in Memory
  BY DEF TreeInv, TypeOK, Memory
<1>7. entry \in Word
  BY <1>3, <1>4, <1>5, <1>6 DEF Memory
<1>8. WordFits(InTree, t, Top.ptr, idx(layer), entry)
  BY <1>3, <1>4, <1>5 DEF TreeFits, Tree
<1>9. InTree = regions
  BY DEF InTree
<1> QED
  BY <1>1, <1>2, <1>3, <1>4, <1>5, <1>7, <1>8, <1>9

LEMMA CallerFits ==
  ASSUME TreeInv, pc # "idle", NEW t, TreeFits(t), Len(stack) > 1
  PROVE  /\ layer \in Nat /\ layer >= 1 /\ layer <= 3 /\ layer - 1 \in Nat /\ layer - 1 >= 0
         /\ layer - 1 <= 2 /\ Len(stack) = layer + 1 /\ Len(stack) \in Nat
         /\ Len(stack) >= 2 /\ Len(stack) <= 4
         /\ Top = stack[Len(stack)] /\ Caller = stack[Len(stack) - 1]
         /\ Top.ptr \in PageRegions /\ Top.base \in Nat
         /\ Caller.ptr \in InTree /\ Caller.ptr \in PageRegions /\ Caller.base \in Nat
         /\ t[Caller.ptr].lev = layer - 1 /\ t[Caller.ptr].start = Caller.base
         /\ Top.base = entry_base(layer - 1, Caller.base, idx(layer - 1))
         /\ idx(layer - 1) \in EntryIndex
         /\ ~AtUnlinked => /\ Top.ptr \in InTree /\ Top.ptr # cr3
                           /\ t[Top.ptr].par = Caller.ptr /\ t[Top.ptr].slot = idx(layer - 1)
<1> DEFINE n == Len(stack)
<1>1. n \in Nat /\ n >= 2 /\ n <= 4 /\ layer = n - 1
  BY DEF TreeFits, StackFits, layer
<1>2. n \in 1 .. Len(stack) /\ n - 1 \in 1 .. Len(stack) /\ n - 1 # Len(stack)
  BY <1>1
<1>3. Top = stack[n] /\ Caller = stack[n - 1]
  BY DEF Top, Caller
<1> HIDE DEF n
<1>4. /\ stack[n].ptr \in PageRegions /\ stack[n].base \in Nat
      /\ stack[n - 1].ptr \in PageRegions /\ stack[n - 1].base \in Nat
      /\ idx((n - 1) - 1) \in EntryIndex
  BY <1>2, ActivationAt
<1>5. OnPath(n) /\ ActivationFits(t, n - 1) /\ (~AtUnlinked => ActivationFits(t, n))
  BY <1>2 DEF TreeFits, StackFits, Linked
<1>6. (n - 1) - 1 = layer - 1 /\ n - 2 = layer - 1 /\ n > 1
  BY <1>1
<1>7. /\ Caller.ptr \in InTree
      /\ t[Caller.ptr].lev = layer - 1 /\ t[Caller.ptr].start = Caller.base
  BY <1>3, <1>5, <1>6 DEF ActivationFits
<1>8. Top.base = entry_base(layer - 1, Caller.base, idx(layer - 1))
  BY <1>3, <1>5, <1>6 DEF OnPath
<1>9. ~AtUnlinked => /\ Top.ptr \in InTree /\ t[Top.ptr].lev = layer
                     /\ t[Top.ptr].par = Caller.ptr /\ t[Top.ptr].slot = idx(layer - 1)
  BY <1>1, <1>3, <1>5, <1>6 DEF ActivationFits
<1>10. t[cr3].lev = 0 /\ layer # 0
  BY <1>1 DEF TreeFits, Tree
<1> QED
  BY <1>1, <1>3, <1>4, <1>6, <1>7, <1>8, <1>9, <1>10 DEF n

(* One activation more. *)
LEMMA DescendFits ==
  ASSUME TreeInv, pc # "idle", ~AtUnlinked, NEW t, TreeFits(t), layer < 3,
         NEW ptr \in PageRegions, Descend(ptr), call' = call
  PROVE  /\ stack' \in Seq(Activation) /\ Len(stack') = Len(stack) + 1
         /\ Len(stack') \in Nat /\ Len(stack') >= 2 /\ Len(stack') <= 4
         /\ \A k \in 1 .. Len(stack) : stack'[k] = stack[k]
         /\ Top' = [ptr |-> ptr, base |-> entry_base(layer, Top.base, idx(layer))]
         /\ Caller' = Top /\ layer' = layer + 1
         /\ \A k \in 0 .. layer : idx(k)' = idx(k)
         /\ \A k \in 1 .. Len(stack') : OnPath(k)'
<1> DEFINE a == [ptr |-> ptr, base |-> entry_base(layer, Top.base, idx(layer))]
           n == Len(stack)
<1>1. /\ layer \in Layer /\ layer \in Nat /\ layer <= 3 /\ n = layer + 1 /\ n \in Nat
      /\ n >= 1 /\ n <= 3 /\ Top.base \in Nat /\ Top = stack[n]
      /\ idx(layer) = index_for_vaddr(layer, Top.base, call.vaddr) /\ idx(layer) \in EntryIndex
      /\ Covers(layer, Top.base, call.vaddr)
  BY TopFits DEF Layer
<1>2. a \in Activation
  BY <1>1, EntryBaseType DEF Activation
<1>3. stack \in Seq(Activation) /\ stack' = Append(stack, a)
  BY DEF TreeInv, TypeOK, Descend
<1> HIDE DEF a
<1>4. /\ stack' \in Seq(Activation) /\ Len(stack') = n + 1
      /\ \A k \in 1 .. n : stack'[k] = stack[k]
      /\ stack'[n + 1] = a
  BY <1>2, <1>3
<1> HIDE DEF n
<1>5. Top' = a /\ Caller' = Top /\ layer' = layer + 1
  BY <1>1, <1>4 DEF Top, Caller, layer
<1>6. \A k \in 0 .. layer : idx(k)' = idx(k)
  BY <1>1, <1>4 DEF idx
<1>7. ASSUME NEW k \in 1 .. n PROVE OnPath(k)'
  <2>1. OnPath(k)
    BY DEF TreeFits, StackFits, n
  <2>2. stack'[k] = stack[k] /\ (k > 1 => stack'[k - 1] = stack[k - 1] /\ idx(k - 2)' = idx(k - 2))
    BY <1>1, <1>4, <1>6
  <2> QED
    BY <2>1, <2>2 DEF OnPath
<1>8. ASSUME NEW k \in Nat, k = n + 1 PROVE OnPath(k)'
  <2>1. stack'[k] = a /\ stack'[k - 1] = Top /\ k - 2 = layer /\ idx(k - 2)' = idx(k - 2)
    BY <1>1, <1>4, <1>6, <1>8
  <2>2. a.base = entry_base(layer, Top.base, idx(layer))
    BY DEF a
  <2>3. a.base <= call.vaddr /\ call.vaddr < a.base + entry_size(layer)
    BY <1>1, <2>2, CallVaddr, IndexInDirectory
  <2>4. layer \in Nat /\ layer >= 0 /\ layer <= 2 /\ a.base \in Nat
    BY <1>1, <1>2 DEF Layer, Activation
  <2>5. upper_vaddr(layer + 1, a.base) = a.base + entry_size(layer)
    BY <2>4, CoversBelow
  <2>6. k - 1 = layer + 1
    BY <1>1, <1>8
  <2> QED
    BY <2>1, <2>2, <2>3, <2>5, <2>6 DEF OnPath
<1>9. ASSUME NEW k \in 1 .. n + 1 PROVE OnPath(k)'
  <2>1. k \in 1 .. n \/ (k \in Nat /\ k = n + 1)
    BY <1>1
  <2> QED
    BY <2>1, <1>7, <1>8
<1> QED
  BY <1>1, <1>4, <1>5, <1>6, <1>9 DEF a, n

(* One activation less. *)
LEMMA ReturnFits ==
  ASSUME TreeInv, pc # "idle", NEW t, TreeFits(t), Len(stack) > 1, Return, call' = call
  PROVE  /\ stack' \in Seq(Activation) /\ Len(stack') = Len(stack) - 1
         /\ Len(stack') \in Nat /\ Len(stack') >= 1 /\ Len(stack') <= 3
         /\ \A k \in 1 .. Len(stack') : stack'[k] = stack[k]
         /\ Top' = Caller /\ layer' = layer - 1
         /\ \A k \in 0 .. layer' : idx(k)' = idx(k)
         /\ \A k \in 1 .. Len(stack') : OnPath(k)' /\ ActivationFits(t, k)
<1>1. stack \in Seq(Activation) /\ Len(stack) \in Nat /\ Len(stack) >= 2 /\ Len(stack) <= 4 /\ layer = Len(stack) - 1
  BY DEF TreeInv, TypeOK, TreeFits, StackFits, layer
<1>2. stack' = SubSeq(stack, 1, Len(stack) - 1)
  BY <1>1 DEF Return
<1>3. /\ stack' \in Seq(Activation) /\ Len(stack') = Len(stack) - 1
      /\ \A k \in 1 .. Len(stack) - 1 : stack'[k] = stack[k]
  BY <1>1, <1>2
<1>4. Top' = Caller /\ layer' = layer - 1
  BY <1>1, <1>3 DEF Top, Caller, layer
<1>5. \A k \in 0 .. layer' : idx(k)' = idx(k)
  BY <1>1, <1>3, <1>4 DEF idx
<1>6. ASSUME NEW k \in 1 .. Len(stack') PROVE OnPath(k)' /\ ActivationFits(t, k)
  <2>1. OnPath(k) /\ ActivationFits(t, k)
    BY <1>1, <1>3 DEF TreeFits, StackFits, Linked
  <2>2. stack'[k] = stack[k] /\ (k > 1 => stack'[k - 1] = stack[k - 1] /\ idx(k - 2)' = idx(k - 2))
    BY <1>1, <1>3, <1>4, <1>5
  <2> QED
    BY <2>1, <2>2 DEF OnPath
<1> QED
  BY <1>1, <1>3, <1>4, <1>5, <1>6
-----------------------------------------------------------------------------
(* The steps preserve the tree. *)

LEMMA MemoryType == TreeInv => region_view \in Memory /\ regions \subseteq PageRegions /\ cr3 \in PageRegions
  BY DEF TreeInv, TypeOK, Memory, PageRegions

(* The layer of the call is above that of its page until it meets it. *)
LEMMA PageSizeLayer ==
  ASSUME TreeInv, pc = "map"
  PROVE  /\ AtPageSize => layer \in 1 .. 3 /\ call.pte.frame.size = entry_size(layer)
         /\ ~AtPageSize => layer < 3
<1>1. StackIsSequence /\ EnoughPages
  BY DEF TreeInv, TypeOK, StackIsSequence
<1>2. ~AtPageSize => layer < 3
  BY <1>1, RoomBelow
<1>3. ASSUME AtPageSize PROVE layer \in 1 .. 3 /\ call.pte.frame.size = entry_size(layer)
  <2>1. PICK l \in 1 .. 3 : entry_size(l) = call.pte.frame.size /\ layer <= l
    BY <1>1 DEF EnoughPages
  <2>2. entry_size(layer) = call.pte.frame.size
    BY <1>3 DEF AtPageSize
  <2>3. PICK t : TreeFits(t)
    BY DEF TreeInv
  <2>4. layer \in Layer /\ layer \in Nat
    BY <2>3, TopFits DEF AtUnlinked
  <2>5. layer # 0
    <3> SUFFICES ASSUME layer = 0 PROVE FALSE
      OBVIOUS
    <3>1. entry_size(0) = entry_size(l)
      BY <2>1, <2>2
    <3>2. entry_size(0) > entry_size(1) /\ entry_size(1) > entry_size(2) /\ entry_size(2) > entry_size(3)
      BY SizesDecrease
    <3>3. /\ entry_size(0) \in Nat /\ entry_size(1) \in Nat
          /\ entry_size(2) \in Nat /\ entry_size(3) \in Nat
      BY Sizes DEF Layer
    <3>4. CASE l = 1
      BY <3>1, <3>2, <3>3, <3>4
    <3>5. CASE l = 2
      BY <3>1, <3>2, <3>3, <3>5
    <3>6. CASE l = 3
      BY <3>1, <3>2, <3>3, <3>6
    <3> QED
      BY <3>4, <3>5, <3>6
  <2>6. layer \in 1 .. 3
    BY <2>4, <2>5 DEF Layer
  <2> QED
    BY <2>2, <2>6
<1> QED
  BY <1>2, <1>3

LEMMA TreeInit == Init => TreeInv
<1> SUFFICES ASSUME Init PROVE TreeInv
  OBVIOUS
<1> DEFINE t == [p \in PageRegions |-> [lev |-> 0, par |-> cr3, slot |-> 0, start |-> 0]]
<1>1. cr3 \in PageRegions /\ 0 \in EntryIndex /\ 0 \in Layer /\ PageRegions \subseteq Nat
  <2>1. X86_NUM_ENTRIES \in Nat /\ X86_NUM_ENTRIES >= 2
    BY Sizes
  <2> QED
    BY <2>1, MemoryAssumption DEF PageRegions, EntryIndex, Layer
<1>2. t \in [PageRegions -> Node] /\ t[cr3].lev = 0 /\ t[cr3].start = 0
  BY <1>1 DEF Node
<1>3. zero_entry \in Word /\ ~zero_entry.P /\ \A p \in PageRegions : junk(p) \in Word
  BY <1>1 DEF Word, zero_entry, junk
<1>4. /\ regions = {cr3} /\ pc = "idle" /\ call = NoCall /\ stack = <<>> /\ ret = "none"
      /\ region_view = [page \in PageRegions |->
                          new_seq(IF page = cr3 THEN zero_entry ELSE junk(page))]
  BY DEF Init, MemoryInit
<1>5. region_view \in Memory /\ \A i \in EntryIndex : region_view[cr3][i] = zero_entry
  BY <1>1, <1>3, <1>4 DEF Memory, new_seq
<1>6. TypeOK
  <2>1. << >> \in Seq(Activation)
    OBVIOUS
  <2> QED
    BY <1>1, <1>4, <1>5, <2>1 DEF TypeOK, Memory
<1> HIDE DEF t
<1>7. \A i \in EntryIndex : WordFits({cr3}, t, cr3, i, region_view[cr3][i])
  BY <1>3, <1>5 DEF WordFits, LeafFits, links
<1>8. InTree = {cr3} /\ ~AtUnlinked
  BY <1>4 DEF InTree, AtUnlinked
<1>9. TreeFits(t)
  BY <1>1, <1>2, <1>4, <1>5, <1>7, <1>8 DEF TreeFits, Tree
<1>10. EnoughPages /\ CallFits /\ UnlinkedFits
  BY <1>4 DEF EnoughPages, CallFits, UnlinkedFits, AtUnlinked
<1>11. NoneEmpty
  BY <1>8 DEF NoneEmpty
<1> QED
  BY <1>6, <1>9, <1>10, <1>11 DEF TreeInv

(* A call that begins. *)
LEMMA TreeStart ==
  ASSUME TreeInv, NEW args \in MapCall \cup UnmapCall, NEW at, Start(args, at),
         args.vaddr < upper_vaddr(0, 0), EnoughPages', CallFits', at \in {"map", "unmap"}
  PROVE  TreeInv'
<1>1. /\ pc = "idle" /\ pc' = at /\ call' = args /\ ret' = "none"
      /\ regions' = regions /\ region_view' = region_view
  BY DEF Start, memvars
<1> DEFINE a == [ptr |-> cr3, base |-> 0]
<1>2. a \in Activation /\ stack' = <<a>>
  BY DEF Activation, PageRegions, Start
<1>3. stack' \in Seq(Activation) /\ Len(stack') = 1 /\ stack'[1] = a
  BY <1>2
<1>4. ~AtUnlinked /\ ~AtUnlinked' /\ InTree = regions /\ InTree' = regions
  BY <1>1 DEF AtUnlinked, InTree
<1>5. TypeOK'
  BY <1>1, <1>3 DEF TreeInv, TypeOK
<1>6. NoneEmpty'
  <2>1. MayBeEmpty = {}
    BY <1>1, <1>4 DEF MayBeEmpty
  <2> QED
    BY <2>1, <1>1, <1>4 DEF TreeInv, NoneEmpty
<1>7. PICK t : TreeFits(t)
  BY DEF TreeInv
<1>8. Tree(regions, region_view, t)
  BY <1>4, <1>7 DEF TreeFits
<1>9. args.vaddr \in Nat
  BY CallsAssumption DEF MapCall, UnmapCall
<1>10. ASSUME NEW k \in Nat, k = 1 PROVE OnPath(k)' /\ ActivationFits(t, k)'
  <2>1. stack'[k] = a /\ k - 1 = 0 /\ ~(k > 1)
    BY <1>3, <1>10
  <2>2. OnPath(k)'
    BY <2>1, <1>1, <1>9 DEF OnPath
  <2>3. cr3 \in regions /\ t[cr3].lev = 0 /\ t[cr3].start = 0
    BY <1>8 DEF Tree
  <2> QED
    BY <2>1, <2>2, <2>3, <1>4 DEF ActivationFits
<1>11. StackFits(t)'
  <2>1. \A k \in 1 .. Len(stack') : k \in Nat /\ k = 1
    BY <1>3
  <2>2. \A k \in 1 .. Len(stack') : OnPath(k)' /\ ActivationFits(t, k)'
    BY <2>1, <1>10
  <2> QED
    BY <2>2, <1>3 DEF StackFits
<1>12. TreeFits(t)'
  BY <1>1, <1>4, <1>8, <1>11 DEF TreeFits
<1>13. UnlinkedFits'
  BY <1>4 DEF UnlinkedFits
<1> QED
  BY <1>5, <1>6, <1>12, <1>13 DEF TreeInv

(* A call that ends. *)
LEMMA TreeFinish ==
  ASSUME TreeInv, pc # "idle", ~AtUnlinked, NEW res \in {"none", "Ok", "Err"}, Finish(res), regions' = regions,
         region_view' \in Memory, NEW t, Tree(regions, region_view', t),
         \A d \in regions \ {cr3} : ~Empty(region_view', d)
  PROVE  TreeInv'
<1>1. pc' = "idle" /\ call' = NoCall /\ stack' = << >> /\ ret' = res
  BY DEF Finish
<1>2. ~AtUnlinked' /\ InTree' = regions
  BY <1>1 DEF AtUnlinked, InTree
<1>3. TypeOK'
  <2>1. << >> \in Seq(Activation)
    OBVIOUS
  <2>2. regions \subseteq PageRegions
    BY MemoryType
  <2> QED
    BY <1>1, <2>1, <2>2 DEF TypeOK, Memory
<1>4. TreeFits(t)'
  BY <1>1, <1>2 DEF TreeFits
<1>5. NoneEmpty'
  BY <1>2 DEF NoneEmpty
<1>6. (EnoughPages /\ CallFits /\ UnlinkedFits)'
  BY <1>1, <1>2 DEF EnoughPages, CallFits, UnlinkedFits
<1> QED
  BY <1>3, <1>4, <1>5, <1>6 DEF TreeInv
LEMMA NotEmptyHere ==
  ASSUME TreeInv, pc # "idle", ~AtUnlinked, is_mapping(entry)
  PROVE  \A d \in regions \ {cr3} : ~Empty(region_view, d)
<1>1. PICK t : TreeFits(t)
  BY DEF TreeInv
<1>2. entry = region_view[Top.ptr][idx(layer)] /\ idx(layer) \in EntryIndex /\ InTree = regions
  BY <1>1, TopFits
<1>3. ~Empty(region_view, Top.ptr)
  BY <1>2 DEF is_mapping, Empty
<1>4. MayBeEmpty \subseteq {Top.ptr}
  BY DEF MayBeEmpty
<1>5. NoneEmpty
  BY DEF TreeInv
<1> QED
  BY <1>2, <1>3, <1>4, <1>5 DEF NoneEmpty

LEMMA MapConflictTree ==
  ASSUME TreeInv, MapDirectorySameSize \/ MapPagePresent
  PROVE  TreeInv'
<1>1. pc = "map" /\ is_mapping(entry) /\ Finish("Err") /\ regions' = regions /\ region_view' = region_view
  BY DEF MapDirectorySameSize, MapPagePresent, memvars
<1>2. ~AtUnlinked /\ pc # "idle" /\ InTree = regions
  BY <1>1 DEF AtUnlinked, InTree
<1>3. PICK t : TreeFits(t)
  BY DEF TreeInv
<1>4. Tree(regions, region_view, t)
  BY <1>2, <1>3 DEF TreeFits
<1> QED
  BY <1>1, <1>2, <1>4, NotEmptyHere, MemoryType, TreeFinish

LEMMA MapWritePageTree ==
  ASSUME TreeInv, MapWritePage
  PROVE  TreeInv'
<1> DEFINE p == Top.ptr
           i == idx(layer)
           w == new_page_entry(layer, call.pte)
<1>1. /\ pc = "map" /\ ~is_mapping(entry) /\ AtPageSize /\ Finish("Ok")
      /\ regions' = regions /\ region_view' = [region_view EXCEPT ![p][i] = w]
  BY DEF MapWritePage, write
<1>2. ~AtUnlinked /\ pc # "idle" /\ InTree = regions
  BY <1>1 DEF AtUnlinked, InTree
<1>3. PICK t : TreeFits(t)
  BY DEF TreeInv
<1>4. Tree(regions, region_view, t)
  BY <1>2, <1>3 DEF TreeFits
<1>5. /\ p \in regions /\ p \in PageRegions /\ i \in EntryIndex /\ t[p].lev = layer
      /\ entry = region_view[p][i]
  BY <1>2, <1>3, TopFits
<1>6. w \in Word /\ w.P /\ is_page(layer, w) /\ LeafFits(layer, w)
  <2>1. layer \in 1 .. 3 /\ call.pte.frame.size = entry_size(layer)
    BY <1>1, PageSizeLayer
  <2>2. call.pte \in PTE /\ accepted_mapping(call.vaddr, call.pte)
    BY <1>1 DEF TreeInv, CallFits, MapCall
  <2>3. call.pte.frame.base <= MAX_PHYADDR /\ aligned(call.pte.frame.base, call.pte.frame.size)
    BY <2>2 DEF accepted_mapping
  <2> QED
    BY <2>1, <2>2, <2>3, PageEntryFits
<1> HIDE DEF w, p, i
<1>7. ~links(t[p].lev, region_view[p][i]) /\ ~links(t[p].lev, w)
  BY <1>1, <1>5, <1>6 DEF links, is_mapping, is_dir
<1>8. Tree(regions, region_view', t)
  BY <1>1, <1>4, <1>5, <1>6, <1>7, WriteLeaf
<1>9. /\ region_view' \in Memory
      /\ \A q \in PageRegions : \A j \in EntryIndex :
           region_view'[q][j] = IF q = p /\ j = i THEN w ELSE region_view[q][j]
  <2>1. /\ [region_view EXCEPT ![p][i] = w] \in Memory
        /\ \A q \in PageRegions : \A j \in EntryIndex :
             [region_view EXCEPT ![p][i] = w][q][j] = IF q = p /\ j = i THEN w ELSE region_view[q][j]
    BY <1>5, <1>6, MemoryType, Written
  <2> QED
    BY <1>1, <2>1
<1>10. ASSUME NEW d \in regions \ {cr3} PROVE ~Empty(region_view', d)
  <2>1. CASE d = p
    BY <1>5, <1>6, <1>9, <2>1 DEF Empty
  <2>2. CASE d # p
    <3>1. MayBeEmpty = {p} /\ NoneEmpty
      BY <1>1 DEF MayBeEmpty, AtUnlinked, TreeInv, p
    <3>2. ~Empty(region_view, d)
      BY <1>2, <2>2, <3>1 DEF NoneEmpty
    <3>3. d \in PageRegions
      BY MemoryType
    <3> QED
      BY <1>9, <2>2, <3>2, <3>3 DEF Empty
  <2> QED
    BY <2>1, <2>2
<1> QED
  BY <1>1, <1>2, <1>8, <1>9, <1>10, TreeFinish

(* The call follows an entry to the directory it refers to. *)
LEMMA DescendTree ==
  ASSUME TreeInv, MapDescend \/ UnmapDescend, EnoughPages'
  PROVE  TreeInv'
<1>1. /\ pc \in {"map", "unmap"} /\ is_mapping(entry) /\ is_dir(layer, entry)
      /\ Descend(address(entry))
      /\ regions' = regions /\ region_view' = region_view /\ pc' = pc /\ call' = call /\ ret' = ret
  BY DEF MapDescend, UnmapDescend
<1>2. ~AtUnlinked /\ ~AtUnlinked' /\ pc # "idle" /\ InTree = regions /\ InTree' = regions
  BY <1>1 DEF AtUnlinked, InTree
<1>3. PICK t : TreeFits(t)
  BY DEF TreeInv
<1> DEFINE d == address(entry)
           p == Top.ptr
           i == idx(layer)
           n == Len(stack)
<1>4. /\ layer \in Layer /\ layer \in Nat /\ layer <= 3
      /\ p \in regions /\ i \in EntryIndex /\ t[p].lev = layer /\ t[p].start = Top.base
      /\ WordFits(regions, t, p, i, entry)
      /\ n = layer + 1 /\ n \in Nat
  BY <1>2, <1>3, TopFits
<1>5. links(t[p].lev, entry) /\ layer # 3
  BY <1>1, <1>4 DEF links, is_mapping, is_dir, is_page
<1>6. /\ d \in regions \ {cr3}
      /\ t[d].lev = layer + 1 /\ t[d].par = p /\ t[d].slot = i
      /\ t[d].start = entry_base(layer, Top.base, i)
  BY <1>4, <1>5 DEF WordFits, LinkFits, Child
<1>7. d \in PageRegions /\ layer < 3
  BY <1>4, <1>5, <1>6, MemoryType
<1>8. /\ stack' \in Seq(Activation) /\ Len(stack') = n + 1 /\ Len(stack') \in Nat
      /\ Len(stack') >= 2 /\ Len(stack') <= 4
      /\ \A k \in 1 .. n : stack'[k] = stack[k]
      /\ Top' = [ptr |-> d, base |-> entry_base(layer, Top.base, i)]
      /\ Caller' = Top /\ layer' = layer + 1
      /\ \A k \in 0 .. layer : idx(k)' = idx(k)
      /\ \A k \in 1 .. Len(stack') : OnPath(k)'
  BY <1>1, <1>2, <1>3, <1>7, DescendFits
<1>9. stack'[n + 1] = Top' /\ stack'[n] = Top /\ stack[1] = stack'[1]
  BY <1>4, <1>8 DEF Top
<1> HIDE DEF d, p, i, n
<1>10. ASSUME NEW k \in Nat, k = n + 1 PROVE ActivationFits(t, k)'
  <2>1. stack'[k].ptr = d /\ stack'[k].base = t[d].start /\ stack'[k - 1].ptr = p
    BY <1>4, <1>6, <1>8, <1>9, <1>10 DEF p
  <2>2. k - 1 = layer + 1 /\ k - 2 = layer
    BY <1>4, <1>10
  <2>3. idx(k - 2)' = i
    BY <1>4, <1>8, <2>2 DEF i
  <2> QED
    BY <1>2, <1>6, <2>1, <2>2, <2>3 DEF ActivationFits
<1>11. ASSUME NEW k \in 1 .. n PROVE ActivationFits(t, k)'
  <2>1. ActivationFits(t, k)
    BY <1>1, <1>2, <1>3 DEF TreeFits, StackFits, Linked, n
  <2>2. stack'[k] = stack[k] /\ (k > 1 => stack'[k - 1] = stack[k - 1] /\ idx(k - 2)' = idx(k - 2))
    BY <1>4, <1>8
  <2> QED
    BY <1>2, <2>1, <2>2 DEF ActivationFits
<1>12. \A k \in 1 .. Len(stack') : ActivationFits(t, k)'
  <2> SUFFICES ASSUME NEW k \in 1 .. Len(stack') PROVE ActivationFits(t, k)'
    OBVIOUS
  <2>1. k \in 1 .. n \/ (k \in Nat /\ k = n + 1)
    BY <1>4, <1>8
  <2> QED
    BY <2>1, <1>10, <1>11
<1>13. StackFits(t)'
  <2>1. stack[1] = [ptr |-> cr3, base |-> 0]
    BY <1>2, <1>3 DEF TreeFits, StackFits
  <2> QED
    BY <1>8, <1>9, <1>12, <2>1 DEF StackFits
<1>14. TreeFits(t)'
  BY <1>1, <1>2, <1>3, <1>13 DEF TreeFits
<1>15. TypeOK'
  BY <1>1, <1>8 DEF TreeInv, TypeOK
<1>16. NoneEmpty'
  <2>1. \A e \in regions \ {cr3} : ~Empty(region_view, e)
    BY <1>1, <1>2, NotEmptyHere
  <2> QED
    BY <1>1, <1>2, <2>1 DEF NoneEmpty
<1>17. (CallFits /\ UnlinkedFits)'
  BY <1>1, <1>2 DEF TreeInv, CallFits, UnlinkedFits
<1> QED
  BY <1>14, <1>15, <1>16, <1>17 DEF TreeInv
(* A page is taken for a new directory, which nobody refers to yet. *)
LEMMA AllocTree ==
  ASSUME TreeInv, insert_empty_directory_alloc, EnoughPages'
  PROVE  TreeInv'
<1>1. PICK page \in Page : alloc_page(page) /\ Descend(page)
  BY DEF insert_empty_directory_alloc
<1>2. /\ pc = "map" /\ ~is_mapping(entry) /\ ~AtPageSize
      /\ pc' = "insert" /\ call' = call /\ ret' = ret
  BY DEF insert_empty_directory_alloc
<1>3. /\ page \in PageRegions \ regions
      /\ regions' = regions \cup {page}
      /\ region_view' = [region_view EXCEPT ![page] = new_seq(zero_entry)]
  BY <1>1 DEF alloc_page, PageRegions
<1>4. ~AtUnlinked /\ AtUnlinked' /\ pc # "idle" /\ InTree = regions
  BY <1>2 DEF AtUnlinked, InTree
<1>5. PICK t : TreeFits(t)
  BY DEF TreeInv
<1> DEFINE p == Top.ptr
           i == idx(layer)
           n == Len(stack)
<1>6. /\ layer \in Nat /\ layer < 3 /\ p \in regions /\ i \in EntryIndex
      /\ entry = region_view[p][i] /\ n = layer + 1 /\ n \in Nat
  BY <1>2, <1>4, <1>5, TopFits, PageSizeLayer
<1>7. /\ stack' \in Seq(Activation) /\ Len(stack') = n + 1 /\ Len(stack') \in Nat
      /\ Len(stack') >= 2 /\ Len(stack') <= 4
      /\ \A k \in 1 .. n : stack'[k] = stack[k]
      /\ Top' = [ptr |-> page, base |-> entry_base(layer, Top.base, i)]
      /\ Caller' = Top /\ layer' = layer + 1
      /\ \A k \in 0 .. layer : idx(k)' = idx(k)
      /\ \A k \in 1 .. Len(stack') : OnPath(k)'
  BY <1>1, <1>2, <1>3, <1>4, <1>5, <1>6, DescendFits
<1>8. InTree' = regions
  BY <1>3, <1>4, <1>7 DEF InTree
<1>9. /\ region_view' \in Memory
      /\ \A q \in regions : region_view'[q] = region_view[q]
      /\ \A j \in EntryIndex : region_view'[page][j] = zero_entry
  <2>1. new_seq(zero_entry) \in [EntryIndex -> Word] /\ \A j \in EntryIndex : new_seq(zero_entry)[j] = zero_entry
    BY DEF new_seq, zero_entry, Word
  <2> QED
    BY <1>3, <2>1, MemoryType DEF Memory
<1>10. Tree(regions, region_view', t)
  <2>1. Tree(regions, region_view, t)
    BY <1>4, <1>5 DEF TreeFits
  <2> QED
    BY <1>9, <2>1, ChangeOutside
<1> HIDE DEF p, i, n
<1>11. ASSUME NEW k \in 1 .. Len(stack'), Linked(k)' PROVE ActivationFits(t, k)'
  <2>1. k \in 1 .. n
    BY <1>4, <1>6, <1>7, <1>11 DEF Linked
  <2>2. ActivationFits(t, k)
    BY <1>4, <1>5, <2>1 DEF TreeFits, StackFits, Linked, n
  <2>3. stack'[k] = stack[k] /\ (k > 1 => stack'[k - 1] = stack[k - 1] /\ idx(k - 2)' = idx(k - 2))
    BY <1>6, <1>7, <2>1
  <2> QED
    BY <1>4, <1>8, <2>2, <2>3 DEF ActivationFits
<1>12. StackFits(t)'
  <2>1. stack[1] = [ptr |-> cr3, base |-> 0]
    BY <1>4, <1>5 DEF TreeFits, StackFits
  <2>2. stack'[1] = stack[1]
    BY <1>6, <1>7
  <2> QED
    BY <1>7, <1>11, <2>1, <2>2 DEF StackFits
<1>13. TreeFits(t)'
  BY <1>8, <1>10, <1>12 DEF TreeFits
<1>14. TypeOK'
  BY <1>2, <1>3, <1>7, <1>9, MemoryType DEF TreeInv, TypeOK, Memory
<1>15. NoneEmpty'
  <2>1. MayBeEmpty' = {p} /\ MayBeEmpty = {p}
    BY <1>2, <1>4, <1>7 DEF MayBeEmpty, p
  <2> QED
    BY <1>4, <1>8, <1>9, <2>1 DEF TreeInv, NoneEmpty, Empty
<1>16. UnlinkedFits'
  <2>1. Empty(region_view', page)
    BY <1>9 DEF Empty, zero_entry
  <2>2. cr3 \in regions
    BY <1>4, <1>5 DEF TreeFits, Tree
  <2>3. ~region_view'[p][i].P
    BY <1>2, <1>6, <1>9 DEF is_mapping
  <2>4. layer' - 1 = layer
    BY <1>6, <1>7
  <2>5. idx(layer - 1)' = i
    <3>1. ASSUME NEW j \in Nat, j = layer PROVE idx(j)' = i
      BY <1>6, <1>7, <3>1 DEF i
    <3>2. \A j \in Nat : j = layer => idx(j)' = i
      BY <3>1
    <3>3. idx(layer - 1)' = index_for_vaddr(layer' - 1, stack'[(layer' - 1) + 1].base, call'.vaddr)
      BY DEF idx
    <3>4. \A j \in Nat : idx(j)' = index_for_vaddr(j, stack'[j + 1].base, call'.vaddr)
      BY DEF idx
    <3> QED
      BY <1>6, <2>4, <3>2, <3>3, <3>4
  <2> QED
    BY <1>3, <1>7, <2>1, <2>2, <2>3, <2>5 DEF UnlinkedFits, p
<1>17. CallFits'
  BY <1>2 DEF TreeInv, CallFits
<1> QED
  BY <1>13, <1>14, <1>15, <1>16, <1>17 DEF TreeInv

(* The new directory is linked. *)
LEMMA InsertTree ==
  ASSUME TreeInv, insert_empty_directory_write, EnoughPages'
  PROVE  TreeInv'
<1> DEFINE p == Caller.ptr
           d == Top.ptr
           i == idx(layer - 1)
           w == new_dir_entry(layer - 1, d)
<1>1. /\ pc = "insert" /\ pc' = "map" /\ call' = call /\ stack' = stack /\ ret' = ret
      /\ regions' = regions /\ region_view' = [region_view EXCEPT ![p][i] = w]
  BY DEF insert_empty_directory_write, write
<1>2. AtUnlinked /\ ~AtUnlinked' /\ pc # "idle" /\ InTree = regions \ {d} /\ InTree' = regions
  BY <1>1 DEF AtUnlinked, InTree
<1>3. PICK t : TreeFits(t)
  BY DEF TreeInv
<1> DEFINE T == regions \ {d}
<1>4. Tree(T, region_view, t) /\ StackFits(t)
  BY <1>2, <1>3 DEF TreeFits
<1>5. Len(stack) > 1 /\ d \in regions \ {cr3} /\ Empty(region_view, d) /\ ~region_view[p][i].P
  BY <1>1, <1>2 DEF TreeInv, UnlinkedFits
<1>6. /\ layer \in Nat /\ layer >= 1 /\ layer <= 3 /\ Len(stack) = layer + 1
      /\ Top = stack[Len(stack)] /\ Caller = stack[Len(stack) - 1]
      /\ p \in T /\ p \in PageRegions /\ t[p].lev = layer - 1 /\ t[p].start = Caller.base
      /\ Top.base = entry_base(layer - 1, Caller.base, i) /\ i \in EntryIndex
  BY <1>2, <1>3, <1>5, CallerFits
<1>7. d \in PageRegions \ T /\ T \cup {d} = regions /\ p # d
  BY <1>5, <1>6, MemoryType
<1>8. layer - 1 \in 0 .. 2
  BY <1>6
<1>9. /\ w \in Word /\ w.P /\ is_dir(t[p].lev, w) /\ all_mb0_bits_are_zero(t[p].lev, w)
      /\ w.RW /\ w.US /\ ~w.XD /\ address(w) = d
  BY <1>6, <1>7, <1>8, DirEntryFits
<1> HIDE DEF T, w, d, p, i
<1>21. PICK u : u = [t EXCEPT ![d] = Child(t, p, i)]
  OBVIOUS
<1>10. Tree(T \cup {d}, [region_view EXCEPT ![p][i] = w], [t EXCEPT ![d] = Child(t, p, i)])
  <2>1. t[p].lev < 3
    BY <1>6
  <2> QED
    BY <2>1, <1>4, <1>5, <1>6, <1>7, <1>9, AddChild
<1>11. Tree(regions, region_view', u)
  BY <1>1, <1>7, <1>10, <1>21
<1>12. /\ [region_view EXCEPT ![p][i] = w] \in Memory
       /\ \A q \in PageRegions : \A j \in EntryIndex :
            [region_view EXCEPT ![p][i] = w][q][j] = IF q = p /\ j = i THEN w ELSE region_view[q][j]
  BY <1>6, <1>9, MemoryType, Written
<1>13. t \in [PageRegions -> Node]
  BY <1>4 DEF Tree
<1>14. u[d] = Child(t, p, i) /\ \A q \in PageRegions : q # d => u[q] = t[q]
  BY <1>7, <1>13, <1>21
<1>15. ASSUME NEW k \in 1 .. Len(stack) PROVE OnPath(k)' /\ ActivationFits(u, k)'
  <2>1. OnPath(k)'
    BY <1>1, <1>4 DEF StackFits, OnPath, idx
  <2>2. CASE k = Len(stack)
    <3>1. stack[k].ptr = d /\ stack[k - 1].ptr = p /\ k - 1 = layer /\ k - 2 = layer - 1
      BY <1>6, <2>2 DEF d, p
    <3>2. u[d].lev = layer /\ u[d].par = p /\ u[d].slot = i /\ u[d].start = stack[k].base
      BY <1>6, <1>14, <2>2 DEF Child
    <3>3. idx(k - 2) = i /\ idx(k - 2)' = idx(k - 2)
      BY <1>1, <3>1 DEF i, idx
    <3>4. d \in regions
      BY <1>5
    <3> QED
      BY <1>1, <1>2, <2>1, <3>1, <3>2, <3>3, <3>4 DEF ActivationFits
  <2>3. CASE k # Len(stack)
    <3>1. ActivationFits(t, k)
      BY <1>4, <2>3 DEF StackFits, Linked
    <3>2. stack[k].ptr \in InTree
      BY <3>1 DEF ActivationFits
    <3>3. stack[k].ptr \in PageRegions /\ stack[k].ptr # d /\ stack[k].ptr \in regions
      BY <1>2, <3>2, MemoryType
    <3>4. u[stack[k].ptr] = t[stack[k].ptr]
      BY <1>14, <3>3
    <3>5. idx(k - 2)' = idx(k - 2)
      BY <1>1 DEF idx
    <3> QED
      BY <1>1, <1>2, <2>1, <3>1, <3>3, <3>4, <3>5 DEF ActivationFits
  <2> QED
    BY <2>1, <2>2, <2>3
<1>16. StackFits(u)'
  BY <1>1, <1>4, <1>15 DEF StackFits
<1>17. TreeFits(u)'
  BY <1>2, <1>11, <1>16 DEF TreeFits
<1>18. TypeOK'
  BY <1>1, <1>12 DEF TreeInv, TypeOK, Memory
<1>19. NoneEmpty'
  <2>1. MayBeEmpty = {p} /\ MayBeEmpty' = {d}
    BY <1>1, <1>2 DEF MayBeEmpty, p, d, Top
  <2> SUFFICES ASSUME NEW e \in regions \ {d, cr3} PROVE ~Empty(region_view', e)
    BY <1>2, <2>1 DEF NoneEmpty
  <2>2. e \in PageRegions
    BY MemoryType
  <2>3. CASE e = p
    BY <1>1, <1>6, <1>9, <1>12, <2>3 DEF Empty
  <2>4. CASE e # p
    <3>1. ~Empty(region_view, e)
      BY <1>2, <2>1, <2>4 DEF TreeInv, NoneEmpty
    <3> QED
      BY <1>1, <1>12, <2>2, <2>4, <3>1 DEF Empty
  <2> QED
    BY <2>3, <2>4
<1>20. (CallFits /\ UnlinkedFits)'
  BY <1>1, <1>2 DEF TreeInv, CallFits, UnlinkedFits
<1> QED
  BY <1>17, <1>18, <1>19, <1>20 DEF TreeInv
(* Nothing but the memory changes, and the tree stays the same. *)
LEMMA StackFitsStays ==
  ASSUME NEW t, StackFits(t), stack' = stack, call' = call,
         \A k \in 1 .. Len(stack) :
           Linked(k)' => Linked(k) /\ stack[k].ptr \in InTree'
  PROVE  StackFits(t)'
<1>1. ASSUME NEW k \in 1 .. Len(stack) PROVE OnPath(k)' /\ (Linked(k)' => ActivationFits(t, k)')
  <2>1. OnPath(k) /\ (Linked(k) => ActivationFits(t, k))
    BY DEF StackFits
  <2>2. idx(k - 2)' = idx(k - 2)
    BY DEF idx
  <2>3. OnPath(k)'
    BY <2>1, <2>2 DEF OnPath
  <2>4. Linked(k)' => ActivationFits(t, k)'
    BY <2>1, <2>2 DEF ActivationFits
  <2> QED
    BY <2>3, <2>4
<1> QED
  BY <1>1 DEF StackFits

LEMMA UnmapPageTree ==
  ASSUME TreeInv, UnmapPage, EnoughPages'
  PROVE  TreeInv'
<1> DEFINE p == Top.ptr
           i == idx(layer)
           w == zero_entry
<1>1. /\ pc = "unmap" /\ is_page(layer, entry) /\ pc' = "unmap_return" /\ ret' = "Ok"
      /\ call' = call /\ stack' = stack
      /\ regions' = regions /\ region_view' = [region_view EXCEPT ![p][i] = w]
  BY DEF UnmapPage, write
<1>2. ~AtUnlinked /\ ~AtUnlinked' /\ pc # "idle" /\ InTree = regions /\ InTree' = regions
  BY <1>1 DEF AtUnlinked, InTree
<1>3. PICK t : TreeFits(t)
  BY DEF TreeInv
<1>4. Tree(regions, region_view, t) /\ StackFits(t)
  BY <1>2, <1>3 DEF TreeFits
<1>5. /\ p \in regions /\ p \in PageRegions /\ i \in EntryIndex /\ t[p].lev = layer
      /\ entry = region_view[p][i]
  BY <1>2, <1>3, TopFits
<1>6. w \in Word /\ ~w.P
  BY DEF zero_entry, Word
<1> HIDE DEF w, p, i
<1>7. ~links(t[p].lev, region_view[p][i]) /\ ~links(t[p].lev, w) /\ LeafFits(t[p].lev, w)
  BY <1>1, <1>5, <1>6 DEF links, LeafFits, is_dir
<1>8. Tree(regions, region_view', t)
  BY <1>1, <1>4, <1>5, <1>6, <1>7, WriteLeaf
<1>9. /\ [region_view EXCEPT ![p][i] = w] \in Memory
      /\ \A q \in PageRegions : \A j \in EntryIndex :
           [region_view EXCEPT ![p][i] = w][q][j] = IF q = p /\ j = i THEN w ELSE region_view[q][j]
  BY <1>5, <1>6, MemoryType, Written
<1>10. StackFits(t)'
  <2>1. \A k \in 1 .. Len(stack) : Linked(k)' => Linked(k) /\ stack[k].ptr \in InTree'
    BY <1>2, <1>4 DEF StackFits, Linked, ActivationFits
  <2> QED
    BY <1>1, <1>4, <2>1, StackFitsStays
<1>11. TreeFits(t)'
  BY <1>2, <1>8, <1>10 DEF TreeFits
<1>12. TypeOK'
  BY <1>1, <1>9 DEF TreeInv, TypeOK, Memory
<1>13. NoneEmpty'
  <2>1. MayBeEmpty = {} /\ MayBeEmpty' = {p}
    BY <1>1, <1>2 DEF MayBeEmpty, p, Top
  <2> SUFFICES ASSUME NEW e \in regions \ {p, cr3} PROVE ~Empty(region_view', e)
    BY <1>2, <2>1 DEF NoneEmpty
  <2>2. e \in PageRegions /\ ~Empty(region_view, e)
    BY <1>2, <2>1, MemoryType DEF TreeInv, NoneEmpty
  <2> QED
    BY <1>1, <1>9, <2>2 DEF Empty
<1>14. (CallFits /\ UnlinkedFits)'
  BY <1>1, <1>2 DEF TreeInv, CallFits, UnlinkedFits
<1> QED
  BY <1>11, <1>12, <1>13, <1>14 DEF TreeInv

LEMMA UnmapNothingTree ==
  ASSUME TreeInv, UnmapNothing, EnoughPages'
  PROVE  TreeInv'
<1>1. /\ pc = "unmap" /\ pc' = "unmap_return" /\ ret' = "Err" /\ call' = call /\ stack' = stack
      /\ regions' = regions /\ region_view' = region_view
  BY DEF UnmapNothing
<1>2. ~AtUnlinked /\ ~AtUnlinked' /\ pc # "idle" /\ InTree = regions /\ InTree' = regions
  BY <1>1 DEF AtUnlinked, InTree
<1>3. PICK t : TreeFits(t)
  BY DEF TreeInv
<1>4. Tree(regions, region_view, t) /\ StackFits(t)
  BY <1>2, <1>3 DEF TreeFits
<1>5. StackFits(t)'
  <2>1. \A k \in 1 .. Len(stack) : Linked(k)' => Linked(k) /\ stack[k].ptr \in InTree'
    BY <1>2, <1>4 DEF StackFits, Linked, ActivationFits
  <2> QED
    BY <1>1, <1>4, <2>1, StackFitsStays
<1>6. TreeFits(t)'
  BY <1>1, <1>2, <1>4, <1>5 DEF TreeFits
<1>7. TypeOK'
  BY <1>1 DEF TreeInv, TypeOK
<1>8. NoneEmpty'
  <2>1. MayBeEmpty = {} /\ MayBeEmpty' = {}
    BY <1>1, <1>2 DEF MayBeEmpty
  <2> QED
    BY <1>1, <1>2, <2>1 DEF TreeInv, NoneEmpty
<1>9. (CallFits /\ UnlinkedFits)'
  BY <1>1, <1>2 DEF TreeInv, CallFits, UnlinkedFits
<1> QED
  BY <1>6, <1>7, <1>8, <1>9 DEF TreeInv

(* The empty directory the call returns from is unlinked. *)
LEMMA UnmapUnlinkTree ==
  ASSUME TreeInv, UnmapUnlink, EnoughPages'
  PROVE  TreeInv'
<1> DEFINE p == Caller.ptr
           d == Top.ptr
           i == idx(layer - 1)
           w == zero_entry
<1>1. /\ pc = "unmap_return" /\ ret = "Ok" /\ layer > 0 /\ is_directory_empty(Top.ptr)
      /\ pc' = "dealloc" /\ call' = call /\ stack' = stack /\ ret' = ret
      /\ regions' = regions /\ region_view' = [region_view EXCEPT ![p][i] = w]
  BY DEF UnmapUnlink, Returning, write
<1>2. ~AtUnlinked /\ AtUnlinked' /\ pc # "idle" /\ InTree = regions /\ InTree' = regions \ {d}
  BY <1>1 DEF AtUnlinked, InTree, Top
<1>3. PICK t : TreeFits(t)
  BY DEF TreeInv
<1>4. Tree(regions, region_view, t) /\ StackFits(t)
  BY <1>2, <1>3 DEF TreeFits
<1>5. Len(stack) = layer + 1 /\ layer \in Nat /\ Len(stack) > 1
  BY <1>1, <1>2, <1>3, TopFits
<1>6. /\ p \in PageRegions /\ i \in EntryIndex
      /\ d \in regions \ {cr3} /\ t[d].par = p /\ t[d].slot = i /\ t[d].lev = layer
      /\ Empty(region_view, d)
  <2>1. Empty(region_view, d)
    BY <1>1 DEF is_directory_empty, Empty, is_mapping, spec_read
  <2> QED
    BY <1>2, <1>3, <1>5, <2>1, CallerFits, TopFits
<1>7. w \in Word
  BY DEF zero_entry, Word
<1> HIDE DEF d, p, i
<1>8. Tree(regions \ {d}, region_view', t)
  BY <1>1, <1>4, <1>6, RemoveChild
<1> HIDE DEF w
<1>9. /\ [region_view EXCEPT ![p][i] = w] \in Memory
      /\ \A q \in PageRegions : \A j \in EntryIndex :
           [region_view EXCEPT ![p][i] = w][q][j] = IF q = p /\ j = i THEN w ELSE region_view[q][j]
  BY <1>6, <1>7, MemoryType, Written
<1>10. StackFits(t)'
  <2>1. ASSUME NEW k \in 1 .. Len(stack), Linked(k)' PROVE Linked(k) /\ stack[k].ptr \in InTree'
    <3>1. k # Len(stack)
      BY <1>1, <1>2, <2>1 DEF Linked
    <3>2. Linked(k) /\ ActivationFits(t, k)
      BY <1>2, <1>4 DEF StackFits, Linked
    <3>3. stack[k].ptr \in regions /\ t[stack[k].ptr].lev = k - 1
      BY <1>2, <3>2 DEF ActivationFits
    <3>4. k - 1 # layer
      BY <1>5, <3>1
    <3>5. stack[k].ptr # d
      BY <1>6, <3>3, <3>4
    <3> QED
      BY <1>2, <3>2, <3>3, <3>5
  <2> QED
    BY <1>1, <1>4, <2>1, StackFitsStays
<1>11. TreeFits(t)'
  BY <1>2, <1>8, <1>10 DEF TreeFits
<1>12. TypeOK'
  BY <1>1, <1>9 DEF TreeInv, TypeOK, Memory
<1>13. NoneEmpty'
  <2>1. MayBeEmpty = {d} /\ MayBeEmpty' = {p}
    BY <1>1, <1>2 DEF MayBeEmpty, p, d, Caller
  <2> SUFFICES ASSUME NEW e \in regions \ {d, p, cr3} PROVE ~Empty(region_view', e)
    BY <1>2, <2>1 DEF NoneEmpty
  <2>2. e \in PageRegions /\ ~Empty(region_view, e)
    BY <1>2, <2>1, MemoryType DEF TreeInv, NoneEmpty
  <2> QED
    BY <1>1, <1>9, <2>2 DEF Empty
<1>14. UnlinkedFits'
  BY <1>1, <1>5, <1>6 DEF UnlinkedFits, Top, d
<1>15. CallFits'
  BY <1>1 DEF TreeInv, CallFits
<1> QED
  BY <1>11, <1>12, <1>13, <1>14, <1>15 DEF TreeInv

(* The page of the unlinked directory is given back. *)
LEMMA UnmapDeallocTree ==
  ASSUME TreeInv, UnmapDealloc, EnoughPages'
  PROVE  TreeInv'
<1> DEFINE d == Top.ptr
           T == regions \ {d}
<1>1. /\ pc = "dealloc" /\ pc' = "unmap_return" /\ call' = call /\ ret' = ret /\ Return
      /\ regions' = T /\ region_view' = [region_view EXCEPT ![d] = new_seq(junk(d))]
  BY DEF UnmapDealloc, dealloc_page
<1>2. AtUnlinked /\ ~AtUnlinked' /\ pc # "idle" /\ InTree = T /\ InTree' = T
  BY <1>1 DEF AtUnlinked, InTree
<1>3. PICK t : TreeFits(t)
  BY DEF TreeInv
<1>4. Tree(T, region_view, t) /\ StackFits(t)
  BY <1>2, <1>3 DEF TreeFits
<1>5. Len(stack) > 1 /\ d \in regions \ {cr3} /\ ret = "Ok"
  BY <1>1, <1>2 DEF TreeInv, UnlinkedFits, CallFits
<1>6. /\ stack' \in Seq(Activation)
      /\ Len(stack') \in Nat /\ Len(stack') >= 1 /\ Len(stack') <= 3
      /\ \A k \in 1 .. Len(stack') : stack'[k] = stack[k]
      /\ Top' = Caller /\ layer' = layer - 1
      /\ \A k \in 0 .. layer' : idx(k)' = idx(k)
      /\ \A k \in 1 .. Len(stack') : OnPath(k)' /\ ActivationFits(t, k)
  BY <1>1, <1>2, <1>3, <1>5, ReturnFits
<1>7. layer' = Len(stack') - 1
  BY DEF layer
<1> HIDE DEF d
<1>8. /\ region_view' \in Memory
      /\ \A q \in T : region_view'[q] = region_view[q]
  <2>1. d \in PageRegions /\ PageRegions \subseteq Nat
    BY <1>5, MemoryType, MemoryAssumption DEF PageRegions
  <2>2. new_seq(junk(d)) \in [EntryIndex -> Word]
    BY <2>1 DEF new_seq, junk, Word
  <2> QED
    BY <1>1, <2>1, <2>2, MemoryType DEF Memory
<1>9. Tree(T, region_view', t)
  BY <1>4, <1>8, ChangeOutside
<1>10. ASSUME NEW k \in 1 .. Len(stack') PROVE ActivationFits(t, k)'
  <2>1. ActivationFits(t, k) /\ stack'[k] = stack[k]
    BY <1>6
  <2>2. k > 1 => stack'[k - 1] = stack[k - 1] /\ idx(k - 2)' = idx(k - 2)
    BY <1>6, <1>7
  <2> QED
    BY <1>2, <2>1, <2>2 DEF ActivationFits
<1>11. StackFits(t)'
  BY <1>4, <1>6, <1>10 DEF StackFits
<1>12. TreeFits(t)'
  BY <1>2, <1>9, <1>11 DEF TreeFits
<1>13. TypeOK'
  BY <1>1, <1>6, <1>8, MemoryType DEF TreeInv, TypeOK, Memory
<1>14. NoneEmpty'
  <2>1. MayBeEmpty = {Caller.ptr} /\ MayBeEmpty' = {Caller.ptr}
    BY <1>1, <1>2, <1>5, <1>6 DEF MayBeEmpty
  <2>2. \A e \in T \ {Caller.ptr, cr3} : ~Empty(region_view, e)
    BY <1>2, <2>1 DEF TreeInv, NoneEmpty
  <2> QED
    BY <1>2, <1>8, <2>1, <2>2 DEF NoneEmpty, Empty
<1>15. (CallFits /\ UnlinkedFits)'
  BY <1>1, <1>2, <1>5 DEF TreeInv, CallFits, UnlinkedFits
<1> QED
  BY <1>12, <1>13, <1>14, <1>15 DEF TreeInv

LEMMA UnmapKeepDirectoryTree ==
  ASSUME TreeInv, UnmapKeepDirectory, EnoughPages'
  PROVE  TreeInv'
<1>1. /\ pc = "unmap_return" /\ ret = "Ok" /\ layer > 0 /\ ~is_directory_empty(Top.ptr) /\ Return
      /\ pc' = pc /\ call' = call /\ ret' = ret
      /\ regions' = regions /\ region_view' = region_view
  BY DEF UnmapKeepDirectory, Returning
<1>2. ~AtUnlinked /\ ~AtUnlinked' /\ pc # "idle" /\ InTree = regions /\ InTree' = regions
  BY <1>1 DEF AtUnlinked, InTree
<1>3. PICK t : TreeFits(t)
  BY DEF TreeInv
<1>4. Tree(regions, region_view, t) /\ StackFits(t)
  BY <1>2, <1>3 DEF TreeFits
<1>5. Len(stack) > 1
  BY <1>1, <1>2, <1>3, TopFits
<1>6. /\ stack' \in Seq(Activation)
      /\ Len(stack') \in Nat /\ Len(stack') >= 1 /\ Len(stack') <= 3
      /\ \A k \in 1 .. Len(stack') : stack'[k] = stack[k]
      /\ Top' = Caller /\ layer' = layer - 1
      /\ \A k \in 0 .. layer' : idx(k)' = idx(k)
      /\ \A k \in 1 .. Len(stack') : OnPath(k)' /\ ActivationFits(t, k)
  BY <1>1, <1>2, <1>3, <1>5, ReturnFits
<1>7. layer' = Len(stack') - 1
  BY DEF layer
<1>8. ASSUME NEW k \in 1 .. Len(stack') PROVE ActivationFits(t, k)'
  <2>1. ActivationFits(t, k) /\ stack'[k] = stack[k]
    BY <1>6
  <2>2. k > 1 => stack'[k - 1] = stack[k - 1] /\ idx(k - 2)' = idx(k - 2)
    BY <1>6, <1>7
  <2> QED
    BY <1>2, <2>1, <2>2 DEF ActivationFits
<1>9. StackFits(t)'
  BY <1>4, <1>6, <1>8 DEF StackFits
<1>10. TreeFits(t)'
  BY <1>1, <1>2, <1>4, <1>9 DEF TreeFits
<1>11. TypeOK'
  BY <1>1, <1>6 DEF TreeInv, TypeOK
<1>12. NoneEmpty'
  <2>1. MayBeEmpty = {Top.ptr}
    BY <1>1, <1>2 DEF MayBeEmpty
  <2>2. ~Empty(region_view, Top.ptr)
    BY <1>1 DEF is_directory_empty, Empty, is_mapping, spec_read
  <2>3. \A e \in regions \ {cr3} : ~Empty(region_view, e)
    BY <1>2, <2>1, <2>2 DEF TreeInv, NoneEmpty
  <2> QED
    BY <1>1, <1>2, <2>3 DEF NoneEmpty
<1>13. (CallFits /\ UnlinkedFits)'
  BY <1>1, <1>2 DEF TreeInv, CallFits, UnlinkedFits
<1> QED
  BY <1>10, <1>11, <1>12, <1>13 DEF TreeInv

LEMMA UnmapEndTree ==
  ASSUME TreeInv, UnmapEnd
  PROVE  TreeInv'
<1>1. /\ pc = "unmap_return" /\ (ret = "Err" \/ (ret = "Ok" /\ layer = 0)) /\ Finish(ret)
      /\ regions' = regions /\ region_view' = region_view
  BY DEF UnmapEnd, Returning, memvars
<1>2. ~AtUnlinked /\ pc # "idle" /\ InTree = regions
  BY <1>1 DEF AtUnlinked, InTree
<1>3. PICK t : TreeFits(t)
  BY DEF TreeInv
<1>4. Tree(regions, region_view, t) /\ StackFits(t)
  BY <1>2, <1>3 DEF TreeFits
<1>5. MayBeEmpty \subseteq {cr3}
  <2>1. CASE ret = "Err"
    BY <1>1, <1>2, <2>1 DEF MayBeEmpty
  <2>2. CASE ret = "Ok" /\ layer = 0
    <3>1. Len(stack) = 1
      BY <1>2, <1>3, <2>2, TopFits
    <3>2. Top.ptr = cr3
      BY <1>4, <3>1 DEF StackFits, Top
    <3> QED
      BY <1>1, <1>2, <3>2 DEF MayBeEmpty
  <2> QED
    BY <1>1, <2>1, <2>2
<1>6. \A d \in regions \ {cr3} : ~Empty(region_view, d)
  BY <1>2, <1>5 DEF TreeInv, NoneEmpty
<1>7. ret \in {"none", "Ok", "Err"}
  BY DEF TreeInv, TypeOK
<1> QED
  BY <1>1, <1>2, <1>4, <1>6, <1>7, MemoryType, TreeFinish

LEMMA TreeStep == TreeInv /\ [Next]_vars => TreeInv'
<1> SUFFICES ASSUME TreeInv, [Next]_vars PROVE TreeInv'
  OBVIOUS
<1>1. IndInv
  BY DEF TreeInv, TypeOK, StackIsSequence, IndInv
<1>2. EnoughPages'
  BY <1>1, StepInv DEF IndInv
<1>3. ASSUME NEW vaddr \in VAddr, unmap(vaddr) PROVE TreeInv'
  <2> DEFINE args == [vaddr |-> vaddr]
  <2>1. Start(args, "unmap") /\ accepted_unmap(vaddr)
    BY <1>3 DEF unmap
  <2>2. args \in UnmapCall /\ args.vaddr < upper_vaddr(0, 0)
    BY <2>1 DEF UnmapCall, accepted_unmap, between
  <2>3. CallFits'
    BY <2>1, <2>2 DEF Start, CallFits
  <2> HIDE DEF args
  <2> QED
    BY <1>2, <2>1, <2>2, <2>3, TreeStart
<1>4. ASSUME NEW vaddr \in VAddr, NEW pte \in PTE, map_frame(vaddr, pte) PROVE TreeInv'
  <2> DEFINE args == [vaddr |-> vaddr, pte |-> pte]
  <2>1. Start(args, "map") /\ accepted_mapping(vaddr, pte)
    BY <1>4 DEF map_frame
  <2>2. args \in MapCall /\ args.vaddr = vaddr /\ args.pte = pte
    BY DEF MapCall
  <2>3. vaddr < upper_vaddr(0, 0)
    <3>1. PICK l \in 1 .. 3 : entry_size(l) = pte.frame.size
      BY <2>1 DEF accepted_mapping, contains_entry_size_at_index_atleast
    <3>2. pte.frame.size \in Nat \ {0}
      BY <3>1, Sizes DEF Layer
    <3>3. vaddr + pte.frame.size <= upper_vaddr(0, 0)
      BY <2>1 DEF accepted_mapping
    <3>4. upper_vaddr(0, 0) \in Nat
      <4>1. X86_NUM_ENTRIES * entry_size(0) \in Nat
        BY Sizes, ProductType DEF Layer
      <4> QED
        BY <4>1 DEF upper_vaddr, entry_base
    <3>5. vaddr \in Nat
      BY CallsAssumption
    <3> QED
      BY <3>2, <3>3, <3>4, <3>5
  <2> HIDE DEF args
  <2>4. CallFits'
    BY <2>1, <2>2 DEF Start, CallFits
  <2> QED
    BY <1>2, <2>1, <2>2, <2>3, <2>4, TreeStart
<1>5. CASE MapStep
  BY <1>2, <1>5, MapConflictTree, MapWritePageTree, DescendTree, AllocTree, InsertTree DEF MapStep
<1>6. CASE UnmapStep
  BY <1>2, <1>6, DescendTree, UnmapPageTree, UnmapNothingTree, UnmapUnlinkTree, UnmapDeallocTree,
     UnmapKeepDirectoryTree, UnmapEndTree DEF UnmapStep
<1>7. CASE UNCHANGED vars
  <2>1. /\ regions' = regions /\ region_view' = region_view /\ pc' = pc /\ call' = call
        /\ stack' = stack /\ ret' = ret
    BY <1>7 DEF vars
  <2>2. layer' = layer /\ Top' = Top /\ Caller' = Caller /\ AtUnlinked' = AtUnlinked
    BY <2>1 DEF layer, Top, Caller, AtUnlinked
  <2>3. InTree' = InTree /\ MayBeEmpty' = MayBeEmpty
    BY <2>1, <2>2 DEF InTree, MayBeEmpty
  <2>4. TypeOK' /\ CallFits' /\ NoneEmpty'
    BY <2>1, <2>2, <2>3 DEF TreeInv, TypeOK, CallFits, NoneEmpty
  <2>5. UnlinkedFits'
    <3>1. idx(layer - 1)' = idx(layer - 1)
      BY <2>1, <2>2 DEF idx
    <3> QED
      BY <2>1, <2>2, <3>1 DEF TreeInv, UnlinkedFits
  <2>6. PICK t : TreeFits(t)
    BY DEF TreeInv
  <2>7. pc # "idle" => StackFits(t)'
    <3> SUFFICES ASSUME pc # "idle" PROVE StackFits(t)'
      OBVIOUS
    <3>1. StackFits(t)
      BY <2>6 DEF TreeFits
    <3>2. \A k \in 1 .. Len(stack) : Linked(k)' => Linked(k) /\ stack[k].ptr \in InTree'
      BY <2>1, <2>2, <2>3, <3>1 DEF Linked, StackFits, ActivationFits
    <3> QED
      BY <2>1, <3>1, <3>2, StackFitsStays
  <2>8. TreeFits(t)'
    BY <2>1, <2>3, <2>6, <2>7 DEF TreeFits
  <2> QED
    BY <1>2, <2>4, <2>5, <2>8 DEF TreeInv
<1> QED
  BY <1>3, <1>4, <1>5, <1>6, <1>7 DEF Next
-----------------------------------------------------------------------------
(* What the MMU and the invariant see of the tree. *)

ViewOf(kind, addr, w) ==
  [kind |-> kind, addr |-> addr, flag_RW |-> w.RW, flag_US |-> w.US, flag_XD |-> w.XD]

(* The MMU takes the words for what the implementation takes them for. *)
ViewFits(l, w) ==
  /\ w.P => all_mb0_bits_are_zero(l, w)
  /\ view(l, w).kind = "Directory" <=> links(l, w)
  /\ links(l, w) => view(l, w) = ViewOf("Directory", address(w), w)
  /\ view(l, w).kind = "Page" <=> w.P /\ is_page(l, w)
  /\ w.P /\ is_page(l, w) => view(l, w) = ViewOf("Page", MASK_PG_ADDR(l, w.addr), w)
  /\ view(l, w).kind = "Empty" <=> ~w.P

LEMMA ViewOfWord ==
  ASSUME NEW T, NEW mem, NEW t, Tree(T, mem, t), NEW p \in T, NEW i \in EntryIndex
  PROVE  ViewFits(t[p].lev, mem[p][i])
<1> DEFINE l == t[p].lev
           w == mem[p][i]
           v == view(l, w)
<1>1. l \in Nat
  BY TreeType DEF Layer
<1>2. WordFits(T, t, p, i, w)
  BY DEF Tree
<1> SUFFICES ViewFits(l, w)
  OBVIOUS
<1> HIDE DEF l, w
<1>3. w.P => all_mb0_bits_are_zero(l, w)
  BY <1>2 DEF WordFits, LinkFits, LeafFits, links, l
<1>4. maps_page(l, w) <=> is_page(l, w)
  BY <1>1 DEF maps_page, is_page
<1>5. links(l, w) <=> w.P /\ ~maps_page(l, w)
  BY <1>4 DEF links, is_dir
<1>6. MASK_ADDR(w.addr) = address(w)
  BY DEF MASK_ADDR, address
<1>7. CASE ~w.P
  <2>1. v = [kind |-> "Empty"]
    BY <1>7 DEF view
  <2> QED
    BY <1>3, <1>4, <1>5, <1>7, <2>1 DEF ViewFits
<1>8. CASE w.P /\ maps_page(l, w)
  <2>1. v = [kind |-> "Page", addr |-> MASK_PG_ADDR(l, w.addr),
             flag_RW |-> w.RW, flag_US |-> w.US, flag_XD |-> w.XD]
    BY <1>3, <1>8 DEF view
  <2> QED
    BY <1>3, <1>4, <1>5, <1>8, <2>1 DEF ViewFits, ViewOf
<1>9. CASE w.P /\ ~maps_page(l, w)
  <2>1. v = [kind |-> "Directory", addr |-> MASK_ADDR(w.addr),
             flag_RW |-> w.RW, flag_US |-> w.US, flag_XD |-> w.XD]
    BY <1>3, <1>9 DEF view
  <2> QED
    BY <1>3, <1>4, <1>5, <1>6, <1>9, <2>1 DEF ViewFits, ViewOf
<1> QED
  BY <1>7, <1>8, <1>9

(* The directories whose parent is in S. *)
Kids(T, t, S) == {d \in T \ {cr3} : t[d].par \in S}

InLayer(T, t, S, l) == S \subseteq T /\ \A p \in S : t[p].lev = l

LEMMA BelowIsKids ==
  ASSUME NEW T, NEW t, Tree(T, region_view, t), NEW S, NEW l \in Nat, InLayer(T, t, S, l)
  PROVE  below(S, l) = Kids(T, t, S) /\ InLayer(T, t, Kids(T, t, S), l + 1)
<1>1. ASSUME NEW p \in S, NEW i \in EntryIndex
      PROVE  /\ i \in directories_at(p, l) <=> links(l, region_view[p][i])
             /\ links(l, region_view[p][i]) =>
                  /\ directory_at(p, l, i) = address(region_view[p][i])
                  /\ address(region_view[p][i]) \in Kids(T, t, S)
  <2>1. p \in T /\ t[p].lev = l /\ view_at(p, l, i) = view(l, region_view[p][i])
    BY DEF InLayer, view_at, read_entry, spec_read
  <2>4. ViewFits(l, region_view[p][i])
    BY <2>1, ViewOfWord
  <2>2. i \in directories_at(p, l) <=> links(l, region_view[p][i])
    BY <2>1, <2>4 DEF directories_at, ViewFits
  <2>3. ASSUME links(l, region_view[p][i])
        PROVE  /\ directory_at(p, l, i) = address(region_view[p][i])
               /\ address(region_view[p][i]) \in Kids(T, t, S)
    <3>1. view_at(p, l, i).addr = address(region_view[p][i])
      BY <2>1, <2>3, <2>4 DEF ViewFits, ViewOf
    <3>2. LinkFits(T, t, p, i, region_view[p][i])
      BY <2>1, <2>3, LinkedChild
    <3> QED
      BY <3>1, <3>2 DEF directory_at, LinkFits, Child, Kids
  <2> QED
    BY <2>2, <2>3
<1>2. below(S, l) \subseteq Kids(T, t, S)
  <2> SUFFICES ASSUME NEW d \in below(S, l) PROVE d \in Kids(T, t, S)
    OBVIOUS
  <2>1. PICK p \in S : d \in {directory_at(p, l, i) : i \in directories_at(p, l)}
    BY DEF below
  <2>2. PICK i \in directories_at(p, l) : d = directory_at(p, l, i)
    BY <2>1
  <2>3. i \in EntryIndex
    BY DEF directories_at
  <2> QED
    BY <1>1, <2>1, <2>2, <2>3
<1>3. ASSUME NEW d \in Kids(T, t, S)
      PROVE  d \in below(S, l) /\ t[d].lev = l + 1
  <2> DEFINE p == t[d].par
             i == t[d].slot
  <2>1. d \in T \ {cr3} /\ p \in S
    BY DEF Kids
  <2>2. /\ i \in EntryIndex /\ links(t[p].lev, region_view[p][i])
        /\ address(region_view[p][i]) = d /\ t[d] = Child(t, p, i)
    BY <2>1, ChildOfParent
  <2> HIDE DEF p, i
  <2>3. t[p].lev = l
    BY <2>1 DEF InLayer
  <2>4. i \in directories_at(p, l) /\ d = directory_at(p, l, i)
    BY <1>1, <2>1, <2>2, <2>3
  <2>5. d \in {directory_at(p, l, j) : j \in directories_at(p, l)}
    BY <2>4
  <2>6. d \in below(S, l)
    BY <2>1, <2>5 DEF below
  <2> QED
    BY <2>2, <2>3, <2>6 DEF Child
<1>4. Kids(T, t, S) \subseteq T
  BY DEF Kids
<1> QED
  BY <1>2, <1>3, <1>4 DEF InLayer

LEMMA UsedRegionsAre ==
  ASSUME NEW T, NEW t, Tree(T, region_view, t), NEW p \in T
  PROVE  LET l  == t[p].lev
             k1 == Kids(T, t, {p})
             k2 == Kids(T, t, k1)
             k3 == Kids(T, t, k2)
         IN  /\ used_regions(p, l) = {p} \cup k1 \cup k2 \cup k3
             /\ InLayer(T, t, k1, l + 1) /\ InLayer(T, t, k2, l + 2) /\ InLayer(T, t, k3, l + 3)
             /\ l \in Nat
<1> DEFINE l  == t[p].lev
           k1 == Kids(T, t, {p})
           k2 == Kids(T, t, k1)
           k3 == Kids(T, t, k2)
<1>1. l \in Nat
  BY TreeType DEF Layer
<1>2. InLayer(T, t, {p}, l)
  BY DEF InLayer
<1> HIDE DEF l
<1>3. below({p}, l) = k1 /\ InLayer(T, t, k1, l + 1)
  BY <1>1, <1>2, BelowIsKids
<1>4. l + 1 \in Nat /\ l + 2 \in Nat /\ (l + 1) + 1 = l + 2 /\ (l + 2) + 1 = l + 3
  BY <1>1
<1> HIDE DEF k1
<1>5. below(k1, l + 1) = k2 /\ InLayer(T, t, k2, (l + 1) + 1)
  BY <1>3, <1>4, BelowIsKids
<1> HIDE DEF k2
<1>6. below(k2, l + 2) = k3 /\ InLayer(T, t, k3, (l + 2) + 1)
  BY <1>4, <1>5, BelowIsKids
<1> HIDE DEF k3
<1>7. used_regions(p, l) = {p} \cup k1 \cup k2 \cup k3
  BY <1>3, <1>5, <1>6 DEF used_regions
<1> QED
  BY <1>1, <1>3, <1>4, <1>5, <1>6, <1>7 DEF l, k1, k2, k3

(* Two directories of a layer have nothing below them in common. *)
LEMMA UsedRegionsDisjoint ==
  ASSUME NEW T, NEW t, Tree(T, region_view, t), NEW p \in T, NEW q \in T, p # q,
         NEW l, t[p].lev = l, t[q].lev = l
  PROVE  used_regions(p, l) \cap used_regions(q, l) = {}
<1> DEFINE p1 == Kids(T, t, {p})
           p2 == Kids(T, t, p1)
           p3 == Kids(T, t, p2)
           q1 == Kids(T, t, {q})
           q2 == Kids(T, t, q1)
           q3 == Kids(T, t, q2)
<1>1. /\ used_regions(p, l) = {p} \cup p1 \cup p2 \cup p3
      /\ InLayer(T, t, p1, l + 1) /\ InLayer(T, t, p2, l + 2) /\ InLayer(T, t, p3, l + 3)
      /\ l \in Nat
  BY UsedRegionsAre
<1>2. /\ used_regions(q, l) = {q} \cup q1 \cup q2 \cup q3
      /\ InLayer(T, t, q1, l + 1) /\ InLayer(T, t, q2, l + 2) /\ InLayer(T, t, q3, l + 3)
  BY UsedRegionsAre
<1>3. p1 \cap q1 = {}
  BY DEF Kids
<1> HIDE DEF p1, q1
<1>4. p2 \cap q2 = {}
  BY <1>3 DEF Kids
<1> HIDE DEF p2, q2
<1>5. p3 \cap q3 = {}
  BY <1>4 DEF Kids
<1> HIDE DEF p3, q3
<1>6. ASSUME NEW x \in used_regions(p, l), x \in used_regions(q, l) PROVE FALSE
  <2>1. CASE t[x].lev = l
    BY <1>1, <1>2, <1>6, <2>1 DEF InLayer
  <2>2. CASE t[x].lev = l + 1
    BY <1>1, <1>2, <1>3, <1>6, <2>2 DEF InLayer
  <2>3. CASE t[x].lev = l + 2
    BY <1>1, <1>2, <1>4, <1>6, <2>3 DEF InLayer
  <2>4. CASE t[x].lev = l + 3
    BY <1>1, <1>2, <1>5, <1>6, <2>4 DEF InLayer
  <2>5. t[x].lev = l \/ t[x].lev = l + 1 \/ t[x].lev = l + 2 \/ t[x].lev = l + 3
    BY <1>1, <1>6 DEF InLayer
  <2> QED
    BY <2>1, <2>2, <2>3, <2>4, <2>5
<1> QED
  BY <1>6

LEMMA TreeInvAt ==
  ASSUME NEW T, NEW t, Tree(T, region_view, t), T \subseteq regions, NEW p \in T
  PROVE  inv_at(p, t[p].lev)
<1> DEFINE l == t[p].lev
<1>0. l \in Nat /\ l \in Layer
  BY TreeType DEF Layer
<1>1. \A i \in EntryIndex : view_at(p, l, i) = view(l, region_view[p][i])
  BY DEF view_at, read_entry, spec_read
<1>2. ASSUME NEW i \in directories_at(p, l)
      PROVE  /\ i \in EntryIndex /\ directory_at(p, l, i) \in T
             /\ t[directory_at(p, l, i)] = Child(t, p, i)
             /\ view_at(p, l, i).flag_RW /\ view_at(p, l, i).flag_US /\ ~view_at(p, l, i).flag_XD
  <2>1. i \in EntryIndex /\ view(l, region_view[p][i]).kind = "Directory"
    BY <1>1 DEF directories_at
  <2>2. links(l, region_view[p][i])
    BY <2>1, ViewOfWord DEF ViewFits
  <2>3. LinkFits(T, t, p, i, region_view[p][i])
    BY <2>1, <2>2, LinkedChild
  <2> DEFINE w == region_view[p][i]
  <2>4. view_at(p, l, i) = ViewOf("Directory", address(w), w)
    BY <1>1, <2>1, <2>2, ViewOfWord DEF ViewFits
  <2> HIDE DEF w, l
  <2>5. directory_at(p, l, i) = address(w) /\ view_at(p, l, i).flag_RW = w.RW
        /\ view_at(p, l, i).flag_US = w.US /\ view_at(p, l, i).flag_XD = w.XD
    BY <2>4 DEF directory_at, ViewOf
  <2> QED
    BY <2>1, <2>3, <2>5 DEF LinkFits, w
<1>3. directories_have_flags(p, l)
  BY <1>2 DEF directories_have_flags
<1>4. used_regions_pairwise_disjoint(p, l)
  <2> SUFFICES ASSUME NEW i \in directories_at(p, l), NEW j \in directories_at(p, l), i # j
               PROVE  used_regions(directory_at(p, l, i), l + 1)
                        \cap used_regions(directory_at(p, l, j), l + 1) = {}
    BY DEF used_regions_pairwise_disjoint
  <2> DEFINE d == directory_at(p, l, i)
             e == directory_at(p, l, j)
  <2>1. d \in T /\ e \in T /\ t[d] = Child(t, p, i) /\ t[e] = Child(t, p, j)
    BY <1>2
  <2> HIDE DEF d, e
  <2>2. d # e /\ t[d].lev = l + 1 /\ t[e].lev = l + 1
    BY <2>1 DEF Child
  <2>3. used_regions(d, l + 1) \cap used_regions(e, l + 1) = {}
    BY <2>1, <2>2, UsedRegionsDisjoint
  <2> QED
    BY <2>3 DEF d, e
<1>5. region_notin_used_regions(p, l)
  <2> SUFFICES ASSUME NEW i \in directories_at(p, l)
               PROVE  p \notin used_regions(directory_at(p, l, i), l + 1)
    BY DEF region_notin_used_regions
  <2> DEFINE d == directory_at(p, l, i)
             k1 == Kids(T, t, {d})
             k2 == Kids(T, t, k1)
             k3 == Kids(T, t, k2)
  <2>1. d \in T /\ t[d] = Child(t, p, i)
    BY <1>2
  <2> HIDE DEF d
  <2>2. t[d].lev = l + 1
    BY <2>1 DEF Child
  <2>3. /\ used_regions(d, l + 1) = {d} \cup k1 \cup k2 \cup k3
        /\ InLayer(T, t, k1, (l + 1) + 1) /\ InLayer(T, t, k2, (l + 1) + 2) /\ InLayer(T, t, k3, (l + 1) + 3)
    BY <2>1, <2>2, UsedRegionsAre
  <2> HIDE DEF k1, k2, k3
  <2>4. p \notin used_regions(d, l + 1)
    BY <1>0, <2>2, <2>3 DEF InLayer
  <2> QED
    BY <2>4 DEF d
<1>6. hp_pat_is_zero(p, l)
  <2> SUFFICES ASSUME NEW i \in EntryIndex, view_at(p, l, i).kind = "Page", l \in {1, 2}
               PROVE  ~MASK_PG_FLAG_PAT(region_view[p][i].addr)
    BY DEF hp_pat_is_zero, spec_read
  <2>1. WordFits(T, t, p, i, region_view[p][i])
    BY DEF Tree
  <2>2. region_view[p][i].P /\ is_page(l, region_view[p][i])
    BY <1>1, ViewOfWord DEF ViewFits
  <2> QED
    BY <2>1, <2>2 DEF WordFits, LeafFits, links, is_dir
<1>7. entry_mb0_bits_are_zero(p, l)
  <2> SUFFICES ASSUME NEW i \in EntryIndex PROVE all_mb0_bits_are_zero(l, region_view[p][i])
    BY DEF entry_mb0_bits_are_zero, spec_read
  <2>1. region_view[p][i].P => all_mb0_bits_are_zero(l, region_view[p][i])
    BY ViewOfWord DEF ViewFits
  <2> QED
    BY <2>1 DEF all_mb0_bits_are_zero
<1> QED
  BY <1>3, <1>4, <1>5, <1>6, <1>7 DEF inv_at

LEMMA DirectoriesAreLayers ==
  ASSUME NEW T, NEW t, Tree(T, region_view, t), NEW l \in Layer
  PROVE  directories(l) = {p \in T : t[p].lev = l}
<1> DEFINE k1 == Kids(T, t, {cr3})
           k2 == Kids(T, t, k1)
           k3 == Kids(T, t, k2)
           L(m) == {p \in T : t[p].lev = m}
<1>1. cr3 \in T /\ t[cr3].lev = 0
  BY DEF Tree
<1>2. \A d \in T \ {cr3} : t[d].par \in T /\ t[d].lev = t[t[d].par].lev + 1
  <2> SUFFICES ASSUME NEW d \in T \ {cr3} PROVE t[d].par \in T /\ t[d].lev = t[t[d].par].lev + 1
    OBVIOUS
  <2>1. t[d].par \in T /\ t[d] = Child(t, t[d].par, t[d].slot)
    BY ChildOfParent
  <2>2. Child(t, t[d].par, t[d].slot).lev = t[t[d].par].lev + 1
    BY DEF Child
  <2> QED
    BY <2>1, <2>2
<1>3. \A p \in T : t[p].lev \in Nat
  BY TreeType DEF Layer
<1>4. L(0) = {cr3}
  BY <1>1, <1>2, <1>3
<1>5. \A m \in Nat : L(m + 1) = Kids(T, t, L(m))
  BY <1>1, <1>2, <1>3 DEF Kids
<1> HIDE DEF L
<1>6. L(1) = k1 /\ L(2) = k2 /\ L(3) = k3
  <2>1. L(0 + 1) = Kids(T, t, L(0)) /\ L(1 + 1) = Kids(T, t, L(1)) /\ L(2 + 1) = Kids(T, t, L(2))
    BY <1>5
  <2> QED
    BY <1>4, <2>1
<1>7. InLayer(T, t, {cr3}, 0) /\ InLayer(T, t, k1, 1) /\ InLayer(T, t, k2, 2)
  BY <1>1, <1>6 DEF InLayer, L
<1> HIDE DEF k1, k2, k3
<1>8. below({cr3}, 0) = k1 /\ below(k1, 1) = k2 /\ below(k2, 2) = k3
  BY <1>7, BelowIsKids DEF k1, k2, k3
<1>9. /\ directories(0) = {cr3} /\ directories(1) = k1
      /\ directories(2) = k2 /\ directories(3) = k3
  BY <1>8 DEF directories
<1>10. l = 0 \/ l = 1 \/ l = 2 \/ l = 3
  BY DEF Layer
<1> QED
  BY <1>4, <1>6, <1>9, <1>10 DEF L

LEMMA RootUsesAll ==
  ASSUME NEW T, NEW t, Tree(T, region_view, t)
  PROVE  used_regions(cr3, 0) = T
<1>1. /\ directories(0) = {p \in T : t[p].lev = 0} /\ directories(1) = {p \in T : t[p].lev = 1}
      /\ directories(2) = {p \in T : t[p].lev = 2} /\ directories(3) = {p \in T : t[p].lev = 3}
  BY DirectoriesAreLayers DEF Layer
<1>2. used_regions(cr3, 0) = directories(0) \cup directories(1) \cup directories(2) \cup directories(3)
  BY DEF used_regions, directories
<1>3. \A p \in T : t[p].lev \in 0 .. 3
  BY TreeType DEF Layer
<1> QED
  BY <1>1, <1>2, <1>3

LEMMA TreeInvImplies == TreeInv => PageTableInv
<1> SUFFICES ASSUME TreeInv PROVE PageTableInv
  OBVIOUS
<1>1. PICK t : TreeFits(t)
  BY DEF TreeInv
<1> DEFINE T == InTree
<1>2. Tree(T, region_view, t) /\ T \subseteq regions
  BY <1>1 DEF TreeFits, InTree
<1> HIDE DEF T
<1>3. ASSUME NEW l \in Layer, NEW ptr \in directories(l) PROVE ptr \in T /\ t[ptr].lev = l /\ inv_at(ptr, l)
  BY <1>2, DirectoriesAreLayers, TreeInvAt
<1>4. ASSUME pc = "idle"
      PROVE  /\ \A l \in 1 .. 3 : \A ptr \in directories(l) : ~is_directory_empty(ptr)
             /\ regions = used_regions(cr3, 0)
  <2>1. T = regions /\ MayBeEmpty = {}
    BY <1>4 DEF InTree, AtUnlinked, MayBeEmpty, T
  <2>2. regions = used_regions(cr3, 0)
    BY <1>2, <2>1, RootUsesAll
  <2>3. ASSUME NEW l \in 1 .. 3, NEW ptr \in directories(l) PROVE ~is_directory_empty(ptr)
    <3>1. l \in Layer
      BY DEF Layer
    <3>2. ptr \in T /\ t[ptr].lev = l /\ t[cr3].lev = 0
      BY <1>2, <1>3, <3>1 DEF Tree
    <3>3. ~Empty(region_view, ptr)
      BY <2>1, <3>2 DEF TreeInv, NoneEmpty, T
    <3> QED
      BY <3>3 DEF is_directory_empty, Empty, is_mapping, spec_read
  <2> QED
    BY <2>2, <2>3
<1>5. TypeOK
  BY DEF TreeInv
<1> QED
  BY <1>3, <1>4, <1>5 DEF PageTableInv

(* The memory of the page table is a tree of well-formed directories       *)
(* between any two accesses of a call, no call leaves an empty directory   *)
(* behind or leaks a page, and the memory keeps its type: PT::inv and the  *)
(* postconditions of map_frame and unmap.                                  *)
THEOREM PageTableInvCorrect == Spec => []PageTableInv
  BY TreeInit, TreeStep, TreeInvImplies, PTL DEF Spec
-----------------------------------------------------------------------------
(* Addresses and the tree. *)

(* p is the directory of its layer that is about the address. *)
AtAddr(T, t, p, addr) == p \in T /\ Covers(t[p].lev, t[p].start, addr)

(* The entry of p that is about the address, and the word that is in it. *)
IndexAt(t, p, addr) == index_for_vaddr(t[p].lev, t[p].start, addr)

LEMMA LevelOfParent ==
  ASSUME NEW T, NEW mem, NEW t, Tree(T, mem, t), NEW d \in T
  PROVE  /\ t[d].lev = 0 <=> d = cr3
         /\ t[d].lev \in Nat /\ t[d].lev <= 3
         /\ d # cr3 => /\ t[d].par \in T
                       /\ t[t[d].par].lev \in 0 .. 2
                       /\ t[d].lev = t[t[d].par].lev + 1
                       /\ t[d].start = entry_base(t[t[d].par].lev, t[t[d].par].start, t[d].slot)
<1>1. t[d].lev \in 0 .. 3 /\ t[cr3].lev = 0
  BY TreeType DEF Layer, Tree
<1>2. ASSUME d # cr3
      PROVE  /\ t[d].par \in T
             /\ t[t[d].par].lev \in 0 .. 2
             /\ t[d].lev = t[t[d].par].lev + 1
             /\ t[d].start = entry_base(t[t[d].par].lev, t[t[d].par].start, t[d].slot)
  <2> DEFINE p == t[d].par
             i == t[d].slot
  <2>1. p \in T /\ t[d] = Child(t, p, i) /\ links(t[p].lev, mem[p][i])
    BY <1>2, ChildOfParent
  <2> HIDE DEF p, i
  <2>2. t[p].lev \in 0 .. 3
    BY <2>1, TreeType DEF Layer
  <2>3. t[p].lev # 3
    BY <2>1 DEF links, is_dir, is_page
  <2>4. t[d].lev = t[p].lev + 1 /\ t[d].start = entry_base(t[p].lev, t[p].start, i)
    BY <2>1 DEF Child
  <2> QED
    BY <2>1, <2>2, <2>3, <2>4 DEF p, i
<1> QED
  BY <1>1, <1>2

(* The parent is about all that its directories are about. *)
LEMMA ParentAt ==
  ASSUME NEW T, NEW mem, NEW t, Tree(T, mem, t), NEW d \in T \ {cr3}, NEW addr \in Nat,
         AtAddr(T, t, d, addr)
  PROVE  AtAddr(T, t, t[d].par, addr) /\ IndexAt(t, t[d].par, addr) = t[d].slot
<1> DEFINE p == t[d].par
           i == t[d].slot
           l == t[p].lev
           b == t[p].start
<1>1. /\ p \in T /\ l \in 0 .. 2 /\ t[d].lev = l + 1 /\ t[d].start = entry_base(l, b, i)
      /\ i \in EntryIndex /\ b \in Nat
  BY LevelOfParent, ChildOfParent, TreeType
<1> HIDE DEF p, i, l, b
<1>2. l \in Layer
  BY <1>1 DEF Layer
<1>3. entry_base(l, b, i) \in Nat
  BY <1>1, <1>2, EntryBaseType
<1>4. entry_base(l, b, i) <= addr /\ addr < upper_vaddr(l + 1, entry_base(l, b, i))
  BY <1>1 DEF AtAddr, Covers
<1>5. entry_base(l, b, i) <= addr /\ addr < entry_base(l, b, i) + entry_size(l)
  BY <1>1, <1>3, <1>4, CoversBelow
<1>6. index_for_vaddr(l, b, addr) = i /\ Covers(l, b, addr)
  BY <1>1, <1>2, <1>5, IndexUnique
<1> QED
  BY <1>1, <1>6 DEF AtAddr, IndexAt, p, i, l, b

(* The entry of a directory that is about the address. *)
LEMMA EntryAt ==
  ASSUME NEW T, NEW mem, NEW t, Tree(T, mem, t), NEW p, NEW addr \in Nat, AtAddr(T, t, p, addr)
  PROVE  /\ p \in T /\ t[p].lev \in Layer /\ t[p].start \in Nat
         /\ IndexAt(t, p, addr) \in EntryIndex
         /\ entry_base(t[p].lev, t[p].start, IndexAt(t, p, addr)) <= addr
         /\ addr < entry_base(t[p].lev, t[p].start, IndexAt(t, p, addr)) + entry_size(t[p].lev)
  BY TreeType, IndexInDirectory DEF AtAddr, IndexAt

(* An address of an entry is an address of the directory. *)
LEMMA AtEntry ==
  ASSUME NEW T, NEW mem, NEW t, Tree(T, mem, t), NEW p \in T, NEW i \in EntryIndex, NEW addr \in Nat,
         entry_base(t[p].lev, t[p].start, i) <= addr,
         addr < entry_base(t[p].lev, t[p].start, i) + entry_size(t[p].lev)
  PROVE  AtAddr(T, t, p, addr) /\ IndexAt(t, p, addr) = i
  BY TreeType, IndexUnique DEF AtAddr, IndexAt

LEMMA ChildAt ==
  ASSUME NEW T, NEW mem, NEW t, Tree(T, mem, t), NEW p, NEW addr \in Nat, AtAddr(T, t, p, addr),
         links(t[p].lev, mem[p][IndexAt(t, p, addr)])
  PROVE  LET d == address(mem[p][IndexAt(t, p, addr)])
         IN  AtAddr(T, t, d, addr) /\ d \in T \ {cr3} /\ t[d].par = p
<1> DEFINE i == IndexAt(t, p, addr)
           d == address(mem[p][i])
           l == t[p].lev
           b == t[p].start
<1>1. /\ p \in T /\ l \in Layer /\ b \in Nat /\ i \in EntryIndex
      /\ entry_base(l, b, i) <= addr /\ addr < entry_base(l, b, i) + entry_size(l)
  BY EntryAt
<1>2. links(l, mem[p][i])
  OBVIOUS
<1> HIDE DEF i
<1>3. LinkFits(T, t, p, i, mem[p][i])
  BY <1>1, <1>2, LinkedChild
<1>4. d \in T \ {cr3} /\ t[d] = Child(t, p, i)
  BY <1>3 DEF LinkFits
<1> HIDE DEF d, l, b
<1>5. l \in 0 .. 2
  BY <1>1, <1>2 DEF Layer, links, is_dir, is_page
<1>6. t[d].lev = l + 1 /\ t[d].start = entry_base(l, b, i) /\ t[d].par = p
  BY <1>4 DEF Child, l, b
<1>7. entry_base(l, b, i) \in Nat
  BY <1>1, EntryBaseType
<1>8. Covers(l + 1, entry_base(l, b, i), addr)
  BY <1>1, <1>5, <1>7, CoversBelow DEF Covers
<1> QED
  BY <1>4, <1>6, <1>8 DEF AtAddr, d, i

(* The addresses of the tree are those of the root. *)
LEMMA AddressBound ==
  ASSUME NEW T, NEW mem, NEW t, Tree(T, mem, t), NEW p, NEW addr \in Nat, AtAddr(T, t, p, addr)
  PROVE  addr < MAX_BASE
<1> DEFINE P(l) == \A d \in T : t[d].lev = l /\ AtAddr(T, t, d, addr) => AtAddr(T, t, cr3, addr)
<1>1. P(0)
  BY LevelOfParent
<1>2. ASSUME NEW l \in 0 .. 2, P(l) PROVE P(l + 1)
  <2> SUFFICES ASSUME NEW d \in T, t[d].lev = l + 1, AtAddr(T, t, d, addr)
               PROVE  AtAddr(T, t, cr3, addr)
    OBVIOUS
  <2>1. d # cr3 /\ t[d].par \in T /\ t[t[d].par].lev = l
    BY LevelOfParent
  <2>2. AtAddr(T, t, t[d].par, addr)
    BY <2>1, ParentAt
  <2> QED
    BY <1>2, <2>1, <2>2
<1> HIDE DEF P
<1>3. P(1)
  BY <1>1, <1>2
<1>4. P(2)
  BY <1>2, <1>3
<1>5. P(3)
  BY <1>2, <1>4
<1>6. p \in T /\ t[p].lev \in 0 .. 3
  BY LevelOfParent DEF AtAddr
<1>7. AtAddr(T, t, cr3, addr)
  <2>1. t[p].lev = 0 \/ t[p].lev = 1 \/ t[p].lev = 2 \/ t[p].lev = 3
    BY <1>6
  <2> QED
    BY <1>1, <1>3, <1>4, <1>5, <1>6, <2>1 DEF P
<1> QED
  BY <1>7, RootCovers DEF AtAddr, Tree

(* One directory of each layer is about an address. *)
LEMMA AtUnique ==
  ASSUME NEW T, NEW mem, NEW t, Tree(T, mem, t), NEW addr \in Nat,
         NEW p, NEW q, AtAddr(T, t, p, addr), AtAddr(T, t, q, addr), t[p].lev = t[q].lev
  PROVE  p = q
<1> DEFINE P(l) == \A d, e \in T : /\ t[d].lev = l /\ t[e].lev = l
                                   /\ AtAddr(T, t, d, addr) /\ AtAddr(T, t, e, addr)
                                   => d = e
<1>1. P(0)
  BY LevelOfParent
<1>2. ASSUME NEW l \in 0 .. 2, P(l) PROVE P(l + 1)
  <2> SUFFICES ASSUME NEW d \in T, NEW e \in T, t[d].lev = l + 1, t[e].lev = l + 1,
                      AtAddr(T, t, d, addr), AtAddr(T, t, e, addr)
               PROVE  d = e
    OBVIOUS
  <2>1. /\ d # cr3 /\ t[d].par \in T /\ t[t[d].par].lev = l
        /\ e # cr3 /\ t[e].par \in T /\ t[t[e].par].lev = l
    BY LevelOfParent
  <2>2. /\ AtAddr(T, t, t[d].par, addr) /\ IndexAt(t, t[d].par, addr) = t[d].slot
        /\ AtAddr(T, t, t[e].par, addr) /\ IndexAt(t, t[e].par, addr) = t[e].slot
    BY <2>1, ParentAt
  <2>3. t[d].par = t[e].par
    BY <1>2, <2>1, <2>2
  <2>4. t[d].slot = t[e].slot
    BY <2>2, <2>3
  <2>5. address(mem[t[d].par][t[d].slot]) = d /\ address(mem[t[e].par][t[e].slot]) = e
    BY <2>1, ChildOfParent
  <2> QED
    BY <2>3, <2>4, <2>5
<1> HIDE DEF P
<1>3. P(1)
  BY <1>1, <1>2
<1>4. P(2)
  BY <1>2, <1>3
<1>5. P(3)
  BY <1>2, <1>4
<1>6. p \in T /\ q \in T /\ t[p].lev \in 0 .. 3
  BY LevelOfParent DEF AtAddr
<1>7. t[p].lev = 0 \/ t[p].lev = 1 \/ t[p].lev = 2 \/ t[p].lev = 3
  BY <1>6
<1> QED
  BY <1>1, <1>3, <1>4, <1>5, <1>6, <1>7 DEF P

(* The directories above one that is about the address lead to it. *)
LEMMA PathAbove ==
  ASSUME NEW T, NEW mem, NEW t, Tree(T, mem, t), NEW addr \in Nat,
         NEW q, AtAddr(T, t, q, addr), NEW l \in Nat, l < t[q].lev
  PROVE  \E p \in T : /\ t[p].lev = l /\ AtAddr(T, t, p, addr)
                      /\ links(l, mem[p][IndexAt(t, p, addr)])
<1> DEFINE Q == \E p \in T : /\ t[p].lev = l /\ AtAddr(T, t, p, addr)
                             /\ links(l, mem[p][IndexAt(t, p, addr)])
           P(m) == \A d \in T : t[d].lev = m /\ l < m /\ AtAddr(T, t, d, addr) => Q
<1>1. P(0)
  OBVIOUS
<1>2. ASSUME NEW m \in 0 .. 2, P(m) PROVE P(m + 1)
  <2> HIDE DEF Q
  <2> SUFFICES ASSUME NEW d \in T, t[d].lev = m + 1, l < m + 1, AtAddr(T, t, d, addr)
               PROVE  Q
    OBVIOUS
  <2> DEFINE p == t[d].par
  <2>1. d # cr3 /\ p \in T /\ t[p].lev = m
    BY LevelOfParent
  <2>2. AtAddr(T, t, p, addr) /\ IndexAt(t, p, addr) = t[d].slot
    BY <2>1, ParentAt
  <2>3. links(m, mem[p][t[d].slot])
    BY <2>1, ChildOfParent
  <2> HIDE DEF p
  <2>4. CASE l = m
    BY <2>1, <2>2, <2>3, <2>4 DEF Q
  <2>5. CASE l < m
    BY <1>2, <2>1, <2>2, <2>5
  <2> QED
    BY <2>4, <2>5
<1> HIDE DEF P, Q
<1>3. P(1)
  BY <1>1, <1>2
<1>4. P(2)
  BY <1>2, <1>3
<1>5. P(3)
  BY <1>2, <1>4
<1>6. q \in T /\ t[q].lev \in 0 .. 3
  BY LevelOfParent DEF AtAddr
<1>7. t[q].lev = 0 \/ t[q].lev = 1 \/ t[q].lev = 2 \/ t[q].lev = 3
  BY <1>6
<1>8. Q
  BY <1>1, <1>3, <1>4, <1>5, <1>6, <1>7 DEF P
<1> QED
  BY <1>8 DEF Q

(* The first address of a directory is a multiple of what it is about. *)
LEMMA StartAligned ==
  ASSUME NEW T, NEW mem, NEW t, Tree(T, mem, t), NEW p \in T
  PROVE  \E k \in Nat : t[p].start = k * (X86_NUM_ENTRIES * entry_size(t[p].lev))
<1> DEFINE P(l) == \A d \in T : t[d].lev = l =>
                     \E k \in Nat : t[d].start = k * (X86_NUM_ENTRIES * entry_size(l))
           n == X86_NUM_ENTRIES
<1>1. P(0)
  <2> SUFFICES ASSUME NEW d \in T, t[d].lev = 0
               PROVE  \E k \in Nat : t[d].start = k * (n * entry_size(0))
    OBVIOUS
  <2>1. d = cr3
    BY LevelOfParent
  <2>4. t[d].start = 0
    BY <2>1 DEF Tree
  <2>2. n * entry_size(0) \in Nat
    BY Sizes, ProductType DEF Layer
  <2>3. 0 = 0 * (n * entry_size(0))
    BY <2>2
  <2> QED
    BY <2>3, <2>4
<1>2. ASSUME NEW l \in 0 .. 2, P(l) PROVE P(l + 1)
  <2> SUFFICES ASSUME NEW d \in T, t[d].lev = l + 1
               PROVE  \E k \in Nat : t[d].start = k * (n * entry_size(l + 1))
    OBVIOUS
  <2> DEFINE q == t[d].par
             i == t[d].slot
             s == entry_size(l)
  <2>1. d # cr3 /\ q \in T /\ t[q].lev = l /\ t[d].start = entry_base(l, t[q].start, i)
    BY LevelOfParent
  <2>2. PICK k \in Nat : t[q].start = k * (n * s)
    BY <1>2, <2>1
  <2>3. n \in Nat /\ s \in Nat /\ i \in Nat
    <3>1. i \in EntryIndex
      BY <2>1, ChildOfParent
    <3> QED
      BY <3>1, Sizes DEF Layer, EntryIndex
  <2>4. entry_size(l) = n * entry_size(l + 1)
    BY Sizes
  <2>5. t[d].start = t[q].start + i * s
    BY <2>1 DEF entry_base
  <2> HIDE DEF q, i, s, n
  <2>6. k * (n * s) + i * s = (k * n + i) * s
    BY <2>3
  <2>7. k * n + i \in Nat
    BY <2>3, ProductType
  <2>8. t[d].start = (k * n + i) * (n * entry_size(l + 1))
    BY <2>2, <2>4, <2>5, <2>6 DEF s
  <2> QED
    BY <2>7, <2>8
<1> HIDE DEF P
<1>3. P(1)
  BY <1>1, <1>2
<1>4. P(2)
  BY <1>2, <1>3
<1>5. P(3)
  BY <1>2, <1>4
<1>6. t[p].lev \in 0 .. 3
  BY LevelOfParent
<1>7. t[p].lev = 0 \/ t[p].lev = 1 \/ t[p].lev = 2 \/ t[p].lev = 3
  BY <1>6
<1> QED
  BY <1>1, <1>3, <1>4, <1>5, <1>7 DEF P
-----------------------------------------------------------------------------
(* The walk of the MMU in the tree. *)

(* The bits of an address that select an entry are its index there. *)
LEMMA IndexBits ==
  ASSUME NEW T, NEW mem, NEW t, Tree(T, mem, t), NEW p, NEW addr \in Nat, AtAddr(T, t, p, addr)
  PROVE  index_bits(t[p].lev, addr) = IndexAt(t, p, addr)
<1> DEFINE n == X86_NUM_ENTRIES
           s == entry_size(t[p].lev)
           i == IndexAt(t, p, addr)
           l == t[p].lev
           b == t[p].start
<1>1. /\ p \in T /\ l \in Layer /\ b \in Nat /\ i \in EntryIndex
      /\ entry_base(l, b, i) <= addr /\ addr < entry_base(l, b, i) + s
  BY EntryAt
<1>2. PICK k \in Nat : b = k * (n * s)
  BY <1>1, StartAligned
<1>3. n \in Nat \ {0} /\ s \in Nat \ {0} /\ i \in Nat /\ i < n
  BY <1>1, Sizes DEF EntryIndex
<1>4. b + i * s <= addr /\ addr < (b + i * s) + s
  BY <1>1 DEF entry_base
<1>5. index_bits(l, addr) = (addr \div s) % n
  BY DEF index_bits
<1> HIDE DEF n, s, i, l, b
<1>6. k * (n * s) + i * s = (k * n + i) * s
  <2>1. \A a, b1, c, d \in Nat : a * (b1 * c) + d * c = (a * b1 + d) * c
    OBVIOUS
  <2> QED
    BY <1>2, <1>3, <2>1
<1>7. k * n \in Nat /\ k * n + i \in Nat
  BY <1>3, ProductType
<1>8. addr \div s = k * n + i
  <2>1. PICK m \in Nat : m = k * n + i
    BY <1>7
  <2>2. b + i * s = m * s
    BY <1>2, <1>6, <2>1
  <2>3. m * s <= addr /\ addr < m * s + s
    BY <1>4, <2>2
  <2> QED
    BY <1>3, <2>1, <2>3, DivUnique
<1>9. (k * n + i) % n = (k * n + i) - (k * n)
  BY <1>3, <1>7, DivUnique
<1>10. (k * n + i) - (k * n) = i
  BY <1>3, <1>7
<1> QED
  BY <1>5, <1>8, <1>9, <1>10 DEF i, l

(* What the walk meets in layer l: the entry of the directory of that      *)
(* layer that is about the address, or nothing when there is none.         *)
MetAt(T, mem, t, addr, l, e) ==
  /\ \A p \in T : t[p].lev = l /\ AtAddr(T, t, p, addr) =>
        e = view(l, mem[p][IndexAt(t, p, addr)])
  /\ e.kind # "Empty" => \E p \in T : t[p].lev = l /\ AtAddr(T, t, p, addr)

LEMMA WalkRoot ==
  ASSUME NEW T, NEW mem, NEW t, Tree(T, mem, t), NEW addr \in Nat, addr < MAX_BASE
  PROVE  MetAt(T, mem, t, addr, 0, read_entry(mem, cr3, 0, index_bits(0, addr)))
<1>1. cr3 \in T /\ t[cr3].lev = 0 /\ t[cr3].start = 0
  BY DEF Tree
<1>2. AtAddr(T, t, cr3, addr)
  BY <1>1, RootCovers DEF AtAddr
<1>3. index_bits(0, addr) = IndexAt(t, cr3, addr)
  BY <1>1, <1>2, IndexBits
<1>4. \A p \in T : t[p].lev = 0 => p = cr3
  BY LevelOfParent
<1> QED
  BY <1>1, <1>2, <1>3, <1>4 DEF MetAt, read_entry, spec_read

LEMMA WalkNext ==
  ASSUME NEW T, NEW mem, NEW t, Tree(T, mem, t), NEW addr \in Nat, NEW l \in 0 .. 2, NEW e,
         MetAt(T, mem, t, addr, l, e)
  PROVE  MetAt(T, mem, t, addr, l + 1, next_entry(mem, e, l + 1, addr))
<1> DEFINE f == next_entry(mem, e, l + 1, addr)
<1>1. ASSUME NEW d \in T, t[d].lev = l + 1, AtAddr(T, t, d, addr)
      PROVE  f = view(l + 1, mem[d][IndexAt(t, d, addr)])
  <2> DEFINE p == t[d].par
             w == mem[p][t[d].slot]
  <2>1. d # cr3 /\ p \in T /\ t[p].lev = l
    BY <1>1, LevelOfParent
  <2>2. AtAddr(T, t, p, addr) /\ IndexAt(t, p, addr) = t[d].slot
    BY <1>1, <2>1, ParentAt
  <2>3. t[d].slot \in EntryIndex /\ links(l, w) /\ address(w) = d
    BY <2>1, ChildOfParent
  <2>4. e = view(l, w)
    BY <2>1, <2>2 DEF MetAt
  <2>5. ViewFits(l, w)
    BY <2>1, <2>3, ViewOfWord
  <2> HIDE DEF w
  <2>6. e.kind = "Directory" /\ e.addr = d
    BY <2>3, <2>4, <2>5 DEF ViewFits, ViewOf
  <2>7. index_bits(l + 1, addr) = IndexAt(t, d, addr)
    BY <1>1, IndexBits
  <2> QED
    BY <2>6, <2>7 DEF next_entry, read_entry, spec_read
<1>2. ASSUME f.kind # "Empty"
      PROVE  \E d \in T : t[d].lev = l + 1 /\ AtAddr(T, t, d, addr)
  <2>1. e.kind = "Directory"
    BY <1>2 DEF next_entry
  <2>2. PICK p \in T : t[p].lev = l /\ AtAddr(T, t, p, addr)
    BY <2>1 DEF MetAt
  <2> DEFINE i == IndexAt(t, p, addr)
  <2>3. e = view(l, mem[p][i]) /\ i \in EntryIndex
    BY <2>2, EntryAt DEF MetAt
  <2>4. ViewFits(l, mem[p][i])
    BY <2>2, <2>3, ViewOfWord
  <2>5. links(t[p].lev, mem[p][i])
    BY <2>1, <2>2, <2>3, <2>4 DEF ViewFits
  <2> DEFINE d == address(mem[p][i])
  <2>6. AtAddr(T, t, d, addr) /\ d \in T \ {cr3} /\ t[d].par = p
    BY <2>2, <2>5, ChildAt
  <2>7. t[d].lev = l + 1
    BY <2>2, <2>6, LevelOfParent
  <2> QED
    BY <2>6, <2>7
<1> QED
  BY <1>1, <1>2 DEF MetAt

LEMMA WalkAll ==
  ASSUME NEW T, NEW mem, NEW t, Tree(T, mem, t), NEW addr \in Nat, addr < MAX_BASE
  PROVE  \A l \in Layer : MetAt(T, mem, t, addr, l, walk_entries(mem, addr)[l + 1])
<1> DEFINE e0 == read_entry(mem, cr3, 0, index_bits(0, addr))
           e1 == next_entry(mem, e0, 1, addr)
           e2 == next_entry(mem, e1, 2, addr)
           e3 == next_entry(mem, e2, 3, addr)
<1>1. walk_entries(mem, addr) = <<e0, e1, e2, e3>>
  BY DEF walk_entries
<1>2. MetAt(T, mem, t, addr, 0, e0)
  BY WalkRoot
<1> HIDE DEF e0
<1>3. MetAt(T, mem, t, addr, 1, e1)
  BY <1>2, WalkNext
<1> HIDE DEF e1
<1>4. MetAt(T, mem, t, addr, 2, e2)
  BY <1>3, WalkNext
<1> HIDE DEF e2
<1>5. MetAt(T, mem, t, addr, 3, e3)
  BY <1>4, WalkNext
<1> HIDE DEF e3
<1>6. /\ walk_entries(mem, addr)[0 + 1] = e0 /\ walk_entries(mem, addr)[1 + 1] = e1
      /\ walk_entries(mem, addr)[2 + 1] = e2 /\ walk_entries(mem, addr)[3 + 1] = e3
  BY <1>1
<1> QED
  BY <1>2, <1>3, <1>4, <1>5, <1>6 DEF Layer
-----------------------------------------------------------------------------
(* The pages of the tree. *)

BaseAt(t, p, i) == entry_base(t[p].lev, t[p].start, i)

Leaf(T, mem, t, p, i) ==
  p \in T /\ i \in EntryIndex /\ mem[p][i].P /\ is_page(t[p].lev, mem[p][i])

PteOf(l, word) ==
  [frame |-> Region(MASK_PG_ADDR(l, word.addr), entry_size(l)),
   flags |-> [is_writable |-> word.RW, is_supervisor |-> ~word.US, disable_execute |-> word.XD]]

(* A leaf maps the page that begins at addr with the entry pte. *)
Translates(T, mem, t, addr, pte) ==
  \E p \in T, i \in EntryIndex :
    /\ Leaf(T, mem, t, p, i)
    /\ addr = BaseAt(t, p, i)
    /\ pte = PteOf(t[p].lev, mem[p][i])

LEMMA LeafLayer ==
  ASSUME NEW T, NEW mem, NEW t, Tree(T, mem, t), NEW p, NEW i, Leaf(T, mem, t, p, i)
  PROVE  t[p].lev \in 1 .. 3 /\ mem[p][i] \in Word
<1>1. t[p].lev \in 0 .. 3 /\ p \in PageRegions /\ i \in EntryIndex
  BY TreeType DEF Leaf, Layer
<1>2. t[p].lev # 0
  BY DEF Leaf, is_page
<1>3. mem \in [PageRegions -> [EntryIndex -> Word]]
  BY DEF Tree, Memory
<1> QED
  BY <1>1, <1>2, <1>3

LEMMA BaseMultiple ==
  ASSUME NEW T, NEW mem, NEW t, Tree(T, mem, t), NEW p \in T, NEW i \in EntryIndex
  PROVE  /\ BaseAt(t, p, i) \in Nat
         /\ \E m \in Nat : BaseAt(t, p, i) = m * entry_size(t[p].lev)
<1> DEFINE n == X86_NUM_ENTRIES
           s == entry_size(t[p].lev)
<1>1. t[p].lev \in Layer /\ t[p].start \in Nat
  BY TreeType
<1>2. PICK k \in Nat : t[p].start = k * (n * s)
  BY StartAligned
<1>3. n \in Nat /\ s \in Nat /\ i \in Nat
  BY <1>1, Sizes DEF EntryIndex
<1>4. BaseAt(t, p, i) = t[p].start + i * s
  BY DEF BaseAt, entry_base
<1> HIDE DEF n, s
<1>5. k * (n * s) + i * s = (k * n + i) * s
  BY <1>2, <1>3
<1>6. k * n \in Nat /\ k * n + i \in Nat
  BY <1>3, ProductType
<1>7. BaseAt(t, p, i) = (k * n + i) * s /\ (k * n + i) * s \in Nat
  BY <1>2, <1>3, <1>4, <1>5, <1>6, ProductType
<1> QED
  BY <1>6, <1>7 DEF s

LEMMA SizesAligned ==
  ASSUME NEW l \in Layer
  PROVE  \E m \in Nat : entry_size(l) = m * PAGE_SIZE
<1> DEFINE n == X86_NUM_ENTRIES
           g == PAGE_SIZE
<1>1. n \in Nat /\ g \in Nat
  BY ArchAssumption
<1>2. /\ entry_size(3) = g /\ entry_size(2) = n * g
      /\ entry_size(1) = n * (n * g) /\ entry_size(0) = n * (n * (n * g))
  BY Sizes
<1> HIDE DEF n, g
<1>3. /\ g = 1 * g
      /\ n * (n * g) = (n * n) * g
      /\ n * (n * (n * g)) = (n * (n * n)) * g
  BY <1>1
<1>4. n * n \in Nat /\ n * (n * n) \in Nat
  BY <1>1, ProductType
<1>5. CASE l = 0
  BY <1>2, <1>3, <1>4, <1>5 DEF g
<1>6. CASE l = 1
  BY <1>2, <1>3, <1>4, <1>6 DEF g
<1>7. CASE l = 2
  BY <1>1, <1>2, <1>3, <1>4, <1>7 DEF g
<1>8. CASE l = 3
  BY <1>2, <1>3, <1>4, <1>8 DEF g
<1> QED
  BY <1>5, <1>6, <1>7, <1>8 DEF Layer

(* A multiple of the page size in the entry is its first address. *)
LEMMA AlignedInEntry ==
  ASSUME NEW T, NEW mem, NEW t, Tree(T, mem, t), NEW p \in T, NEW i \in EntryIndex,
         NEW addr \in Nat, aligned(addr, entry_size(t[p].lev)),
         BaseAt(t, p, i) <= addr, addr < BaseAt(t, p, i) + entry_size(t[p].lev)
  PROVE  addr = BaseAt(t, p, i)
<1> DEFINE s == entry_size(t[p].lev)
           b == BaseAt(t, p, i)
<1>1. s \in Nat \ {0}
  BY TreeType, Sizes
<1>2. PICK m \in Nat : b = m * s
  BY BaseMultiple
<1>3. PICK k \in Nat : addr = k * s
  BY <1>1, AlignedIsMultiple
<1> HIDE DEF s, b
<1>4. b <= addr /\ addr < b + s
  BY DEF s, b
<1>5. addr \div s = m
  BY <1>1, <1>2, <1>4, DivUnique
<1>6. addr \div s = k
  BY <1>1, <1>3, DivUnique
<1> QED
  BY <1>2, <1>3, <1>5, <1>6 DEF s, b

LEMMA BaseInEntry ==
  ASSUME NEW T, NEW mem, NEW t, Tree(T, mem, t), NEW p \in T, NEW i \in EntryIndex
  PROVE  /\ BaseAt(t, p, i) \in Nat /\ aligned(BaseAt(t, p, i), entry_size(t[p].lev))
         /\ aligned(BaseAt(t, p, i), PAGE_SIZE)
         /\ AtAddr(T, t, p, BaseAt(t, p, i)) /\ IndexAt(t, p, BaseAt(t, p, i)) = i
         /\ BaseAt(t, p, i) < MAX_BASE
<1> DEFINE s == entry_size(t[p].lev)
           b == BaseAt(t, p, i)
<1>1. s \in Nat \ {0} /\ t[p].lev \in Layer
  BY TreeType, Sizes
<1>2. b \in Nat
  BY BaseMultiple
<1>3. PICK m \in Nat : b = m * s
  BY BaseMultiple
<1>4. PICK k \in Nat : s = k * PAGE_SIZE
  BY <1>1, SizesAligned
<1>5. b <= b /\ b < b + s
  BY <1>1, <1>2
<1>6. AtAddr(T, t, p, b) /\ IndexAt(t, p, b) = i
  BY <1>2, <1>5, AtEntry DEF BaseAt
<1>7. b < MAX_BASE
  BY <1>2, <1>6, AddressBound
<1> HIDE DEF s, b
<1>8. aligned(b, s)
  BY <1>1, <1>2, <1>3, AlignedIsMultiple
<1>9. PAGE_SIZE \in Nat \ {0} /\ m * (k * PAGE_SIZE) = (m * k) * PAGE_SIZE /\ m * k \in Nat
  BY <1>3, <1>4, ArchAssumption, ProductType
<1>10. aligned(b, PAGE_SIZE)
  BY <1>2, <1>3, <1>4, <1>9, AlignedIsMultiple
<1> QED
  BY <1>2, <1>6, <1>7, <1>8, <1>10 DEF s, b

(* One leaf at most is about an address. *)
LEMMA LeafUnique ==
  ASSUME NEW T, NEW mem, NEW t, Tree(T, mem, t), NEW addr \in Nat, NEW p, NEW q,
         AtAddr(T, t, p, addr), Leaf(T, mem, t, p, IndexAt(t, p, addr)),
         AtAddr(T, t, q, addr), Leaf(T, mem, t, q, IndexAt(t, q, addr))
  PROVE  p = q
<1>1. ASSUME NEW d, NEW e,
             AtAddr(T, t, d, addr), Leaf(T, mem, t, d, IndexAt(t, d, addr)),
             AtAddr(T, t, e, addr), t[d].lev < t[e].lev
      PROVE  FALSE
  <2>1. t[d].lev \in Nat
    BY <1>1, LeafLayer
  <2>2. PICK c \in T : /\ t[c].lev = t[d].lev /\ AtAddr(T, t, c, addr)
                       /\ links(t[d].lev, mem[c][IndexAt(t, c, addr)])
    BY <1>1, <2>1, PathAbove
  <2>3. c = d
    BY <1>1, <2>2, AtUnique
  <2> QED
    BY <1>1, <2>2, <2>3 DEF Leaf, links, is_dir
<1>2. t[p].lev \in 1 .. 3 /\ t[q].lev \in 1 .. 3
  BY LeafLayer
<1>3. ~(t[p].lev < t[q].lev) /\ ~(t[q].lev < t[p].lev)
  BY <1>1
<1>4. t[p].lev = t[q].lev
  BY <1>2, <1>3
<1> QED
  BY <1>4, AtUnique
-----------------------------------------------------------------------------
(* What the MMU sees: the pages of the tree, each at its first address. *)

(* The entry the walk meets where there is a leaf, with the flags of the   *)
(* whole path, which the directories above do not restrict.                *)
LEMMA WalkOfLeaf ==
  ASSUME NEW T, NEW mem, NEW t, Tree(T, mem, t), NEW addr \in Nat, NEW p,
         AtAddr(T, t, p, addr), Leaf(T, mem, t, p, IndexAt(t, p, addr))
  PROVE  /\ walk_entries(mem, addr)[t[p].lev + 1].kind = "Page"
         /\ page_of_walk(walk_entries(mem, addr), t[p].lev)
              = PteOf(t[p].lev, mem[p][IndexAt(t, p, addr)])
<1> DEFINE i == IndexAt(t, p, addr)
           l == t[p].lev
           w == mem[p][i]
           path == walk_entries(mem, addr)
<1>1. l \in 1 .. 3 /\ w \in Word /\ p \in T /\ i \in EntryIndex /\ w.P /\ is_page(l, w)
  BY LeafLayer DEF Leaf
<1>2. addr < MAX_BASE
  BY AddressBound
<1>3. \A m \in Layer : MetAt(T, mem, t, addr, m, path[m + 1])
  BY <1>2, WalkAll
<1>4. ViewFits(l, w)
  BY <1>1, ViewOfWord
<1>5. path[l + 1] = view(l, w)
  BY <1>1, <1>3 DEF MetAt, Layer
<1>6. path[l + 1] = ViewOf("Page", MASK_PG_ADDR(l, w.addr), w)
  BY <1>1, <1>4, <1>5 DEF ViewFits
<1>7. ASSUME NEW m \in 1 .. l
      PROVE  path[m].flag_RW = TRUE /\ path[m].flag_US = TRUE /\ path[m].flag_XD = FALSE
  <2> DEFINE k == m - 1
  <2>1. k \in Nat /\ k < l /\ k \in Layer /\ m = k + 1
    BY <1>1 DEF Layer
  <2> HIDE DEF k, i, w, l
  <2>2. PICK c \in T : /\ t[c].lev = k /\ AtAddr(T, t, c, addr)
                       /\ links(k, mem[c][IndexAt(t, c, addr)])
    BY <2>1, PathAbove DEF l
  <2> DEFINE v == mem[c][IndexAt(t, c, addr)]
  <2>3. IndexAt(t, c, addr) \in EntryIndex
    BY <2>2, EntryAt
  <2>4. LinkFits(T, t, c, IndexAt(t, c, addr), v) /\ ViewFits(k, v)
    BY <2>2, <2>3, LinkedChild, ViewOfWord
  <2>5. path[k + 1] = view(k, v)
    BY <1>3, <2>1, <2>2 DEF MetAt
  <2>6. v \in Word
    BY <2>2, <2>3, TreeType DEF Tree, Memory
  <2>7. v.RW = TRUE /\ v.US = TRUE /\ v.XD = FALSE
    BY <2>4, <2>6 DEF LinkFits, Word
  <2> HIDE DEF v
  <2>8. path[k + 1] = ViewOf("Directory", address(v), v)
    BY <2>2, <2>4, <2>5 DEF ViewFits, v
  <2> QED
    BY <2>1, <2>7, <2>8 DEF ViewOf
<1> HIDE DEF path, w, l, i
<1>8. w.RW \in BOOLEAN /\ w.US \in BOOLEAN /\ w.XD \in BOOLEAN
  BY <1>1 DEF Word
<1>9. /\ path[l + 1].kind = "Page" /\ path[l + 1].addr = MASK_PG_ADDR(l, w.addr)
      /\ path[l + 1].flag_RW = w.RW /\ path[l + 1].flag_US = w.US /\ path[l + 1].flag_XD = w.XD
  BY <1>6 DEF ViewOf
<1>10. \A m \in 1 .. l + 1 : m \in 1 .. l \/ m = l + 1
  BY <1>1
<1>11. l + 1 \in 1 .. l + 1 /\ \A m \in 1 .. l : m \in 1 .. l + 1
  BY <1>1
<1>12. (\A m \in 1 .. l + 1 : path[m].flag_RW) = w.RW
  <2>1. CASE w.RW = TRUE
    <3>1. \A m \in 1 .. l + 1 : path[m].flag_RW
      BY <1>7, <1>9, <1>10, <2>1
    <3> QED
      BY <2>1, <3>1
  <2>2. CASE w.RW = FALSE
    <3>1. ~(\A m \in 1 .. l + 1 : path[m].flag_RW)
      BY <1>9, <1>11, <2>2
    <3> QED
      BY <2>2, <3>1
  <2> QED
    BY <1>8, <2>1, <2>2
<1>13. (\E m \in 1 .. l + 1 : ~path[m].flag_US) = ~w.US
  <2>1. CASE w.US = TRUE
    <3>1. ~(\E m \in 1 .. l + 1 : ~path[m].flag_US)
      BY <1>7, <1>9, <1>10, <2>1
    <3> QED
      BY <2>1, <3>1
  <2>2. CASE w.US = FALSE
    <3>1. \E m \in 1 .. l + 1 : ~path[m].flag_US
      BY <1>9, <1>11, <2>2
    <3> QED
      BY <2>2, <3>1
  <2> QED
    BY <1>8, <2>1, <2>2
<1>14. (\E m \in 1 .. l + 1 : path[m].flag_XD) = w.XD
  <2>1. CASE w.XD = TRUE
    <3>1. \E m \in 1 .. l + 1 : path[m].flag_XD
      BY <1>9, <1>11, <2>1
    <3> QED
      BY <2>1, <3>1
  <2>2. CASE w.XD = FALSE
    <3>1. ~(\E m \in 1 .. l + 1 : path[m].flag_XD)
      BY <1>7, <1>9, <1>10, <2>2
    <3> QED
      BY <2>2, <3>1
  <2> QED
    BY <1>8, <2>1, <2>2
<1>15. page_of_walk(path, l) = PteOf(l, w)
  BY <1>9, <1>12, <1>13, <1>14 DEF page_of_walk, PteOf
<1> QED
  BY <1>9, <1>15 DEF path, w, l, i

(* The walk of an address finds the page that begins there, if any.        *)
LEMMA WalkFinds ==
  ASSUME NEW T, NEW mem, NEW t, Tree(T, mem, t), NEW addr \in Nat, addr < MAX_BASE, NEW pte
  PROVE  pte \in valid_pt_walks(mem, addr) <=> Translates(T, mem, t, addr, pte)
<1> DEFINE path == walk_entries(mem, addr)
<1>1. pte \in valid_pt_walks(mem, addr)
        <=> \E l \in 1 .. 3 : /\ path[l + 1].kind = "Page" /\ aligned(addr, entry_size(l))
                              /\ pte = page_of_walk(path, l)
  BY DEF valid_pt_walks
<1>2. ASSUME NEW l \in 1 .. 3, path[l + 1].kind = "Page", aligned(addr, entry_size(l)),
             pte = page_of_walk(path, l)
      PROVE  Translates(T, mem, t, addr, pte)
  <2>1. MetAt(T, mem, t, addr, l, path[l + 1])
    BY WalkAll DEF Layer
  <2>2. PICK p \in T : t[p].lev = l /\ AtAddr(T, t, p, addr)
    BY <1>2, <2>1 DEF MetAt
  <2> DEFINE i == IndexAt(t, p, addr)
  <2>3. /\ i \in EntryIndex
        /\ BaseAt(t, p, i) <= addr /\ addr < BaseAt(t, p, i) + entry_size(l)
    BY <2>2, EntryAt DEF BaseAt
  <2>4. path[l + 1] = view(l, mem[p][i])
    BY <2>1, <2>2 DEF MetAt
  <2>5. ViewFits(l, mem[p][i])
    BY <2>2, <2>3, ViewOfWord
  <2>6. mem[p][i].P /\ is_page(l, mem[p][i])
    BY <1>2, <2>4, <2>5 DEF ViewFits
  <2>7. Leaf(T, mem, t, p, i)
    BY <2>2, <2>3, <2>6 DEF Leaf
  <2>8. addr = BaseAt(t, p, i)
    BY <1>2, <2>2, <2>3, AlignedInEntry
  <2>9. pte = PteOf(l, mem[p][i])
    BY <1>2, <2>2, <2>7, WalkOfLeaf
  <2> QED
    BY <2>2, <2>3, <2>7, <2>8, <2>9 DEF Translates
<1>3. ASSUME Translates(T, mem, t, addr, pte)
      PROVE  \E l \in 1 .. 3 : /\ path[l + 1].kind = "Page" /\ aligned(addr, entry_size(l))
                               /\ pte = page_of_walk(path, l)
  <2>1. PICK p \in T, i \in EntryIndex :
          /\ Leaf(T, mem, t, p, i) /\ addr = BaseAt(t, p, i) /\ pte = PteOf(t[p].lev, mem[p][i])
    BY <1>3 DEF Translates
  <2>2. /\ AtAddr(T, t, p, addr) /\ IndexAt(t, p, addr) = i
        /\ aligned(addr, entry_size(t[p].lev))
    BY <2>1, BaseInEntry
  <2>3. t[p].lev \in 1 .. 3
    BY <2>1, LeafLayer
  <2>4. path[t[p].lev + 1].kind = "Page" /\ page_of_walk(path, t[p].lev) = PteOf(t[p].lev, mem[p][i])
    BY <2>1, <2>2, WalkOfLeaf
  <2> QED
    BY <2>1, <2>2, <2>3, <2>4
<1> QED
  BY <1>1, <1>2, <1>3

(* f is the map of the pages of the tree. *)
Shows(f, T, mem, t) ==
  /\ f = [addr \in DOMAIN f |-> f[addr]]
  /\ \A addr, pte : Translates(T, mem, t, addr, pte) <=> addr \in DOMAIN f /\ f[addr] = pte

LEMMA TranslatesOnce ==
  ASSUME NEW T, NEW mem, NEW t, Tree(T, mem, t), NEW addr, NEW pte1, NEW pte2,
         Translates(T, mem, t, addr, pte1), Translates(T, mem, t, addr, pte2)
  PROVE  /\ addr \in Nat /\ addr < MAX_BASE /\ aligned(addr, PAGE_SIZE)
         /\ pte1 = pte2
<1>1. PICK p \in T, i \in EntryIndex :
        Leaf(T, mem, t, p, i) /\ addr = BaseAt(t, p, i) /\ pte1 = PteOf(t[p].lev, mem[p][i])
  BY DEF Translates
<1>2. PICK q \in T, j \in EntryIndex :
        Leaf(T, mem, t, q, j) /\ addr = BaseAt(t, q, j) /\ pte2 = PteOf(t[q].lev, mem[q][j])
  BY DEF Translates
<1>3. /\ addr \in Nat /\ addr < MAX_BASE /\ aligned(addr, PAGE_SIZE)
      /\ AtAddr(T, t, p, addr) /\ IndexAt(t, p, addr) = i
  BY <1>1, BaseInEntry
<1>4. AtAddr(T, t, q, addr) /\ IndexAt(t, q, addr) = j
  BY <1>2, BaseInEntry
<1>5. p = q
  BY <1>1, <1>2, <1>3, <1>4, LeafUnique
<1> QED
  BY <1>1, <1>2, <1>3, <1>4, <1>5

LEMMA InterpShows ==
  ASSUME NEW T, NEW mem, NEW t, Tree(T, mem, t)
  PROVE  Shows(interp_pt_mem(mem), T, mem, t)
<1> DEFINE A == {a \in 0 .. MAX_BASE - 1 : aligned(a, PAGE_SIZE)}
           walks == UNION {{<<addr, pte>> : pte \in valid_pt_walks(mem, addr)} : addr \in A}
           f == interp_pt_mem(mem)
<1>1. f = [addr \in {w[1] : w \in walks} |-> (CHOOSE w \in walks : w[1] = addr)[2]]
  BY DEF interp_pt_mem
<1>2. \A addr, pte : <<addr, pte>> \in walks <=> addr \in A /\ pte \in valid_pt_walks(mem, addr)
  OBVIOUS
<1>3. \A w \in walks : w = <<w[1], w[2]>>
  OBVIOUS
<1>4. \A addr \in A : addr \in Nat /\ addr < MAX_BASE
  <2>1. MAX_BASE \in Nat
    BY Sizes, ProductType DEF MAX_BASE, L0_ENTRY_SIZE, entry_size, Layer
  <2> QED
    BY <2>1
<1>5. \A addr, pte : Translates(T, mem, t, addr, pte) => addr \in A
  <2>1. MAX_BASE \in Nat
    BY Sizes, ProductType DEF MAX_BASE, L0_ENTRY_SIZE, entry_size, Layer
  <2> QED
    BY <2>1, TranslatesOnce
<1> HIDE DEF A, walks
<1>6. \A addr, pte : <<addr, pte>> \in walks <=> Translates(T, mem, t, addr, pte)
  BY <1>2, <1>4, <1>5, WalkFinds
<1>7. DOMAIN f = {w[1] : w \in walks}
  BY <1>1
<1>8. f = [addr \in DOMAIN f |-> f[addr]]
  BY <1>1
<1> HIDE DEF f
<1>9. ASSUME NEW addr, NEW pte, Translates(T, mem, t, addr, pte)
      PROVE  addr \in DOMAIN f /\ f[addr] = pte
  <2>1. <<addr, pte>> \in walks /\ <<addr, pte>>[1] = addr
    BY <1>6, <1>9
  <2>2. addr \in DOMAIN f
    BY <1>7, <2>1
  <2> DEFINE u == CHOOSE w \in walks : w[1] = addr
  <2>3. u \in walks /\ u[1] = addr
    BY <2>1
  <2>4. f[addr] = u[2]
    BY <1>1, <1>7, <2>2
  <2> HIDE DEF u
  <2>5. Translates(T, mem, t, addr, u[2])
    BY <1>3, <1>6, <2>3
  <2> QED
    BY <1>9, <2>2, <2>4, <2>5, TranslatesOnce
<1>10. ASSUME NEW addr \in DOMAIN f PROVE Translates(T, mem, t, addr, f[addr])
  <2>1. PICK w \in walks : w[1] = addr
    BY <1>7
  <2>2. Translates(T, mem, t, addr, w[2])
    BY <1>3, <1>6, <2>1
  <2> QED
    BY <1>9, <2>2
<1> QED
  BY <1>8, <1>9, <1>10 DEF Shows, f

(* The map is determined by the pages. *)
LEMMA ShowsOne ==
  ASSUME NEW f, NEW T, NEW mem, NEW t, Shows(f, T, mem, t),
         NEW g, g = [addr \in DOMAIN g |-> g[addr]],
         \A addr, pte : Translates(T, mem, t, addr, pte) <=> addr \in DOMAIN g /\ g[addr] = pte
  PROVE  f = g
<1>1. f = [addr \in DOMAIN f |-> f[addr]]
  BY DEF Shows
<1>2. \A addr, pte : addr \in DOMAIN f /\ f[addr] = pte <=> addr \in DOMAIN g /\ g[addr] = pte
  BY DEF Shows
<1>3. \A addr : addr \in DOMAIN f <=> addr \in DOMAIN g
  BY <1>2
<1>4. DOMAIN f = DOMAIN g
  BY <1>3
<1>5. \A addr \in DOMAIN f : f[addr] = g[addr]
  BY <1>2
<1>6. [addr \in DOMAIN f |-> f[addr]] = [addr \in DOMAIN g |-> g[addr]]
  BY <1>4, <1>5
<1> QED
  BY <1>1, <1>6
-----------------------------------------------------------------------------
(* Which pages there are after a change of the memory. *)

LEMMA InterpSame ==
  ASSUME NEW T1, NEW m1, NEW t1, Tree(T1, m1, t1), NEW T2, NEW m2, NEW t2, Tree(T2, m2, t2),
         \A addr, pte : Translates(T1, m1, t1, addr, pte) <=> Translates(T2, m2, t2, addr, pte)
  PROVE  interp_pt_mem(m1) = interp_pt_mem(m2)
<1>1. Shows(interp_pt_mem(m1), T1, m1, t1) /\ Shows(interp_pt_mem(m2), T2, m2, t2)
  BY InterpShows
<1> DEFINE f == interp_pt_mem(m1)
           g == interp_pt_mem(m2)
<1> HIDE DEF f, g
<1>2. Shows(f, T1, m1, t1) /\ Shows(g, T2, m2, t2)
  BY <1>1 DEF f, g
<1>3. /\ g = [addr \in DOMAIN g |-> g[addr]]
      /\ \A addr, pte : Translates(T1, m1, t1, addr, pte) <=> addr \in DOMAIN g /\ g[addr] = pte
  BY <1>2 DEF Shows
<1>4. f = g
  BY <1>2, <1>3, ShowsOne
<1> QED
  BY <1>4 DEF f, g

(* The same leaves in both trees. *)
LEMMA SameLeaves ==
  ASSUME NEW T1, NEW m1, NEW t1, NEW T2, NEW m2, NEW t2,
         \A p, i : Leaf(T1, m1, t1, p, i) => Leaf(T2, m2, t2, p, i) /\ m1[p][i] = m2[p][i] /\ t1[p] = t2[p],
         NEW addr, NEW pte, Translates(T1, m1, t1, addr, pte)
  PROVE  Translates(T2, m2, t2, addr, pte)
<1>1. PICK p \in T1, i \in EntryIndex :
        Leaf(T1, m1, t1, p, i) /\ addr = BaseAt(t1, p, i) /\ pte = PteOf(t1[p].lev, m1[p][i])
  BY DEF Translates
<1>2. Leaf(T2, m2, t2, p, i) /\ m1[p][i] = m2[p][i] /\ t1[p] = t2[p]
  BY <1>1
<1>3. p \in T2 /\ addr = BaseAt(t2, p, i) /\ pte = PteOf(t2[p].lev, m2[p][i])
  BY <1>1, <1>2 DEF Leaf, BaseAt
<1> QED
  BY <1>1, <1>2, <1>3 DEF Translates

(* m is the memory mem with the word w at index i of p. *)
Changed(mem, m, p, i, w) ==
  /\ m \in Memory
  /\ \A q \in PageRegions : \A j \in EntryIndex : m[q][j] = IF q = p /\ j = i THEN w ELSE mem[q][j]

LEMMA WriteChanges ==
  ASSUME TreeInv, NEW p \in PageRegions, NEW i \in EntryIndex, NEW w \in Word,
         region_view' = [region_view EXCEPT ![p][i] = w]
  PROVE  Changed(region_view, region_view', p, i, w)
<1>2. PICK mem \in Memory : mem = region_view
  BY MemoryType
<1>3. /\ [mem EXCEPT ![p][i] = w] \in Memory
      /\ \A q \in PageRegions : \A j \in EntryIndex :
           [mem EXCEPT ![p][i] = w][q][j] = IF q = p /\ j = i THEN w ELSE mem[q][j]
  BY Written
<1>4. region_view' = [mem EXCEPT ![p][i] = w]
  BY <1>2
<1> QED
  BY <1>2, <1>3, <1>4 DEF Changed

LEMMA InterpOutside ==
  ASSUME NEW T, NEW mem, NEW t, Tree(T, mem, t), NEW m \in Memory, \A p \in T : m[p] = mem[p]
  PROVE  interp_pt_mem(m) = interp_pt_mem(mem)
<1>1. Tree(T, m, t)
  BY ChangeOutside
<1>2. \A p, i : /\ Leaf(T, mem, t, p, i) => Leaf(T, m, t, p, i) /\ mem[p][i] = m[p][i] /\ t[p] = t[p]
                /\ Leaf(T, m, t, p, i) => Leaf(T, mem, t, p, i) /\ m[p][i] = mem[p][i] /\ t[p] = t[p]
  BY DEF Leaf
<1>3. \A addr, pte : Translates(T, m, t, addr, pte) <=> Translates(T, mem, t, addr, pte)
  BY <1>2, SameLeaves
<1> QED
  BY <1>1, <1>3, InterpSame

LEMMA InterpAddChild ==
  ASSUME NEW T, NEW mem, NEW t, Tree(T, mem, t),
         NEW p \in T, NEW i \in EntryIndex, ~mem[p][i].P, t[p].lev < 3,
         NEW d \in PageRegions \ T, Empty(mem, d),
         NEW w \in Word, w.P, is_dir(t[p].lev, w), all_mb0_bits_are_zero(t[p].lev, w),
         w.RW, w.US, ~w.XD, address(w) = d
  PROVE  interp_pt_mem([mem EXCEPT ![p][i] = w]) = interp_pt_mem(mem)
<1> DEFINE m == [mem EXCEPT ![p][i] = w]
           u == [t EXCEPT ![d] = Child(t, p, i)]
           U == T \cup {d}
<1>1. Tree(U, m, u)
  BY AddChild
<1>2. T \subseteq PageRegions /\ p \in PageRegions /\ mem \in Memory /\ t \in [PageRegions -> Node]
  BY DEF Tree
<1>3. /\ m \in Memory
      /\ \A q \in PageRegions : \A j \in EntryIndex : m[q][j] = IF q = p /\ j = i THEN w ELSE mem[q][j]
  BY <1>2, Written
<1>4. \A q \in T : u[q] = t[q]
  BY <1>2
<1> HIDE DEF m, u
<1>5. ASSUME NEW q, NEW j, Leaf(T, mem, t, q, j)
      PROVE  Leaf(U, m, u, q, j) /\ mem[q][j] = m[q][j] /\ t[q] = u[q]
  BY <1>2, <1>3, <1>4, <1>5 DEF Leaf
<1>6. ASSUME NEW q, NEW j, Leaf(U, m, u, q, j)
      PROVE  Leaf(T, mem, t, q, j) /\ m[q][j] = mem[q][j] /\ u[q] = t[q]
  <2>1. q \in U /\ j \in EntryIndex /\ m[q][j].P /\ is_page(u[q].lev, m[q][j])
    BY <1>6 DEF Leaf
  <2>2. q # d
    BY <1>3, <2>1 DEF Empty
  <2>3. q \in T /\ u[q] = t[q] /\ q \in PageRegions
    BY <1>2, <1>4, <2>1, <2>2
  <2>4. ~(q = p /\ j = i)
    BY <1>3, <2>1, <2>3 DEF is_dir
  <2> QED
    BY <1>3, <2>1, <2>3, <2>4 DEF Leaf
<1>7. \A addr, pte : Translates(U, m, u, addr, pte) <=> Translates(T, mem, t, addr, pte)
  BY <1>5, <1>6, SameLeaves
<1>8. interp_pt_mem(m) = interp_pt_mem(mem)
  BY <1>1, <1>7, InterpSame
<1> QED
  BY <1>8 DEF m

LEMMA InterpRemoveChild ==
  ASSUME NEW T, NEW mem, NEW t, Tree(T, mem, t), NEW d \in T \ {cr3}, Empty(mem, d),
         NEW p, p = t[d].par, NEW i, i = t[d].slot,
         NEW m, Changed(mem, m, p, i, zero_entry), Tree(T \ {d}, m, t)
  PROVE  interp_pt_mem(m) = interp_pt_mem(mem)
<1> DEFINE U == T \ {d}
<1>1. Tree(U, m, t)
  OBVIOUS
<1>2. /\ T \subseteq PageRegions /\ mem \in Memory /\ p \in T /\ p \in PageRegions
      /\ i \in EntryIndex
      /\ links(t[p].lev, mem[p][i])
  BY ChildOfParent DEF Tree
<1>3. zero_entry \in Word /\ ~zero_entry.P
  BY DEF zero_entry, Word
<1>4. \A q \in PageRegions : \A j \in EntryIndex : m[q][j] = IF q = p /\ j = i THEN zero_entry ELSE mem[q][j]
  BY DEF Changed
<1> HIDE DEF U
<1>5. ASSUME NEW q, NEW j, Leaf(T, mem, t, q, j)
      PROVE  Leaf(U, m, t, q, j) /\ mem[q][j] = m[q][j] /\ t[q] = t[q]
  <2>1. q \in T /\ q \in PageRegions /\ j \in EntryIndex /\ mem[q][j].P /\ is_page(t[q].lev, mem[q][j])
    BY <1>2, <1>5 DEF Leaf
  <2>2. q # d
    BY <2>1 DEF Empty
  <2>3. ~(q = p /\ j = i)
    BY <1>2, <2>1 DEF links, is_dir
  <2> QED
    BY <1>4, <2>1, <2>2, <2>3 DEF Leaf, U
<1>6. ASSUME NEW q, NEW j, Leaf(U, m, t, q, j)
      PROVE  Leaf(T, mem, t, q, j) /\ m[q][j] = mem[q][j] /\ t[q] = t[q]
  BY <1>2, <1>3, <1>4, <1>6 DEF Leaf, U
<1>7. \A addr, pte : Translates(U, m, t, addr, pte) <=> Translates(T, mem, t, addr, pte)
  BY <1>5, <1>6, SameLeaves
<1> QED
  BY <1>1, <1>7, InterpSame

(* A page is written where there was nothing. *)
LEMMA InterpAddLeaf ==
  ASSUME NEW T, NEW mem, NEW t, Tree(T, mem, t),
         NEW p \in T, NEW i \in EntryIndex, ~mem[p][i].P,
         NEW w \in Word, w.P, is_page(t[p].lev, w), LeafFits(t[p].lev, w),
         NEW m, Changed(mem, m, p, i, w), Tree(T, m, t)
  PROVE  /\ interp_pt_mem(m) = Insert(interp_pt_mem(mem), BaseAt(t, p, i), PteOf(t[p].lev, w))
         /\ \A q, j : Leaf(T, mem, t, q, j) => Leaf(T, m, t, q, j) /\ ~(q = p /\ j = i)
         /\ Leaf(T, m, t, p, i)
<1> DEFINE f == interp_pt_mem(mem)
           b == BaseAt(t, p, i)
           e == PteOf(t[p].lev, w)
           g == Insert(f, b, e)
<1>2. Tree(T, m, t)
  OBVIOUS
<1>3. T \subseteq PageRegions /\ p \in PageRegions /\ mem \in Memory
  BY DEF Tree
<1>4. \A q \in PageRegions : \A j \in EntryIndex : m[q][j] = IF q = p /\ j = i THEN w ELSE mem[q][j]
  BY DEF Changed
<1>5. Shows(f, T, mem, t) /\ Shows(interp_pt_mem(m), T, m, t)
  BY <1>2, InterpShows
<1> HIDE DEF f, b, e
<1>6. Leaf(T, m, t, p, i)
  BY <1>3, <1>4 DEF Leaf
<1>7. ASSUME NEW q, NEW j, Leaf(T, mem, t, q, j) PROVE Leaf(T, m, t, q, j) /\ m[q][j] = mem[q][j] /\ ~(q = p /\ j = i)
  BY <1>3, <1>4, <1>7 DEF Leaf
<1>8. ASSUME NEW q, NEW j, Leaf(T, m, t, q, j), ~(q = p /\ j = i)
      PROVE  Leaf(T, mem, t, q, j) /\ m[q][j] = mem[q][j]
  BY <1>3, <1>4, <1>8 DEF Leaf
<1>9. m[p][i] = w
  BY <1>3, <1>4
<1>10. ASSUME NEW addr, NEW pte
       PROVE  Translates(T, m, t, addr, pte)
                <=> Translates(T, mem, t, addr, pte) \/ (addr = b /\ pte = e)
  <2>1. ASSUME Translates(T, mem, t, addr, pte) PROVE Translates(T, m, t, addr, pte)
    BY <1>7, <2>1 DEF Translates
  <2>2. ASSUME addr = b, pte = e PROVE Translates(T, m, t, addr, pte)
    BY <1>6, <1>9, <2>2 DEF Translates, b, e
  <2>3. ASSUME Translates(T, m, t, addr, pte), ~(addr = b /\ pte = e)
        PROVE  Translates(T, mem, t, addr, pte)
    <3>1. PICK q \in T, j \in EntryIndex :
            Leaf(T, m, t, q, j) /\ addr = BaseAt(t, q, j) /\ pte = PteOf(t[q].lev, m[q][j])
      BY <2>3 DEF Translates
    <3>2. ~(q = p /\ j = i)
      BY <1>9, <2>3, <3>1 DEF b, e
    <3> QED
      BY <1>8, <3>1, <3>2 DEF Translates
  <2> QED
    BY <2>1, <2>2, <2>3
<1>11. \A pte : ~Translates(T, mem, t, b, pte)
  <2> SUFFICES ASSUME NEW pte, Translates(T, mem, t, b, pte) PROVE FALSE
    OBVIOUS
  <2>1. PICK q \in T, j \in EntryIndex : Leaf(T, mem, t, q, j) /\ b = BaseAt(t, q, j)
    BY DEF Translates
  <2>2. b \in Nat /\ AtAddr(T, t, p, b) /\ IndexAt(t, p, b) = i
    BY <1>2, BaseInEntry DEF b
  <2>3. AtAddr(T, t, q, b) /\ IndexAt(t, q, b) = j
    BY <1>2, <2>1, BaseInEntry
  <2>4. p = q
    BY <1>2, <1>6, <1>7, <2>1, <2>2, <2>3, LeafUnique
  <2> QED
    BY <1>7, <2>1, <2>2, <2>3, <2>4
<1>12. \A addr, pte : Translates(T, mem, t, addr, pte) <=> addr \in DOMAIN f /\ f[addr] = pte
  BY <1>5 DEF Shows
<1>13. g = [k \in DOMAIN f \cup {b} |-> IF k = b THEN e ELSE f[k]]
  BY DEF Insert
<1>14. g = [k \in DOMAIN g |-> g[k]]
  BY <1>13
<1>15. \A addr : addr \in DOMAIN g <=> addr \in DOMAIN f \/ addr = b
  BY <1>13
<1>16. \A addr \in DOMAIN g : g[addr] = IF addr = b THEN e ELSE f[addr]
  BY <1>13
<1> HIDE DEF g
<1>17. \A addr, pte : Translates(T, m, t, addr, pte) <=> addr \in DOMAIN g /\ g[addr] = pte
  BY <1>10, <1>11, <1>12, <1>15, <1>16
<1>18. interp_pt_mem(m) = g
  BY <1>5, <1>14, <1>17, ShowsOne
<1> QED
  BY <1>6, <1>7, <1>18 DEF g, f, b, e

(* A page is taken out. *)
LEMMA InterpRemoveLeaf ==
  ASSUME NEW T, NEW mem, NEW t, Tree(T, mem, t), NEW p, NEW i, Leaf(T, mem, t, p, i),
         NEW m, Changed(mem, m, p, i, zero_entry), Tree(T, m, t)
  PROVE  /\ interp_pt_mem(m) = Remove(interp_pt_mem(mem), BaseAt(t, p, i))
         /\ BaseAt(t, p, i) \in DOMAIN interp_pt_mem(mem)
<1> DEFINE f == interp_pt_mem(mem)
           b == BaseAt(t, p, i)
           g == Remove(f, b)
<1>1. zero_entry \in Word /\ ~zero_entry.P
  BY DEF zero_entry, Word
<1>2. p \in T /\ i \in EntryIndex
  BY DEF Leaf
<1>3. Tree(T, m, t)
  OBVIOUS
<1>4. T \subseteq PageRegions /\ p \in PageRegions /\ mem \in Memory
  BY <1>2 DEF Tree
<1>5. \A q \in PageRegions : \A j \in EntryIndex : m[q][j] = IF q = p /\ j = i THEN zero_entry ELSE mem[q][j]
  BY DEF Changed
<1>6. Shows(f, T, mem, t) /\ Shows(interp_pt_mem(m), T, m, t)
  BY <1>3, InterpShows
<1> HIDE DEF f, b
<1>7. ASSUME NEW q, NEW j, Leaf(T, mem, t, q, j), ~(q = p /\ j = i)
      PROVE  Leaf(T, m, t, q, j) /\ m[q][j] = mem[q][j]
  BY <1>4, <1>5, <1>7 DEF Leaf
<1>8. ASSUME NEW q, NEW j, Leaf(T, m, t, q, j)
      PROVE  Leaf(T, mem, t, q, j) /\ m[q][j] = mem[q][j] /\ ~(q = p /\ j = i)
  BY <1>1, <1>4, <1>5, <1>8 DEF Leaf
<1>9. ASSUME NEW q, NEW j, Leaf(T, mem, t, q, j), BaseAt(t, q, j) = b
      PROVE  q = p /\ j = i
  <2>1. b \in Nat /\ AtAddr(T, t, p, b) /\ IndexAt(t, p, b) = i
    BY <1>2, BaseInEntry DEF b
  <2>2. q \in T /\ j \in EntryIndex
    BY <1>9 DEF Leaf
  <2>3. AtAddr(T, t, q, b) /\ IndexAt(t, q, b) = j
    BY <1>9, <2>2, BaseInEntry
  <2>4. q = p
    BY <1>9, <2>1, <2>3, LeafUnique
  <2> QED
    BY <2>1, <2>3, <2>4
<1>10. ASSUME NEW addr, NEW pte
       PROVE  Translates(T, m, t, addr, pte) <=> Translates(T, mem, t, addr, pte) /\ addr # b
  <2>1. ASSUME Translates(T, m, t, addr, pte) PROVE Translates(T, mem, t, addr, pte) /\ addr # b
    <3>1. PICK q \in T, j \in EntryIndex :
            Leaf(T, m, t, q, j) /\ addr = BaseAt(t, q, j) /\ pte = PteOf(t[q].lev, m[q][j])
      BY <2>1 DEF Translates
    <3>2. Leaf(T, mem, t, q, j) /\ m[q][j] = mem[q][j] /\ ~(q = p /\ j = i)
      BY <1>8, <3>1
    <3>3. addr # b
      BY <1>9, <3>1, <3>2
    <3> QED
      BY <3>1, <3>2, <3>3 DEF Translates
  <2>2. ASSUME Translates(T, mem, t, addr, pte), addr # b PROVE Translates(T, m, t, addr, pte)
    <3>1. PICK q \in T, j \in EntryIndex :
            Leaf(T, mem, t, q, j) /\ addr = BaseAt(t, q, j) /\ pte = PteOf(t[q].lev, mem[q][j])
      BY <2>2 DEF Translates
    <3>2. ~(q = p /\ j = i)
      BY <2>2, <3>1 DEF b
    <3> QED
      BY <1>7, <3>1, <3>2 DEF Translates
  <2> QED
    BY <2>1, <2>2
<1>11. \A addr, pte : Translates(T, mem, t, addr, pte) <=> addr \in DOMAIN f /\ f[addr] = pte
  BY <1>6 DEF Shows
<1>12. b \in DOMAIN f
  <2>1. Translates(T, mem, t, b, PteOf(t[p].lev, mem[p][i]))
    BY <1>2 DEF Translates, b
  <2> QED
    BY <1>11, <2>1
<1>13. g = [k \in DOMAIN f \ {b} |-> f[k]]
  BY DEF Remove
<1>14. g = [k \in DOMAIN g |-> g[k]]
  BY <1>13
<1>15. \A addr : addr \in DOMAIN g <=> addr \in DOMAIN f /\ addr # b
  BY <1>13
<1>16. \A addr \in DOMAIN g : g[addr] = f[addr]
  BY <1>13
<1> HIDE DEF g
<1>17. \A addr, pte : Translates(T, m, t, addr, pte) <=> addr \in DOMAIN g /\ g[addr] = pte
  BY <1>10, <1>11, <1>15, <1>16
<1>18. interp_pt_mem(m) = g
  BY <1>6, <1>14, <1>17, ShowsOne
<1> QED
  BY <1>12, <1>18 DEF g, f, b
-----------------------------------------------------------------------------
(* Conflicts with the pages of the tree. *)

LEMMA OverlapMeans ==
  ASSUME NEW a \in Nat, NEW b \in Nat, NEW s \in Nat \ {0}, NEW r \in Nat \ {0}
  PROVE  overlap(Region(a, s), Region(b, r))
           <=> \E x \in Nat : a <= x /\ x < a + s /\ b <= x /\ x < b + r
<1>1. overlap(Region(a, s), Region(b, r)) <=> IF a <= b THEN a = b \/ b < a + s ELSE a < b + r
  BY DEF overlap, Region
<1>2. CASE a <= b
  <2>1. ASSUME b < a + s PROVE a <= b /\ b < a + s /\ b <= b /\ b < b + r
    BY <1>2, <2>1
  <2> QED
    BY <1>1, <1>2, <2>1
<1>3. CASE ~(a <= b)
  <2>1. ASSUME a < b + r PROVE a <= a /\ a < a + s /\ b <= a /\ a < b + r
    BY <1>3, <2>1
  <2> QED
    BY <1>1, <1>3, <2>1
<1> QED
  BY <1>2, <1>3

(* A leaf of the tree has an address in common with the size bytes at a.   *)
Meets(T, mem, t, a, size) ==
  \E q \in T : \E x \in Nat :
    /\ a <= x /\ x < a + size
    /\ AtAddr(T, t, q, x) /\ Leaf(T, mem, t, q, IndexAt(t, q, x))

LEMMA MeetsOverlaps ==
  ASSUME NEW T, NEW mem, NEW t, Tree(T, mem, t), NEW f, Shows(f, T, mem, t),
         NEW a \in Nat, NEW pte, pte.frame.size \in Nat \ {0}
  PROVE  candidate_mapping_overlaps_existing_vmem(f, a, pte)
           <=> Meets(T, mem, t, a, pte.frame.size)
<1> DEFINE s == pte.frame.size
<1>1. ASSUME NEW b \in DOMAIN f, overlap(Region(a, s), Region(b, f[b].frame.size))
      PROVE  Meets(T, mem, t, a, s)
  <2>1. Translates(T, mem, t, b, f[b])
    BY DEF Shows
  <2>2. PICK q \in T, j \in EntryIndex :
          Leaf(T, mem, t, q, j) /\ b = BaseAt(t, q, j) /\ f[b] = PteOf(t[q].lev, mem[q][j])
    BY <2>1 DEF Translates
  <2>3. f[b].frame.size = entry_size(t[q].lev)
    BY <2>2 DEF PteOf, Region
  <2>4. entry_size(t[q].lev) \in Nat \ {0} /\ b \in Nat
    BY <2>2, TreeType, Sizes, BaseInEntry
  <2>5. PICK x \in Nat : a <= x /\ x < a + s /\ b <= x /\ x < b + entry_size(t[q].lev)
    BY <1>1, <2>3, <2>4, OverlapMeans
  <2>6. AtAddr(T, t, q, x) /\ IndexAt(t, q, x) = j
    BY <2>2, <2>5, AtEntry DEF BaseAt
  <2> QED
    BY <2>2, <2>5, <2>6 DEF Meets
<1>2. ASSUME Meets(T, mem, t, a, s)
      PROVE  \E b \in DOMAIN f : overlap(Region(a, s), Region(b, f[b].frame.size))
  <2>1. PICK q \in T, x \in Nat :
          /\ a <= x /\ x < a + s
          /\ AtAddr(T, t, q, x) /\ Leaf(T, mem, t, q, IndexAt(t, q, x))
    BY <1>2 DEF Meets
  <2> DEFINE j == IndexAt(t, q, x)
             b == BaseAt(t, q, j)
             r == entry_size(t[q].lev)
  <2>2. j \in EntryIndex /\ b <= x /\ x < b + r
    BY <2>1, EntryAt DEF BaseAt
  <2>3. b \in Nat /\ r \in Nat \ {0}
    BY <2>1, <2>2, BaseInEntry, TreeType, Sizes
  <2>4. Translates(T, mem, t, b, PteOf(t[q].lev, mem[q][j]))
    BY <2>1, <2>2 DEF Translates
  <2>5. b \in DOMAIN f /\ f[b] = PteOf(t[q].lev, mem[q][j])
    BY <2>4 DEF Shows
  <2>6. f[b].frame.size = r
    BY <2>5 DEF PteOf, Region
  <2> HIDE DEF j, b, r
  <2>7. overlap(Region(a, s), Region(b, r))
    BY <2>1, <2>2, <2>3, OverlapMeans
  <2> QED
    BY <2>5, <2>6, <2>7
<1> QED
  BY <1>1, <1>2 DEF candidate_mapping_overlaps_existing_vmem

(* Below a directory there is a page, when no directory is empty.          *)
LEMMA PageBelow ==
  ASSUME NEW T, NEW mem, NEW t, Tree(T, mem, t), \A c \in T \ {cr3} : ~Empty(mem, c),
         NEW d \in T \ {cr3}
  PROVE  \E q \in T, x \in Nat :
           /\ t[d].start <= x /\ x < upper_vaddr(t[d].lev, t[d].start)
           /\ AtAddr(T, t, q, x) /\ Leaf(T, mem, t, q, IndexAt(t, q, x))
<1> DEFINE Found(c) == \E q \in T, x \in Nat :
             /\ AtAddr(T, t, c, x)
             /\ AtAddr(T, t, q, x) /\ Leaf(T, mem, t, q, IndexAt(t, q, x))
           P(l) == \A c \in T \ {cr3} : t[c].lev = l => Found(c)
<1>1. ASSUME NEW c \in T \ {cr3}, NEW i \in EntryIndex, Leaf(T, mem, t, c, i) PROVE Found(c)
  <2> DEFINE x == BaseAt(t, c, i)
  <2>1. x \in Nat /\ AtAddr(T, t, c, x) /\ IndexAt(t, c, x) = i
    BY BaseInEntry
  <2> QED
    BY <1>1, <2>1
<1>2. P(3)
  <2> SUFFICES ASSUME NEW c \in T \ {cr3}, t[c].lev = 3 PROVE Found(c)
    OBVIOUS
  <2>1. PICK i \in EntryIndex : mem[c][i].P
    BY DEF Empty
  <2>2. Leaf(T, mem, t, c, i)
    BY <2>1 DEF Leaf, is_page
  <2> QED
    BY <1>1, <2>2
<1>3. ASSUME NEW l \in 1 .. 2, P(l + 1) PROVE P(l)
  <2> SUFFICES ASSUME NEW c \in T \ {cr3}, t[c].lev = l PROVE Found(c)
    OBVIOUS
  <2>1. PICK i \in EntryIndex : mem[c][i].P
    BY DEF Empty
  <2>2. CASE is_page(l, mem[c][i])
    <3>1. Leaf(T, mem, t, c, i)
      BY <2>1, <2>2 DEF Leaf
    <3> QED
      BY <1>1, <3>1
  <2>3. CASE ~is_page(l, mem[c][i])
    <3>1. links(t[c].lev, mem[c][i])
      BY <2>1, <2>3 DEF links, is_dir
    <3> DEFINE e == address(mem[c][i])
    <3>2. LinkFits(T, t, c, i, mem[c][i])
      BY <3>1, LinkedChild
    <3>3. e \in T \ {cr3} /\ t[e] = Child(t, c, i)
      BY <3>2 DEF LinkFits
    <3> HIDE DEF e
    <3>4. t[e].lev = l + 1 /\ t[e].par = c
      BY <3>3 DEF Child
    <3>5. PICK q \in T, x \in Nat :
            AtAddr(T, t, e, x) /\ AtAddr(T, t, q, x) /\ Leaf(T, mem, t, q, IndexAt(t, q, x))
      BY <1>3, <3>3, <3>4
    <3>6. AtAddr(T, t, c, x)
      BY <3>3, <3>4, <3>5, ParentAt
    <3> QED
      BY <3>5, <3>6
  <2> QED
    BY <2>2, <2>3
<1>4. t[d].lev = 1 \/ t[d].lev = 2 \/ t[d].lev = 3
  <2>1. t[d].lev \in Nat /\ t[d].lev <= 3 /\ t[d].lev # 0
    BY LevelOfParent
  <2> QED
    BY <2>1
<1> HIDE DEF P, Found
<1>5. P(2)
  BY <1>2, <1>3
<1>6. P(1)
  BY <1>3, <1>5
<1>7. Found(d)
  BY <1>2, <1>4, <1>5, <1>6 DEF P
<1> QED
  BY <1>7 DEF Found, AtAddr, Covers

(* No page begins at an address where the walk down ends without one. *)
LEMMA NoPageAt ==
  ASSUME NEW T, NEW mem, NEW t, Tree(T, mem, t), NEW f, Shows(f, T, mem, t),
         NEW addr \in Nat, NEW p, AtAddr(T, t, p, addr),
         NEW w, w = mem[p][IndexAt(t, p, addr)],
         ~w.P \/ (is_page(t[p].lev, w) /\ ~aligned(addr, entry_size(t[p].lev)))
  PROVE  addr \notin DOMAIN f
<1> SUFFICES ASSUME addr \in DOMAIN f PROVE FALSE
  OBVIOUS
<1>1. Translates(T, mem, t, addr, f[addr])
  BY DEF Shows
<1>2. PICK q \in T, j \in EntryIndex : Leaf(T, mem, t, q, j) /\ addr = BaseAt(t, q, j)
  BY <1>1 DEF Translates
<1>3. /\ AtAddr(T, t, q, addr) /\ IndexAt(t, q, addr) = j
      /\ aligned(addr, entry_size(t[q].lev))
  BY <1>2, BaseInEntry
<1>4. t[p].lev \in Nat /\ t[q].lev \in Nat /\ p \in T
  BY <1>2, LevelOfParent DEF AtAddr
<1>5. ~links(t[p].lev, w)
  BY DEF links, is_dir
<1>6. CASE t[q].lev = t[p].lev
  <2>1. p = q
    BY <1>3, <1>6, AtUnique
  <2> QED
    BY <1>2, <1>3, <2>1 DEF Leaf
<1>7. CASE t[q].lev < t[p].lev
  <2>1. PICK c \in T : /\ t[c].lev = t[q].lev /\ AtAddr(T, t, c, addr)
                       /\ links(t[q].lev, mem[c][IndexAt(t, c, addr)])
    BY <1>4, <1>7, PathAbove
  <2>2. c = q
    BY <1>3, <2>1, AtUnique
  <2> QED
    BY <1>2, <1>3, <2>1, <2>2 DEF Leaf, links, is_dir
<1>8. CASE t[p].lev < t[q].lev
  <2>1. PICK c \in T : /\ t[c].lev = t[p].lev /\ AtAddr(T, t, c, addr)
                       /\ links(t[p].lev, mem[c][IndexAt(t, c, addr)])
    BY <1>3, <1>4, <1>8, PathAbove
  <2>2. c = p
    BY <2>1, AtUnique
  <2> QED
    BY <1>5, <2>1, <2>2
<1> QED
  BY <1>4, <1>6, <1>7, <1>8
-----------------------------------------------------------------------------
(* What the MMU sees of each step. *)

(* The activation on top and the call's address. *)
LEMMA TopAt ==
  ASSUME TreeInv, pc # "idle", ~AtUnlinked, NEW t, TreeFits(t)
  PROVE  /\ Tree(regions, region_view, t)
         /\ call.vaddr \in Nat
         /\ AtAddr(regions, t, Top.ptr, call.vaddr) /\ IndexAt(t, Top.ptr, call.vaddr) = idx(layer)
         /\ Top.ptr \in regions /\ t[Top.ptr].lev = layer /\ layer \in Layer
         /\ idx(layer) \in EntryIndex
         /\ entry = region_view[Top.ptr][idx(layer)] /\ entry \in Word
<1>1. /\ layer \in Layer /\ Top.ptr \in InTree /\ InTree = regions
      /\ t[Top.ptr].lev = layer /\ t[Top.ptr].start = Top.base
      /\ Covers(layer, Top.base, call.vaddr)
      /\ idx(layer) = index_for_vaddr(layer, Top.base, call.vaddr)
      /\ idx(layer) \in EntryIndex
      /\ entry = region_view[Top.ptr][idx(layer)] /\ entry \in Word
  BY TopFits
<1>2. Tree(regions, region_view, t)
  BY <1>1 DEF TreeFits
<1>3. AtAddr(regions, t, Top.ptr, call.vaddr) /\ IndexAt(t, Top.ptr, call.vaddr) = idx(layer)
  BY <1>1 DEF AtAddr, IndexAt
<1> QED
  BY <1>1, <1>2, <1>3, CallVaddr

(* Where the page goes, or is, begins at the call's address. *)
LEMMA TopBase ==
  ASSUME TreeInv, pc # "idle", ~AtUnlinked, NEW t, TreeFits(t),
         aligned(call.vaddr, entry_size(layer))
  PROVE  BaseAt(t, Top.ptr, idx(layer)) = call.vaddr
<1> DEFINE p == Top.ptr
           i == idx(layer)
           a == call.vaddr
<1>1. /\ Tree(regions, region_view, t) /\ a \in Nat
      /\ AtAddr(regions, t, p, a) /\ IndexAt(t, p, a) = i
      /\ p \in regions /\ t[p].lev = layer /\ i \in EntryIndex
  BY TopAt
<1>2. aligned(a, entry_size(t[p].lev))
  BY <1>1
<1> HIDE DEF p, i, a
<1>3. BaseAt(t, p, i) <= a /\ a < BaseAt(t, p, i) + entry_size(t[p].lev)
  BY <1>1, EntryAt DEF BaseAt
<1>4. a = BaseAt(t, p, i)
  BY <1>1, <1>2, <1>3, AlignedInEntry
<1> QED
  BY <1>4 DEF p, i, a

(* Inserting and removing directories is invisible. *)
LEMMA AllocInvisible ==
  ASSUME TreeInv, insert_empty_directory_alloc
  PROVE  interp_pt_mem(region_view') = interp_pt_mem(region_view)
<1>1. PICK page \in Page \ regions : region_view' = [region_view EXCEPT ![page] = new_seq(zero_entry)]
  BY DEF insert_empty_directory_alloc, alloc_page
<1>2. pc = "map"
  BY DEF insert_empty_directory_alloc
<1>3. PICK t : TreeFits(t)
  BY DEF TreeInv
<1>4. Tree(regions, region_view, t)
  BY <1>2, <1>3 DEF TreeFits, InTree, AtUnlinked
<1>5. new_seq(zero_entry) \in [EntryIndex -> Word]
  BY DEF new_seq, zero_entry, Word
<1>6. region_view' \in Memory /\ \A q \in regions : region_view'[q] = region_view[q]
  BY <1>1, <1>5, MemoryType DEF Memory
<1> QED
  BY <1>4, <1>6, InterpOutside

LEMMA InsertInvisible ==
  ASSUME TreeInv, insert_empty_directory_write
  PROVE  interp_pt_mem(region_view') = interp_pt_mem(region_view)
<1> DEFINE p == Caller.ptr
           d == Top.ptr
           i == idx(layer - 1)
           w == new_dir_entry(layer - 1, d)
           T == regions \ {d}
<1>1. pc = "insert" /\ region_view' = [region_view EXCEPT ![p][i] = w]
  BY DEF insert_empty_directory_write, write
<1>2. AtUnlinked /\ pc # "idle" /\ InTree = T
  BY <1>1 DEF AtUnlinked, InTree
<1>3. PICK t : TreeFits(t)
  BY DEF TreeInv
<1>4. Tree(T, region_view, t)
  BY <1>2, <1>3 DEF TreeFits
<1>5. Len(stack) > 1 /\ d \in regions \ {cr3} /\ Empty(region_view, d) /\ ~region_view[p][i].P
  BY <1>1, <1>2 DEF TreeInv, UnlinkedFits
<1>6. /\ layer \in Nat /\ layer >= 1 /\ layer <= 3
      /\ p \in T /\ t[p].lev = layer - 1 /\ i \in EntryIndex
  BY <1>2, <1>3, <1>5, CallerFits
<1>7. d \in PageRegions \ T
  BY <1>5, MemoryType
<1>8. layer - 1 \in 0 .. 2 /\ t[p].lev < 3
  BY <1>6
<1>9. /\ w \in Word /\ w.P /\ is_dir(t[p].lev, w) /\ all_mb0_bits_are_zero(t[p].lev, w)
      /\ w.RW /\ w.US /\ ~w.XD /\ address(w) = d
  BY <1>6, <1>7, <1>8, DirEntryFits
<1> HIDE DEF T, w, d, p, i
<1>10. interp_pt_mem([region_view EXCEPT ![p][i] = w]) = interp_pt_mem(region_view)
  BY <1>4, <1>5, <1>6, <1>7, <1>8, <1>9, InterpAddChild
<1> QED
  BY <1>1, <1>10

LEMMA UnlinkInvisible ==
  ASSUME TreeInv, UnmapUnlink
  PROVE  interp_pt_mem(region_view') = interp_pt_mem(region_view)
<1> DEFINE p == Caller.ptr
           d == Top.ptr
           i == idx(layer - 1)
<1>1. /\ pc = "unmap_return" /\ layer > 0 /\ is_directory_empty(Top.ptr)
      /\ region_view' = [region_view EXCEPT ![p][i] = zero_entry]
  BY DEF UnmapUnlink, Returning, write
<1>2. ~AtUnlinked /\ pc # "idle" /\ InTree = regions
  BY <1>1 DEF AtUnlinked, InTree
<1>3. PICK t : TreeFits(t)
  BY DEF TreeInv
<1>4. Tree(regions, region_view, t)
  BY <1>2, <1>3 DEF TreeFits
<1>5. Len(stack) = layer + 1 /\ layer \in Nat /\ Len(stack) > 1
  BY <1>1, <1>2, <1>3, TopFits
<1>6. d \in regions \ {cr3} /\ t[d].par = p /\ t[d].slot = i
  BY <1>2, <1>3, <1>5, CallerFits
<1>7. Empty(region_view, d)
  BY <1>1 DEF is_directory_empty, Empty, is_mapping, spec_read
<1>8. p \in PageRegions /\ i \in EntryIndex /\ zero_entry \in Word
  BY <1>2, <1>3, <1>5, CallerFits DEF zero_entry, Word
<1> HIDE DEF d, p, i
<1>9. Changed(region_view, region_view', p, i, zero_entry)
  BY <1>1, <1>8, WriteChanges
<1>10. Tree(regions \ {d}, region_view', t)
  BY <1>1, <1>4, <1>6, <1>7, RemoveChild
<1> QED
  BY <1>4, <1>6, <1>7, <1>9, <1>10, InterpRemoveChild

LEMMA DeallocInvisible ==
  ASSUME TreeInv, UnmapDealloc
  PROVE  interp_pt_mem(region_view') = interp_pt_mem(region_view)
<1> DEFINE d == Top.ptr
           T == regions \ {d}
<1>1. pc = "dealloc" /\ region_view' = [region_view EXCEPT ![d] = new_seq(junk(d))]
  BY DEF UnmapDealloc, dealloc_page
<1>2. AtUnlinked /\ InTree = T
  BY <1>1 DEF AtUnlinked, InTree
<1>3. PICK t : TreeFits(t)
  BY DEF TreeInv
<1>4. Tree(T, region_view, t)
  BY <1>2, <1>3 DEF TreeFits
<1>5. d \in regions
  BY <1>2 DEF TreeInv, UnlinkedFits
<1> HIDE DEF d
<1>6. d \in PageRegions /\ PageRegions \subseteq Nat
  BY <1>5, MemoryType, MemoryAssumption DEF PageRegions
<1>7. new_seq(junk(d)) \in [EntryIndex -> Word]
  BY <1>6 DEF new_seq, junk, Word
<1>8. region_view' \in Memory /\ \A q \in T : region_view'[q] = region_view[q]
  BY <1>1, <1>6, <1>7, MemoryType DEF Memory
<1> HIDE DEF T
<1> QED
  BY <1>4, <1>8, InterpOutside

(* The entry of the new page is read as the page table entry it was made of. *)
LEMMA PteOfNewEntry ==
  ASSUME NEW l \in 1 .. 3, NEW pte \in PTE,
         pte.frame.size = entry_size(l), pte.frame.base <= MAX_PHYADDR,
         aligned(pte.frame.base, pte.frame.size)
  PROVE  PteOf(l, new_page_entry(l, pte)) = pte
<1>1. pte \in [frame : [base : Nat, size : Nat],
               flags : [is_writable : BOOLEAN, is_supervisor : BOOLEAN, disable_execute : BOOLEAN]]
  BY CallsAssumption DEF PageTableEntry, MemRegion, Flags
<1> DEFINE w == new_page_entry(l, pte)
           b == pte.frame.base
<1>2. /\ w.addr = b /\ w.RW = pte.flags.is_writable
      /\ w.US = ~pte.flags.is_supervisor /\ w.XD = pte.flags.disable_execute
  BY DEF new_page_entry, new_entry
<1>3. MASK_PG_ADDR(l, b) = b
  <2>1. b \in Nat /\ b <= MAX_PHYADDR /\ MAX_PHYADDR \in Nat
    BY <1>1, SizesAssumption
  <2>2. b % (MAX_PHYADDR + 1) = b
    BY <2>1
  <2>3. b % entry_size(l) = 0
    BY DEF aligned
  <2> QED
    BY <2>1, <2>2, <2>3 DEF MASK_PG_ADDR, MASK_ADDR
<1> HIDE DEF w, b
<1>4. PteOf(l, w) = [frame |-> [base |-> b, size |-> entry_size(l)],
                     flags |-> [is_writable |-> w.RW, is_supervisor |-> ~w.US, disable_execute |-> w.XD]]
  BY <1>2, <1>3 DEF PteOf, Region
<1>5. pte.frame = [base |-> b, size |-> entry_size(l)]
  BY <1>1 DEF b
<1>6. /\ pte.flags.is_writable \in BOOLEAN /\ pte.flags.is_supervisor \in BOOLEAN
      /\ pte.flags.disable_execute \in BOOLEAN
  BY <1>1
<1>7. ~w.US = pte.flags.is_supervisor
  BY <1>2, <1>6
<1>8. pte.flags = [is_writable |-> w.RW, is_supervisor |-> ~w.US, disable_execute |-> w.XD]
  BY <1>1, <1>2, <1>7
<1>9. pte = [frame |-> pte.frame, flags |-> pte.flags]
  BY <1>1
<1> QED
  BY <1>4, <1>5, <1>8, <1>9 DEF w

LEMMA MapWritePageInserts ==
  ASSUME TreeInv, MapWritePage
  PROVE  /\ interp_pt_mem(region_view') = Insert(interp_pt_mem(region_view), call.vaddr, call.pte)
         /\ ~candidate_mapping_overlaps_existing_vmem(interp_pt_mem(region_view), call.vaddr, call.pte)
<1> DEFINE p == Top.ptr
           i == idx(layer)
           w == new_page_entry(layer, call.pte)
           T == regions
           f == interp_pt_mem(region_view)
           a == call.vaddr
           s == call.pte.frame.size
<1>1. /\ pc = "map" /\ ~is_mapping(entry) /\ AtPageSize
      /\ region_view' = [region_view EXCEPT ![p][i] = w]
  BY DEF MapWritePage, write
<1>2. ~AtUnlinked /\ pc # "idle"
  BY <1>1 DEF AtUnlinked
<1>3. PICK t : TreeFits(t)
  BY DEF TreeInv
<1>4. /\ Tree(T, region_view, t) /\ a \in Nat
      /\ AtAddr(T, t, p, a) /\ IndexAt(t, p, a) = i
      /\ p \in T /\ t[p].lev = layer /\ i \in EntryIndex /\ entry = region_view[p][i]
  BY <1>2, <1>3, TopAt
<1>5. layer \in 1 .. 3 /\ s = entry_size(layer)
  BY <1>1, PageSizeLayer
<1>6. call.pte \in PTE /\ accepted_mapping(call.vaddr, call.pte)
  BY <1>1 DEF TreeInv, CallFits, MapCall
<1>7. call.pte.frame.base <= MAX_PHYADDR /\ aligned(call.pte.frame.base, s) /\ aligned(a, s)
  BY <1>6 DEF accepted_mapping
<1>8. w \in Word /\ w.P /\ is_page(layer, w) /\ LeafFits(layer, w) /\ PteOf(layer, w) = call.pte
  BY <1>5, <1>6, <1>7, PageEntryFits, PteOfNewEntry
<1>9. BaseAt(t, p, i) = a
  BY <1>2, <1>3, <1>5, <1>7, TopBase
<1>10. ~region_view[p][i].P
  BY <1>1, <1>4 DEF is_mapping
<1>11. s \in Nat \ {0}
  BY <1>5, Sizes DEF Layer
<1>12. Shows(f, T, region_view, t)
  BY <1>4, InterpShows
<1> HIDE DEF p, i, w, T, f, a, s
<1>13. ~links(t[p].lev, region_view[p][i]) /\ ~links(t[p].lev, w)
  BY <1>4, <1>8, <1>10 DEF links, is_dir
<1>17. Tree(T, region_view', t)
  BY <1>1, <1>4, <1>8, <1>13, WriteLeaf
<1>18. Changed(region_view, region_view', p, i, w)
  BY <1>1, <1>4, <1>8, TreeType, WriteChanges
<1>19. /\ interp_pt_mem(region_view') = Insert(interp_pt_mem(region_view), BaseAt(t, p, i), PteOf(t[p].lev, w))
       /\ \A q, j : Leaf(T, region_view, t, q, j) => Leaf(T, region_view', t, q, j) /\ ~(q = p /\ j = i)
       /\ Leaf(T, region_view', t, p, i)
  <2>1. is_page(t[p].lev, w) /\ LeafFits(t[p].lev, w)
    BY <1>4, <1>8
  <2> QED
    BY <1>4, <1>8, <1>10, <1>17, <1>18, <2>1, InterpAddLeaf
<1>14. ~Meets(T, region_view, t, a, s)
  <2> SUFFICES ASSUME Meets(T, region_view, t, a, s) PROVE FALSE
    OBVIOUS
  <2>1. PICK q \in T, x \in Nat :
          /\ a <= x /\ x < a + s
          /\ AtAddr(T, t, q, x) /\ Leaf(T, region_view, t, q, IndexAt(t, q, x))
    BY DEF Meets
  <2>2. AtAddr(T, t, p, x) /\ IndexAt(t, p, x) = i
    BY <1>4, <1>5, <1>9, <2>1, AtEntry DEF BaseAt
  <2>3. Leaf(T, region_view', t, q, IndexAt(t, q, x)) /\ Leaf(T, region_view', t, p, IndexAt(t, p, x))
    BY <1>19, <2>1, <2>2
  <2>5. p = q
    BY <1>17, <2>1, <2>2, <2>3, LeafUnique
  <2> QED
    BY <1>19, <2>1, <2>2, <2>5
<1>15. ~candidate_mapping_overlaps_existing_vmem(f, a, call.pte)
  BY <1>4, <1>11, <1>12, <1>14, MeetsOverlaps DEF s
<1>16. interp_pt_mem(region_view') = Insert(interp_pt_mem(region_view), a, call.pte)
  BY <1>4, <1>8, <1>9, <1>19
<1> QED
  BY <1>15, <1>16 DEF f, a

LEMMA MapConflicts ==
  ASSUME TreeInv, MapDirectorySameSize \/ MapPagePresent
  PROVE  candidate_mapping_overlaps_existing_vmem(interp_pt_mem(region_view), call.vaddr, call.pte)
<1> DEFINE p == Top.ptr
           i == idx(layer)
           T == regions
           f == interp_pt_mem(region_view)
           a == call.vaddr
           s == call.pte.frame.size
<1>1. pc = "map" /\ is_mapping(entry)
  BY DEF MapDirectorySameSize, MapPagePresent
<1>2. ~AtUnlinked /\ pc # "idle"
  BY <1>1 DEF AtUnlinked
<1>3. PICK t : TreeFits(t)
  BY DEF TreeInv
<1>4. /\ Tree(T, region_view, t) /\ a \in Nat
      /\ AtAddr(T, t, p, a) /\ IndexAt(t, p, a) = i
      /\ p \in T /\ t[p].lev = layer /\ layer \in Layer /\ i \in EntryIndex
      /\ entry = region_view[p][i]
  BY <1>2, <1>3, TopAt
<1>5. accepted_mapping(a, call.pte)
  BY <1>1 DEF TreeInv, CallFits
<1>6. s \in Nat \ {0} /\ aligned(a, s)
  <2>1. PICK l \in 1 .. 3 : entry_size(l) = s
    BY <1>5 DEF accepted_mapping, contains_entry_size_at_index_atleast
  <2> QED
    BY <1>5, <2>1, Sizes DEF Layer, accepted_mapping
<1>7. region_view[p][i].P
  BY <1>1, <1>4 DEF is_mapping
<1>8. Shows(f, T, region_view, t)
  BY <1>4, InterpShows
<1>9. \A d \in T \ {cr3} : ~Empty(region_view, d)
  BY <1>1, <1>2, NotEmptyHere
<1>10. MapDirectorySameSize => ~is_page(layer, entry) /\ s = entry_size(layer)
  BY DEF MapDirectorySameSize, is_dir, AtPageSize
<1>11. MapPagePresent => is_page(layer, entry)
  BY DEF MapPagePresent
<1>12. MapDirectorySameSize => BaseAt(t, p, i) = a
  BY <1>2, <1>3, <1>6, <1>10, TopBase
<1> HIDE DEF p, i, T, f, a, s
<1>13. CASE MapPagePresent
  <2>1. Leaf(T, region_view, t, p, IndexAt(t, p, a))
    BY <1>4, <1>7, <1>11, <1>13 DEF Leaf
  <2>2. a <= a /\ a < a + s
    BY <1>4, <1>6
  <2>3. Meets(T, region_view, t, a, s)
    BY <1>4, <2>1, <2>2 DEF Meets
  <2> QED
    BY <1>4, <1>6, <1>8, <2>3, MeetsOverlaps DEF s, a, f
<1>14. CASE MapDirectorySameSize
  <2> DEFINE d == address(region_view[p][i])
  <2>1. links(t[p].lev, region_view[p][i])
    BY <1>4, <1>7, <1>10, <1>14 DEF links, is_dir
  <2>2. LinkFits(T, t, p, i, region_view[p][i])
    BY <1>4, <2>1, LinkedChild
  <2>3. d \in T \ {cr3} /\ t[d] = Child(t, p, i)
    BY <2>2 DEF LinkFits
  <2> HIDE DEF d
  <2>4. PICK q \in T, x \in Nat :
          /\ t[d].start <= x /\ x < upper_vaddr(t[d].lev, t[d].start)
          /\ AtAddr(T, t, q, x) /\ Leaf(T, region_view, t, q, IndexAt(t, q, x))
    BY <1>4, <1>9, <2>3, PageBelow
  <2>5. t[d].start = a /\ t[d].lev = layer + 1
    BY <1>4, <1>12, <1>14, <2>3 DEF Child, BaseAt
  <2>6. layer \in 0 .. 2
    BY <1>4, <2>1 DEF Layer, links, is_dir, is_page
  <2>7. upper_vaddr(t[d].lev, t[d].start) = a + s
    BY <1>4, <1>10, <1>14, <2>5, <2>6, CoversBelow
  <2>8. Meets(T, region_view, t, a, s)
    BY <2>4, <2>5, <2>7 DEF Meets
  <2> QED
    BY <1>4, <1>6, <1>8, <2>8, MeetsOverlaps DEF s, a, f
<1> QED
  BY <1>13, <1>14

LEMMA UnmapPageRemoves ==
  ASSUME TreeInv, UnmapPage
  PROVE  /\ interp_pt_mem(region_view') = Remove(interp_pt_mem(region_view), call.vaddr)
         /\ call.vaddr \in DOMAIN interp_pt_mem(region_view)
<1> DEFINE p == Top.ptr
           i == idx(layer)
<1>1. /\ pc = "unmap" /\ is_mapping(entry) /\ is_page(layer, entry)
      /\ aligned(call.vaddr, entry_size(layer))
      /\ region_view' = [region_view EXCEPT ![p][i] = zero_entry]
  BY DEF UnmapPage, write
<1>2. ~AtUnlinked /\ pc # "idle"
  BY <1>1 DEF AtUnlinked
<1>3. PICK t : TreeFits(t)
  BY DEF TreeInv
<1>4. /\ Tree(regions, region_view, t) /\ p \in regions /\ t[p].lev = layer /\ i \in EntryIndex
      /\ entry = region_view[p][i]
  BY <1>2, <1>3, TopAt
<1>5. BaseAt(t, p, i) = call.vaddr
  BY <1>1, <1>2, <1>3, TopBase
<1> HIDE DEF p, i
<1>6. Leaf(regions, region_view, t, p, i)
  BY <1>1, <1>4 DEF Leaf, is_mapping
<1>7. zero_entry \in Word /\ ~zero_entry.P
  BY DEF zero_entry, Word
<1>8. ~links(t[p].lev, region_view[p][i]) /\ ~links(t[p].lev, zero_entry) /\ LeafFits(t[p].lev, zero_entry)
  BY <1>6, <1>7 DEF Leaf, links, is_dir, LeafFits
<1>9. Tree(regions, region_view', t)
  BY <1>1, <1>4, <1>7, <1>8, WriteLeaf
<1>10. Changed(region_view, region_view', p, i, zero_entry)
  BY <1>1, <1>4, <1>7, TreeType, WriteChanges
<1>11. /\ interp_pt_mem(region_view') = Remove(interp_pt_mem(region_view), BaseAt(t, p, i))
       /\ BaseAt(t, p, i) \in DOMAIN interp_pt_mem(region_view)
  BY <1>4, <1>6, <1>9, <1>10, InterpRemoveLeaf
<1> QED
  BY <1>5, <1>11

LEMMA UnmapNothingThere ==
  ASSUME TreeInv, UnmapNothing
  PROVE  call.vaddr \notin DOMAIN interp_pt_mem(region_view)
<1> DEFINE p == Top.ptr
           i == idx(layer)
           a == call.vaddr
           f == interp_pt_mem(region_view)
<1>1. /\ pc = "unmap"
      /\ ~is_mapping(entry) \/ (is_page(layer, entry) /\ ~aligned(a, entry_size(layer)))
  BY DEF UnmapNothing
<1>2. ~AtUnlinked /\ pc # "idle"
  BY <1>1 DEF AtUnlinked
<1>3. PICK t : TreeFits(t)
  BY DEF TreeInv
<1>4. /\ Tree(regions, region_view, t) /\ a \in Nat
      /\ AtAddr(regions, t, p, a) /\ IndexAt(t, p, a) = i
      /\ t[p].lev = layer /\ entry = region_view[p][i]
  BY <1>2, <1>3, TopAt
<1>5. Shows(f, regions, region_view, t)
  BY <1>4, InterpShows
<1>6. entry = region_view[p][IndexAt(t, p, a)]
  BY <1>4
<1>7. ~entry.P \/ (is_page(t[p].lev, entry) /\ ~aligned(a, entry_size(t[p].lev)))
  BY <1>1, <1>4 DEF is_mapping
<1> HIDE DEF p, i, a, f
<1>8. a \notin DOMAIN f
  BY <1>4, <1>5, <1>6, <1>7, NoPageAt
<1> QED
  BY <1>8 DEF a, f
-----------------------------------------------------------------------------
(* The refinement of the page table specification. *)

MInv == TreeInv /\ mappings = interp_pt_mem(region_view)

LEMMA MInvInit == MInit => MInv
  BY TreeInit DEF MInit, MInv

LEMMA MInvStep == MInv /\ [MNext]_mvars => MInv'
<1> SUFFICES ASSUME MInv, [MNext]_mvars PROVE MInv'
  OBVIOUS
<1>1. CASE MNext
  BY <1>1, TreeStep DEF MNext, MInv
<1>2. CASE UNCHANGED mvars
  <2>1. UNCHANGED vars /\ mappings' = mappings
    BY <1>2 DEF mvars
  <2>2. region_view' = region_view
    BY <2>1 DEF vars
  <2>3. TreeInv'
    BY <2>1, TreeStep DEF MInv
  <2> QED
    BY <2>1, <2>2, <2>3 DEF MInv
<1> QED
  BY <1>1, <1>2

LEMMA InitShowsNothing == MInit => mappings = EmptyMap
<1> SUFFICES ASSUME MInit PROVE mappings = EmptyMap
  OBVIOUS
<1>1. TreeInv /\ mappings = interp_pt_mem(region_view) /\ pc = "idle" /\ MemoryInit
  BY MInvInit DEF MInv, MInit, Init
<1>2. PICK t : TreeFits(t)
  BY <1>1 DEF TreeInv
<1>3. Tree(regions, region_view, t)
  BY <1>1, <1>2 DEF TreeFits, InTree, AtUnlinked
<1>4. \A i \in EntryIndex : ~region_view[cr3][i].P
  BY <1>1 DEF MemoryInit, PageRegions, new_seq, zero_entry
<1>5. regions = {cr3}
  BY <1>1 DEF MemoryInit
<1>6. \A addr, pte : ~Translates(regions, region_view, t, addr, pte)
  BY <1>4, <1>5 DEF Translates, Leaf
<1>7. Shows(interp_pt_mem(region_view), regions, region_view, t)
  BY <1>3, InterpShows
<1> DEFINE g == EmptyMap
<1>8. g = [addr \in DOMAIN g |-> g[addr]] /\ \A addr : addr \notin DOMAIN g
  BY DEF EmptyMap
<1> HIDE DEF g
<1>9. interp_pt_mem(region_view) = g
  BY <1>6, <1>7, <1>8, ShowsOne
<1> QED
  BY <1>1, <1>9 DEF g

(* The definitions of the specification's own copy of Definitions.         *)
LEMMA SameDefinitions ==
  /\ PT!EmptyMap = EmptyMap
  /\ \A m, a, pte : /\ PT!Insert(m, a, pte) = Insert(m, a, pte)
                    /\ PT!Remove(m, a) = Remove(m, a)
                    /\ PT!candidate_mapping_overlaps_existing_vmem(m, a, pte)
                         <=> candidate_mapping_overlaps_existing_vmem(m, a, pte)
<1>1. PT!EmptyMap = EmptyMap
  BY DEF PT!EmptyMap, EmptyMap
<1>2. \A m, a, pte : PT!Insert(m, a, pte) = Insert(m, a, pte)
  BY Zenon DEF PT!Insert, Insert
<1>3. \A m, a : PT!Remove(m, a) = Remove(m, a)
  BY Zenon DEF PT!Remove, Remove
<1>4. \A m, a, pte : PT!candidate_mapping_overlaps_existing_vmem(m, a, pte)
                       <=> candidate_mapping_overlaps_existing_vmem(m, a, pte)
  BY Zenon DEF PT!candidate_mapping_overlaps_existing_vmem, candidate_mapping_overlaps_existing_vmem,
     PT!overlap, overlap, PT!Region, Region
<1> QED
  BY <1>1, <1>2, <1>3, <1>4

answer == IF pc = "idle" THEN ret ELSE "none"

MapThread == [state |-> "Mapping", vaddr |-> call.vaddr, pte |-> call.pte]

(* Where the table and its calls are after a step. *)
Seen == mappings' = interp_pt_mem(region_view')

LEMMA StartIsStep ==
  ASSUME MInv, Seen, NEW vaddr \in VAddr, unmap(vaddr) \/ \E pte \in PTE : map_frame(vaddr, pte)
  PROVE  PT!Next
<1>1. CASE unmap(vaddr)
  <2>1. /\ pc = "idle" /\ pc' = "unmap" /\ call' = [vaddr |-> vaddr] /\ ret' = "none"
        /\ region_view' = region_view
    BY <1>1 DEF unmap, Start, memvars
  <2>2. /\ mappings' = mappings /\ interp_thread = [state |-> "Idle"]
        /\ interp_thread' = [state |-> "Unmapping", vaddr |-> vaddr, result |-> "none"]
        /\ answer' = "none"
    BY <2>1 DEF MInv, Seen, interp_thread, answer
  <2>3. PT!UnmapCall(vaddr)
    BY <2>2 DEF PT!UnmapCall, PT!Idle, PT!Unmapping, answer
  <2> QED
    BY <2>3 DEF PT!Next
<1>2. CASE \E pte \in PTE : map_frame(vaddr, pte)
  <2>1. PICK pte \in PTE : map_frame(vaddr, pte)
    BY <1>2
  <2>2. /\ pc = "idle" /\ pc' = "map" /\ call' = [vaddr |-> vaddr, pte |-> pte] /\ ret' = "none"
        /\ region_view' = region_view
    BY <2>1 DEF map_frame, Start, memvars
  <2>3. /\ mappings' = mappings /\ interp_thread = [state |-> "Idle"]
        /\ interp_thread' = [state |-> "Mapping", vaddr |-> vaddr, pte |-> pte]
        /\ answer' = "none"
    BY <2>2 DEF MInv, Seen, interp_thread, answer
  <2>4. PT!step_Map_Start(vaddr, pte)
    BY <2>3 DEF PT!step_Map_Start, PT!Idle, PT!Mapping, answer
  <2> QED
    BY <2>4 DEF PT!Next
<1> QED
  BY <1>1, <1>2

LEMMA MapEndIsStep ==
  ASSUME MInv, Seen, MapDirectorySameSize \/ MapPagePresent \/ MapWritePage
  PROVE  PT!Next
<1>1. pc = "map" /\ pc' = "idle" /\ call \in MapCall
  <2>1. pc = "map" /\ pc' = "idle"
    BY DEF MapDirectorySameSize, MapPagePresent, MapWritePage, Finish
  <2> QED
    BY <2>1 DEF MInv, TreeInv, CallFits
<1>2. call.vaddr \in VAddr /\ call.pte \in PTE
  BY <1>1 DEF MapCall
<1>3. interp_thread = MapThread /\ interp_thread' = [state |-> "Idle"] /\ answer' = ret'
  BY <1>1 DEF interp_thread, answer, MapThread
<1>4. IF candidate_mapping_overlaps_existing_vmem(mappings, call.vaddr, call.pte)
      THEN ret' = "Err" /\ mappings' = mappings
      ELSE ret' = "Ok" /\ mappings' = Insert(mappings, call.vaddr, call.pte)
  <2>1. CASE MapDirectorySameSize \/ MapPagePresent
    <3>1. ret' = "Err" /\ region_view' = region_view
      BY <2>1 DEF MapDirectorySameSize, MapPagePresent, Finish, memvars
    <3>2. candidate_mapping_overlaps_existing_vmem(mappings, call.vaddr, call.pte)
      BY <2>1, MapConflicts DEF MInv
    <3> QED
      BY <3>1, <3>2 DEF MInv, Seen
  <2>2. CASE MapWritePage
    <3>1. ret' = "Ok"
      BY <2>2 DEF MapWritePage, Finish
    <3> QED
      BY <2>2, <3>1, MapWritePageInserts DEF MInv, Seen
  <2> QED
    BY <2>1, <2>2
<1>5. PT!step_Map_End(call.vaddr, call.pte)
  BY <1>3, <1>4, SameDefinitions DEF PT!step_Map_End, PT!Mapping, MapThread, PT!Idle, answer
<1> QED
  BY <1>2, <1>5 DEF PT!Next

LEMMA UnmapIsStep ==
  ASSUME MInv, Seen, UnmapPage \/ UnmapNothing
  PROVE  PT!Next
<1>1. pc = "unmap" /\ pc' = "unmap_return" /\ call' = call /\ ret = "none" /\ call \in UnmapCall
  <2>1. pc = "unmap" /\ pc' = "unmap_return" /\ call' = call
    BY DEF UnmapPage, UnmapNothing
  <2> QED
    BY <2>1 DEF MInv, TreeInv, CallFits
<1>2. call.vaddr \in VAddr
  BY <1>1 DEF UnmapCall
<1>3. /\ interp_thread = [state |-> "Unmapping", vaddr |-> call.vaddr, result |-> "none"]
      /\ interp_thread' = [state |-> "Unmapping", vaddr |-> call.vaddr, result |-> ret']
      /\ answer' = answer
  BY <1>1 DEF interp_thread, answer
<1>4. IF call.vaddr \in DOMAIN mappings
      THEN ret' = "Ok" /\ mappings' = Remove(mappings, call.vaddr)
      ELSE ret' = "Err" /\ mappings' = mappings
  <2>1. CASE UnmapPage
    <3>1. ret' = "Ok"
      BY <2>1 DEF UnmapPage
    <3> QED
      BY <2>1, <3>1, UnmapPageRemoves DEF MInv, Seen
  <2>2. CASE UnmapNothing
    <3>1. ret' = "Err" /\ region_view' = region_view
      BY <2>2 DEF UnmapNothing
    <3> QED
      BY <2>2, <3>1, UnmapNothingThere DEF MInv, Seen
  <2> QED
    BY <2>1, <2>2
<1>5. PT!step_Unmap_Start(call.vaddr)
  BY <1>3, <1>4, SameDefinitions DEF PT!step_Unmap_Start, PT!Unmapping, answer
<1> QED
  BY <1>2, <1>5 DEF PT!Next

LEMMA UnmapEndIsStep ==
  ASSUME MInv, Seen, UnmapEnd
  PROVE  PT!Next
<1>1. /\ pc = "unmap_return" /\ pc' = "idle" /\ ret' = ret /\ ret # "none"
      /\ region_view' = region_view
  BY DEF UnmapEnd, Returning, Finish, memvars
<1>2. /\ interp_thread = [state |-> "Unmapping", vaddr |-> call.vaddr, result |-> ret]
      /\ interp_thread' = [state |-> "Idle"] /\ answer' = ret
  BY <1>1 DEF interp_thread, answer
<1>3. mappings' = mappings
  BY <1>1 DEF MInv, Seen
<1>4. PT!step_Unmap_End
  BY <1>1, <1>2, <1>3 DEF PT!step_Unmap_End, PT!Idle, answer
<1> QED
  BY <1>4 DEF PT!Next

(* All other steps are invisible. *)
LEMMA DirectoryStepInvisible ==
  ASSUME MInv, Seen,
         \/ MapDescend \/ insert_empty_directory_alloc \/ insert_empty_directory_write
         \/ UnmapDescend \/ UnmapUnlink \/ UnmapDealloc \/ UnmapKeepDirectory
  PROVE  mappings' = mappings /\ interp_thread' = interp_thread /\ answer' = answer
<1>1. mappings' = mappings
  <2>1. CASE insert_empty_directory_alloc \/ insert_empty_directory_write \/ UnmapUnlink \/ UnmapDealloc
    BY <2>1, AllocInvisible, InsertInvisible, UnlinkInvisible, DeallocInvisible DEF MInv, Seen
  <2>2. CASE MapDescend \/ UnmapDescend \/ UnmapKeepDirectory
    <3>1. region_view' = region_view
      BY <2>2 DEF MapDescend, UnmapDescend, UnmapKeepDirectory
    <3> QED
      BY <3>1 DEF MInv, Seen
  <2> QED
    BY <2>1, <2>2
<1>2. call' = call /\ ret' = ret
  BY DEF MapDescend, insert_empty_directory_alloc, insert_empty_directory_write, UnmapDescend,
     UnmapUnlink, UnmapDealloc, UnmapKeepDirectory
<1>3. \/ pc \in {"map", "insert"} /\ pc' \in {"map", "insert"}
      \/ pc \in {"unmap", "unmap_return", "dealloc"} /\ pc' \in {"unmap", "unmap_return", "dealloc"}
  BY DEF MapDescend, insert_empty_directory_alloc, insert_empty_directory_write, UnmapDescend,
     UnmapUnlink, UnmapDealloc, UnmapKeepDirectory, Returning
<1> QED
  BY <1>1, <1>2, <1>3 DEF interp_thread, answer

LEMMA StepRefines == MInv /\ [MNext]_mvars => [PT!Next]_PT!vars
<1> SUFFICES ASSUME MInv, [MNext]_mvars
             PROVE  PT!Next \/ (mappings' = mappings /\ interp_thread' = interp_thread /\ answer' = answer)
  BY DEF PT!vars, answer
<1>1. CASE UNCHANGED mvars
  BY <1>1 DEF mvars, vars, interp_thread, answer
<1>2. CASE MNext
  <2>1. Next /\ Seen
    BY <1>2 DEF MNext, Seen
  <2> QED
    BY <2>1, StartIsStep, MapEndIsStep, UnmapIsStep, UnmapEndIsStep, DirectoryStepInvisible
       DEF Next, MapStep, UnmapStep
<1> QED
  BY <1>1, <1>2

LEMMA InitRefines == MInit => PT!Init
<1> SUFFICES ASSUME MInit PROVE PT!Init
  OBVIOUS
<1>1. mappings = EmptyMap /\ pc = "idle" /\ ret = "none"
  BY InitShowsNothing DEF MInit, Init
<1>2. interp_thread = [state |-> "Idle"] /\ answer = "none"
  BY <1>1 DEF interp_thread, answer
<1> QED
  BY <1>1, <1>2, SameDefinitions DEF PT!Init, PT!Idle, answer

(* The memory, as the MMU walks it between any two accesses, implements    *)
(* the page table specification: a directory that is linked, unlinked or   *)
(* freed changes no translation, a mapping appears or goes in the one      *)
(* write that decides the call, map_frame fails exactly when the page      *)
(* would overlap another, whatever the sizes of the two, and unmap exactly *)
(* when no page begins at its address.                                     *)
THEOREM RefinesPageTableSpecCorrect == MSpec => RefinesPageTableSpec
<1>1. MSpec => PT!Init /\ [][PT!Next]_PT!vars
  BY MInvInit, MInvStep, InitRefines, StepRefines, PTL DEF MSpec
<1> QED
  BY <1>1 DEF RefinesPageTableSpec, PT!Spec

-----------------------------------------------------------------------------
(* The tree of a memory. What layer 1 says is said for all layers l here.  *)

LEMMA SameArch ==
  /\ L1!Layer = Layer /\ L1!EntryIndex = EntryIndex /\ L1!permissive_flags = permissive_flags
  /\ L1!EmptyMap = EmptyMap
  /\ \A l : L1!entry_size(l) = entry_size(l)
  /\ \A l, b, i : L1!entry_base(l, b, i) = entry_base(l, b, i)
  /\ \A l, b, a : L1!index_for_vaddr(l, b, a) = index_for_vaddr(l, b, a)
  /\ \A l, b : L1!upper_vaddr(l, b) = upper_vaddr(l, b)
  /\ \A a, s : L1!aligned(a, s) <=> aligned(a, s)
  /\ \A m, a, pte : L1!Insert(m, a, pte) = Insert(m, a, pte)
  /\ \A v : L1!L0!Ok(v) = L0!Ok(v) /\ L1!L0!Err(v) = L0!Err(v)
<1>1. \A l : L1!entry_size(l) = entry_size(l)
  BY Zenon DEF L1!entry_size, entry_size, L0_ENTRY_SIZE, L1_ENTRY_SIZE, L2_ENTRY_SIZE, L3_ENTRY_SIZE,
               L1!L0_ENTRY_SIZE, L1!L1_ENTRY_SIZE, L1!L2_ENTRY_SIZE, L1!L3_ENTRY_SIZE
<1>2. /\ \A l, b, i : L1!entry_base(l, b, i) = entry_base(l, b, i)
      /\ \A l, b, a : L1!index_for_vaddr(l, b, a) = index_for_vaddr(l, b, a)
  BY <1>1 DEF L1!entry_base, entry_base, L1!index_for_vaddr, index_for_vaddr
<1>3. \A l, b : L1!upper_vaddr(l, b) = upper_vaddr(l, b)
  BY <1>2 DEF L1!upper_vaddr, upper_vaddr
<1>4. /\ L1!Layer = Layer /\ L1!EntryIndex = EntryIndex /\ L1!permissive_flags = permissive_flags
      /\ L1!EmptyMap = EmptyMap
      /\ \A a, s : L1!aligned(a, s) <=> aligned(a, s)
      /\ \A m, a, pte : L1!Insert(m, a, pte) = Insert(m, a, pte)
  BY DEF L1!Layer, Layer, L1!EntryIndex, EntryIndex, L1!permissive_flags, permissive_flags,
         L1!EmptyMap, EmptyMap, L1!aligned, aligned, L1!Insert, Insert
<1>5. \A v : L1!L0!Ok(v) = L0!Ok(v) /\ L1!L0!Err(v) = L0!Err(v)
  BY DEF L1!L0!Ok, L0!Ok, L1!L0!Err, L0!Err
<1> QED
  BY <1>1, <1>2, <1>3, <1>4, <1>5

(* A fact about layer 3 that goes up from any layer to the one above. *)
LEMMA LayersUp ==
  ASSUME NEW S, \A l \in Layer : (l < 3 => l + 1 \in S) => l \in S
  PROVE  Layer \subseteq S
<1>1. 3 \in S
  BY DEF Layer
<1>2. 2 \in S
  BY <1>1 DEF Layer
<1>3. 1 \in S
  BY <1>2 DEF Layer
<1>4. 0 \in S
  BY <1>3 DEF Layer
<1> QED
  BY <1>1, <1>2, <1>3, <1>4 DEF Layer

TreeAt(mem, l, ptr, base) ==
  CASE l = 0 -> interp_at0(mem, ptr, base)
    [] l = 1 -> interp_at1(mem, ptr, base)
    [] l = 2 -> interp_at2(mem, ptr, base)
    [] l = 3 -> interp_at3(mem, ptr, base)

(* The directory at page p. *)
Dir(mem, t, p) == TreeAt(mem, t[p].lev, p, t[p].start)

(* The directory at ptr, when sub are the directories its entries refer to. *)
TreeFrom(mem, l, ptr, base, sub) ==
  /\ TreeAt(mem, l, ptr, base)
       = interp_with(l, base, [i \in EntryIndex |-> interp_at_entry(mem, ptr, l, i, sub[i])])
  /\ l < 3 => \A i \in EntryIndex :
                sub[i] = TreeAt(mem, l + 1, read_entry(mem, ptr, l, i).addr, entry_base(l, base, i))

LEMMA TreeAtIs ==
  ASSUME NEW mem, NEW l \in Layer, NEW ptr, NEW base
  PROVE  \E sub : TreeFrom(mem, l, ptr, base, sub)
<1> DEFINE Lower(i) == TreeAt(mem, l + 1, read_entry(mem, ptr, l, i).addr, entry_base(l, base, i))
           sub == IF l = 3 THEN [i \in EntryIndex |-> {}] ELSE [i \in EntryIndex |-> Lower(i)]
           es == [i \in EntryIndex |-> interp_at_entry(mem, ptr, l, i, sub[i])]
<1> HIDE DEF sub
<1> SUFFICES TreeFrom(mem, l, ptr, base, sub)
  OBVIOUS
<1>1. CASE l = 0
  <2>1. \A i \in EntryIndex :
          /\ sub[i] = Lower(i)
          /\ sub[i] = interp_at1(mem, read_entry(mem, ptr, 0, i).addr, entry_base(0, base, i))
    BY <1>1 DEF TreeAt, sub
  <2>2. TreeAt(mem, l, ptr, base) = interp_with(l, base, es)
    BY <1>1, <2>1 DEF TreeAt, interp_at0
  <2> QED
    BY <2>1, <2>2 DEF TreeFrom
<1>2. CASE l = 1
  <2>1. \A i \in EntryIndex :
          /\ sub[i] = Lower(i)
          /\ sub[i] = interp_at2(mem, read_entry(mem, ptr, 1, i).addr, entry_base(1, base, i))
    BY <1>2 DEF TreeAt, sub
  <2>2. TreeAt(mem, l, ptr, base) = interp_with(l, base, es)
    BY <1>2, <2>1 DEF TreeAt, interp_at1
  <2> QED
    BY <2>1, <2>2 DEF TreeFrom
<1>3. CASE l = 2
  <2>1. \A i \in EntryIndex :
          /\ sub[i] = Lower(i)
          /\ sub[i] = interp_at3(mem, read_entry(mem, ptr, 2, i).addr, entry_base(2, base, i))
    BY <1>3 DEF TreeAt, sub
  <2>2. TreeAt(mem, l, ptr, base) = interp_with(l, base, es)
    BY <1>3, <2>1 DEF TreeAt, interp_at2
  <2> QED
    BY <2>1, <2>2 DEF TreeFrom
<1>4. CASE l = 3
  <2>1. \A i \in EntryIndex : sub[i] = {}
    BY <1>4 DEF sub
  <2>2. TreeAt(mem, l, ptr, base) = interp_with(l, base, es)
    BY <1>4, <2>1 DEF TreeAt, interp_at3
  <2> QED
    BY <1>4, <2>2 DEF TreeFrom
<1> QED
  BY <1>1, <1>2, <1>3, <1>4 DEF Layer

LEMMA TreeRoot ==
  ASSUME NEW T, NEW mem, NEW t, Tree(T, mem, t)
  PROVE  interp(mem) = Dir(mem, t, cr3)
BY DEF interp, Dir, TreeAt, Tree

(* The address of a page as the MMU and as the implementation reads it. *)
LEMMA AddressOfLeaf ==
  ASSUME NEW l \in 1 .. 3, NEW w \in Word, LeafFits(l, w), w.P
  PROVE  /\ MASK_PG_ADDR(l, w.addr) = w.addr /\ address(w) = w.addr
         /\ aligned(w.addr, entry_size(l)) /\ w.addr \in Nat
<1>1. w.addr \in Nat /\ w.addr <= MAX_PHYADDR /\ MAX_PHYADDR \in Nat /\ w.addr % entry_size(l) = 0
  BY SizesAssumption DEF LeafFits, all_mb0_bits_are_zero, aligned, Word
<1>2. w.addr % (MAX_PHYADDR + 1) = w.addr
  BY <1>1
<1> QED
  BY <1>1, <1>2 DEF MASK_PG_ADDR, MASK_ADDR, address, aligned

(* A directory of the tree, from the words of its page. *)
EntryIs(mem, t, p, i, e) ==
  LET l == t[p].lev
      w == mem[p][i]
  IN  /\ links(l, w) => e = L1!DirectoryEntry(Dir(mem, t, address(w))) /\ t[address(w)].lev = l + 1
      /\ w.P /\ is_page(l, w) => e = L1!PageEntry(PteOf(l, w))
      /\ ~w.P => e = L1!EmptyEntry

LEMMA DirOfPage ==
  ASSUME NEW T, NEW mem, NEW t, Tree(T, mem, t), NEW p \in T
  PROVE  LET d == Dir(mem, t, p)
         IN  /\ d = [entries |-> d.entries, layer |-> t[p].lev, base_vaddr |-> t[p].start,
                     flags |-> permissive_flags]
             /\ d.entries = [i \in EntryIndex |-> d.entries[i]]
             /\ \A i \in EntryIndex : EntryIs(mem, t, p, i, d.entries[i])
<1> DEFINE l == t[p].lev
           base == t[p].start
           d == Dir(mem, t, p)
<1>1. l \in Layer
  BY TreeType
<1>p. PICK sub : TreeFrom(mem, l, p, base, sub)
  BY <1>1, TreeAtIs
<1>2. /\ d = interp_with(l, base, [i \in EntryIndex |-> interp_at_entry(mem, p, l, i, sub[i])])
      /\ l < 3 => \A i \in EntryIndex :
                    sub[i] = TreeAt(mem, l + 1, read_entry(mem, p, l, i).addr, entry_base(l, base, i))
  BY <1>p DEF Dir, TreeFrom
<1> HIDE DEF d
<1>3. /\ d = [entries |-> d.entries, layer |-> l, base_vaddr |-> base, flags |-> permissive_flags]
      /\ d.entries = [i \in EntryIndex |-> interp_at_entry(mem, p, l, i, sub[i])]
  BY <1>2 DEF interp_with
<1>4. ASSUME NEW i \in EntryIndex PROVE EntryIs(mem, t, p, i, d.entries[i])
  <2> DEFINE w == mem[p][i]
             v == read_entry(mem, p, l, i)
             e == d.entries[i]
  <2>1. ViewFits(l, w) /\ v = view(l, w)
    BY ViewOfWord DEF read_entry, spec_read
  <2>2. e = interp_at_entry(mem, p, l, i, sub[i])
    BY <1>3
  <2> HIDE DEF e, v
  <2>3. ASSUME links(l, w)
        PROVE  e = L1!DirectoryEntry(Dir(mem, t, address(w))) /\ t[address(w)].lev = l + 1
    <3>1. v.kind = "Directory" /\ v.addr = address(w)
      BY <2>1, <2>3 DEF ViewFits, ViewOf
    <3>2. e = L1!DirectoryEntry(sub[i])
      BY <2>2, <3>1 DEF interp_at_entry, v
    <3>3. /\ t[address(w)].lev = l + 1 /\ t[address(w)].start = entry_base(l, base, i)
          /\ address(w) \in T
      <4>1. LinkFits(T, t, p, i, w)
        BY <2>3, LinkedChild
      <4> QED
        BY <4>1 DEF LinkFits, Child
    <3>4. l < 3
      <4>1. t[address(w)].lev \in Layer
        BY <3>3, TreeType
      <4> QED
        BY <1>1, <3>3, <4>1 DEF Layer
    <3>5. sub[i] = Dir(mem, t, address(w))
      BY <1>2, <3>1, <3>3, <3>4 DEF Dir, v
    <3> QED
      BY <3>2, <3>3, <3>5
  <2>4. ASSUME w.P, is_page(l, w) PROVE e = L1!PageEntry(PteOf(l, w))
    <3>1. v = ViewOf("Page", MASK_PG_ADDR(l, w.addr), w)
      BY <2>1, <2>4 DEF ViewFits
    <3>2. /\ v.kind = "Page" /\ v.addr = MASK_PG_ADDR(l, w.addr)
          /\ v.flag_RW = w.RW /\ v.flag_US = w.US /\ v.flag_XD = w.XD
      BY <3>1 DEF ViewOf
    <3> QED
      BY <2>2, <3>2 DEF interp_at_entry, PteOf, v
  <2>5. ASSUME ~w.P PROVE e = L1!EmptyEntry
    <3>1. v.kind = "Empty"
      BY <2>1, <2>5 DEF ViewFits
    <3> QED
      BY <2>2, <3>1 DEF interp_at_entry, v
  <2> QED
    BY <2>3, <2>4, <2>5 DEF EntryIs, e
<1>5. d.entries = [i \in EntryIndex |-> d.entries[i]]
  BY <1>3
<1> QED
  BY <1>3, <1>4, <1>5 DEF d

LEMMA DirParts ==
  ASSUME NEW T, NEW mem, NEW t, Tree(T, mem, t), NEW p \in T, NEW d, d = Dir(mem, t, p)
  PROVE  /\ d.layer = t[p].lev /\ d.base_vaddr = t[p].start /\ d.flags = permissive_flags
         /\ DOMAIN d.entries = EntryIndex
         /\ \A i \in EntryIndex : EntryIs(mem, t, p, i, d.entries[i])
<1>1. /\ d = [entries |-> d.entries, layer |-> t[p].lev, base_vaddr |-> t[p].start,
              flags |-> permissive_flags]
      /\ d.entries = [i \in EntryIndex |-> d.entries[i]]
      /\ \A i \in EntryIndex : EntryIs(mem, t, p, i, d.entries[i])
  BY DirOfPage
<1>2. d.layer = t[p].lev /\ d.base_vaddr = t[p].start /\ d.flags = permissive_flags
  BY <1>1
<1>3. DOMAIN d.entries = EntryIndex
  BY <1>1
<1> QED
  BY <1>1, <1>2, <1>3


-----------------------------------------------------------------------------
(* The operations of layer 1 on a directory of layer l. *)

InterpIn(l, d) ==
  CASE l = 0 -> L1!interp0(d)
    [] l = 1 -> L1!interp1(d)
    [] l = 2 -> L1!interp2(d)
    [] l = 3 -> L1!interp3(d)

InterpFrom(l, d, sub) ==
  /\ InterpIn(l, d) = L1!union_of([i \in EntryIndex |-> L1!interp_of_entry(d, i, sub[i])])
  /\ l < 3 => \A i \in EntryIndex : sub[i] = InterpIn(l + 1, d.entries[i].dir)

LEMMA InterpInIs ==
  ASSUME NEW l \in Layer, NEW d
  PROVE  \E sub : InterpFrom(l, d, sub)
<1> DEFINE sub == IF l = 3 THEN [i \in EntryIndex |-> EmptyMap]
                  ELSE [i \in EntryIndex |-> InterpIn(l + 1, d.entries[i].dir)]
           es == [i \in EntryIndex |-> L1!interp_of_entry(d, i, sub[i])]
<1> HIDE DEF sub
<1> SUFFICES InterpFrom(l, d, sub)
  OBVIOUS
<1>e. L1!EntryIndex = EntryIndex /\ L1!EmptyMap = EmptyMap
  BY SameArch
<1>1. CASE l = 0
  <2>1. \A i \in EntryIndex :
          sub[i] = InterpIn(l + 1, d.entries[i].dir) /\ sub[i] = L1!interp1(d.entries[i].dir)
    BY <1>1 DEF InterpIn, sub
  <2>2. InterpIn(l, d) = L1!union_of(es)
    BY <1>1, <2>1, <1>e DEF InterpIn, L1!interp0
  <2> QED
    BY <2>1, <2>2 DEF InterpFrom
<1>2. CASE l = 1
  <2>1. \A i \in EntryIndex :
          sub[i] = InterpIn(l + 1, d.entries[i].dir) /\ sub[i] = L1!interp2(d.entries[i].dir)
    BY <1>2 DEF InterpIn, sub
  <2>2. InterpIn(l, d) = L1!union_of(es)
    BY <1>2, <2>1, <1>e DEF InterpIn, L1!interp1
  <2> QED
    BY <2>1, <2>2 DEF InterpFrom
<1>3. CASE l = 2
  <2>1. \A i \in EntryIndex :
          sub[i] = InterpIn(l + 1, d.entries[i].dir) /\ sub[i] = L1!interp3(d.entries[i].dir)
    BY <1>3 DEF InterpIn, sub
  <2>2. InterpIn(l, d) = L1!union_of(es)
    BY <1>3, <2>1, <1>e DEF InterpIn, L1!interp2
  <2> QED
    BY <2>1, <2>2 DEF InterpFrom
<1>4. CASE l = 3
  <2>1. \A i \in EntryIndex : sub[i] = EmptyMap
    BY <1>4 DEF sub
  <2>2. InterpIn(l, d) = L1!union_of(es)
    BY <1>4, <2>1, <1>e DEF InterpIn, L1!interp3
  <2> QED
    BY <1>4, <2>2 DEF InterpFrom
<1> QED
  BY <1>1, <1>2, <1>3, <1>4 DEF Layer

(* The union of the parts of a map f, one for each entry. *)
Parts(maps, D, f, ix) ==
  /\ \A x \in D : ix[x] \in EntryIndex
  /\ \A i \in EntryIndex : maps[i] = [a \in {x \in D : ix[x] = i} |-> f[a]]

LEMMA UnionOfParts ==
  ASSUME NEW D, NEW f, NEW ix, NEW maps, Parts(maps, D, f, ix)
  PROVE  L1!union_of(maps) = [a \in D |-> f[a]]
<1>e. L1!EntryIndex = EntryIndex
  BY SameArch
<1>1. /\ \A x \in D : ix[x] \in EntryIndex
      /\ \A i \in EntryIndex : DOMAIN maps[i] = {x \in D : ix[x] = i}
      /\ \A i \in EntryIndex : \A a \in DOMAIN maps[i] : maps[i][a] = f[a]
  BY DEF Parts
<1>2. UNION {DOMAIN maps[i] : i \in EntryIndex} = D
  BY <1>1
<1>3. ASSUME NEW a \in D PROVE maps[L1!entry_with(maps, a)][a] = f[a]
  <2> DEFINE P(i) == a \in DOMAIN maps[i] /\ \A j \in 0 .. i - 1 : a \notin DOMAIN maps[j]
  <2>1. ix[a] \in EntryIndex /\ a \in DOMAIN maps[ix[a]]
    BY <1>1
  <2>2. \A j \in 0 .. ix[a] - 1 : j \in EntryIndex /\ j # ix[a]
    BY <2>1, Sizes DEF EntryIndex
  <2>3. P(ix[a])
    BY <1>1, <2>1, <2>2
  <2>4. L1!entry_with(maps, a) = CHOOSE i \in EntryIndex : P(i)
    BY <1>e DEF L1!entry_with
  <2>5. (CHOOSE i \in EntryIndex : P(i)) \in EntryIndex /\ P(CHOOSE i \in EntryIndex : P(i))
    BY <2>1, <2>3
  <2>6. L1!entry_with(maps, a) \in EntryIndex /\ a \in DOMAIN maps[L1!entry_with(maps, a)]
    BY <2>4, <2>5
  <2> QED
    BY <1>1, <2>6
<1>4. L1!union_of(maps) = [a \in UNION {DOMAIN maps[i] : i \in EntryIndex} |-> maps[L1!entry_with(maps, a)][a]]
  BY <1>e DEF L1!union_of
<1> QED
  BY <1>2, <1>3, <1>4

(* The part of the map M that lies in the directory p, and in an entry of it. *)
PartOf(M, T, t, p) == [a \in {x \in DOMAIN M : AtAddr(T, t, p, x)} |-> M[a]]

EntryPart(M, T, t, p, i) ==
  [a \in {x \in DOMAIN M : AtAddr(T, t, p, x) /\ IndexAt(t, p, x) = i} |-> M[a]]

LEMMA PartOfLeaf ==
  ASSUME NEW T, NEW mem, NEW t, Tree(T, mem, t), NEW M, Shows(M, T, mem, t),
         NEW p, NEW i, Leaf(T, mem, t, p, i)
  PROVE  EntryPart(M, T, t, p, i) = Insert(EmptyMap, BaseAt(t, p, i), PteOf(t[p].lev, mem[p][i]))
<1> DEFINE b == BaseAt(t, p, i)
           pte == PteOf(t[p].lev, mem[p][i])
<1>1. p \in T /\ i \in EntryIndex
  BY DEF Leaf
<1>2. b \in Nat /\ AtAddr(T, t, p, b) /\ IndexAt(t, p, b) = i
  BY <1>1, BaseInEntry
<1>3. b \in DOMAIN M /\ M[b] = pte
  <2>1. Translates(T, mem, t, b, pte)
    BY <1>1 DEF Translates
  <2> QED
    BY <2>1 DEF Shows
<1>4. ASSUME NEW a \in DOMAIN M, AtAddr(T, t, p, a), IndexAt(t, p, a) = i PROVE a = b
  <2>1. Translates(T, mem, t, a, M[a])
    BY DEF Shows
  <2>2. PICK q \in T, j \in EntryIndex : Leaf(T, mem, t, q, j) /\ a = BaseAt(t, q, j)
    BY <2>1 DEF Translates
  <2>3. a \in Nat /\ AtAddr(T, t, q, a) /\ IndexAt(t, q, a) = j
    BY <2>2, BaseInEntry
  <2>4. p = q
    BY <1>4, <2>2, <2>3, LeafUnique
  <2> QED
    BY <1>4, <2>2, <2>3, <2>4
<1>5. {x \in DOMAIN M : AtAddr(T, t, p, x) /\ IndexAt(t, p, x) = i} = {b}
  BY <1>2, <1>3, <1>4
<1>6. EntryPart(M, T, t, p, i) = [a \in {b} |-> M[a]]
  BY <1>5 DEF EntryPart
<1>7. Insert(EmptyMap, b, pte) = [a \in {b} |-> pte]
  BY DEF Insert, EmptyMap
<1> QED
  BY <1>3, <1>6, <1>7

LEMMA PartOfNothing ==
  ASSUME NEW T, NEW mem, NEW t, Tree(T, mem, t), NEW M, Shows(M, T, mem, t),
         NEW p \in T, NEW i \in EntryIndex, ~mem[p][i].P
  PROVE  EntryPart(M, T, t, p, i) = EmptyMap
<1>1. ASSUME NEW a \in DOMAIN M, AtAddr(T, t, p, a), IndexAt(t, p, a) = i PROVE FALSE
  <2>1. a \in Nat
    BY TranslatesOnce DEF Shows
  <2> QED
    BY <1>1, <2>1, NoPageAt
<1>2. {x \in DOMAIN M : AtAddr(T, t, p, x) /\ IndexAt(t, p, x) = i} = {}
  BY <1>1
<1> QED
  BY <1>2 DEF EntryPart, EmptyMap

LEMMA PartOfLink ==
  ASSUME NEW T, NEW mem, NEW t, Tree(T, mem, t), NEW M, Shows(M, T, mem, t),
         NEW p \in T, NEW i \in EntryIndex, links(t[p].lev, mem[p][i])
  PROVE  EntryPart(M, T, t, p, i) = PartOf(M, T, t, address(mem[p][i]))
<1> DEFINE c == address(mem[p][i])
<1>1. \A a \in DOMAIN M : a \in Nat
  BY TranslatesOnce DEF Shows
<1>2. LinkFits(T, t, p, i, mem[p][i])
  BY LinkedChild
<1>3. c \in T \ {cr3} /\ t[c].par = p /\ t[c].slot = i
  BY <1>2 DEF LinkFits, Child
<1>4. ASSUME NEW a \in DOMAIN M
      PROVE  AtAddr(T, t, p, a) /\ IndexAt(t, p, a) = i <=> AtAddr(T, t, c, a)
  <2>1. AtAddr(T, t, p, a) /\ IndexAt(t, p, a) = i => AtAddr(T, t, c, a)
    BY <1>1, ChildAt
  <2>2. AtAddr(T, t, c, a) => AtAddr(T, t, p, a) /\ IndexAt(t, p, a) = i
    BY <1>1, <1>3, ParentAt
  <2> QED
    BY <2>1, <2>2
<1>5. {x \in DOMAIN M : AtAddr(T, t, p, x) /\ IndexAt(t, p, x) = i}
        = {x \in DOMAIN M : AtAddr(T, t, c, x)}
  BY <1>4
<1> QED
  BY <1>5 DEF EntryPart, PartOf


(* The map of the directory at p, as layer 1 computes it, is what the MMU  *)
(* finds below p.                                                          *)
PartsBelow(M, T, mem, t, l) ==
  \A c \in T : t[c].lev = l + 1 => InterpIn(l + 1, Dir(mem, t, c)) = PartOf(M, T, t, c)

LEMMA InterpOfDir ==
  ASSUME NEW T, NEW mem, NEW t, Tree(T, mem, t), NEW M, Shows(M, T, mem, t),
         NEW p \in T, NEW l \in Layer, l = t[p].lev, PartsBelow(M, T, mem, t, l),
         NEW d, d = Dir(mem, t, p)
  PROVE  InterpIn(l, d) = PartOf(M, T, t, p)
<1> DEFINE D == {x \in DOMAIN M : AtAddr(T, t, p, x)}
           ix == [x \in D |-> IndexAt(t, p, x)]
<1> HIDE DEF D, ix
<1>1. PICK sub : InterpFrom(l, d, sub)
  BY InterpInIs
<1> DEFINE maps == [i \in EntryIndex |-> L1!interp_of_entry(d, i, sub[i])]
<1>2. /\ d.layer = l /\ d.base_vaddr = t[p].start
      /\ \A i \in EntryIndex : EntryIs(mem, t, p, i, d.entries[i])
  BY DirParts
<1>3. ASSUME NEW i \in EntryIndex PROVE maps[i] = EntryPart(M, T, t, p, i)
  <2> DEFINE w == mem[p][i]
             e == d.entries[i]
  <2>1. maps[i] = L1!interp_of_entry(d, i, sub[i])
    OBVIOUS
  <2>2. EntryIs(mem, t, p, i, e)
    BY <1>2
  <2> HIDE DEF maps, e
  <2>3. CASE links(l, w)
    <3> DEFINE c == address(w)
    <3>1. e = L1!DirectoryEntry(Dir(mem, t, c)) /\ t[c].lev = l + 1
      BY <2>2, <2>3 DEF EntryIs
    <3>2. c \in T
      <4>1. LinkFits(T, t, p, i, w)
        BY <2>3, LinkedChild
      <4> QED
        BY <4>1 DEF LinkFits
    <3>3. l < 3
      <4>1. t[c].lev \in Layer
        BY <3>2, TreeType
      <4> QED
        BY <3>1, <4>1 DEF Layer
    <3>4. e.tag = "Directory" /\ e.dir = Dir(mem, t, c)
      BY <3>1 DEF L1!DirectoryEntry
    <3>5. sub[i] = InterpIn(l + 1, Dir(mem, t, c))
      BY <1>1, <3>3, <3>4 DEF InterpFrom, e
    <3>6. sub[i] = PartOf(M, T, t, c)
      BY <3>1, <3>2, <3>5 DEF PartsBelow
    <3>7. maps[i] = sub[i]
      BY <2>1, <3>4 DEF L1!interp_of_entry, e
    <3> QED
      BY <2>3, <3>6, <3>7, PartOfLink
  <2>4. CASE w.P /\ is_page(l, w)
    <3>1. e = L1!PageEntry(PteOf(l, w))
      BY <2>2, <2>4 DEF EntryIs
    <3>2. e.tag = "Page" /\ e.pte = PteOf(l, w)
      BY <3>1 DEF L1!PageEntry
    <3>3. maps[i] = L1!Insert(L1!EmptyMap, L1!base_of_entry(d, i), PteOf(l, w))
      BY <2>1, <3>2 DEF L1!interp_of_entry, e
    <3>4. L1!base_of_entry(d, i) = BaseAt(t, p, i)
      BY <1>2, SameArch DEF L1!base_of_entry, BaseAt
    <3>5. maps[i] = Insert(EmptyMap, BaseAt(t, p, i), PteOf(l, w))
      BY <3>3, <3>4, SameArch
    <3>6. Leaf(T, mem, t, p, i)
      BY <2>4 DEF Leaf
    <3> QED
      BY <3>5, <3>6, PartOfLeaf
  <2>5. CASE ~w.P
    <3>1. e = L1!EmptyEntry
      BY <2>2, <2>5 DEF EntryIs
    <3>2. maps[i] = L1!EmptyMap
      BY <2>1, <3>1 DEF L1!interp_of_entry, L1!EmptyEntry, e
    <3>3. maps[i] = EmptyMap
      BY <3>2, SameArch
    <3> QED
      BY <2>5, <3>3, PartOfNothing
  <2> QED
    BY <2>3, <2>4, <2>5 DEF links, is_dir
<1>4. InterpIn(l, d) = L1!union_of(maps)
  BY <1>1 DEF InterpFrom
<1> HIDE DEF maps
<1>5. \A x \in D : ix[x] \in EntryIndex
  <2>1. \A x \in DOMAIN M : x \in Nat
    BY TranslatesOnce DEF Shows
  <2>2. \A x \in D : IndexAt(t, p, x) \in EntryIndex
    BY <2>1, EntryAt DEF D
  <2> QED
    BY <2>2 DEF ix
<1>6. ASSUME NEW i \in EntryIndex PROVE maps[i] = [a \in {x \in D : ix[x] = i} |-> M[a]]
  <2>1. {x \in D : ix[x] = i} = {x \in DOMAIN M : AtAddr(T, t, p, x) /\ IndexAt(t, p, x) = i}
    BY DEF D, ix
  <2>2. maps[i] = EntryPart(M, T, t, p, i)
    BY <1>3
  <2> QED
    BY <2>1, <2>2 DEF EntryPart
<1>7. L1!union_of(maps) = [a \in D |-> M[a]]
  <2>1. Parts(maps, D, M, ix)
    BY <1>5, <1>6 DEF Parts
  <2> QED
    BY <2>1, UnionOfParts
<1> QED
  BY <1>4, <1>7 DEF PartOf, D

LEMMA InterpOfTree ==
  ASSUME NEW T, NEW mem, NEW t, Tree(T, mem, t), NEW M, Shows(M, T, mem, t)
  PROVE  L1!interp(Dir(mem, t, cr3)).map = M
<1> DEFINE S == {l \in Layer : \A p \in T : t[p].lev = l => InterpIn(l, Dir(mem, t, p)) = PartOf(M, T, t, p)}
<1>1. ASSUME NEW l \in Layer, l < 3 => l + 1 \in S PROVE l \in S
  <2>1. ASSUME NEW p \in T, t[p].lev = l PROVE InterpIn(l, Dir(mem, t, p)) = PartOf(M, T, t, p)
    <3>1. \A c \in T : t[c].lev = l + 1 => l + 1 \in Layer
      BY TreeType
    <3>2. PartsBelow(M, T, mem, t, l)
      BY <1>1, <3>1 DEF Layer, PartsBelow
    <3> QED
      BY <2>1, <3>2, InterpOfDir
  <2> QED
    BY <2>1
<1> HIDE DEF S
<1>2. 0 \in S
  BY <1>1, LayersUp DEF Layer
<1>3. cr3 \in T /\ t[cr3].lev = 0 /\ t[cr3].start = 0
  BY DEF Tree
<1>4. InterpIn(0, Dir(mem, t, cr3)) = PartOf(M, T, t, cr3)
  BY <1>2, <1>3 DEF S
<1>5. \A a \in DOMAIN M : AtAddr(T, t, cr3, a)
  <2>1. \A a \in DOMAIN M : a \in Nat /\ a < MAX_BASE
    BY TranslatesOnce DEF Shows
  <2> QED
    BY <1>3, <2>1, RootCovers DEF AtAddr
<1>6. PartOf(M, T, t, cr3) = M
  <2>1. {x \in DOMAIN M : AtAddr(T, t, cr3, x)} = DOMAIN M
    BY <1>5
  <2> QED
    BY <2>1 DEF PartOf, Shows
<1>7. L1!interp(Dir(mem, t, cr3)).map = InterpIn(0, Dir(mem, t, cr3))
  BY DEF L1!interp, InterpIn
<1> QED
  BY <1>4, <1>6, <1>7

-----------------------------------------------------------------------------
(* resolve reads the words of the path in the tree. *)

ResolveIn(l, d, vaddr) ==
  CASE l = 0 -> L1!resolve(d, vaddr)
    [] l = 1 -> L1!resolve1(d, vaddr)
    [] l = 2 -> L1!resolve2(d, vaddr)
    [] l = 3 -> L1!resolve3(d, vaddr)

ResolveAt(ptr, l, base, vaddr) ==
  CASE l = 0 -> resolve0(ptr, base, vaddr)
    [] l = 1 -> resolve1(ptr, base, vaddr)
    [] l = 2 -> resolve2(ptr, base, vaddr)
    [] l = 3 -> resolve3(ptr, base, vaddr)

ResolveInFrom(l, d, vaddr, r) ==
  /\ ResolveIn(l, d, vaddr) = L1!resolve_at(d, vaddr, r)
  /\ l < 3 => r = ResolveIn(l + 1, L1!dir_at(d, L1!index_in(d, vaddr)), vaddr)

ResolveAtFrom(ptr, l, base, vaddr, r) ==
  /\ ResolveAt(ptr, l, base, vaddr) = resolve_at(ptr, l, base, vaddr, r)
  /\ l < 3 => r = ResolveAt(next_ptr(ptr, l, base, vaddr), l + 1, next_base(l, base, vaddr), vaddr)

LEMMA ResolveInIs ==
  ASSUME NEW l \in Layer, NEW d, NEW vaddr
  PROVE  \E r : ResolveInFrom(l, d, vaddr, r)
<1> DEFINE r == IF l = 3 THEN L1!L0!Err("none")
                ELSE ResolveIn(l + 1, L1!dir_at(d, L1!index_in(d, vaddr)), vaddr)
<1>1. ResolveIn(l, d, vaddr) = L1!resolve_at(d, vaddr, r)
  <2>1. CASE l = 0
    BY <2>1 DEF ResolveIn, L1!resolve
  <2>2. CASE l = 1
    BY <2>2 DEF ResolveIn, L1!resolve1
  <2>3. CASE l = 2
    BY <2>3 DEF ResolveIn, L1!resolve2
  <2>4. CASE l = 3
    BY <2>4 DEF ResolveIn, L1!resolve3
  <2> QED
    BY <2>1, <2>2, <2>3, <2>4 DEF Layer
<1>2. l < 3 => r = ResolveIn(l + 1, L1!dir_at(d, L1!index_in(d, vaddr)), vaddr)
  OBVIOUS
<1> QED
  BY <1>1, <1>2 DEF ResolveInFrom

LEMMA ResolveAtIs ==
  ASSUME NEW l \in Layer, NEW ptr, NEW base, NEW vaddr
  PROVE  \E r : ResolveAtFrom(ptr, l, base, vaddr, r)
<1> DEFINE r == IF l = 3 THEN L0!Err("none")
                ELSE ResolveAt(next_ptr(ptr, l, base, vaddr), l + 1, next_base(l, base, vaddr), vaddr)
<1>1. ResolveAt(ptr, l, base, vaddr) = resolve_at(ptr, l, base, vaddr, r)
  <2>1. CASE l = 0
    BY <2>1 DEF ResolveAt, resolve0
  <2>2. CASE l = 1
    BY <2>2 DEF ResolveAt, resolve1
  <2>3. CASE l = 2
    BY <2>3 DEF ResolveAt, resolve2
  <2>4. CASE l = 3
    BY <2>4 DEF ResolveAt, resolve3
  <2> QED
    BY <2>1, <2>2, <2>3, <2>4 DEF Layer
<1>2. l < 3 => r = ResolveAt(next_ptr(ptr, l, base, vaddr), l + 1, next_base(l, base, vaddr), vaddr)
  OBVIOUS
<1> QED
  BY <1>1, <1>2 DEF ResolveAtFrom


ResolvesBelow(T, t, l, vaddr) ==
  \A c \in T : t[c].lev = l /\ AtAddr(T, t, c, vaddr) =>
    ResolveAt(c, l, t[c].start, vaddr) = ResolveIn(l, Dir(region_view, t, c), vaddr)

LEMMA ResolveOfDir ==
  ASSUME NEW T, NEW t, Tree(T, region_view, t), NEW vaddr \in Nat,
         NEW p, AtAddr(T, t, p, vaddr), NEW l \in Layer, l = t[p].lev,
         ResolvesBelow(T, t, l + 1, vaddr), NEW d, d = Dir(region_view, t, p)
  PROVE  ResolveAt(p, l, t[p].start, vaddr) = ResolveIn(l, d, vaddr)
<1> DEFINE b == t[p].start
           i == IndexAt(t, p, vaddr)
           w == region_view[p][i]
           e == d.entries[i]
<1>1. p \in T /\ i \in EntryIndex /\ i = index_for_vaddr(l, b, vaddr)
  BY EntryAt DEF IndexAt
<1>2. d.layer = l /\ d.base_vaddr = b /\ EntryIs(region_view, t, p, i, e)
  BY <1>1, DirParts
<1>3. L1!index_in(d, vaddr) = i /\ L1!base_of_entry(d, i) = entry_base(l, b, i)
  BY <1>1, <1>2, SameArch DEF L1!index_in, L1!base_of_entry
<1>4. spec_read(region_view, i, p) = w
  BY DEF spec_read
<1>5. w \in Word
  BY <1>1 DEF Tree, Memory
<1>r. PICK r : ResolveAtFrom(p, l, b, vaddr, r)
  BY ResolveAtIs
<1>s. PICK s : ResolveInFrom(l, d, vaddr, s)
  BY ResolveInIs
<1>6. /\ ResolveAt(p, l, b, vaddr) = resolve_at(p, l, b, vaddr, r)
      /\ l < 3 => r = ResolveAt(next_ptr(p, l, b, vaddr), l + 1, next_base(l, b, vaddr), vaddr)
  BY <1>r DEF ResolveAtFrom
<1>7. /\ ResolveIn(l, d, vaddr) = L1!resolve_at(d, vaddr, s)
      /\ l < 3 => s = ResolveIn(l + 1, L1!dir_at(d, L1!index_in(d, vaddr)), vaddr)
  BY <1>s DEF ResolveInFrom
<1>8. next_ptr(p, l, b, vaddr) = address(w) /\ next_base(l, b, vaddr) = entry_base(l, b, i)
  BY <1>1, <1>4 DEF next_ptr, next_base
<1>9. /\ ~is_mapping(w) => resolve_at(p, l, b, vaddr, r) = L0!Err("none")
      /\ is_mapping(w) /\ is_dir(l, w) => resolve_at(p, l, b, vaddr, r) = r
      /\ is_mapping(w) /\ ~is_dir(l, w) =>
           resolve_at(p, l, b, vaddr, r)
             = L0!Ok(<<entry_base(l, b, i),
                       [frame |-> Region(address(w), entry_size(l)),
                        flags |-> [is_writable |-> w.RW, is_supervisor |-> ~w.US, disable_execute |-> w.XD]]>>)
  <2> HIDE DEF w
  <2> QED
    BY <1>1, <1>4 DEF resolve_at
<1>10. /\ e.tag = "Page" => L1!resolve_at(d, vaddr, s) = L0!Ok(<<entry_base(l, b, i), e.pte>>)
       /\ e.tag = "Directory" => L1!resolve_at(d, vaddr, s) = s
       /\ e.tag = "Empty" => L1!resolve_at(d, vaddr, s) = L0!Err("none")
  BY <1>3, SameArch DEF L1!resolve_at
<1> HIDE DEF w, e
<1>11. CASE links(l, w)
  <2> DEFINE c == address(w)
  <2>1. e = L1!DirectoryEntry(Dir(region_view, t, c)) /\ t[c].lev = l + 1
    BY <1>2, <1>11 DEF EntryIs, w
  <2>2. e.tag = "Directory" /\ e.dir = Dir(region_view, t, c)
    BY <2>1 DEF L1!DirectoryEntry
  <2>3. LinkFits(T, t, p, i, w)
    BY <1>1, <1>11, LinkedChild DEF w
  <2>4. c \in T /\ t[c].start = entry_base(l, b, i)
    BY <2>3 DEF LinkFits, Child
  <2>5. AtAddr(T, t, c, vaddr)
    BY <1>1, <1>11, ChildAt DEF w
  <2>6. l < 3
    <3>1. t[c].lev \in Layer
      BY <2>4, TreeType
    <3> QED
      BY <2>1, <3>1 DEF Layer
  <2>7. s = ResolveIn(l + 1, Dir(region_view, t, c), vaddr)
    BY <1>3, <1>7, <2>2, <2>6 DEF L1!dir_at, e
  <2>8. r = ResolveAt(c, l + 1, t[c].start, vaddr)
    BY <1>6, <1>8, <2>4, <2>6
  <2>9. r = s
    BY <2>1, <2>4, <2>5, <2>7, <2>8 DEF ResolvesBelow
  <2>10. is_mapping(w) /\ is_dir(l, w)
    BY <1>11 DEF links, is_mapping
  <2> QED
    BY <1>6, <1>7, <1>9, <1>10, <2>2, <2>9, <2>10
<1>12. CASE w.P /\ is_page(l, w)
  <2>1. e = L1!PageEntry(PteOf(l, w))
    BY <1>2, <1>12 DEF EntryIs, w
  <2>2. e.tag = "Page" /\ e.pte = PteOf(l, w)
    BY <2>1 DEF L1!PageEntry
  <2>3. is_mapping(w) /\ ~is_dir(l, w) /\ ~links(l, w)
    BY <1>12 DEF is_dir, is_mapping, links
  <2>4. Leaf(T, region_view, t, p, i) /\ LeafFits(l, w)
    <3>1. WordFits(T, t, p, i, w)
      BY <1>1 DEF Tree, w
    <3> QED
      BY <1>1, <1>12, <2>3, <3>1 DEF Leaf, WordFits, w
  <2>5. l \in 1 .. 3
    BY <2>4, LeafLayer
  <2>6. MASK_PG_ADDR(l, w.addr) = address(w)
    BY <1>5, <1>12, <2>4, <2>5, AddressOfLeaf
  <2> QED
    BY <1>6, <1>7, <1>9, <1>10, <2>2, <2>3, <2>6 DEF PteOf
<1>13. CASE ~w.P
  <2>1. e = L1!EmptyEntry
    BY <1>2, <1>13 DEF EntryIs, w
  <2>2. e.tag = "Empty"
    BY <2>1 DEF L1!EmptyEntry
  <2> QED
    BY <1>6, <1>7, <1>9, <1>10, <1>13, <2>2 DEF is_mapping
<1> QED
  BY <1>11, <1>12, <1>13 DEF links, is_dir

LEMMA ResolveOfTree ==
  ASSUME NEW T, NEW t, Tree(T, region_view, t), NEW vaddr \in 0 .. MAX_BASE - 1
  PROVE  resolve(vaddr) = L1!resolve(Dir(region_view, t, cr3), vaddr)
<1> DEFINE S == {l \in Layer : ResolvesBelow(T, t, l, vaddr)}
<1>0. vaddr \in Nat
  OBVIOUS
<1>1. ASSUME NEW l \in Layer, l < 3 => l + 1 \in S PROVE l \in S
  <2>1. ASSUME NEW p \in T, t[p].lev = l, AtAddr(T, t, p, vaddr)
        PROVE  ResolveAt(p, l, t[p].start, vaddr) = ResolveIn(l, Dir(region_view, t, p), vaddr)
    <3>1. \A c \in T : t[c].lev = l + 1 => l + 1 \in Layer
      BY TreeType
    <3>2. ResolvesBelow(T, t, l + 1, vaddr)
      BY <1>1, <3>1 DEF Layer, ResolvesBelow
    <3> QED
      BY <1>0, <2>1, <3>2, ResolveOfDir
  <2> QED
    BY <2>1 DEF ResolvesBelow
<1> HIDE DEF S
<1>2. 0 \in S
  BY <1>1, LayersUp DEF Layer
<1>3. cr3 \in T /\ t[cr3].lev = 0 /\ t[cr3].start = 0
  BY DEF Tree
<1>4. AtAddr(T, t, cr3, vaddr)
  <2>1. MAX_BASE \in Int => vaddr < MAX_BASE
    OBVIOUS
  <2>2. MAX_BASE \in Int
    BY Sizes, ProductType DEF MAX_BASE, entry_size, Layer
  <2> QED
    BY <1>0, <1>3, <2>1, <2>2, RootCovers DEF AtAddr
<1>5. ResolveAt(cr3, 0, 0, vaddr) = ResolveIn(0, Dir(region_view, t, cr3), vaddr)
  BY <1>2, <1>3, <1>4 DEF S, ResolvesBelow
<1> QED
  BY <1>5 DEF ResolveAt, ResolveIn, resolve

-----------------------------------------------------------------------------
(* The history of the memory. *)
HTree ==
  /\ TreeInv
  /\ mappings = interp_pt_mem(region_view)
  /\ dir = interp(region_view)

LEMMA TreeOfMemory ==
  ASSUME HTree
  PROVE  \E t : /\ TreeFits(t) /\ Tree(InTree, region_view, t) /\ dir = Dir(region_view, t, cr3)
                /\ Shows(mappings, InTree, region_view, t)
<1>1. PICK t : TreeFits(t)
  BY DEF HTree, TreeInv
<1>2. Tree(InTree, region_view, t)
  BY <1>1 DEF TreeFits
<1>3. dir = Dir(region_view, t, cr3)
  BY <1>2, TreeRoot DEF HTree
<1>4. Shows(mappings, InTree, region_view, t)
  BY <1>2, InterpShows DEF HTree
<1> QED
  BY <1>1, <1>2, <1>3, <1>4

LEMMA TreeMatches == HTree => WalkMatchesTree
<1> SUFFICES ASSUME HTree PROVE WalkMatchesTree
  OBVIOUS
<1>1. PICK t : /\ TreeFits(t) /\ Tree(InTree, region_view, t) /\ dir = Dir(region_view, t, cr3)
               /\ Shows(mappings, InTree, region_view, t)
  BY TreeOfMemory
<1>2. L1!interp(dir).map = mappings
  BY <1>1, InterpOfTree
<1>3. \A vaddr \in 0 .. MAX_BASE - 1 : resolve(vaddr) = L1!resolve(dir, vaddr)
  BY <1>1, ResolveOfTree
<1> QED
  BY <1>2, <1>3 DEF WalkMatchesTree

LEMMA HTreeInit == HInit => HTree
<1> SUFFICES ASSUME HInit PROVE HTree
  OBVIOUS
<1>1. MInv
  BY MInvInit DEF HInit
<1> QED
  BY <1>1 DEF HInit, HTree, MInv

LEMMA HTreeStep == HTree /\ [HNext]_hvars => HTree'
<1> SUFFICES ASSUME HTree, [HNext]_hvars PROVE HTree'
  OBVIOUS
<1>1. MInv /\ [MNext]_mvars
  BY DEF HTree, MInv, HNext, hvars
<1>2. MInv'
  BY <1>1, MInvStep
<1>3. dir' = interp(region_view')
  <2>1. CASE HNext
    BY <2>1 DEF HNext
  <2>2. CASE UNCHANGED hvars
    <3>1. dir' = dir /\ region_view' = region_view
      BY <2>2 DEF hvars, mvars, vars
    <3> QED
      BY <3>1 DEF HTree
  <2> QED
    BY <2>1, <2>2
<1> QED
  BY <1>2, <1>3 DEF MInv, HTree

LEMMA HTreeAlways == HSpec => []HTree
<1> QED
  BY HTreeInit, HTreeStep, PTL DEF HSpec

(* What the MMU sees of the memory between any two accesses is the map of  *)
(* the tree that PT::interp makes of it; and between calls resolve, which  *)
(* reads the words with a single mask, finds for every address what is in  *)
(* the tree (lemma_page_table_walk_interp).                                *)
THEOREM WalkMatchesTreeCorrect == HSpec => []WalkMatchesTree
<1> QED
  BY HTreeAlways, TreeMatches, PTL


-----------------------------------------------------------------------------
(* What is proved of the tree in DirectoryProofs holds of layer 1 as it is  *)
(* used here: the definitions are the same.                                *)
D == INSTANCE DirectoryProofs

LEMMA TreeAssumptions == D!SizesAssumption /\ D!ArchAssumption
<1>1. D!SizesAssumption
  BY SizesAssumption
<1>2. D!ArchAssumption
  BY ArchAssumption, Zenon
  DEF D!L0_ENTRY_SIZE, D!L1_ENTRY_SIZE, D!L2_ENTRY_SIZE, D!L3_ENTRY_SIZE, L0_ENTRY_SIZE, L1_ENTRY_SIZE,
      L2_ENTRY_SIZE, L3_ENTRY_SIZE, D!entry_size, entry_size, D!upper_vaddr, upper_vaddr, D!entry_base, entry_base
<1> QED
  BY <1>1, <1>2

LEMMA SameArch2 ==
  /\ D!Layer = L1!Layer /\ D!EntryIndex = L1!EntryIndex /\ D!permissive_flags = L1!permissive_flags /\ D!EmptyMap = L1!EmptyMap
  /\ \A l : D!entry_size(l) = L1!entry_size(l)
  /\ \A l, b, i : D!entry_base(l, b, i) = L1!entry_base(l, b, i)
  /\ \A l, b, a : D!index_for_vaddr(l, b, a) = L1!index_for_vaddr(l, b, a)
  /\ \A l, b : D!upper_vaddr(l, b) = L1!upper_vaddr(l, b)
  /\ \A a, s : D!aligned(a, s) <=> L1!aligned(a, s)
  /\ \A m, a, pte : D!Insert(m, a, pte) = L1!Insert(m, a, pte)
  /\ \A s, k : D!contains_entry_size_at_index_atleast(s, k) <=> L1!contains_entry_size_at_index_atleast(s, k)
  /\ \A v : D!L0!Ok(v) = L1!L0!Ok(v) /\ D!L0!Err(v) = L1!L0!Err(v)
<1>1. D!Layer = L1!Layer /\ D!EntryIndex = L1!EntryIndex /\ D!permissive_flags = L1!permissive_flags /\ D!EmptyMap = L1!EmptyMap
  BY DEF D!Layer, L1!Layer, D!EntryIndex, L1!EntryIndex, D!permissive_flags, L1!permissive_flags, D!EmptyMap, L1!EmptyMap
<1>2. \A l : D!entry_size(l) = L1!entry_size(l)
  BY Zenon DEF D!entry_size, L1!entry_size, D!L0_ENTRY_SIZE, L1!L0_ENTRY_SIZE, D!L1_ENTRY_SIZE, L1!L1_ENTRY_SIZE, D!L2_ENTRY_SIZE, L1!L2_ENTRY_SIZE, D!L3_ENTRY_SIZE, L1!L3_ENTRY_SIZE
<1>3. \A l, b, i : D!entry_base(l, b, i) = L1!entry_base(l, b, i)
  BY <1>2 DEF D!entry_base, L1!entry_base
<1>4. \A l, b, a : D!index_for_vaddr(l, b, a) = L1!index_for_vaddr(l, b, a)
  BY <1>2 DEF D!index_for_vaddr, L1!index_for_vaddr
<1>5. \A l, b : D!upper_vaddr(l, b) = L1!upper_vaddr(l, b)
  BY <1>3 DEF D!upper_vaddr, L1!upper_vaddr
<1>6. \A a, s : D!aligned(a, s) <=> L1!aligned(a, s)
  BY DEF D!aligned, L1!aligned
<1>7. \A m, a, pte : D!Insert(m, a, pte) = L1!Insert(m, a, pte)
  BY DEF D!Insert, L1!Insert
<1>8. \A s, k : D!contains_entry_size_at_index_atleast(s, k) <=> L1!contains_entry_size_at_index_atleast(s, k)
  BY <1>2 DEF D!contains_entry_size_at_index_atleast, L1!contains_entry_size_at_index_atleast
<1>9. \A v : D!L0!Ok(v) = L1!L0!Ok(v) /\ D!L0!Err(v) = L1!L0!Err(v)
  BY DEF D!L0!Ok, L1!L0!Ok, D!L0!Err, L1!L0!Err
<1> QED
  BY <1>1, <1>2, <1>3, <1>4, <1>5, <1>6, <1>7, <1>8, <1>9

LEMMA SameInv ==
  /\ \A d, g : D!entries_with(d, g) = L1!entries_with(d, g)
  /\ \A d, i : D!base_of_entry(d, i) = L1!base_of_entry(d, i)
  /\ \A d, a : D!index_in(d, a) = L1!index_in(d, a)
  /\ \A d : D!upper_vaddr_of(d) = L1!upper_vaddr_of(d)
  /\ \A d : D!well_formed(d) <=> L1!well_formed(d)
  /\ \A d : D!empty(d) <=> L1!empty(d)
  /\ \A d : D!pages_match_entry_size(d) <=> L1!pages_match_entry_size(d)
  /\ \A d : D!directories_are_in_next_layer(d) <=> L1!directories_are_in_next_layer(d)
  /\ \A d : D!directories_are_nonempty(d) <=> L1!directories_are_nonempty(d)
  /\ \A d : D!frames_aligned(d) <=> L1!frames_aligned(d)
  /\ \A d : D!inv_at(d) <=> L1!inv_at(d)
  /\ \A d : D!inv3(d) <=> L1!inv3(d)
  /\ \A d : D!inv2(d) <=> L1!inv2(d)
  /\ \A d : D!inv1(d) <=> L1!inv1(d)
  /\ \A d : D!inv(d) <=> L1!inv(d)
<1>1. \A d, g : D!entries_with(d, g) = L1!entries_with(d, g)
  BY SameArch2 DEF D!entries_with, L1!entries_with
<1>2. \A d, i : D!base_of_entry(d, i) = L1!base_of_entry(d, i)
  BY SameArch2 DEF D!base_of_entry, L1!base_of_entry
<1>3. \A d, a : D!index_in(d, a) = L1!index_in(d, a)
  BY SameArch2 DEF D!index_in, L1!index_in
<1>4. \A d : D!upper_vaddr_of(d) = L1!upper_vaddr_of(d)
  BY SameArch2 DEF D!upper_vaddr_of, L1!upper_vaddr_of
<1>5. \A d : D!well_formed(d) <=> L1!well_formed(d)
  BY SameArch2 DEF D!well_formed, L1!well_formed
<1>6. \A d : D!empty(d) <=> L1!empty(d)
  BY SameArch2 DEF D!empty, L1!empty
<1>7. \A d : D!pages_match_entry_size(d) <=> L1!pages_match_entry_size(d)
  BY <1>1, SameArch2 DEF D!pages_match_entry_size, L1!pages_match_entry_size
<1>8. \A d : D!directories_are_in_next_layer(d) <=> L1!directories_are_in_next_layer(d)
  BY <1>1, <1>2, SameArch2 DEF D!directories_are_in_next_layer, L1!directories_are_in_next_layer
<1>9. \A d : D!directories_are_nonempty(d) <=> L1!directories_are_nonempty(d)
  BY <1>1, <1>6, SameArch2 DEF D!directories_are_nonempty, L1!directories_are_nonempty
<1>10. \A d : D!frames_aligned(d) <=> L1!frames_aligned(d)
  BY <1>1, SameArch2 DEF D!frames_aligned, L1!frames_aligned
<1>11. \A d : D!inv_at(d) <=> L1!inv_at(d)
  BY <1>5, <1>7, <1>8, <1>9, <1>10, SameArch2 DEF D!inv_at, L1!inv_at
<1>12. \A d : D!inv3(d) <=> L1!inv3(d)
  BY <1>1, <1>11, SameArch2 DEF D!inv3, L1!inv3
<1>13. \A d : D!inv2(d) <=> L1!inv2(d)
  BY <1>1, <1>11, <1>12, SameArch2 DEF D!inv2, L1!inv2
<1>14. \A d : D!inv1(d) <=> L1!inv1(d)
  BY <1>1, <1>11, <1>13, SameArch2 DEF D!inv1, L1!inv1
<1>15. \A d : D!inv(d) <=> L1!inv(d)
  BY <1>1, <1>11, <1>14, SameArch2 DEF D!inv, L1!inv
<1> QED
  BY <1>1, <1>2, <1>3, <1>4, <1>5, <1>6, <1>7, <1>8, <1>9, <1>10, <1>11, <1>12, <1>13, <1>14, <1>15

LEMMA SameInterp ==
  /\ \A d, i, s : D!interp_of_entry(d, i, s) = L1!interp_of_entry(d, i, s)
  /\ \A m, a : D!entry_with(m, a) = L1!entry_with(m, a)
  /\ \A m : D!union_of(m) = L1!union_of(m)
  /\ \A d : D!interp3(d) = L1!interp3(d)
  /\ \A d : D!interp2(d) = L1!interp2(d)
  /\ \A d : D!interp1(d) = L1!interp1(d)
  /\ \A d : D!interp0(d) = L1!interp0(d)
  /\ \A d : D!interp(d) = L1!interp(d)
<1>1. \A d, i, s : D!interp_of_entry(d, i, s) = L1!interp_of_entry(d, i, s)
  BY SameArch2, SameInv DEF D!interp_of_entry, L1!interp_of_entry
<1>2. \A m, a : D!entry_with(m, a) = L1!entry_with(m, a)
  BY SameArch2, SameInv DEF D!entry_with, L1!entry_with
<1>3. \A m : D!union_of(m) = L1!union_of(m)
  BY <1>2, SameArch2, SameInv DEF D!union_of, L1!union_of
<1>4. \A d : D!interp3(d) = L1!interp3(d)
  BY <1>1, <1>3, SameArch2, SameInv DEF D!interp3, L1!interp3
<1>5. \A d : D!interp2(d) = L1!interp2(d)
  BY <1>1, <1>3, <1>4, SameArch2, SameInv DEF D!interp2, L1!interp2
<1>6. \A d : D!interp1(d) = L1!interp1(d)
  BY <1>1, <1>3, <1>5, SameArch2, SameInv DEF D!interp1, L1!interp1
<1>7. \A d : D!interp0(d) = L1!interp0(d)
  BY <1>1, <1>3, <1>6, SameArch2, SameInv DEF D!interp0, L1!interp0
<1>8. \A d : D!interp(d) = L1!interp(d)
  BY <1>7, SameArch2, SameInv DEF D!interp, L1!interp
<1> QED
  BY <1>1, <1>2, <1>3, <1>4, <1>5, <1>6, <1>7, <1>8

LEMMA SameMapFrame ==
  /\ \A pte : D!PageEntry(pte) = L1!PageEntry(pte)
  /\ \A d, b, pte : D!accepted_mapping(d, b, pte) <=> L1!accepted_mapping(d, b, pte)
  /\ \A d, i, e : D!update(d, i, e) = L1!update(d, i, e)
  /\ \A d, i : D!new_empty_dir(d, i) = L1!new_empty_dir(d, i)
  /\ \A d, i : D!dir_at(d, i) = L1!dir_at(d, i)
  /\ \A d, i, r : D!put_back(d, i, r) = L1!put_back(d, i, r)
  /\ \A d, b, pte, r : D!map_frame_at(d, b, pte, r) = L1!map_frame_at(d, b, pte, r)
  /\ \A d, b, pte : D!map_frame3(d, b, pte) = L1!map_frame3(d, b, pte)
  /\ \A d, b, pte : D!map_frame2(d, b, pte) = L1!map_frame2(d, b, pte)
  /\ \A d, b, pte : D!map_frame1(d, b, pte) = L1!map_frame1(d, b, pte)
  /\ \A d, b, pte : D!map_frame(d, b, pte) = L1!map_frame(d, b, pte)
  /\ \A d, i, b : D!unmap_page(d, i, b) = L1!unmap_page(d, i, b)
  /\ \A d, b, r : D!unmap_at(d, b, r) = L1!unmap_at(d, b, r)
  /\ \A d, b : D!unmap3(d, b) = L1!unmap3(d, b)
  /\ \A d, b : D!unmap2(d, b) = L1!unmap2(d, b)
  /\ \A d, b : D!unmap1(d, b) = L1!unmap1(d, b)
  /\ \A d, b : D!unmap(d, b) = L1!unmap(d, b)
  /\ \A d, a, r : D!resolve_at(d, a, r) = L1!resolve_at(d, a, r)
  /\ \A d, a : D!resolve3(d, a) = L1!resolve3(d, a)
  /\ \A d, a : D!resolve2(d, a) = L1!resolve2(d, a)
  /\ \A d, a : D!resolve1(d, a) = L1!resolve1(d, a)
  /\ \A d, a : D!resolve(d, a) = L1!resolve(d, a)
<1>1. \A pte : D!PageEntry(pte) = L1!PageEntry(pte)
  BY SameArch2, SameInv DEF D!PageEntry, L1!PageEntry
<1>2. \A d, b, pte : D!accepted_mapping(d, b, pte) <=> L1!accepted_mapping(d, b, pte)
  BY SameArch2, SameInv DEF D!accepted_mapping, L1!accepted_mapping
<1>3. \A d, i, e : D!update(d, i, e) = L1!update(d, i, e)
  BY SameArch2, SameInv DEF D!update, L1!update
<1>4. \A d, i : D!new_empty_dir(d, i) = L1!new_empty_dir(d, i)
  BY SameArch2, SameInv DEF D!new_empty_dir, L1!new_empty_dir, D!EmptyEntry, L1!EmptyEntry
<1>5. \A d, i : D!dir_at(d, i) = L1!dir_at(d, i)
  BY <1>4, SameArch2, SameInv DEF D!dir_at, L1!dir_at
<1>6. \A d, i, r : D!put_back(d, i, r) = L1!put_back(d, i, r)
  BY <1>3, SameArch2, SameInv DEF D!put_back, L1!put_back, D!DirectoryEntry, L1!DirectoryEntry
<1>7. ASSUME NEW d, NEW b, NEW pte, NEW r PROVE D!map_frame_at(d, b, pte, r) = L1!map_frame_at(d, b, pte, r)
  <2> DEFINE i == L1!index_in(d, b)
             e == d.entries[i]
             size == L1!entry_size(d.layer)
             v1 == L1!L0!Err(d)
             v2 == L1!L0!Ok(L1!update(d, i, L1!PageEntry(pte)))
             v3 == L1!put_back(d, i, r)
             result == CASE e.tag = "Page" \/ (e.tag = "Directory" /\ size = pte.frame.size) -> v1
                         [] e.tag = "Empty" /\ size = pte.frame.size -> v2
                         [] e.tag # "Page" /\ ~(size = pte.frame.size) -> v3
  <2>1. D!index_in(d, b) = i /\ D!entry_size(d.layer) = size
    BY SameArch2, SameInv
  <2>2. D!L0!Err(d) = v1 /\ D!L0!Ok(D!update(d, i, D!PageEntry(pte))) = v2 /\ D!put_back(d, i, r) = v3
    BY <1>1, <1>3, <1>6, SameArch2
  <2>3. L1!map_frame_at(d, b, pte, r) = result
    BY DEF L1!map_frame_at
  <2> HIDE DEF i, size, v1, v2, v3
  <2>4. D!map_frame_at(d, b, pte, r) = result
    BY <2>1, <2>2 DEF D!map_frame_at
  <2> QED
    BY <2>3, <2>4
<1>8. \A d, b, pte : D!map_frame3(d, b, pte) = L1!map_frame3(d, b, pte)
  BY <1>7, SameArch2, SameInv DEF D!map_frame3, L1!map_frame3
<1>9. \A d, b, pte : D!map_frame2(d, b, pte) = L1!map_frame2(d, b, pte)
  BY <1>5, <1>7, <1>8, SameArch2, SameInv DEF D!map_frame2, L1!map_frame2
<1>10. \A d, b, pte : D!map_frame1(d, b, pte) = L1!map_frame1(d, b, pte)
  BY <1>5, <1>7, <1>9, SameArch2, SameInv DEF D!map_frame1, L1!map_frame1
<1>11. \A d, b, pte : D!map_frame(d, b, pte) = L1!map_frame(d, b, pte)
  BY <1>5, <1>7, <1>10, SameArch2, SameInv DEF D!map_frame, L1!map_frame
<1>12. \A d, i, b : D!unmap_page(d, i, b) = L1!unmap_page(d, i, b)
  BY <1>3, SameArch2, SameInv DEF D!unmap_page, L1!unmap_page, D!EmptyEntry, L1!EmptyEntry
<1>13. \A d, b, r : D!unmap_at(d, b, r) = L1!unmap_at(d, b, r)
  BY <1>3, <1>6, <1>12, SameArch2, SameInv DEF D!unmap_at, L1!unmap_at, D!EmptyEntry, L1!EmptyEntry
<1>14. \A d, b : D!unmap3(d, b) = L1!unmap3(d, b)
  BY <1>13, SameArch2, SameInv DEF D!unmap3, L1!unmap3
<1>15. \A d, b : D!unmap2(d, b) = L1!unmap2(d, b)
  BY <1>5, <1>13, <1>14, SameArch2, SameInv DEF D!unmap2, L1!unmap2
<1>16. \A d, b : D!unmap1(d, b) = L1!unmap1(d, b)
  BY <1>5, <1>13, <1>15, SameArch2, SameInv DEF D!unmap1, L1!unmap1
<1>17. \A d, b : D!unmap(d, b) = L1!unmap(d, b)
  BY <1>5, <1>13, <1>16, SameArch2, SameInv DEF D!unmap, L1!unmap
<1>18. \A d, a, r : D!resolve_at(d, a, r) = L1!resolve_at(d, a, r)
  BY SameArch2, SameInv DEF D!resolve_at, L1!resolve_at
<1>19. \A d, a : D!resolve3(d, a) = L1!resolve3(d, a)
  BY <1>18, SameArch2, SameInv DEF D!resolve3, L1!resolve3
<1>20. \A d, a : D!resolve2(d, a) = L1!resolve2(d, a)
  BY <1>5, <1>18, <1>19, SameArch2, SameInv DEF D!resolve2, L1!resolve2
<1>21. \A d, a : D!resolve1(d, a) = L1!resolve1(d, a)
  BY <1>5, <1>18, <1>20, SameArch2, SameInv DEF D!resolve1, L1!resolve1
<1>22. \A d, a : D!resolve(d, a) = L1!resolve(d, a)
  BY <1>5, <1>18, <1>21, SameArch2, SameInv DEF D!resolve, L1!resolve
<1> QED
  BY <1>1, <1>2, <1>3, <1>4, <1>5, <1>6, <1>7, <1>8, <1>9, <1>10, <1>11, <1>12, <1>13, <1>14, <1>15, <1>16, <1>17, <1>18, <1>19, <1>20, <1>21, <1>22

LEMMA SameContents ==
  /\ D!L0!EmptyMap = L0!EmptyMap
  /\ \A l : D!L0!entry_size(l) = L0!entry_size(l)
  /\ \A a, s : D!L0!aligned(a, s) <=> L0!aligned(a, s)
  /\ \A a, b : D!L0!overlap(a, b) <=> L0!overlap(a, b)
  /\ \A x, a, b : D!L0!between(x, a, b) <=> L0!between(x, a, b)
  /\ \A b, s : D!L0!Region(b, s) = L0!Region(b, s)
  /\ \A m, a, pte : D!L0!Insert(m, a, pte) = L0!Insert(m, a, pte) /\ D!L0!Remove(m, a) = L0!Remove(m, a)
  /\ \A s : D!L0!contains_entry_size(s) <=> L0!contains_entry_size(s)
  /\ \A c, a : D!L0!mapping_region(c, a) = L0!mapping_region(c, a)
  /\ \A c, b, pte : D!L0!candidate_in_bounds(c, b, pte) <=> L0!candidate_in_bounds(c, b, pte)
  /\ \A c : D!L0!inv(c) <=> L0!inv(c)
  /\ \A c, b, pte : D!L0!accepted_mapping(c, b, pte) <=> L0!accepted_mapping(c, b, pte)
  /\ \A c, b, pte : D!L0!valid_mapping(c, b, pte) <=> L0!valid_mapping(c, b, pte)
  /\ \A v : D!L0!Ok(v) = L0!Ok(v) /\ D!L0!Err(v) = L0!Err(v)
  /\ \A c, b, pte : D!L0!map_frame(c, b, pte) = L0!map_frame(c, b, pte)
  /\ \A c, a : D!L0!accepted_resolve(c, a) <=> L0!accepted_resolve(c, a)
  /\ \A c, a : D!L0!resolve(c, a) = L0!resolve(c, a)
  /\ \A c, b : D!L0!accepted_unmap(c, b) <=> L0!accepted_unmap(c, b)
  /\ \A c, b : D!L0!unmap(c, b) = L0!unmap(c, b)
<1>1. D!L0!EmptyMap = L0!EmptyMap
  BY DEF D!L0!EmptyMap, L0!EmptyMap
<1>2. \A l : D!L0!entry_size(l) = L0!entry_size(l)
  BY Zenon DEF D!L0!entry_size, L0!entry_size, D!L0!L0_ENTRY_SIZE, L0!L0_ENTRY_SIZE, D!L0!L1_ENTRY_SIZE, L0!L1_ENTRY_SIZE, D!L0!L2_ENTRY_SIZE, L0!L2_ENTRY_SIZE, D!L0!L3_ENTRY_SIZE, L0!L3_ENTRY_SIZE
<1>3. \A a, s : D!L0!aligned(a, s) <=> L0!aligned(a, s)
  BY DEF D!L0!aligned, L0!aligned
<1>4. \A a, b : D!L0!overlap(a, b) <=> L0!overlap(a, b)
  BY DEF D!L0!overlap, L0!overlap
<1>5. \A x, a, b : D!L0!between(x, a, b) <=> L0!between(x, a, b)
  BY DEF D!L0!between, L0!between
<1>6. \A b, s : D!L0!Region(b, s) = L0!Region(b, s)
  BY DEF D!L0!Region, L0!Region
<1>7. \A m, a, pte : D!L0!Insert(m, a, pte) = L0!Insert(m, a, pte) /\ D!L0!Remove(m, a) = L0!Remove(m, a)
  BY DEF D!L0!Insert, L0!Insert, D!L0!Remove, L0!Remove
<1>8. \A s : D!L0!contains_entry_size(s) <=> L0!contains_entry_size(s)
  BY <1>2 DEF D!L0!contains_entry_size, L0!contains_entry_size, D!L0!contains_entry_size_at_index_atleast, L0!contains_entry_size_at_index_atleast
<1>9. \A c, a : D!L0!mapping_region(c, a) = L0!mapping_region(c, a)
  BY <1>6 DEF D!L0!mapping_region, L0!mapping_region
<1>10. \A c, b, pte : D!L0!candidate_in_bounds(c, b, pte) <=> L0!candidate_in_bounds(c, b, pte)
  BY DEF D!L0!candidate_in_bounds, L0!candidate_in_bounds
<1>11. \A c : D!L0!inv(c) <=> L0!inv(c)
  BY <1>3, <1>4, <1>8, <1>9, <1>10 DEF D!L0!inv, L0!inv, D!L0!mappings_are_of_valid_size, L0!mappings_are_of_valid_size, D!L0!mappings_are_aligned, L0!mappings_are_aligned, D!L0!mappings_dont_overlap, L0!mappings_dont_overlap, D!L0!mappings_in_bounds, L0!mappings_in_bounds
<1>12. \A c, b, pte : D!L0!accepted_mapping(c, b, pte) <=> L0!accepted_mapping(c, b, pte)
  BY <1>3, <1>8, <1>10 DEF D!L0!accepted_mapping, L0!accepted_mapping
<1>13. \A c, b, pte : D!L0!valid_mapping(c, b, pte) <=> L0!valid_mapping(c, b, pte)
  BY <1>4, <1>6, <1>9 DEF D!L0!valid_mapping, L0!valid_mapping
<1>14. \A v : D!L0!Ok(v) = L0!Ok(v) /\ D!L0!Err(v) = L0!Err(v)
  BY DEF D!L0!Ok, L0!Ok, D!L0!Err, L0!Err
<1>15. \A c, b, pte : D!L0!map_frame(c, b, pte) = L0!map_frame(c, b, pte)
  BY <1>7, <1>13, <1>14 DEF D!L0!map_frame, L0!map_frame
<1>16. \A c, a : D!L0!accepted_resolve(c, a) <=> L0!accepted_resolve(c, a)
  BY <1>5 DEF D!L0!accepted_resolve, L0!accepted_resolve
<1>17. \A c, a : D!L0!resolve(c, a) = L0!resolve(c, a)
  BY <1>14 DEF D!L0!resolve, L0!resolve, D!L0!between, L0!between
<1>18. \A c, b : D!L0!accepted_unmap(c, b) <=> L0!accepted_unmap(c, b)
  BY <1>2, <1>3, <1>5 DEF D!L0!accepted_unmap, L0!accepted_unmap, D!L0!Layer, L0!Layer
<1>19. \A c, b : D!L0!unmap(c, b) = L0!unmap(c, b)
  BY <1>7, <1>14 DEF D!L0!unmap, L0!unmap
<1> QED
  BY <1>1, <1>2, <1>3, <1>4, <1>5, <1>6, <1>7, <1>8, <1>9, <1>10, <1>11, <1>12, <1>13, <1>14, <1>15, <1>16, <1>17, <1>18, <1>19


-----------------------------------------------------------------------------
(* The tree of the memory satisfies the invariant of layer 1. *)

LEMMA EntryOf ==
  ASSUME NEW T, NEW mem, NEW t, Tree(T, mem, t), NEW p \in T, NEW i \in EntryIndex,
         NEW e, e = Dir(mem, t, p).entries[i], NEW w, w = mem[p][i], NEW l, l = t[p].lev
  PROVE  /\ e.tag \in {"Directory", "Page", "Empty"}
         /\ e.tag = "Directory" <=> links(l, w)
         /\ e.tag = "Page" <=> w.P /\ is_page(l, w)
         /\ e.tag = "Empty" <=> ~w.P
         /\ links(l, w) => /\ e = L1!DirectoryEntry(Dir(mem, t, address(w)))
                           /\ e.dir = Dir(mem, t, address(w))
                           /\ address(w) \in T \ {cr3} /\ t[address(w)].lev = l + 1
                           /\ t[address(w)].start = entry_base(l, t[p].start, i)
                           /\ t[address(w)].par = p /\ t[address(w)].slot = i
                           /\ l \in 0 .. 2
         /\ w.P /\ is_page(l, w) => e = L1!PageEntry(PteOf(l, w)) /\ e.pte = PteOf(l, w)
         /\ ~w.P => e = L1!EmptyEntry
<1>1. EntryIs(mem, t, p, i, e)
  BY DirParts
<1>2. /\ links(l, w) => e = L1!DirectoryEntry(Dir(mem, t, address(w))) /\ t[address(w)].lev = l + 1
      /\ w.P /\ is_page(l, w) => e = L1!PageEntry(PteOf(l, w))
      /\ ~w.P => e = L1!EmptyEntry
  BY <1>1 DEF EntryIs
<1>3. links(l, w) => e.tag = "Directory" /\ e.dir = Dir(mem, t, address(w))
  BY <1>2 DEF L1!DirectoryEntry
<1>4. w.P /\ is_page(l, w) => e.tag = "Page" /\ e.pte = PteOf(l, w)
  BY <1>2 DEF L1!PageEntry
<1>5. ~w.P => e.tag = "Empty"
  BY <1>2 DEF L1!EmptyEntry
<1>6. ASSUME links(l, w)
      PROVE  /\ address(w) \in T \ {cr3}
             /\ t[address(w)].start = entry_base(l, t[p].start, i)
             /\ t[address(w)].par = p /\ t[address(w)].slot = i
             /\ l \in 0 .. 2
  <2>1. LinkFits(T, t, p, i, w)
    BY <1>6, LinkedChild
  <2>2. address(w) \in T \ {cr3} /\ t[address(w)].start = entry_base(l, t[p].start, i)
        /\ t[address(w)].par = p /\ t[address(w)].slot = i
    BY <2>1 DEF LinkFits, Child
  <2>3. t[address(w)].lev \in Layer /\ l \in Layer
    BY <2>2, TreeType
  <2> QED
    BY <1>2, <1>6, <2>2, <2>3 DEF Layer
<1>7. /\ links(l, w) => ~(w.P /\ is_page(l, w)) /\ w.P
      /\ links(l, w) \/ (w.P /\ is_page(l, w)) \/ ~w.P
  BY DEF links, is_dir
<1> QED
  BY <1>2, <1>3, <1>4, <1>5, <1>6, <1>7

InvIn(l, d) ==
  CASE l = 0 -> L1!inv(d)
    [] l = 1 -> L1!inv1(d)
    [] l = 2 -> L1!inv2(d)
    [] l = 3 -> L1!inv3(d)

LEMMA InvInIs ==
  ASSUME NEW l \in Layer, NEW d, L1!inv_at(d),
         \A i \in L1!entries_with(d, "Directory") : l < 3 /\ InvIn(l + 1, d.entries[i].dir)
  PROVE  InvIn(l, d)
<1>1. CASE l = 0
  BY <1>1 DEF InvIn, L1!inv
<1>2. CASE l = 1
  BY <1>2 DEF InvIn, L1!inv1
<1>3. CASE l = 2
  BY <1>3 DEF InvIn, L1!inv2
<1>4. CASE l = 3
  BY <1>4 DEF InvIn, L1!inv3
<1> QED
  BY <1>1, <1>2, <1>3, <1>4 DEF Layer

(* A directory of the tree, when no directory of it is empty. *)
LEMMA DirInv ==
  ASSUME NEW T, NEW mem, NEW t, Tree(T, mem, t), \A c \in T \ {cr3} : ~Empty(mem, c),
         NEW p \in T, NEW d, d = Dir(mem, t, p)
  PROVE  L1!inv_at(d)
<1> DEFINE l == t[p].lev
<1>1. /\ d.layer = l /\ d.base_vaddr = t[p].start /\ d.flags = permissive_flags
      /\ DOMAIN d.entries = EntryIndex
  BY DirParts
<1>2. l \in Layer /\ t[p].start \in Nat
  BY TreeType
<1>i. \A i : i \in L1!entries_with(d, "Directory") =>
        i \in EntryIndex /\ d.entries[i].tag = "Directory"
  BY <1>1 DEF L1!entries_with
<1>g. \A i : i \in L1!entries_with(d, "Page") => i \in EntryIndex /\ d.entries[i].tag = "Page"
  BY <1>1 DEF L1!entries_with
<1>3. L1!well_formed(d)
  <2>1. \A i \in EntryIndex : d.entries[i].tag \in {"Directory", "Page", "Empty"}
    BY EntryOf
  <2>2. aligned(t[p].start, entry_size(l) * X86_NUM_ENTRIES)
    <3> DEFINE n == entry_size(l) * X86_NUM_ENTRIES
    <3>1. entry_size(l) \in Nat \ {0} /\ X86_NUM_ENTRIES \in Nat \ {0}
      BY <1>2, Sizes
    <3> HIDE DEF l
    <3>2. n \in Nat \ {0} /\ X86_NUM_ENTRIES * entry_size(l) = n
      BY <3>1
    <3>3. PICK k \in Nat : t[p].start = k * n
      BY <3>2, StartAligned DEF l
    <3> HIDE DEF n
    <3> QED
      BY <1>2, <3>2, <3>3, AlignedIsMultiple DEF n
  <2> HIDE DEF l
  <2> QED
    BY <1>1, <1>2, <2>1, <2>2, SameArch DEF L1!well_formed
<1>4. L1!pages_match_entry_size(d)
  <2>1. ASSUME NEW i \in L1!entries_with(d, "Page")
        PROVE  d.entries[i].pte.frame.size = entry_size(l)
    <3>1. d.entries[i].pte = PteOf(l, mem[p][i])
      BY <1>g, EntryOf
    <3> QED
      BY <3>1 DEF PteOf, Region
  <2> HIDE DEF l
  <2> QED
    BY <1>1, <2>1, SameArch DEF L1!pages_match_entry_size
<1>5. ASSUME NEW i \in L1!entries_with(d, "Directory")
      PROVE  /\ d.entries[i].dir.layer = l + 1
             /\ d.entries[i].dir.base_vaddr = L1!base_of_entry(d, i)
             /\ ~L1!empty(d.entries[i].dir)
  <2> DEFINE c == address(mem[p][i])
  <2>1. /\ i \in EntryIndex /\ c \in T \ {cr3} /\ d.entries[i].dir = Dir(mem, t, c)
        /\ t[c].lev = l + 1 /\ t[c].start = entry_base(l, t[p].start, i)
    BY <1>i, EntryOf
  <2> HIDE DEF c
  <2>2. d.entries[i].dir.layer = l + 1 /\ d.entries[i].dir.base_vaddr = entry_base(l, t[p].start, i)
    BY <2>1, DirParts
  <2>3. PICK j \in EntryIndex : mem[c][j].P
    BY <2>1 DEF Empty
  <2>4. d.entries[i].dir.entries[j].tag # "Empty"
    BY <2>1, <2>3, EntryOf
  <2> HIDE DEF l
  <2> QED
    BY <1>1, <2>2, <2>3, <2>4, SameArch DEF L1!empty, L1!base_of_entry
<1>6. L1!frames_aligned(d)
  <2>1. ASSUME NEW i \in L1!entries_with(d, "Page")
        PROVE  aligned(d.entries[i].pte.frame.base, entry_size(l))
    <3> DEFINE w == mem[p][i]
    <3>1. i \in EntryIndex /\ d.entries[i].pte = PteOf(l, w) /\ w.P /\ is_page(l, w)
      BY <1>g, EntryOf
    <3>2. Leaf(T, mem, t, p, i)
      BY <3>1 DEF Leaf
    <3>3. l \in 1 .. 3 /\ w \in Word
      BY <3>2, LeafLayer
    <3>4. LeafFits(l, w)
      <4>1. WordFits(T, t, p, i, w)
        BY <3>1 DEF Tree
      <4> QED
        BY <3>1, <4>1 DEF WordFits, links, is_dir
    <3> HIDE DEF l, w
    <3>5. MASK_PG_ADDR(l, w.addr) = w.addr /\ aligned(w.addr, entry_size(l))
      BY <3>1, <3>3, <3>4, AddressOfLeaf
    <3>6. d.entries[i].pte.frame.base = w.addr
      BY <3>1, <3>5 DEF PteOf, Region
    <3> QED
      BY <3>5, <3>6
  <2> HIDE DEF l
  <2> QED
    BY <1>1, <2>1, SameArch DEF L1!frames_aligned
<1> HIDE DEF l
<1>7. L1!directories_are_in_next_layer(d) /\ L1!directories_are_nonempty(d)
  BY <1>1, <1>5 DEF L1!directories_are_in_next_layer, L1!directories_are_nonempty
<1> QED
  BY <1>3, <1>4, <1>6, <1>7 DEF L1!inv_at

LEMMA InvOfTree ==
  ASSUME NEW T, NEW mem, NEW t, Tree(T, mem, t), \A c \in T \ {cr3} : ~Empty(mem, c)
  PROVE  L1!inv(Dir(mem, t, cr3))
<1> DEFINE S == {l \in Layer : \A p \in T : t[p].lev = l => InvIn(l, Dir(mem, t, p))}
<1>1. ASSUME NEW l \in Layer, l < 3 => l + 1 \in S PROVE l \in S
  <2>1. ASSUME NEW p \in T, t[p].lev = l PROVE InvIn(l, Dir(mem, t, p))
    <3> DEFINE d == Dir(mem, t, p)
    <3>1. L1!inv_at(d)
      BY DirInv
    <3>2. DOMAIN d.entries = EntryIndex
      BY DirParts
    <3>3. ASSUME NEW i \in L1!entries_with(d, "Directory") PROVE l < 3 /\ InvIn(l + 1, d.entries[i].dir)
      <4>1. i \in EntryIndex /\ d.entries[i].tag = "Directory"
        BY <3>2 DEF L1!entries_with
      <4> DEFINE c == address(mem[p][i])
      <4>2. c \in T /\ t[c].lev = l + 1 /\ d.entries[i].dir = Dir(mem, t, c) /\ l \in 0 .. 2
        BY <2>1, <4>1, EntryOf
      <4> QED
        BY <1>1, <4>2
    <3> HIDE DEF d
    <3>4. InvIn(l, d)
      BY <3>1, <3>3, InvInIs
    <3> QED
      BY <3>4 DEF d
  <2> QED
    BY <2>1
<1> HIDE DEF S
<1>2. 0 \in S
  BY <1>1, LayersUp DEF Layer
<1>3. cr3 \in T /\ t[cr3].lev = 0
  BY DEF Tree
<1>4. InvIn(0, Dir(mem, t, cr3))
  BY <1>2, <1>3 DEF S
<1> QED
  BY <1>4 DEF InvIn


(* The theorems about trees, in the definitions of layer 1 and layer 0.    *)
LEMMA AbsMapFrame ==
  ASSUME NEW d, L1!inv(d), d.layer = 0, NEW base \in Nat, NEW pte, L1!accepted_mapping(d, base, pte)
  PROVE  /\ L0!accepted_mapping(L1!interp(d), base, pte)
         /\ [L1!map_frame(d, base, pte) EXCEPT !.value = L1!interp(L1!map_frame(d, base, pte).value)]
              = L0!map_frame(L1!interp(d), base, pte)
<1>1. D!inv(d) /\ D!accepted_mapping(d, base, pte)
  BY SameInv, SameMapFrame
<1>2. /\ D!L0!accepted_mapping(D!interp(d), base, pte)
      /\ D!abs(D!map_frame(d, base, pte)) = D!L0!map_frame(D!interp(d), base, pte)
  BY <1>1, TreeAssumptions, D!TreeMapFrame
<1>3. D!map_frame(d, base, pte) = L1!map_frame(d, base, pte) /\ \A x : D!interp(x) = L1!interp(x)
  BY SameMapFrame, SameInterp
<1>4. D!abs(L1!map_frame(d, base, pte))
        = [L1!map_frame(d, base, pte) EXCEPT !.value = L1!interp(L1!map_frame(d, base, pte).value)]
  BY <1>3 DEF D!abs
<1>5. /\ D!L0!map_frame(L1!interp(d), base, pte) = L0!map_frame(L1!interp(d), base, pte)
      /\ D!L0!accepted_mapping(L1!interp(d), base, pte) <=> L0!accepted_mapping(L1!interp(d), base, pte)
  BY SameContents
<1> QED
  BY <1>2, <1>3, <1>4, <1>5

LEMMA AbsUnmap ==
  ASSUME NEW d, L1!inv(d), d.layer = 0, NEW base \in Nat, L0!accepted_unmap(L1!interp(d), base)
  PROVE  [L1!unmap(d, base) EXCEPT !.value = L1!interp(L1!unmap(d, base).value)]
           = L0!unmap(L1!interp(d), base)
<1>1. D!unmap(d, base) = L1!unmap(d, base) /\ \A x : D!interp(x) = L1!interp(x)
  BY SameMapFrame, SameInterp
<1>2. D!inv(d) /\ D!L0!accepted_unmap(D!interp(d), base)
  BY <1>1, SameInv, SameContents
<1>3. D!abs(D!unmap(d, base)) = D!L0!unmap(D!interp(d), base)
  BY <1>2, TreeAssumptions, D!TreeUnmap
<1>4. D!abs(L1!unmap(d, base))
        = [L1!unmap(d, base) EXCEPT !.value = L1!interp(L1!unmap(d, base).value)]
  BY <1>1 DEF D!abs
<1>5. D!L0!unmap(L1!interp(d), base) = L0!unmap(L1!interp(d), base)
  BY SameContents
<1> QED
  BY <1>1, <1>3, <1>4, <1>5

LEMMA AbsResolve ==
  ASSUME NEW d, L1!inv(d), d.layer = 0, NEW vaddr \in Nat, L0!accepted_resolve(L1!interp(d), vaddr)
  PROVE  L1!resolve(d, vaddr) = L0!resolve(L1!interp(d), vaddr)
<1>1. D!resolve(d, vaddr) = L1!resolve(d, vaddr) /\ D!interp(d) = L1!interp(d)
  BY SameMapFrame, SameInterp
<1>2. D!inv(d) /\ D!L0!accepted_resolve(D!interp(d), vaddr)
  BY <1>1, SameInv, SameContents
<1>3. D!resolve(d, vaddr) = D!L0!resolve(D!interp(d), vaddr)
  BY <1>2, TreeAssumptions, D!TreeResolve
<1>4. D!L0!resolve(L1!interp(d), vaddr) = L0!resolve(L1!interp(d), vaddr)
  BY SameContents
<1> QED
  BY <1>1, <1>3, <1>4

LEMMA AbsInv ==
  ASSUME NEW d, L1!inv(d)
  PROVE  L0!inv(L1!interp(d))
<1>1. D!inv(d) /\ D!interp(d) = L1!interp(d)
  BY SameInv, SameInterp
<1>2. D!L0!inv(D!interp(d))
  BY <1>1, TreeAssumptions, D!TreeHasMap
<1> QED
  BY <1>1, <1>2, SameContents

LEMMA TreeRefines == HTree => L1RefinesL0
<1> SUFFICES ASSUME HTree, pc = "idle" PROVE L1RefinesL0
  BY DEF L1RefinesL0
<1> DEFINE abs(r) == [r EXCEPT !.value = L1!interp(r.value)]
           c == L1!interp(dir)
<1>1. PICK t : TreeFits(t) /\ Tree(InTree, region_view, t) /\ dir = Dir(region_view, t, cr3)
  BY TreeOfMemory
<1>2. \A d \in InTree \ {cr3} : ~Empty(region_view, d)
  BY DEF HTree, TreeInv, NoneEmpty, MayBeEmpty, AtUnlinked
<1>3. L1!inv(dir)
  BY <1>1, <1>2, InvOfTree
<1>4. L0!inv(c)
  BY <1>3, AbsInv
<1>5. dir.layer = 0 /\ dir.base_vaddr = 0
  <2>1. cr3 \in InTree /\ t[cr3].lev = 0 /\ t[cr3].start = 0
    BY <1>1 DEF Tree
  <2> QED
    BY <1>1, <2>1, DirParts
<1>6. \A vaddr \in VAddr : vaddr \in Nat
  BY CallsAssumption
<1>7. ASSUME NEW vaddr \in VAddr, NEW pte \in PTE, L1!accepted_mapping(dir, vaddr, pte)
      PROVE  /\ L0!accepted_mapping(c, vaddr, pte)
             /\ abs(L1!map_frame(dir, vaddr, pte)) = L0!map_frame(c, vaddr, pte)
  BY <1>3, <1>5, <1>6, <1>7, AbsMapFrame
<1>8. ASSUME NEW vaddr \in VAddr, L0!accepted_unmap(c, vaddr)
      PROVE  abs(L1!unmap(dir, vaddr)) = L0!unmap(c, vaddr)
  BY <1>3, <1>5, <1>6, <1>8, AbsUnmap
<1>9. ASSUME NEW vaddr \in 0 .. MAX_BASE - 1 PROVE L1!resolve(dir, vaddr) = L0!resolve(c, vaddr)
  <2>1. vaddr \in Nat
    OBVIOUS
  <2>2. MAX_BASE \in Int
    BY Sizes, ProductType DEF MAX_BASE, entry_size, Layer
  <2>3. Covers(0, 0, vaddr)
    BY <2>1, <2>2, RootCovers
  <2>4. c.lower = 0 /\ c.upper = upper_vaddr(0, 0)
    BY <1>5, SameArch DEF L1!interp, L1!upper_vaddr_of
  <2>5. L0!accepted_resolve(c, vaddr)
    BY <2>3, <2>4 DEF L0!accepted_resolve, L0!between, Covers
  <2> QED
    BY <1>3, <1>5, <2>1, <2>5, AbsResolve
<1> HIDE DEF c, abs
<1>10. /\ L1!inv(dir) /\ L0!inv(c)
       /\ \A vaddr \in VAddr :
            /\ \A pte \in PTE :
                 L1!accepted_mapping(dir, vaddr, pte) =>
                   /\ L0!accepted_mapping(c, vaddr, pte)
                   /\ abs(L1!map_frame(dir, vaddr, pte)) = L0!map_frame(c, vaddr, pte)
            /\ L0!accepted_unmap(c, vaddr) =>
                 abs(L1!unmap(dir, vaddr)) = L0!unmap(c, vaddr)
       /\ \A vaddr \in 0 .. MAX_BASE - 1 : L1!resolve(dir, vaddr) = L0!resolve(c, vaddr)
  BY <1>3, <1>4, <1>7, <1>8, <1>9
<1> QED
  BY <1>10 DEF L1RefinesL0, c, abs

(* Between calls the memory is a tree of layer 1 without empty directories *)
(* and with its pages aligned (Directory::inv), so that what is proved of  *)
(* every such tree in DirectoryProofs holds of the one in memory: map_frame,*)
(* unmap and resolve of the tree are those of the map.                     *)
THEOREM L1RefinesL0Correct == HSpec => []L1RefinesL0
<1> QED
  BY HTreeAlways, TreeRefines, PTL


-----------------------------------------------------------------------------
(* What a change of the memory does to the directories of the tree.        *)

(* A directory is the record of its fields, and its entries are a function. *)
Shaped(d) ==
  /\ d = [entries |-> d.entries, layer |-> d.layer, base_vaddr |-> d.base_vaddr, flags |-> d.flags]
  /\ d.entries = [i \in EntryIndex |-> d.entries[i]]

LEMMA DirShaped ==
  ASSUME NEW T, NEW mem, NEW t, Tree(T, mem, t), NEW p \in T
  PROVE  Shaped(Dir(mem, t, p))
<1> DEFINE d == Dir(mem, t, p)
<1>1. /\ d = [entries |-> d.entries, layer |-> t[p].lev, base_vaddr |-> t[p].start, flags |-> permissive_flags]
      /\ d.entries = [i \in EntryIndex |-> d.entries[i]]
  BY DirOfPage
<1> HIDE DEF d
<1>2. t[p].lev = d.layer /\ t[p].start = d.base_vaddr /\ permissive_flags = d.flags
  BY <1>1
<1>3. Shaped(d)
  BY <1>1, <1>2 DEF Shaped
<1> QED
  BY <1>3 DEF d

LEMMA SameShape ==
  ASSUME NEW d, NEW e, Shaped(d), Shaped(e),
         d.layer = e.layer, d.base_vaddr = e.base_vaddr, d.flags = e.flags,
         \A i \in EntryIndex : d.entries[i] = e.entries[i]
  PROVE  d = e
<1>1. d.entries = e.entries
  <2>1. [i \in EntryIndex |-> d.entries[i]] = [i \in EntryIndex |-> e.entries[i]]
    OBVIOUS
  <2> QED
    BY <2>1 DEF Shaped
<1> QED
  BY <1>1 DEF Shaped

LEMMA UpdateParts ==
  ASSUME NEW d, NEW i \in EntryIndex, NEW x, Shaped(d)
  PROVE  /\ Shaped(L1!update(d, i, x))
         /\ L1!update(d, i, x).layer = d.layer /\ L1!update(d, i, x).base_vaddr = d.base_vaddr
         /\ L1!update(d, i, x).flags = d.flags
         /\ \A j \in EntryIndex : L1!update(d, i, x).entries[j] = IF j = i THEN x ELSE d.entries[j]
<1> DEFINE u == L1!update(d, i, x)
<1>1. u = [entries |-> [d.entries EXCEPT ![i] = x], layer |-> d.layer, base_vaddr |-> d.base_vaddr, flags |-> d.flags]
  BY DEF L1!update
<1>2. DOMAIN d.entries = EntryIndex
  <2>1. d.entries = [j \in EntryIndex |-> d.entries[j]]
    BY DEF Shaped
  <2> QED
    BY <2>1
<1> HIDE DEF u
<1>3. u.entries = [d.entries EXCEPT ![i] = x] /\ u.layer = d.layer /\ u.base_vaddr = d.base_vaddr /\ u.flags = d.flags
  BY <1>1
<1>4. \A j \in EntryIndex : u.entries[j] = IF j = i THEN x ELSE d.entries[j]
  BY <1>2, <1>3
<1>5. u.entries = [j \in EntryIndex |-> u.entries[j]]
  BY <1>2, <1>3
<1>6. Shaped(u)
  BY <1>1, <1>3, <1>5 DEF Shaped
<1> QED
  BY <1>3, <1>4, <1>6 DEF u

LEMMA UpdateTwice ==
  ASSUME NEW d, NEW i \in EntryIndex, NEW x, NEW y, Shaped(d)
  PROVE  L1!update(L1!update(d, i, x), i, y) = L1!update(d, i, y)
<1>1. Shaped(L1!update(d, i, x))
  BY UpdateParts
<1> DEFINE u == L1!update(d, i, x)
           v == L1!update(u, i, y)
           w == L1!update(d, i, y)
<1>2. /\ u.layer = d.layer /\ u.base_vaddr = d.base_vaddr /\ u.flags = d.flags
      /\ \A j \in EntryIndex : u.entries[j] = IF j = i THEN x ELSE d.entries[j]
  BY UpdateParts
<1> HIDE DEF u
<1>3. /\ Shaped(v) /\ v.layer = u.layer /\ v.base_vaddr = u.base_vaddr /\ v.flags = u.flags
      /\ \A j \in EntryIndex : v.entries[j] = IF j = i THEN y ELSE u.entries[j]
  BY <1>1, UpdateParts DEF u
<1>4. /\ Shaped(w) /\ w.layer = d.layer /\ w.base_vaddr = d.base_vaddr /\ w.flags = d.flags
      /\ \A j \in EntryIndex : w.entries[j] = IF j = i THEN y ELSE d.entries[j]
  BY UpdateParts
<1> HIDE DEF v, w
<1>5. v = w
  BY <1>2, <1>3, <1>4, SameShape
<1> QED
  BY <1>5 DEF u, v, w

LEMMA UpdateSelf ==
  ASSUME NEW d, NEW i \in EntryIndex, Shaped(d)
  PROVE  L1!update(d, i, d.entries[i]) = d
<1> DEFINE v == L1!update(d, i, d.entries[i])
<1>1. /\ Shaped(v) /\ v.layer = d.layer /\ v.base_vaddr = d.base_vaddr /\ v.flags = d.flags
      /\ \A j \in EntryIndex : v.entries[j] = IF j = i THEN d.entries[i] ELSE d.entries[j]
  BY UpdateParts
<1> HIDE DEF v
<1>2. v = d
  BY <1>1, SameShape
<1> QED
  BY <1>2 DEF v

(* The directories of Q refer to none outside of Q. *)
Closed(Q, mem, t) ==
  \A q \in Q : \A i \in EntryIndex : links(t[q].lev, mem[q][i]) => address(mem[q][i]) \in Q

SameIn(Q, mem, t, m, u) == \A q \in Q : u[q] = t[q] /\ \A i \in EntryIndex : m[q][i] = mem[q][i]

LEMMA EntrySame ==
  ASSUME NEW T, NEW mem, NEW t, Tree(T, mem, t), NEW U, NEW m, NEW u, Tree(U, m, u),
         NEW q \in T \cap U, NEW i \in EntryIndex, u[q] = t[q], m[q][i] = mem[q][i],
         links(t[q].lev, mem[q][i]) => Dir(m, u, address(mem[q][i])) = Dir(mem, t, address(mem[q][i]))
  PROVE  Dir(m, u, q).entries[i] = Dir(mem, t, q).entries[i]
<1> DEFINE w == mem[q][i]
           l == t[q].lev
           e == Dir(mem, t, q).entries[i]
           f == Dir(m, u, q).entries[i]
<1>1. /\ links(l, w) => e = L1!DirectoryEntry(Dir(mem, t, address(w)))
      /\ w.P /\ is_page(l, w) => e = L1!PageEntry(PteOf(l, w))
      /\ ~w.P => e = L1!EmptyEntry
  BY EntryOf
<1>2. /\ links(l, w) => f = L1!DirectoryEntry(Dir(m, u, address(w)))
      /\ w.P /\ is_page(l, w) => f = L1!PageEntry(PteOf(l, w))
      /\ ~w.P => f = L1!EmptyEntry
  BY EntryOf
<1>3. links(l, w) \/ (w.P /\ is_page(l, w)) \/ ~w.P
  BY DEF links, is_dir
<1> HIDE DEF w, l, e, f
<1>4. e = f
  BY <1>1, <1>2, <1>3 DEF w, l
<1> QED
  BY <1>4 DEF e, f

LEMMA DirSame ==
  ASSUME NEW T, NEW mem, NEW t, Tree(T, mem, t), NEW U, NEW m, NEW u, Tree(U, m, u),
         NEW Q, Q \subseteq T \cap U, Closed(Q, mem, t), SameIn(Q, mem, t, m, u)
  PROVE  \A q \in Q : Dir(m, u, q) = Dir(mem, t, q)
<1> DEFINE S == {l \in Layer : \A q \in Q : t[q].lev = l => Dir(m, u, q) = Dir(mem, t, q)}
<1>1. ASSUME NEW l \in Layer, l < 3 => l + 1 \in S PROVE l \in S
  <2>1. ASSUME NEW q \in Q, t[q].lev = l PROVE Dir(m, u, q) = Dir(mem, t, q)
    <3>1. q \in T /\ q \in U /\ u[q] = t[q] /\ \A i \in EntryIndex : m[q][i] = mem[q][i]
      BY DEF SameIn
    <3>2. ASSUME NEW i \in EntryIndex PROVE Dir(m, u, q).entries[i] = Dir(mem, t, q).entries[i]
      <4>1. links(l, mem[q][i]) =>
              address(mem[q][i]) \in Q /\ t[address(mem[q][i])].lev = l + 1 /\ l \in 0 .. 2
        BY <2>1, <3>1, EntryOf DEF Closed
      <4>2. links(l, mem[q][i]) => Dir(m, u, address(mem[q][i])) = Dir(mem, t, address(mem[q][i]))
        BY <1>1, <4>1
      <4> QED
        BY <2>1, <3>1, <4>2, EntrySame
    <3> DEFINE d == Dir(mem, t, q)
               e == Dir(m, u, q)
    <3>3. /\ Shaped(d) /\ d.layer = t[q].lev /\ d.base_vaddr = t[q].start /\ d.flags = permissive_flags
      BY <3>1, DirShaped, DirParts
    <3>4. /\ Shaped(e) /\ e.layer = u[q].lev /\ e.base_vaddr = u[q].start /\ e.flags = permissive_flags
      BY <3>1, DirShaped, DirParts
    <3> HIDE DEF d, e
    <3>5. d = e
      BY <3>1, <3>2, <3>3, <3>4, SameShape DEF d, e
    <3> QED
      BY <3>5 DEF d, e
  <2> QED
    BY <2>1
<1> HIDE DEF S
<1>2. Layer \subseteq S
  BY <1>1, LayersUp
<1>3. \A q \in Q : t[q].lev \in Layer
  BY TreeType
<1> QED
  BY <1>2, <1>3 DEF S


(* From the directory p up to the root, along the directories that are     *)
(* about the address.                                                      *)
Ascends(T, t, addr, p, F) ==
  \A c \in T \ {cr3} :
    c \in F /\ AtAddr(T, t, c, addr) /\ t[c].lev <= t[p].lev => t[c].par \in F

LEMMA Climb ==
  ASSUME NEW T, NEW mem, NEW t, Tree(T, mem, t), NEW addr \in Nat,
         NEW p, AtAddr(T, t, p, addr), NEW F, p \in F, Ascends(T, t, addr, p, F)
  PROVE  cr3 \in F
<1> DEFINE n == t[p].lev
           S == {l \in Layer : l <= n => \A q \in T : t[q].lev = l /\ AtAddr(T, t, q, addr) => q \in F}
<1>0. p \in T /\ n \in Layer
  BY TreeType DEF AtAddr
<1>1. ASSUME NEW l \in Layer, l < 3 => l + 1 \in S PROVE l \in S
  <2>1. ASSUME l <= n, NEW q \in T, t[q].lev = l, AtAddr(T, t, q, addr) PROVE q \in F
    <3>1. CASE l = n
      <4>1. q = p
        BY <2>1, <3>1, AtUnique
      <4> QED
        BY <4>1
    <3>2. CASE l # n
      <4>1. l \in Nat /\ l < n /\ l < 3
        BY <1>0, <2>1, <3>2 DEF Layer
      <4>2. PICK r \in T : t[r].lev = l /\ AtAddr(T, t, r, addr) /\ links(l, mem[r][IndexAt(t, r, addr)])
        BY <4>1, PathAbove
      <4>3. r = q
        BY <2>1, <4>2, AtUnique
      <4> DEFINE c == address(mem[q][IndexAt(t, q, addr)])
      <4>4. AtAddr(T, t, c, addr) /\ c \in T \ {cr3} /\ t[c].par = q
        BY <2>1, <4>2, <4>3, ChildAt
      <4>5. t[c].lev = l + 1
        BY <2>1, <4>4, LevelOfParent
      <4>6. l + 1 <= n /\ l + 1 \in S
        BY <1>0, <1>1, <4>1 DEF Layer
      <4>7. c \in F
        BY <4>4, <4>5, <4>6
      <4> QED
        BY <4>4, <4>5, <4>6, <4>7 DEF Ascends
    <3> QED
      BY <3>1, <3>2
  <2> QED
    BY <2>1
<1> HIDE DEF S
<1>2. 0 \in S
  BY <1>1, LayersUp DEF Layer
<1>3. cr3 \in T /\ t[cr3].lev = 0
  BY DEF Tree
<1>4. AtAddr(T, t, cr3, addr)
  <2>1. addr < MAX_BASE
    BY AddressBound
  <2>2. t[cr3].start = 0
    BY DEF Tree
  <2> QED
    BY <1>3, <2>1, <2>2, RootCovers DEF AtAddr
<1> QED
  BY <1>0, <1>2, <1>3, <1>4 DEF S, Layer

(* A step changes the tree T to U, and one word at most of the directories *)
(* they share: that of p for the address.                                  *)
Edit(T, mem, t, U, m, u, addr, p) ==
  /\ Tree(T, mem, t) /\ Tree(U, m, u)
  /\ addr \in Nat /\ p \in U /\ AtAddr(T, t, p, addr)
  /\ \A q \in T \cap U : u[q] = t[q]
  /\ \A q \in T \cap U : \A i \in EntryIndex :
       ~(q = p /\ i = IndexAt(t, p, addr)) => m[q][i] = mem[q][i]

(* What is not on the way from the root to p. *)
Away(T, U, t, addr, p) ==
  {q \in T \cap U : q # p /\ (AtAddr(T, t, q, addr) => t[p].lev < t[q].lev)}

LEMMA SharedChild ==
  ASSUME NEW T, NEW mem, NEW t, Tree(T, mem, t), NEW U, NEW m, NEW u, Tree(U, m, u),
         NEW q \in T \cap U, NEW i \in EntryIndex, u[q] = t[q], m[q][i] = mem[q][i],
         links(t[q].lev, mem[q][i])
  PROVE  LET c == address(mem[q][i])
         IN  c \in T \cap U /\ c # cr3 /\ t[c].par = q /\ t[c].slot = i /\ t[c].lev = t[q].lev + 1
<1>1. LinkFits(T, t, q, i, mem[q][i])
  BY LinkedChild
<1>2. LinkFits(U, u, q, i, m[q][i])
  BY LinkedChild
<1> QED
  BY <1>1, <1>2 DEF LinkFits, Child

LEMMA AwaySame ==
  ASSUME NEW T, NEW mem, NEW t, NEW U, NEW m, NEW u, NEW addr, NEW p, Edit(T, mem, t, U, m, u, addr, p)
  PROVE  \A q \in Away(T, U, t, addr, p) : Dir(m, u, q) = Dir(mem, t, q)
<1> DEFINE Q == Away(T, U, t, addr, p)
<1>1. Tree(T, mem, t) /\ Tree(U, m, u) /\ addr \in Nat /\ AtAddr(T, t, p, addr)
  BY DEF Edit
<1>2. Q \subseteq T \cap U
  BY DEF Away
<1>3. SameIn(Q, mem, t, m, u)
  BY <1>2 DEF SameIn, Edit, Away
<1>4. ASSUME NEW q \in Q, NEW i \in EntryIndex, links(t[q].lev, mem[q][i])
      PROVE  address(mem[q][i]) \in Q
  <2> DEFINE c == address(mem[q][i])
  <2>1. q \in T \cap U /\ u[q] = t[q] /\ m[q][i] = mem[q][i]
    BY <1>2, <1>3 DEF SameIn
  <2>2. c \in T \cap U /\ c # cr3 /\ t[c].par = q /\ t[c].lev = t[q].lev + 1
    BY <1>1, <1>4, <2>1, SharedChild
  <2> HIDE DEF c
  <2>3. AtAddr(T, t, c, addr) => AtAddr(T, t, q, addr)
    BY <1>1, <2>2, ParentAt
  <2>4. t[q].lev \in Nat /\ t[p].lev \in Nat
    BY <1>1, <2>1, LevelOfParent DEF AtAddr
  <2>5. AtAddr(T, t, c, addr) => t[p].lev < t[c].lev
    BY <2>2, <2>3, <2>4 DEF Away
  <2>6. c # p
    BY <1>1, <2>4, <2>5
  <2> QED
    BY <2>2, <2>5, <2>6 DEF Away, c
<1>5. Closed(Q, mem, t)
  BY <1>4 DEF Closed
<1> HIDE DEF Q
<1>6. \A q \in Q : Dir(m, u, q) = Dir(mem, t, q)
  BY <1>1, <1>2, <1>3, <1>5, DirSame
<1> QED
  BY <1>6 DEF Q

(* On the way to p a directory changes in the entry for the address only.  *)
UpdatedAt(mem, t, m, u, q, addr) ==
  /\ IndexAt(t, q, addr) \in EntryIndex
  /\ Dir(m, u, q) = L1!update(Dir(mem, t, q), IndexAt(t, q, addr), Dir(m, u, q).entries[IndexAt(t, q, addr)])
  /\ L1!index_in(Dir(mem, t, q), addr) = IndexAt(t, q, addr)
  /\ Shaped(Dir(mem, t, q)) /\ Dir(mem, t, q).layer = t[q].lev

LEMMA PathUpdated ==
  ASSUME NEW T, NEW mem, NEW t, NEW U, NEW m, NEW u, NEW addr, NEW p, Edit(T, mem, t, U, m, u, addr, p),
         NEW q, q \in T, q \in U, AtAddr(T, t, q, addr), t[q].lev <= t[p].lev
  PROVE  UpdatedAt(mem, t, m, u, q, addr)
<1> DEFINE i == IndexAt(t, q, addr)
           d == Dir(mem, t, q)
           e == Dir(m, u, q)
           v == L1!update(d, i, e.entries[i])
<1>1. Tree(T, mem, t) /\ Tree(U, m, u) /\ addr \in Nat /\ AtAddr(T, t, p, addr) /\ u[q] = t[q]
  BY DEF Edit
<1>2. i \in EntryIndex
  BY <1>1, EntryAt
<1> HIDE DEF i
<1>3. ASSUME NEW j \in EntryIndex, j # i PROVE e.entries[j] = d.entries[j]
  <2> DEFINE c == address(mem[q][j])
  <2>1. m[q][j] = mem[q][j]
    <3>1. q = p => j # IndexAt(t, p, addr)
      BY <1>3 DEF i
    <3> QED
      BY <3>1 DEF Edit
  <2>2. ASSUME links(t[q].lev, mem[q][j]) PROVE Dir(m, u, c) = Dir(mem, t, c)
    <3>1. c \in T \cap U /\ c # cr3 /\ t[c].par = q /\ t[c].slot = j
      BY <1>1, <2>1, <2>2, SharedChild
    <3> HIDE DEF c
    <3>2. ~AtAddr(T, t, c, addr)
      BY <1>1, <1>3, <3>1, ParentAt DEF i
    <3>3. c \in Away(T, U, t, addr, p)
      BY <1>1, <3>1, <3>2 DEF Away
    <3> QED
      BY <3>3, AwaySame
  <2> QED
    BY <1>1, <2>1, <2>2, EntrySame
<1>4. /\ Shaped(d) /\ d.layer = t[q].lev /\ d.base_vaddr = t[q].start /\ d.flags = permissive_flags
  BY <1>1, DirShaped, DirParts
<1>5. /\ Shaped(e) /\ e.layer = t[q].lev /\ e.base_vaddr = t[q].start /\ e.flags = permissive_flags
  BY <1>1, DirShaped, DirParts
<1> HIDE DEF d, e
<1>6. /\ Shaped(v) /\ v.layer = d.layer /\ v.base_vaddr = d.base_vaddr /\ v.flags = d.flags
      /\ \A j \in EntryIndex : v.entries[j] = IF j = i THEN e.entries[i] ELSE d.entries[j]
  BY <1>2, <1>4, UpdateParts
<1> HIDE DEF v
<1>7. e = v
  <2>1. \A j \in EntryIndex : e.entries[j] = v.entries[j]
    BY <1>3, <1>6
  <2> QED
    BY <1>4, <1>5, <1>6, <2>1, SameShape
<1>8. L1!index_in(d, addr) = i
  BY <1>4, SameArch DEF L1!index_in, IndexAt, i
<1> QED
  BY <1>2, <1>4, <1>7, <1>8 DEF d, e, v, i, UpdatedAt

(* Above p, it is the directory below that changes. *)
LEMMA ParentUpdated ==
  ASSUME NEW T, NEW mem, NEW t, NEW U, NEW m, NEW u, NEW addr, NEW p, Edit(T, mem, t, U, m, u, addr, p),
         NEW c \in T \cap U, c # cr3, AtAddr(T, t, c, addr), t[c].lev <= t[p].lev,
         NEW q, q = t[c].par, NEW i, i = IndexAt(t, q, addr)
  PROVE  /\ q \in T \cap U /\ AtAddr(T, t, q, addr) /\ t[q].lev \in 0 .. 2 /\ t[c].lev = t[q].lev + 1
         /\ t[q].lev < t[p].lev /\ i \in EntryIndex
         /\ Shaped(Dir(mem, t, q)) /\ Dir(mem, t, q).layer = t[q].lev
         /\ L1!index_in(Dir(mem, t, q), addr) = i
         /\ Dir(mem, t, q).entries[i] = L1!DirectoryEntry(Dir(mem, t, c))
         /\ Dir(m, u, q) = L1!update(Dir(mem, t, q), i, L1!DirectoryEntry(Dir(m, u, c)))
<1>1. Tree(T, mem, t) /\ Tree(U, m, u) /\ addr \in Nat /\ AtAddr(T, t, p, addr) /\ u[c] = t[c]
  BY DEF Edit
<1>2. q \in T /\ t[q].lev \in 0 .. 2 /\ t[c].lev = t[q].lev + 1
  BY <1>1, LevelOfParent
<1>3. q \in U
  BY <1>1, LevelOfParent
<1>4. AtAddr(T, t, q, addr) /\ i = t[c].slot
  BY <1>1, ParentAt
<1>5. t[p].lev \in Layer /\ t[q].lev < t[p].lev
  <2>1. t[p].lev \in Layer
    BY <1>1, TreeType DEF AtAddr
  <2> QED
    BY <1>2, <2>1 DEF Layer
<1>6. /\ i \in EntryIndex
      /\ Dir(m, u, q) = L1!update(Dir(mem, t, q), i, Dir(m, u, q).entries[i])
      /\ L1!index_in(Dir(mem, t, q), addr) = i
      /\ Shaped(Dir(mem, t, q)) /\ Dir(mem, t, q).layer = t[q].lev
  <2>1. t[q].lev <= t[p].lev
    BY <1>2, <1>5 DEF Layer
  <2>2. UpdatedAt(mem, t, m, u, q, addr)
    BY <1>2, <1>3, <1>4, <2>1, PathUpdated
  <2> QED
    BY <2>2 DEF UpdatedAt
<1>7. u[q] = t[q] /\ m[q][i] = mem[q][i]
  <2>1. q # p
    BY <1>2, <1>5
  <2> QED
    BY <1>2, <1>3, <1>6, <2>1 DEF Edit
<1>8. links(t[q].lev, mem[q][i]) /\ address(mem[q][i]) = c
  BY <1>1, <1>4, ChildOfParent
<1>9. Dir(mem, t, q).entries[i] = L1!DirectoryEntry(Dir(mem, t, c))
  BY <1>1, <1>2, <1>6, <1>8, EntryOf
<1>10. Dir(m, u, q).entries[i] = L1!DirectoryEntry(Dir(m, u, c))
  BY <1>1, <1>3, <1>6, <1>7, <1>8, EntryOf
<1> QED
  BY <1>2, <1>3, <1>4, <1>5, <1>6, <1>9, <1>10


-----------------------------------------------------------------------------
(* map_frame and unmap of layer 1 in a directory of layer l, from what they *)
(* do in the directory at the entry for the address.                       *)

MapIn(l, d, addr, pte) ==
  CASE l = 0 -> L1!map_frame(d, addr, pte)
    [] l = 1 -> L1!map_frame1(d, addr, pte)
    [] l = 2 -> L1!map_frame2(d, addr, pte)
    [] l = 3 -> L1!map_frame3(d, addr, pte)

MapInFrom(l, d, addr, pte, r) ==
  /\ MapIn(l, d, addr, pte) = L1!map_frame_at(d, addr, pte, r)
  /\ l < 3 => r = MapIn(l + 1, L1!dir_at(d, L1!index_in(d, addr)), addr, pte)

LEMMA MapInIs ==
  ASSUME NEW l \in Layer, NEW d, NEW addr, NEW pte
  PROVE  \E r : MapInFrom(l, d, addr, pte, r)
<1> DEFINE r == IF l = 3 THEN L1!L0!Err(d)
                ELSE MapIn(l + 1, L1!dir_at(d, L1!index_in(d, addr)), addr, pte)
<1>1. MapIn(l, d, addr, pte) = L1!map_frame_at(d, addr, pte, r)
  <2>1. CASE l = 0
    BY <2>1 DEF MapIn, L1!map_frame
  <2>2. CASE l = 1
    BY <2>2 DEF MapIn, L1!map_frame1
  <2>3. CASE l = 2
    BY <2>3 DEF MapIn, L1!map_frame2
  <2>4. CASE l = 3
    BY <2>4 DEF MapIn, L1!map_frame3
  <2> QED
    BY <2>1, <2>2, <2>3, <2>4 DEF Layer
<1>2. l < 3 => r = MapIn(l + 1, L1!dir_at(d, L1!index_in(d, addr)), addr, pte)
  OBVIOUS
<1> QED
  BY <1>1, <1>2 DEF MapInFrom

UnmapIn(l, d, addr) ==
  CASE l = 0 -> L1!unmap(d, addr)
    [] l = 1 -> L1!unmap1(d, addr)
    [] l = 2 -> L1!unmap2(d, addr)
    [] l = 3 -> L1!unmap3(d, addr)

UnmapInFrom(l, d, addr, r) ==
  /\ UnmapIn(l, d, addr) = L1!unmap_at(d, addr, r)
  /\ l < 3 => r = UnmapIn(l + 1, L1!dir_at(d, L1!index_in(d, addr)), addr)

LEMMA UnmapInIs ==
  ASSUME NEW l \in Layer, NEW d, NEW addr
  PROVE  \E r : UnmapInFrom(l, d, addr, r)
<1> DEFINE r == IF l = 3 THEN L1!L0!Err(d)
                ELSE UnmapIn(l + 1, L1!dir_at(d, L1!index_in(d, addr)), addr)
<1>1. UnmapIn(l, d, addr) = L1!unmap_at(d, addr, r)
  <2>1. CASE l = 0
    BY <2>1 DEF UnmapIn, L1!unmap
  <2>2. CASE l = 1
    BY <2>2 DEF UnmapIn, L1!unmap1
  <2>3. CASE l = 2
    BY <2>3 DEF UnmapIn, L1!unmap2
  <2>4. CASE l = 3
    BY <2>4 DEF UnmapIn, L1!unmap3
  <2> QED
    BY <2>1, <2>2, <2>3, <2>4 DEF Layer
<1>2. l < 3 => r = UnmapIn(l + 1, L1!dir_at(d, L1!index_in(d, addr)), addr)
  OBVIOUS
<1> QED
  BY <1>1, <1>2 DEF UnmapInFrom

(* What unmap still has to do on its way back from layer n, where it has   *)
(* succeeded and d is the directory of layer l now.                        *)
Rest3(n, d, addr) == L0!Ok(d)
Rest2(n, d, addr) ==
  IF n = 2 THEN L0!Ok(d)
  ELSE L1!unmap_at(d, addr, Rest3(n, L1!dir_at(d, L1!index_in(d, addr)), addr))
Rest1(n, d, addr) ==
  IF n = 1 THEN L0!Ok(d)
  ELSE L1!unmap_at(d, addr, Rest2(n, L1!dir_at(d, L1!index_in(d, addr)), addr))
Rest0(n, d, addr) ==
  IF n = 0 THEN L0!Ok(d)
  ELSE L1!unmap_at(d, addr, Rest1(n, L1!dir_at(d, L1!index_in(d, addr)), addr))

RestIn(l, n, d, addr) ==
  CASE l = 0 -> Rest0(n, d, addr)
    [] l = 1 -> Rest1(n, d, addr)
    [] l = 2 -> Rest2(n, d, addr)
    [] l = 3 -> Rest3(n, d, addr)

LEMMA RestInIs ==
  ASSUME NEW l \in Layer, NEW n \in Layer, NEW d, NEW addr
  PROVE  /\ l = n => RestIn(l, n, d, addr) = L0!Ok(d)
         /\ l < n => RestIn(l, n, d, addr)
                       = L1!unmap_at(d, addr, RestIn(l + 1, n, L1!dir_at(d, L1!index_in(d, addr)), addr))
<1>1. CASE l = 0
  BY <1>1 DEF RestIn, Rest0, Layer
<1>2. CASE l = 1
  BY <1>2 DEF RestIn, Rest1, Layer
<1>3. CASE l = 2
  BY <1>3 DEF RestIn, Rest2, Layer
<1>4. CASE l = 3
  BY <1>4 DEF RestIn, Rest3, Layer
<1> QED
  BY <1>1, <1>2, <1>3, <1>4 DEF Layer

(* The entry of d for the address refers to c. *)
Refers(d, l, i, addr, c) ==
  /\ Shaped(d) /\ d.layer = l /\ i \in EntryIndex /\ L1!index_in(d, addr) = i
  /\ d.entries[i] = L1!DirectoryEntry(c)

LEMMA RefersOver ==
  ASSUME NEW d, NEW l, NEW i \in EntryIndex, NEW addr, NEW c,
         Shaped(d), d.layer = l, L1!index_in(d, addr) = i
  PROVE  Refers(L1!update(d, i, L1!DirectoryEntry(c)), l, i, addr, c)
<1> DEFINE v == L1!update(d, i, L1!DirectoryEntry(c))
<1>1. /\ Shaped(v) /\ v.layer = d.layer /\ v.base_vaddr = d.base_vaddr
      /\ \A j \in EntryIndex : v.entries[j] = IF j = i THEN L1!DirectoryEntry(c) ELSE d.entries[j]
  BY UpdateParts
<1> HIDE DEF v
<1>2. L1!index_in(v, addr) = i
  BY <1>1 DEF L1!index_in
<1>3. Refers(v, l, i, addr, c)
  BY <1>1, <1>2 DEF Refers
<1> QED
  BY <1>3 DEF v

LEMMA PutBackOver ==
  ASSUME NEW d, NEW i \in EntryIndex, NEW x, NEW r, Shaped(d)
  PROVE  L1!put_back(L1!update(d, i, x), i, r) = L1!put_back(d, i, r)
BY UpdateTwice DEF L1!put_back

LEMMA PutBackOk ==
  ASSUME NEW d, NEW i, NEW c
  PROVE  L1!put_back(d, i, L0!Ok(c)) = L0!Ok(L1!update(d, i, L1!DirectoryEntry(c)))
BY DEF L1!put_back, L0!Ok

LEMMA PutBackSame ==
  ASSUME NEW d, NEW l, NEW i, NEW addr, NEW c, Refers(d, l, i, addr, c)
  PROVE  /\ L1!put_back(d, i, L0!Ok(c)) = L0!Ok(d)
         /\ L1!put_back(d, i, L0!Err(c)) = L0!Err(d)
<1>1. L1!update(d, i, L1!DirectoryEntry(c)) = d
  BY UpdateSelf DEF Refers
<1> QED
  BY <1>1 DEF L1!put_back, L0!Ok, L0!Err

LEMMA MapAbove ==
  ASSUME NEW l \in 0 .. 2, NEW d, NEW i, NEW addr, NEW c, Refers(d, l, i, addr, c),
         NEW pte, pte.frame.size # entry_size(l)
  PROVE  MapIn(l, d, addr, pte) = L1!put_back(d, i, MapIn(l + 1, c, addr, pte))
<1>1. l \in Layer /\ l < 3
  BY DEF Layer
<1>2. PICK r : MapInFrom(l, d, addr, pte, r)
  BY <1>1, MapInIs
<1>3. /\ d.layer = l /\ L1!index_in(d, addr) = i
      /\ d.entries[i].tag = "Directory" /\ d.entries[i].dir = c
  BY DEF Refers, L1!DirectoryEntry
<1>4. r = MapIn(l + 1, c, addr, pte)
  BY <1>1, <1>2, <1>3 DEF MapInFrom, L1!dir_at
<1>5. ~(L1!entry_size(d.layer) = pte.frame.size)
  BY <1>3, SameArch
<1>6. L1!map_frame_at(d, addr, pte, r) = L1!put_back(d, i, r)
  BY <1>3, <1>5 DEF L1!map_frame_at
<1> QED
  BY <1>2, <1>4, <1>6 DEF MapInFrom

(* What unmap does with the result of the directory at the entry i. *)
Back(d, i, r) ==
  IF r.res = "Ok" /\ L1!empty(r.value)
  THEN L0!Ok(L1!update(d, i, L1!EmptyEntry))
  ELSE L1!put_back(d, i, r)

LEMMA BackOver ==
  ASSUME NEW d, NEW i \in EntryIndex, NEW x, NEW r, Shaped(d)
  PROVE  Back(L1!update(d, i, x), i, r) = Back(d, i, r)
BY UpdateTwice, PutBackOver DEF Back

LEMMA UnmapAtAbove ==
  ASSUME NEW l, NEW d, NEW i, NEW addr, NEW c, Refers(d, l, i, addr, c), NEW r
  PROVE  L1!unmap_at(d, addr, r) = Back(d, i, r)
<1>1. /\ L1!index_in(d, addr) = i /\ d.entries[i].tag = "Directory"
  BY DEF Refers, L1!DirectoryEntry
<1> QED
  BY <1>1, SameArch DEF L1!unmap_at, Back

LEMMA UnmapAbove ==
  ASSUME NEW l \in 0 .. 2, NEW d, NEW i, NEW addr, NEW c, Refers(d, l, i, addr, c)
  PROVE  UnmapIn(l, d, addr) = Back(d, i, UnmapIn(l + 1, c, addr))
<1>1. l \in Layer /\ l < 3
  BY DEF Layer
<1>2. PICK r : UnmapInFrom(l, d, addr, r)
  BY <1>1, UnmapInIs
<1>3. /\ L1!index_in(d, addr) = i /\ d.entries[i].tag = "Directory" /\ d.entries[i].dir = c
  BY DEF Refers, L1!DirectoryEntry
<1>4. r = UnmapIn(l + 1, c, addr)
  BY <1>1, <1>2, <1>3 DEF UnmapInFrom, L1!dir_at
<1> QED
  BY <1>2, <1>4, UnmapAtAbove DEF UnmapInFrom

LEMMA RestAbove ==
  ASSUME NEW l \in 0 .. 2, NEW n \in Layer, l < n,
         NEW d, NEW i, NEW addr, NEW c, Refers(d, l, i, addr, c)
  PROVE  RestIn(l, n, d, addr) = Back(d, i, RestIn(l + 1, n, c, addr))
<1>1. l \in Layer
  BY DEF Layer
<1>2. L1!dir_at(d, L1!index_in(d, addr)) = c
  BY DEF Refers, L1!DirectoryEntry, L1!dir_at
<1>3. RestIn(l, n, d, addr) = L1!unmap_at(d, addr, RestIn(l + 1, n, c, addr))
  BY <1>1, <1>2, RestInIs
<1> QED
  BY <1>3, UnmapAtAbove


-----------------------------------------------------------------------------
(* The results of map_frame and unmap, from the directory that a step      *)
(* changes up to the root.                                                 *)

(* The directory c is on the way to p, and q is the one above it. *)
Above(T, mem, t, U, m, u, addr, p, c, q) ==
  /\ q \in T \cap U /\ AtAddr(T, t, q, addr) /\ t[q].lev \in 0 .. 2 /\ t[c].lev = t[q].lev + 1
  /\ t[q].lev < t[p].lev /\ IndexAt(t, q, addr) \in EntryIndex
  /\ Refers(Dir(mem, t, q), t[q].lev, IndexAt(t, q, addr), addr, Dir(mem, t, c))
  /\ Refers(Dir(m, u, q), t[q].lev, IndexAt(t, q, addr), addr, Dir(m, u, c))
  /\ Dir(m, u, q) = L1!update(Dir(mem, t, q), IndexAt(t, q, addr), L1!DirectoryEntry(Dir(m, u, c)))

LEMMA ParentAbove ==
  ASSUME NEW T, NEW mem, NEW t, NEW U, NEW m, NEW u, NEW addr, NEW p, Edit(T, mem, t, U, m, u, addr, p),
         NEW c, c \in T, c \in U, c # cr3, AtAddr(T, t, c, addr), t[c].lev <= t[p].lev
  PROVE  Above(T, mem, t, U, m, u, addr, p, c, t[c].par)
<1> DEFINE q == t[c].par
           i == IndexAt(t, q, addr)
<1>1. /\ q \in T \cap U /\ AtAddr(T, t, q, addr) /\ t[q].lev \in 0 .. 2 /\ t[c].lev = t[q].lev + 1
      /\ t[q].lev < t[p].lev /\ i \in EntryIndex
      /\ Shaped(Dir(mem, t, q)) /\ Dir(mem, t, q).layer = t[q].lev
      /\ L1!index_in(Dir(mem, t, q), addr) = i
      /\ Dir(mem, t, q).entries[i] = L1!DirectoryEntry(Dir(mem, t, c))
      /\ Dir(m, u, q) = L1!update(Dir(mem, t, q), i, L1!DirectoryEntry(Dir(m, u, c)))
  BY ParentUpdated
<1> HIDE DEF i, q
<1>2. Refers(Dir(mem, t, q), t[q].lev, i, addr, Dir(mem, t, c))
  BY <1>1 DEF Refers
<1>3. Refers(L1!update(Dir(mem, t, q), i, L1!DirectoryEntry(Dir(m, u, c))), t[q].lev, i, addr, Dir(m, u, c))
  BY <1>1, RefersOver
<1>4. Above(T, mem, t, U, m, u, addr, p, c, q)
  BY <1>1, <1>2, <1>3 DEF Above, i
<1> QED
  BY <1>4 DEF q

LEMMA EditType ==
  ASSUME NEW T, NEW mem, NEW t, NEW U, NEW m, NEW u, NEW addr, NEW p, Edit(T, mem, t, U, m, u, addr, p)
  PROVE  /\ Tree(T, mem, t) /\ Tree(U, m, u) /\ addr \in Nat /\ AtAddr(T, t, p, addr)
         /\ p \in T /\ p \in U /\ t[p].lev \in Layer
         /\ cr3 \in T /\ t[cr3].lev = 0
<1>1. Tree(T, mem, t) /\ Tree(U, m, u) /\ addr \in Nat /\ AtAddr(T, t, p, addr) /\ p \in T /\ p \in U
  BY DEF Edit, AtAddr
<1> QED
  BY <1>1, TreeType DEF Tree

(* The page goes below layer n. *)
GoesBelow(pte, n) == \A l \in Layer : l < n => pte.frame.size # entry_size(l)

(* The result of map_frame stays the same. *)
LEMMA MapSameUp ==
  ASSUME NEW T, NEW mem, NEW t, NEW U, NEW m, NEW u, NEW addr, NEW p, Edit(T, mem, t, U, m, u, addr, p),
         NEW pte, GoesBelow(pte, t[p].lev),
         MapIn(t[p].lev, Dir(m, u, p), addr, pte) = MapIn(t[p].lev, Dir(mem, t, p), addr, pte)
  PROVE  MapIn(0, Dir(m, u, cr3), addr, pte) = MapIn(0, Dir(mem, t, cr3), addr, pte)
<1> DEFINE F == {q \in T \cap U : MapIn(t[q].lev, Dir(m, u, q), addr, pte) = MapIn(t[q].lev, Dir(mem, t, q), addr, pte)}
<1>1. /\ Tree(T, mem, t) /\ addr \in Nat /\ AtAddr(T, t, p, addr) /\ p \in T /\ p \in U
      /\ t[p].lev \in Layer /\ t[cr3].lev = 0
  BY EditType
<1>2. p \in F
  BY <1>1
<1>3. ASSUME NEW c \in T \ {cr3}, c \in F, AtAddr(T, t, c, addr), t[c].lev <= t[p].lev
      PROVE  t[c].par \in F
  <2> DEFINE q == t[c].par
             i == IndexAt(t, q, addr)
             l == t[q].lev
             C == Dir(mem, t, c)
             E == Dir(m, u, c)
             d == Dir(mem, t, q)
             e == Dir(m, u, q)
  <2>1. Above(T, mem, t, U, m, u, addr, p, c, q)
    BY <1>3, ParentAbove
  <2>2. MapIn(t[c].lev, Dir(m, u, c), addr, pte) = MapIn(t[c].lev, Dir(mem, t, c), addr, pte)
    BY <1>3
  <2> HIDE DEF F, q
  <2>3. /\ q \in T \cap U /\ l \in 0 .. 2 /\ t[c].lev = l + 1 /\ l < t[p].lev /\ i \in EntryIndex
        /\ Refers(d, l, i, addr, C) /\ Refers(e, l, i, addr, E)
        /\ e = L1!update(d, i, L1!DirectoryEntry(E))
    BY <2>1 DEF Above
  <2>4. Shaped(d)
    BY <2>3 DEF Refers
  <2>5. pte.frame.size # entry_size(l)
    BY <2>3 DEF GoesBelow, Layer
  <2>6. MapIn(l + 1, E, addr, pte) = MapIn(l + 1, C, addr, pte)
    BY <2>2, <2>3
  <2> HIDE DEF i, l, C, E, d, e
  <2>7. /\ MapIn(l, d, addr, pte) = L1!put_back(d, i, MapIn(l + 1, C, addr, pte))
        /\ MapIn(l, e, addr, pte) = L1!put_back(e, i, MapIn(l + 1, E, addr, pte))
    BY <2>3, <2>5, MapAbove
  <2>8. L1!put_back(e, i, MapIn(l + 1, C, addr, pte)) = L1!put_back(d, i, MapIn(l + 1, C, addr, pte))
    BY <2>3, <2>4, PutBackOver
  <2>9. MapIn(l, e, addr, pte) = MapIn(l, d, addr, pte)
    BY <2>6, <2>7, <2>8
  <2> QED
    BY <2>3, <2>9 DEF F, q, l, d, e
<1>4. Ascends(T, t, addr, p, F)
  BY <1>3 DEF Ascends
<1> HIDE DEF F
<1>5. cr3 \in F
  BY <1>1, <1>2, <1>4, Climb
<1> QED
  BY <1>1, <1>5 DEF F

(* map_frame makes of the tree what the step makes of it. *)
LEMMA MapOkUp ==
  ASSUME NEW T, NEW mem, NEW t, NEW U, NEW m, NEW u, NEW addr, NEW p, Edit(T, mem, t, U, m, u, addr, p),
         NEW pte, GoesBelow(pte, t[p].lev),
         MapIn(t[p].lev, Dir(mem, t, p), addr, pte) = L0!Ok(Dir(m, u, p))
  PROVE  MapIn(0, Dir(mem, t, cr3), addr, pte) = L0!Ok(Dir(m, u, cr3))
<1> DEFINE F == {q \in T \cap U : MapIn(t[q].lev, Dir(mem, t, q), addr, pte) = L0!Ok(Dir(m, u, q))}
<1>1. /\ Tree(T, mem, t) /\ addr \in Nat /\ AtAddr(T, t, p, addr) /\ p \in T /\ p \in U
      /\ t[p].lev \in Layer /\ t[cr3].lev = 0
  BY EditType
<1>2. p \in F
  BY <1>1
<1>3. ASSUME NEW c \in T \ {cr3}, c \in F, AtAddr(T, t, c, addr), t[c].lev <= t[p].lev
      PROVE  t[c].par \in F
  <2> DEFINE q == t[c].par
             i == IndexAt(t, q, addr)
             l == t[q].lev
             C == Dir(mem, t, c)
             E == Dir(m, u, c)
             d == Dir(mem, t, q)
             e == Dir(m, u, q)
  <2>1. Above(T, mem, t, U, m, u, addr, p, c, q)
    BY <1>3, ParentAbove
  <2>2. MapIn(t[c].lev, Dir(mem, t, c), addr, pte) = L0!Ok(Dir(m, u, c))
    BY <1>3
  <2> HIDE DEF F, q
  <2>3. /\ q \in T \cap U /\ l \in 0 .. 2 /\ t[c].lev = l + 1 /\ l < t[p].lev /\ i \in EntryIndex
        /\ Refers(d, l, i, addr, C) /\ Refers(e, l, i, addr, E)
        /\ e = L1!update(d, i, L1!DirectoryEntry(E))
    BY <2>1 DEF Above
  <2>4. Shaped(d)
    BY <2>3 DEF Refers
  <2>5. pte.frame.size # entry_size(l)
    BY <2>3 DEF GoesBelow, Layer
  <2>6. MapIn(l + 1, C, addr, pte) = L0!Ok(E)
    BY <2>2, <2>3
  <2> HIDE DEF i, l, C, E, d, e
  <2>7. MapIn(l, d, addr, pte) = L1!put_back(d, i, L0!Ok(E))
    BY <2>3, <2>5, <2>6, MapAbove
  <2>9. MapIn(l, d, addr, pte) = L0!Ok(e)
    BY <2>3, <2>7, PutBackOk
  <2> QED
    BY <2>3, <2>9 DEF F, q, l, d, e
<1>4. Ascends(T, t, addr, p, F)
  BY <1>3 DEF Ascends
<1> HIDE DEF F
<1>5. cr3 \in F
  BY <1>1, <1>2, <1>4, Climb
<1> QED
  BY <1>1, <1>5 DEF F

(* unmap has still to return from the layer of the step. *)
LEMMA UnmapOkUp ==
  ASSUME NEW T, NEW mem, NEW t, NEW U, NEW m, NEW u, NEW addr, NEW p, Edit(T, mem, t, U, m, u, addr, p),
         NEW n \in Layer, n = t[p].lev,
         UnmapIn(t[p].lev, Dir(mem, t, p), addr) = RestIn(t[p].lev, n, Dir(m, u, p), addr)
  PROVE  UnmapIn(0, Dir(mem, t, cr3), addr) = RestIn(0, n, Dir(m, u, cr3), addr)
<1> DEFINE F == {q \in T \cap U : UnmapIn(t[q].lev, Dir(mem, t, q), addr) = RestIn(t[q].lev, n, Dir(m, u, q), addr)}
<1>1. /\ Tree(T, mem, t) /\ addr \in Nat /\ AtAddr(T, t, p, addr) /\ p \in T /\ p \in U
      /\ t[p].lev \in Layer /\ t[cr3].lev = 0
  BY EditType
<1>2. p \in F
  BY <1>1
<1>3. ASSUME NEW c \in T \ {cr3}, c \in F, AtAddr(T, t, c, addr), t[c].lev <= t[p].lev
      PROVE  t[c].par \in F
  <2> DEFINE q == t[c].par
             i == IndexAt(t, q, addr)
             l == t[q].lev
             C == Dir(mem, t, c)
             E == Dir(m, u, c)
             d == Dir(mem, t, q)
             e == Dir(m, u, q)
  <2>1. Above(T, mem, t, U, m, u, addr, p, c, q)
    BY <1>3, ParentAbove
  <2>2. UnmapIn(t[c].lev, Dir(mem, t, c), addr) = RestIn(t[c].lev, n, Dir(m, u, c), addr)
    BY <1>3
  <2> HIDE DEF F, q
  <2>3. /\ q \in T \cap U /\ l \in 0 .. 2 /\ t[c].lev = l + 1 /\ l < t[p].lev /\ i \in EntryIndex
        /\ Refers(d, l, i, addr, C) /\ Refers(e, l, i, addr, E)
        /\ e = L1!update(d, i, L1!DirectoryEntry(E))
    BY <2>1 DEF Above
  <2>4. Shaped(d)
    BY <2>3 DEF Refers
  <2>5. UnmapIn(l + 1, C, addr) = RestIn(l + 1, n, E, addr) /\ l < n
    BY <2>2, <2>3
  <2> HIDE DEF i, l, C, E, d, e
  <2>6. UnmapIn(l, d, addr) = Back(d, i, RestIn(l + 1, n, E, addr))
    BY <2>3, <2>5, UnmapAbove
  <2>7. RestIn(l, n, e, addr) = Back(e, i, RestIn(l + 1, n, E, addr))
    BY <2>3, <2>5, RestAbove
  <2>8. Back(e, i, RestIn(l + 1, n, E, addr)) = Back(d, i, RestIn(l + 1, n, E, addr))
    BY <2>3, <2>4, BackOver
  <2>9. UnmapIn(l, d, addr) = RestIn(l, n, e, addr)
    BY <2>6, <2>7, <2>8
  <2> QED
    BY <2>3, <2>9 DEF F, q, l, d, e
<1>4. Ascends(T, t, addr, p, F)
  BY <1>3 DEF Ascends
<1> HIDE DEF F
<1>5. cr3 \in F
  BY <1>1, <1>2, <1>4, Climb
<1> QED
  BY <1>1, <1>5 DEF F

(* unmap returns from layer n to the layer of the step. *)
LEMMA RestUp ==
  ASSUME NEW T, NEW mem, NEW t, NEW U, NEW m, NEW u, NEW addr, NEW p, Edit(T, mem, t, U, m, u, addr, p),
         NEW n \in Layer, t[p].lev < n, NEW k \in Layer, k = t[p].lev,
         RestIn(t[p].lev, n, Dir(mem, t, p), addr) = RestIn(t[p].lev, k, Dir(m, u, p), addr)
  PROVE  RestIn(0, n, Dir(mem, t, cr3), addr) = RestIn(0, k, Dir(m, u, cr3), addr)
<1> DEFINE F == {q \in T \cap U : RestIn(t[q].lev, n, Dir(mem, t, q), addr) = RestIn(t[q].lev, k, Dir(m, u, q), addr)}
<1>1. /\ Tree(T, mem, t) /\ addr \in Nat /\ AtAddr(T, t, p, addr) /\ p \in T /\ p \in U
      /\ t[p].lev \in Layer /\ t[cr3].lev = 0
  BY EditType
<1>2. p \in F
  BY <1>1
<1>3. ASSUME NEW c \in T \ {cr3}, c \in F, AtAddr(T, t, c, addr), t[c].lev <= t[p].lev
      PROVE  t[c].par \in F
  <2> DEFINE q == t[c].par
             i == IndexAt(t, q, addr)
             l == t[q].lev
             C == Dir(mem, t, c)
             E == Dir(m, u, c)
             d == Dir(mem, t, q)
             e == Dir(m, u, q)
  <2>1. Above(T, mem, t, U, m, u, addr, p, c, q)
    BY <1>3, ParentAbove
  <2>2. RestIn(t[c].lev, n, Dir(mem, t, c), addr) = RestIn(t[c].lev, k, Dir(m, u, c), addr)
    BY <1>3
  <2> HIDE DEF F, q
  <2>3. /\ q \in T \cap U /\ l \in 0 .. 2 /\ t[c].lev = l + 1 /\ l < t[p].lev /\ i \in EntryIndex
        /\ Refers(d, l, i, addr, C) /\ Refers(e, l, i, addr, E)
        /\ e = L1!update(d, i, L1!DirectoryEntry(E))
    BY <2>1 DEF Above
  <2>4. Shaped(d)
    BY <2>3 DEF Refers
  <2>5. RestIn(l + 1, n, C, addr) = RestIn(l + 1, k, E, addr) /\ l < k /\ l < n
    BY <1>1, <2>2, <2>3 DEF Layer
  <2> HIDE DEF i, l, C, E, d, e
  <2>6. RestIn(l, n, d, addr) = Back(d, i, RestIn(l + 1, n, C, addr))
    BY <2>3, <2>5, RestAbove
  <2>7. RestIn(l, k, e, addr) = Back(e, i, RestIn(l + 1, k, E, addr))
    BY <2>3, <2>5, RestAbove
  <2>8. Back(e, i, RestIn(l + 1, k, E, addr)) = Back(d, i, RestIn(l + 1, k, E, addr))
    BY <2>3, <2>4, BackOver
  <2>9. RestIn(l, n, d, addr) = RestIn(l, k, e, addr)
    BY <2>5, <2>6, <2>7, <2>8
  <2> QED
    BY <2>3, <2>9 DEF F, q, l, d, e
<1>4. Ascends(T, t, addr, p, F)
  BY <1>3 DEF Ascends
<1> HIDE DEF F
<1>5. cr3 \in F
  BY <1>1, <1>2, <1>4, Climb
<1> QED
  BY <1>1, <1>5 DEF F

(* map_frame fails and leaves the tree as it is. *)
LEMMA MapErrUp ==
  ASSUME NEW T, NEW mem, NEW t, NEW U, NEW m, NEW u, NEW addr, NEW p, Edit(T, mem, t, U, m, u, addr, p),
         NEW pte, GoesBelow(pte, t[p].lev), T = U, mem = m, t = u,
         MapIn(t[p].lev, Dir(mem, t, p), addr, pte) = L0!Err(Dir(mem, t, p))
  PROVE  MapIn(0, Dir(mem, t, cr3), addr, pte) = L0!Err(Dir(mem, t, cr3))
<1> DEFINE F == {q \in T \cap U : MapIn(t[q].lev, Dir(mem, t, q), addr, pte) = L0!Err(Dir(mem, t, q))}
<1>1. /\ Tree(T, mem, t) /\ addr \in Nat /\ AtAddr(T, t, p, addr) /\ p \in T /\ p \in U
      /\ t[p].lev \in Layer /\ t[cr3].lev = 0
  BY EditType
<1>2. p \in F
  BY <1>1
<1>3. ASSUME NEW c \in T \ {cr3}, c \in F, AtAddr(T, t, c, addr), t[c].lev <= t[p].lev
      PROVE  t[c].par \in F
  <2> DEFINE q == t[c].par
             i == IndexAt(t, q, addr)
             l == t[q].lev
             C == Dir(mem, t, c)
             E == Dir(m, u, c)
             d == Dir(mem, t, q)
             e == Dir(m, u, q)
  <2>1. Above(T, mem, t, U, m, u, addr, p, c, q)
    BY <1>3, ParentAbove
  <2>2. MapIn(t[c].lev, Dir(mem, t, c), addr, pte) = L0!Err(Dir(mem, t, c))
    BY <1>3
  <2> HIDE DEF F, q
  <2>3. /\ q \in T \cap U /\ l \in 0 .. 2 /\ t[c].lev = l + 1 /\ l < t[p].lev /\ i \in EntryIndex
        /\ Refers(d, l, i, addr, C) /\ Refers(e, l, i, addr, E)
        /\ e = L1!update(d, i, L1!DirectoryEntry(E))
    BY <2>1 DEF Above
  <2>4. Shaped(d)
    BY <2>3 DEF Refers
  <2>5. pte.frame.size # entry_size(l)
    BY <2>3 DEF GoesBelow, Layer
  <2>6. MapIn(l + 1, C, addr, pte) = L0!Err(C)
    BY <2>2, <2>3
  <2> HIDE DEF i, l, C, E, d, e
  <2>7. MapIn(l, d, addr, pte) = L1!put_back(d, i, L0!Err(C))
    BY <2>3, <2>5, <2>6, MapAbove
  <2>9. MapIn(l, d, addr, pte) = L0!Err(d)
    BY <2>3, <2>7, PutBackSame
  <2> QED
    BY <2>3, <2>9 DEF F, q, l, d, e
<1>4. Ascends(T, t, addr, p, F)
  BY <1>3 DEF Ascends
<1> HIDE DEF F
<1>5. cr3 \in F
  BY <1>1, <1>2, <1>4, Climb
<1> QED
  BY <1>1, <1>5 DEF F

(* unmap fails and leaves the tree as it is. *)
LEMMA UnmapErrUp ==
  ASSUME NEW T, NEW mem, NEW t, NEW U, NEW m, NEW u, NEW addr, NEW p, Edit(T, mem, t, U, m, u, addr, p),
         T = U, mem = m, t = u,
         UnmapIn(t[p].lev, Dir(mem, t, p), addr) = L0!Err(Dir(mem, t, p))
  PROVE  UnmapIn(0, Dir(mem, t, cr3), addr) = L0!Err(Dir(mem, t, cr3))
<1> DEFINE F == {q \in T \cap U : UnmapIn(t[q].lev, Dir(mem, t, q), addr) = L0!Err(Dir(mem, t, q))}
<1>1. /\ Tree(T, mem, t) /\ addr \in Nat /\ AtAddr(T, t, p, addr) /\ p \in T /\ p \in U
      /\ t[p].lev \in Layer /\ t[cr3].lev = 0
  BY EditType
<1>2. p \in F
  BY <1>1
<1>3. ASSUME NEW c \in T \ {cr3}, c \in F, AtAddr(T, t, c, addr), t[c].lev <= t[p].lev
      PROVE  t[c].par \in F
  <2> DEFINE q == t[c].par
             i == IndexAt(t, q, addr)
             l == t[q].lev
             C == Dir(mem, t, c)
             E == Dir(m, u, c)
             d == Dir(mem, t, q)
             e == Dir(m, u, q)
  <2>1. Above(T, mem, t, U, m, u, addr, p, c, q)
    BY <1>3, ParentAbove
  <2>2. UnmapIn(t[c].lev, Dir(mem, t, c), addr) = L0!Err(Dir(mem, t, c))
    BY <1>3
  <2> HIDE DEF F, q
  <2>3. /\ q \in T \cap U /\ l \in 0 .. 2 /\ t[c].lev = l + 1 /\ l < t[p].lev /\ i \in EntryIndex
        /\ Refers(d, l, i, addr, C) /\ Refers(e, l, i, addr, E)
        /\ e = L1!update(d, i, L1!DirectoryEntry(E))
    BY <2>1 DEF Above
  <2>4. Shaped(d)
    BY <2>3 DEF Refers
  <2>5. UnmapIn(l + 1, C, addr) = L0!Err(C)
    BY <2>2, <2>3
  <2> HIDE DEF i, l, C, E, d, e
  <2>6. UnmapIn(l, d, addr) = Back(d, i, L0!Err(C))
    BY <2>3, <2>5, UnmapAbove
  <2>7. Back(d, i, L0!Err(C)) = L1!put_back(d, i, L0!Err(C))
    BY DEF Back, L0!Err
  <2>9. UnmapIn(l, d, addr) = L0!Err(d)
    BY <2>3, <2>6, <2>7, PutBackSame
  <2> QED
    BY <2>3, <2>9 DEF F, q, l, d, e
<1>4. Ascends(T, t, addr, p, F)
  BY <1>3 DEF Ascends
<1> HIDE DEF F
<1>5. cr3 \in F
  BY <1>1, <1>2, <1>4, Climb
<1> QED
  BY <1>1, <1>5 DEF F


-----------------------------------------------------------------------------
(* What the steps do in the directory they are in: base cases.             *)

(* The directory d of layer l has nothing, a page or a directory at the    *)
(* entry i for the address.                                                *)
At(d, l, i, addr, tags) ==
  /\ Shaped(d) /\ d.layer = l /\ i \in EntryIndex /\ L1!index_in(d, addr) = i
  /\ d.entries[i].tag \in tags

LEMMA MapHere ==
  ASSUME NEW l \in Layer, NEW d, NEW i, NEW addr, At(d, l, i, addr, {"Empty"}),
         NEW pte, pte.frame.size = entry_size(l)
  PROVE  MapIn(l, d, addr, pte) = L0!Ok(L1!update(d, i, L1!PageEntry(pte)))
<1>1. PICK r : MapInFrom(l, d, addr, pte, r)
  BY MapInIs
<1>2. d.layer = l /\ L1!index_in(d, addr) = i /\ d.entries[i].tag = "Empty"
  BY DEF At
<1>3. L1!entry_size(d.layer) = pte.frame.size
  BY <1>2, SameArch
<1>4. L1!map_frame_at(d, addr, pte, r) = L1!L0!Ok(L1!update(d, i, L1!PageEntry(pte)))
  BY <1>2, <1>3 DEF L1!map_frame_at
<1> QED
  BY <1>1, <1>4, SameArch DEF MapInFrom

LEMMA MapConflict ==
  ASSUME NEW l \in Layer, NEW d, NEW i, NEW addr, At(d, l, i, addr, {"Page", "Directory"}),
         NEW pte, d.entries[i].tag = "Directory" => pte.frame.size = entry_size(l)
  PROVE  MapIn(l, d, addr, pte) = L0!Err(d)
<1>1. PICK r : MapInFrom(l, d, addr, pte, r)
  BY MapInIs
<1>2. d.layer = l /\ L1!index_in(d, addr) = i /\ d.entries[i].tag \in {"Page", "Directory"}
  BY DEF At
<1>3. d.entries[i].tag = "Directory" => L1!entry_size(d.layer) = pte.frame.size
  BY <1>2, SameArch
<1>4. L1!map_frame_at(d, addr, pte, r) = L1!L0!Err(d)
  BY <1>2, <1>3 DEF L1!map_frame_at
<1> QED
  BY <1>1, <1>4, SameArch DEF MapInFrom

(* map_frame goes on in the directory that it has made. *)
LEMMA MapIntoNew ==
  ASSUME NEW l \in 0 .. 2, NEW d, NEW i, NEW addr, At(d, l, i, addr, {"Empty"}),
         NEW pte, pte.frame.size # entry_size(l), NEW n, n = L1!new_empty_dir(d, i)
  PROVE  MapIn(l, L1!update(d, i, L1!DirectoryEntry(n)), addr, pte) = MapIn(l, d, addr, pte)
<1> DEFINE e == L1!update(d, i, L1!DirectoryEntry(n))
<1>0. l \in Layer /\ l < 3
  BY DEF Layer
<1>1. PICK r : MapInFrom(l, d, addr, pte, r)
  BY <1>0, MapInIs
<1>2. /\ Shaped(d) /\ d.layer = l /\ i \in EntryIndex /\ L1!index_in(d, addr) = i
      /\ d.entries[i].tag = "Empty"
  BY DEF At
<1>3. L1!entry_size(d.layer) # pte.frame.size
  BY <1>2, SameArch
<1>4. L1!map_frame_at(d, addr, pte, r) = L1!put_back(d, i, r)
  BY <1>2, <1>3 DEF L1!map_frame_at
<1>5. L1!dir_at(d, i) = n
  BY <1>2 DEF L1!dir_at
<1>6. MapIn(l, d, addr, pte) = L1!put_back(d, i, MapIn(l + 1, n, addr, pte))
  BY <1>0, <1>1, <1>2, <1>4, <1>5 DEF MapInFrom
<1>7. Refers(e, l, i, addr, n)
  BY <1>2, RefersOver
<1> HIDE DEF e
<1>8. MapIn(l, e, addr, pte) = L1!put_back(e, i, MapIn(l + 1, n, addr, pte))
  BY <1>7, MapAbove
<1>9. L1!put_back(e, i, MapIn(l + 1, n, addr, pte)) = L1!put_back(d, i, MapIn(l + 1, n, addr, pte))
  BY <1>2, PutBackOver DEF e
<1> QED
  BY <1>6, <1>8, <1>9 DEF e

LEMMA UnmapHere ==
  ASSUME NEW l \in Layer, NEW d, NEW i, NEW addr, At(d, l, i, addr, {"Page"}), aligned(addr, entry_size(l))
  PROVE  UnmapIn(l, d, addr) = L0!Ok(L1!update(d, i, L1!EmptyEntry))
<1>1. PICK r : UnmapInFrom(l, d, addr, r)
  BY UnmapInIs
<1>2. d.layer = l /\ L1!index_in(d, addr) = i /\ d.entries[i].tag = "Page"
  BY DEF At
<1>3. L1!aligned(addr, L1!entry_size(d.layer))
  BY <1>2, SameArch
<1>4. L1!unmap_at(d, addr, r) = L1!L0!Ok(L1!update(d, i, L1!EmptyEntry))
  BY <1>2, <1>3 DEF L1!unmap_at, L1!unmap_page
<1> QED
  BY <1>1, <1>4, SameArch DEF UnmapInFrom

LEMMA UnmapNoneHere ==
  ASSUME NEW l \in Layer, NEW d, NEW i, NEW addr, At(d, l, i, addr, {"Page", "Empty"}),
         d.entries[i].tag = "Page" => ~aligned(addr, entry_size(l))
  PROVE  UnmapIn(l, d, addr) = L0!Err(d)
<1>1. PICK r : UnmapInFrom(l, d, addr, r)
  BY UnmapInIs
<1>2. d.layer = l /\ L1!index_in(d, addr) = i /\ d.entries[i].tag \in {"Page", "Empty"}
  BY DEF At
<1>3. d.entries[i].tag = "Page" => ~L1!aligned(addr, L1!entry_size(d.layer))
  BY <1>2, SameArch
<1>4. L1!unmap_at(d, addr, r) = L1!L0!Err(d)
  BY <1>2, <1>3 DEF L1!unmap_at, L1!unmap_page
<1> QED
  BY <1>1, <1>4, SameArch DEF UnmapInFrom

(* unmap returns from the directory c to the one that refers to it. *)
LEMMA RestHere ==
  ASSUME NEW l \in 0 .. 2, NEW d, NEW i, NEW addr, NEW c, Refers(d, l, i, addr, c)
  PROVE  /\ L1!empty(c) => RestIn(l, l + 1, d, addr) = L0!Ok(L1!update(d, i, L1!EmptyEntry))
         /\ ~L1!empty(c) => RestIn(l, l + 1, d, addr) = L0!Ok(d)
<1>1. l \in Layer /\ l + 1 \in Layer /\ l < l + 1
  BY DEF Layer
<1>2. RestIn(l, l + 1, d, addr) = Back(d, i, RestIn(l + 1, l + 1, c, addr))
  BY <1>1, RestAbove
<1>3. RestIn(l + 1, l + 1, c, addr) = L0!Ok(c)
  BY <1>1, RestInIs
<1>4. L0!Ok(c).res = "Ok" /\ L0!Ok(c).value = c
  BY DEF L0!Ok
<1>5. L1!empty(c) => Back(d, i, L0!Ok(c)) = L0!Ok(L1!update(d, i, L1!EmptyEntry))
  BY <1>4 DEF Back
<1>6. ~L1!empty(c) => Back(d, i, L0!Ok(c)) = L1!put_back(d, i, L0!Ok(c))
  BY <1>4 DEF Back
<1>7. L1!put_back(d, i, L0!Ok(c)) = L0!Ok(d)
  BY PutBackSame
<1> QED
  BY <1>2, <1>3, <1>5, <1>6, <1>7

(* The directory of the tree that is about the address. *)
LEMMA DirAt ==
  ASSUME NEW T, NEW mem, NEW t, Tree(T, mem, t), NEW addr \in Nat, NEW p, AtAddr(T, t, p, addr),
         NEW i, i = IndexAt(t, p, addr)
  PROVE  At(Dir(mem, t, p), t[p].lev, i, addr, {Dir(mem, t, p).entries[i].tag})
<1>1. p \in T /\ i \in EntryIndex
  BY EntryAt
<1>2. Dir(mem, t, p).layer = t[p].lev /\ Dir(mem, t, p).base_vaddr = t[p].start /\ Shaped(Dir(mem, t, p))
  BY <1>1, DirParts, DirShaped
<1>3. L1!index_in(Dir(mem, t, p), addr) = i
  BY <1>2, SameArch DEF L1!index_in, IndexAt
<1> QED
  BY <1>1, <1>2, <1>3 DEF At

(* The new directory is that of layer 1. *)
LEMMA NewDir ==
  ASSUME NEW U, NEW m, NEW u, Tree(U, m, u), NEW q \in U, Empty(m, q),
         NEW d, NEW i \in EntryIndex, u[q].lev = d.layer + 1, u[q].start = entry_base(d.layer, d.base_vaddr, i)
  PROVE  Dir(m, u, q) = L1!new_empty_dir(d, i)
<1> DEFINE e == Dir(m, u, q)
           n == L1!new_empty_dir(d, i)
<1>1. e.layer = u[q].lev /\ e.base_vaddr = u[q].start /\ e.flags = permissive_flags /\ Shaped(e)
  BY DirParts, DirShaped
<1>2. \A j \in EntryIndex : e.entries[j] = L1!EmptyEntry
  <2>1. ASSUME NEW j \in EntryIndex PROVE e.entries[j] = L1!EmptyEntry
    <3>1. ~m[q][j].P
      BY DEF Empty
    <3> QED
      BY <3>1, EntryOf
  <2> QED
    BY <2>1
<1>3. /\ n.layer = d.layer + 1 /\ n.base_vaddr = L1!base_of_entry(d, i) /\ n.flags = L1!permissive_flags
      /\ n.entries = [j \in L1!EntryIndex |-> L1!EmptyEntry]
  BY DEF L1!new_empty_dir
<1>4. Shaped(n)
  <2>1. n = [entries |-> n.entries, layer |-> n.layer, base_vaddr |-> n.base_vaddr, flags |-> n.flags]
    BY DEF L1!new_empty_dir
  <2>2. n.entries = [j \in EntryIndex |-> n.entries[j]]
    BY <1>3, SameArch
  <2> HIDE DEF n
  <2> QED
    BY <2>1, <2>2 DEF Shaped
<1>5. n.base_vaddr = u[q].start /\ n.flags = permissive_flags
  BY <1>3, SameArch DEF L1!base_of_entry
<1>6. \A j \in EntryIndex : n.entries[j] = L1!EmptyEntry
  BY <1>3, SameArch
<1> HIDE DEF e, n
<1>7. e = n
  BY <1>1, <1>2, <1>3, <1>4, <1>5, <1>6, SameShape
<1> QED
  BY <1>7 DEF e, n

LEMMA EmptyDir ==
  ASSUME NEW T, NEW mem, NEW t, Tree(T, mem, t), NEW p \in T
  PROVE  L1!empty(Dir(mem, t, p)) <=> Empty(mem, p)
<1>1. \A i \in EntryIndex : Dir(mem, t, p).entries[i].tag = "Empty" <=> ~mem[p][i].P
  <2>1. ASSUME NEW i \in EntryIndex PROVE Dir(mem, t, p).entries[i].tag = "Empty" <=> ~mem[p][i].P
    BY EntryOf
  <2> QED
    BY <2>1
<1> QED
  BY <1>1, SameArch DEF L1!empty, Empty


(* A step at p, from the root.                                             *)
LEMMA EditAt ==
  ASSUME NEW T, NEW mem, NEW t, NEW U, NEW m, NEW u, NEW addr, NEW p, Edit(T, mem, t, U, m, u, addr, p),
         NEW i, i = IndexAt(t, p, addr), NEW d, d = Dir(mem, t, p), NEW e, e = Dir(m, u, p)
  PROVE  /\ At(d, t[p].lev, i, addr, {d.entries[i].tag}) /\ e = L1!update(d, i, e.entries[i])
         /\ i \in EntryIndex /\ u[p] = t[p] /\ t[p].lev \in Layer
<1>1. /\ Tree(T, mem, t) /\ Tree(U, m, u) /\ addr \in Nat /\ AtAddr(T, t, p, addr)
      /\ p \in T /\ p \in U /\ t[p].lev \in Layer
  BY EditType
<1>2. u[p] = t[p]
  BY <1>1 DEF Edit
<1>3. At(d, t[p].lev, i, addr, {d.entries[i].tag})
  BY <1>1, DirAt
<1>4. t[p].lev <= t[p].lev
  BY <1>1 DEF Layer
<1>5. UpdatedAt(mem, t, m, u, p, addr)
  BY <1>1, <1>4, PathUpdated
<1> QED
  BY <1>1, <1>2, <1>3, <1>5 DEF UpdatedAt

(* map_frame links a new directory. *)
LEMMA InsertUp ==
  ASSUME NEW T, NEW mem, NEW t, NEW U, NEW m, NEW u, NEW addr, NEW p, Edit(T, mem, t, U, m, u, addr, p),
         NEW i, i = IndexAt(t, p, addr), NEW pte, GoesBelow(pte, t[p].lev),
         pte.frame.size # entry_size(t[p].lev),
         ~mem[p][i].P, links(t[p].lev, m[p][i]), NEW q, q = address(m[p][i]), Empty(m, q)
  PROVE  MapIn(0, Dir(m, u, cr3), addr, pte) = MapIn(0, Dir(mem, t, cr3), addr, pte)
<1> DEFINE d == Dir(mem, t, p)
           e == Dir(m, u, p)
           l == t[p].lev
<1>1. /\ At(d, l, i, addr, {d.entries[i].tag}) /\ e = L1!update(d, i, e.entries[i])
      /\ i \in EntryIndex /\ u[p] = t[p]
  BY EditAt
<1>2. Tree(T, mem, t) /\ Tree(U, m, u) /\ p \in T /\ p \in U
  BY EditType
<1>3. d.entries[i].tag = "Empty"
  BY <1>1, <1>2, EntryOf
<1>4. /\ e.entries[i] = L1!DirectoryEntry(Dir(m, u, q)) /\ q \in U
      /\ u[q].lev = l + 1 /\ u[q].start = entry_base(l, t[p].start, i) /\ l \in 0 .. 2
  BY <1>1, <1>2, EntryOf
<1>5. d.layer = l /\ d.base_vaddr = t[p].start
  BY <1>2, DirParts
<1> HIDE DEF d, e
<1>6. Dir(m, u, q) = L1!new_empty_dir(d, i)
  BY <1>1, <1>2, <1>4, <1>5, NewDir
<1>7. At(d, l, i, addr, {"Empty"})
  BY <1>1, <1>3
<1> HIDE DEF l
<1>8. pte.frame.size # entry_size(l)
  BY DEF l
<1>9. MapIn(l, L1!update(d, i, L1!DirectoryEntry(Dir(m, u, q))), addr, pte) = MapIn(l, d, addr, pte)
  BY <1>4, <1>6, <1>7, <1>8, MapIntoNew
<1>10. MapIn(t[p].lev, Dir(m, u, p), addr, pte) = MapIn(t[p].lev, Dir(mem, t, p), addr, pte)
  BY <1>1, <1>4, <1>9 DEF d, e, l
<1> QED
  BY <1>10, MapSameUp

(* map_frame writes the entry of the page. *)
LEMMA WriteUp ==
  ASSUME NEW T, NEW mem, NEW t, NEW U, NEW m, NEW u, NEW addr, NEW p, Edit(T, mem, t, U, m, u, addr, p),
         NEW i, i = IndexAt(t, p, addr), NEW pte, GoesBelow(pte, t[p].lev),
         pte.frame.size = entry_size(t[p].lev),
         ~mem[p][i].P, m[p][i].P, is_page(t[p].lev, m[p][i]), PteOf(t[p].lev, m[p][i]) = pte
  PROVE  MapIn(0, Dir(mem, t, cr3), addr, pte) = L0!Ok(Dir(m, u, cr3))
<1> DEFINE d == Dir(mem, t, p)
           e == Dir(m, u, p)
           l == t[p].lev
<1>1. /\ At(d, l, i, addr, {d.entries[i].tag}) /\ e = L1!update(d, i, e.entries[i])
      /\ i \in EntryIndex /\ u[p] = t[p] /\ l \in Layer
  BY EditAt
<1>2. Tree(T, mem, t) /\ Tree(U, m, u) /\ p \in T /\ p \in U
  BY EditType
<1>3. d.entries[i].tag = "Empty"
  BY <1>1, <1>2, EntryOf
<1>4. e.entries[i] = L1!PageEntry(pte)
  BY <1>1, <1>2, EntryOf
<1> HIDE DEF d, e
<1>5. At(d, l, i, addr, {"Empty"})
  BY <1>1, <1>3
<1> HIDE DEF l
<1>6. pte.frame.size = entry_size(l)
  BY DEF l
<1>7. MapIn(l, d, addr, pte) = L0!Ok(L1!update(d, i, L1!PageEntry(pte)))
  BY <1>1, <1>5, <1>6, MapHere
<1>8. MapIn(t[p].lev, Dir(mem, t, p), addr, pte) = L0!Ok(Dir(m, u, p))
  BY <1>1, <1>4, <1>7 DEF d, e, l
<1> QED
  BY <1>8, MapOkUp

(* No step at all. *)
LEMMA NoEdit ==
  ASSUME NEW T, NEW mem, NEW t, Tree(T, mem, t), NEW addr \in Nat, NEW p, AtAddr(T, t, p, addr)
  PROVE  Edit(T, mem, t, T, mem, t, addr, p)
BY DEF Edit, AtAddr

(* map_frame finds a page, or a directory where the page should go. *)
LEMMA ConflictUp ==
  ASSUME NEW T, NEW mem, NEW t, Tree(T, mem, t), NEW addr \in Nat, NEW p, AtAddr(T, t, p, addr),
         NEW i, i = IndexAt(t, p, addr), NEW pte, GoesBelow(pte, t[p].lev),
         mem[p][i].P, ~is_page(t[p].lev, mem[p][i]) => pte.frame.size = entry_size(t[p].lev)
  PROVE  MapIn(0, Dir(mem, t, cr3), addr, pte) = L0!Err(Dir(mem, t, cr3))
<1> DEFINE d == Dir(mem, t, p)
           l == t[p].lev
<1>1. Edit(T, mem, t, T, mem, t, addr, p)
  BY NoEdit
<1>2. At(d, l, i, addr, {d.entries[i].tag}) /\ i \in EntryIndex /\ l \in Layer /\ p \in T
  BY <1>1, EditAt DEF AtAddr
<1>3. /\ d.entries[i].tag \in {"Directory", "Page", "Empty"}
      /\ d.entries[i].tag # "Empty"
      /\ d.entries[i].tag = "Directory" => pte.frame.size = entry_size(l)
  BY <1>2, EntryOf DEF links, is_dir
<1> HIDE DEF d, l
<1>4. At(d, l, i, addr, {"Page", "Directory"})
  BY <1>2, <1>3 DEF At
<1>5. MapIn(l, d, addr, pte) = L0!Err(d)
  BY <1>2, <1>3, <1>4, MapConflict
<1>6. MapIn(t[p].lev, Dir(mem, t, p), addr, pte) = L0!Err(Dir(mem, t, p))
  BY <1>5 DEF d, l
<1> QED
  BY <1>1, <1>6, MapErrUp

(* unmap takes out the page. *)
LEMMA UnmapUp ==
  ASSUME NEW T, NEW mem, NEW t, NEW U, NEW m, NEW u, NEW addr, NEW p, Edit(T, mem, t, U, m, u, addr, p),
         NEW i, i = IndexAt(t, p, addr),
         mem[p][i].P, is_page(t[p].lev, mem[p][i]), aligned(addr, entry_size(t[p].lev)), ~m[p][i].P
  PROVE  UnmapIn(0, Dir(mem, t, cr3), addr) = RestIn(0, t[p].lev, Dir(m, u, cr3), addr)
<1> DEFINE d == Dir(mem, t, p)
           e == Dir(m, u, p)
           l == t[p].lev
<1>1. /\ At(d, l, i, addr, {d.entries[i].tag}) /\ e = L1!update(d, i, e.entries[i])
      /\ i \in EntryIndex /\ u[p] = t[p] /\ l \in Layer
  BY EditAt
<1>2. Tree(T, mem, t) /\ Tree(U, m, u) /\ p \in T /\ p \in U
  BY EditType
<1>3. d.entries[i].tag = "Page"
  BY <1>1, <1>2, EntryOf
<1>4. e.entries[i] = L1!EmptyEntry
  BY <1>1, <1>2, EntryOf
<1> HIDE DEF d, e
<1>5. At(d, l, i, addr, {"Page"})
  BY <1>1, <1>3
<1> HIDE DEF l
<1>6. aligned(addr, entry_size(l))
  BY DEF l
<1>7. UnmapIn(l, d, addr) = L0!Ok(L1!update(d, i, L1!EmptyEntry))
  BY <1>1, <1>5, <1>6, UnmapHere
<1>8. RestIn(l, l, e, addr) = L0!Ok(e)
  BY <1>1, RestInIs
<1>9. UnmapIn(t[p].lev, Dir(mem, t, p), addr) = RestIn(t[p].lev, l, Dir(m, u, p), addr)
  BY <1>1, <1>4, <1>7, <1>8 DEF d, e, l
<1>10. l = t[p].lev
  BY DEF l
<1>11. UnmapIn(0, Dir(mem, t, cr3), addr) = RestIn(0, l, Dir(m, u, cr3), addr)
  BY <1>1, <1>9, <1>10, UnmapOkUp
<1> QED
  BY <1>10, <1>11

(* unmap finds no page that begins at the address. *)
LEMMA NothingUp ==
  ASSUME NEW T, NEW mem, NEW t, Tree(T, mem, t), NEW addr \in Nat, NEW p, AtAddr(T, t, p, addr),
         NEW i, i = IndexAt(t, p, addr),
         ~mem[p][i].P \/ (is_page(t[p].lev, mem[p][i]) /\ ~aligned(addr, entry_size(t[p].lev)))
  PROVE  UnmapIn(0, Dir(mem, t, cr3), addr) = L0!Err(Dir(mem, t, cr3))
<1> DEFINE d == Dir(mem, t, p)
           l == t[p].lev
<1>1. Edit(T, mem, t, T, mem, t, addr, p)
  BY NoEdit
<1>2. At(d, l, i, addr, {d.entries[i].tag}) /\ i \in EntryIndex /\ l \in Layer /\ p \in T
  BY <1>1, EditAt DEF AtAddr
<1>3. /\ d.entries[i].tag \in {"Page", "Empty"}
      /\ d.entries[i].tag = "Page" => ~aligned(addr, entry_size(l))
  BY <1>2, EntryOf DEF links, is_dir
<1> HIDE DEF d, l
<1>4. At(d, l, i, addr, {"Page", "Empty"})
  BY <1>2, <1>3 DEF At
<1>5. UnmapIn(l, d, addr) = L0!Err(d)
  BY <1>2, <1>3, <1>4, UnmapNoneHere
<1>6. UnmapIn(t[p].lev, Dir(mem, t, p), addr) = L0!Err(Dir(mem, t, p))
  BY <1>5 DEF d, l
<1> QED
  BY <1>1, <1>6, UnmapErrUp

(* unmap unlinks an empty directory. *)
LEMMA UnlinkUp ==
  ASSUME NEW T, NEW mem, NEW t, NEW U, NEW m, NEW u, NEW addr, NEW p, Edit(T, mem, t, U, m, u, addr, p),
         NEW i, i = IndexAt(t, p, addr),
         links(t[p].lev, mem[p][i]), Empty(mem, address(mem[p][i])), ~m[p][i].P
  PROVE  RestIn(0, t[p].lev + 1, Dir(mem, t, cr3), addr) = RestIn(0, t[p].lev, Dir(m, u, cr3), addr)
<1> DEFINE d == Dir(mem, t, p)
           e == Dir(m, u, p)
           l == t[p].lev
           q == address(mem[p][i])
<1>1. /\ At(d, l, i, addr, {d.entries[i].tag}) /\ e = L1!update(d, i, e.entries[i])
      /\ i \in EntryIndex /\ u[p] = t[p] /\ l \in Layer
  BY EditAt
<1>2. Tree(T, mem, t) /\ Tree(U, m, u) /\ p \in T /\ p \in U
  BY EditType
<1>3. d.entries[i] = L1!DirectoryEntry(Dir(mem, t, q)) /\ q \in T /\ l \in 0 .. 2
  BY <1>1, <1>2, EntryOf
<1>4. e.entries[i] = L1!EmptyEntry
  BY <1>1, <1>2, EntryOf
<1>5. L1!empty(Dir(mem, t, q))
  BY <1>2, <1>3, EmptyDir
<1> HIDE DEF d, e, q
<1>6. Refers(d, l, i, addr, Dir(mem, t, q))
  BY <1>1, <1>3 DEF At, Refers
<1> HIDE DEF l
<1>7. RestIn(l, l + 1, d, addr) = L0!Ok(e)
  BY <1>1, <1>3, <1>4, <1>5, <1>6, RestHere
<1>8. RestIn(l, l, e, addr) = L0!Ok(e)
  BY <1>1, RestInIs
<1>9. l = t[p].lev /\ l + 1 \in Layer /\ l < l + 1
  BY <1>3 DEF l, Layer
<1>10. RestIn(t[p].lev, l + 1, Dir(mem, t, p), addr) = RestIn(t[p].lev, l, Dir(m, u, p), addr)
  BY <1>7, <1>8, <1>9 DEF d, e
<1>11. RestIn(0, l + 1, Dir(mem, t, cr3), addr) = RestIn(0, l, Dir(m, u, cr3), addr)
  BY <1>1, <1>9, <1>10, RestUp
<1> QED
  BY <1>9, <1>11

(* unmap returns from a directory that is not empty. *)
LEMMA KeepUp ==
  ASSUME NEW T, NEW mem, NEW t, Tree(T, mem, t), NEW addr \in Nat, NEW p, AtAddr(T, t, p, addr),
         NEW i, i = IndexAt(t, p, addr),
         links(t[p].lev, mem[p][i]), ~Empty(mem, address(mem[p][i]))
  PROVE  RestIn(0, t[p].lev + 1, Dir(mem, t, cr3), addr) = RestIn(0, t[p].lev, Dir(mem, t, cr3), addr)
<1> DEFINE d == Dir(mem, t, p)
           l == t[p].lev
           q == address(mem[p][i])
<1>1. Edit(T, mem, t, T, mem, t, addr, p)
  BY NoEdit
<1>2. At(d, l, i, addr, {d.entries[i].tag}) /\ i \in EntryIndex /\ l \in Layer /\ p \in T
  BY <1>1, EditAt DEF AtAddr
<1>3. d.entries[i] = L1!DirectoryEntry(Dir(mem, t, q)) /\ q \in T /\ l \in 0 .. 2
  BY <1>2, EntryOf
<1>4. ~L1!empty(Dir(mem, t, q))
  BY <1>3, EmptyDir
<1> HIDE DEF d, q
<1>5. Refers(d, l, i, addr, Dir(mem, t, q))
  BY <1>2, <1>3 DEF At, Refers
<1> HIDE DEF l
<1>6. RestIn(l, l + 1, d, addr) = L0!Ok(d) /\ RestIn(l, l, d, addr) = L0!Ok(d)
  BY <1>2, <1>3, <1>4, <1>5, RestHere, RestInIs
<1>7. l = t[p].lev /\ l + 1 \in Layer /\ l < l + 1
  BY <1>3 DEF l, Layer
<1>8. RestIn(t[p].lev, l + 1, Dir(mem, t, p), addr) = RestIn(t[p].lev, l, Dir(mem, t, p), addr)
  BY <1>6, <1>7 DEF d
<1>9. RestIn(0, l + 1, Dir(mem, t, cr3), addr) = RestIn(0, l, Dir(mem, t, cr3), addr)
  BY <1>1, <1>2, <1>7, <1>8, RestUp
<1> QED
  BY <1>7, <1>9

(* Pages outside of the tree change. *)
LEMMA SameRoot ==
  ASSUME NEW T, NEW mem, NEW t, Tree(T, mem, t), NEW m \in Memory, \A p \in T : m[p] = mem[p]
  PROVE  interp(m) = interp(mem)
<1>1. Tree(T, m, t)
  BY ChangeOutside
<1>2. T \subseteq T \cap T /\ Closed(T, mem, t) /\ SameIn(T, mem, t, m, t)
  <2>1. ASSUME NEW q \in T, NEW i \in EntryIndex, links(t[q].lev, mem[q][i])
        PROVE  address(mem[q][i]) \in T
    BY <2>1, LinkedChild DEF LinkFits
  <2> QED
    BY <2>1 DEF Closed, SameIn
<1>3. cr3 \in T
  BY DEF Tree
<1>4. Dir(m, t, cr3) = Dir(mem, t, cr3)
  BY <1>1, <1>2, <1>3, DirSame
<1> QED
  BY <1>1, <1>4, TreeRoot


-----------------------------------------------------------------------------
(* A call, from the tree it has begun with to the one it leaves behind.    *)

(* The directory that refers to the one on top. *)
LEMMA CallerAt ==
  ASSUME TreeInv, pc # "idle", NEW t, TreeFits(t), Len(stack) > 1
  PROVE  /\ Tree(InTree, region_view, t) /\ call.vaddr \in Nat
         /\ AtAddr(InTree, t, Caller.ptr, call.vaddr)
         /\ IndexAt(t, Caller.ptr, call.vaddr) = idx(layer - 1)
         /\ Caller.ptr \in InTree /\ Caller.ptr \in PageRegions /\ idx(layer - 1) \in EntryIndex
         /\ t[Caller.ptr].lev = layer - 1 /\ layer - 1 \in 0 .. 2 /\ layer \in 1 .. 3
<1>1. /\ layer \in Nat /\ layer >= 1 /\ layer <= 3 /\ Len(stack) = layer + 1 /\ Len(stack) \in Nat
      /\ Caller = stack[Len(stack) - 1] /\ Caller.ptr \in InTree /\ Caller.ptr \in PageRegions
      /\ t[Caller.ptr].lev = layer - 1 /\ t[Caller.ptr].start = Caller.base
      /\ idx(layer - 1) \in EntryIndex
  BY CallerFits
<1>2. layer \in 1 .. Len(stack) /\ Len(stack) - 1 = layer
  BY <1>1
<1>3. /\ Covers(layer - 1, stack[layer].base, call.vaddr)
      /\ idx(layer - 1) = index_for_vaddr(layer - 1, stack[layer].base, call.vaddr)
  BY <1>2, ActivationAt
<1>4. Tree(InTree, region_view, t) /\ call.vaddr \in Nat
  BY CallVaddr DEF TreeFits
<1>5. Caller = stack[layer]
  BY <1>1, <1>2
<1>6. AtAddr(InTree, t, Caller.ptr, call.vaddr) /\ IndexAt(t, Caller.ptr, call.vaddr) = idx(layer - 1)
  BY <1>1, <1>3, <1>5 DEF AtAddr, IndexAt
<1>7. layer - 1 \in 0 .. 2 /\ layer \in 1 .. 3
  BY <1>1
<1> QED
  BY <1>1, <1>4, <1>6, <1>7

LEMMA BelowLayer ==
  ASSUME TreeInv, pc \in {"map", "insert"}
  PROVE  GoesBelow(call.pte, layer)
<1>1. PICK l \in 1 .. 3 : entry_size(l) = call.pte.frame.size /\ layer <= l
  BY DEF TreeInv, EnoughPages
<1>2. layer \in Int
  BY LayerType DEF TreeInv, TypeOK, StackIsSequence
<1>3. ASSUME NEW k \in Layer, k < layer PROVE entry_size(l) # entry_size(k)
  <2>1. k < l /\ k \in 0 .. 2
    BY <1>1, <1>2, <1>3 DEF Layer
  <2>2. \A j \in Layer : entry_size(j) \in Nat
    BY Sizes
  <2>3. entry_size(0) \in Nat /\ entry_size(1) \in Nat /\ entry_size(2) \in Nat /\ entry_size(3) \in Nat
    BY <2>2 DEF Layer
  <2>4. CASE l = 1
    BY <2>1, <2>3, <2>4, SizesDecrease
  <2>5. CASE l = 2
    BY <2>1, <2>3, <2>5, SizesDecrease
  <2>6. CASE l = 3
    BY <2>1, <2>3, <2>6, SizesDecrease
  <2> QED
    BY <2>4, <2>5, <2>6
<1> QED
  BY <1>1, <1>3 DEF GoesBelow

(* The tree of the memory is recorded in every step. *)
Recorded == dir' = interp(region_view')

LEMMA SameMemory ==
  ASSUME HTree, Recorded, region_view' = region_view
  PROVE  dir' = dir
BY DEF HTree, Recorded

LEMMA DirIsRoot ==
  ASSUME HTree, NEW t, Tree(InTree, region_view, t)
  PROVE  dir = Dir(region_view, t, cr3)
BY TreeRoot DEF HTree

(* What map_frame does at the top of the stack. *)
LEMMA AllocKeepsDir ==
  ASSUME HTree, Recorded, insert_empty_directory_alloc
  PROVE  dir' = dir
<1>1. PICK page \in Page \ regions : region_view' = [region_view EXCEPT ![page] = new_seq(zero_entry)]
  BY DEF insert_empty_directory_alloc, alloc_page
<1>2. pc = "map"
  BY DEF insert_empty_directory_alloc
<1>3. PICK t : TreeFits(t)
  BY DEF HTree, TreeInv
<1>4. Tree(regions, region_view, t)
  BY <1>2, <1>3 DEF TreeFits, InTree, AtUnlinked
<1>5. new_seq(zero_entry) \in [EntryIndex -> Word]
  BY DEF new_seq, zero_entry, Word
<1>6. region_view' \in Memory /\ \A q \in regions : region_view'[q] = region_view[q]
  BY <1>1, <1>5, MemoryType DEF Memory, HTree
<1>7. interp(region_view') = interp(region_view)
  BY <1>4, <1>6, SameRoot
<1> QED
  BY <1>7 DEF HTree, Recorded

LEMMA DeallocKeepsDir ==
  ASSUME HTree, Recorded, UnmapDealloc
  PROVE  dir' = dir
<1> DEFINE d == Top.ptr
           T == regions \ {d}
<1>1. pc = "dealloc" /\ region_view' = [region_view EXCEPT ![d] = new_seq(junk(d))]
  BY DEF UnmapDealloc, dealloc_page
<1>2. AtUnlinked /\ InTree = T
  BY <1>1 DEF AtUnlinked, InTree
<1>3. PICK t : TreeFits(t)
  BY DEF HTree, TreeInv
<1>4. Tree(T, region_view, t)
  BY <1>2, <1>3 DEF TreeFits
<1>5. d \in regions
  BY <1>2 DEF HTree, TreeInv, UnlinkedFits
<1> HIDE DEF d
<1>6. d \in PageRegions /\ PageRegions \subseteq Nat
  BY <1>5, MemoryType, MemoryAssumption DEF PageRegions, HTree
<1>7. new_seq(junk(d)) \in [EntryIndex -> Word]
  BY <1>6 DEF new_seq, junk, Word
<1>8. region_view' \in Memory /\ \A q \in T : region_view'[q] = region_view[q]
  BY <1>1, <1>6, <1>7, MemoryType DEF Memory, HTree
<1> HIDE DEF T
<1>9. interp(region_view') = interp(region_view)
  BY <1>4, <1>8, SameRoot
<1> QED
  BY <1>9 DEF HTree, Recorded

LEMMA InsertKeepsMap ==
  ASSUME HTree, Recorded, insert_empty_directory_write
  PROVE  /\ MapIn(0, dir', call.vaddr, call.pte) = MapIn(0, dir, call.vaddr, call.pte)
         /\ Empty(region_view', Top.ptr)
<1> DEFINE p == Caller.ptr
           d == Top.ptr
           i == idx(layer - 1)
           w == new_dir_entry(layer - 1, d)
           T == regions \ {d}
<1>0. TreeInv
  BY DEF HTree
<1>1. pc = "insert" /\ region_view' = [region_view EXCEPT ![p][i] = w]
  BY DEF insert_empty_directory_write, write
<1>2. AtUnlinked /\ pc # "idle" /\ InTree = T
  BY <1>1 DEF AtUnlinked, InTree
<1>3. PICK t : TreeFits(t)
  BY <1>0 DEF TreeInv
<1>4. Len(stack) > 1 /\ d \in regions \ {cr3} /\ Empty(region_view, d) /\ ~region_view[p][i].P
  BY <1>0, <1>1, <1>2 DEF TreeInv, UnlinkedFits
<1>5. /\ Tree(InTree, region_view, t) /\ call.vaddr \in Nat
      /\ AtAddr(InTree, t, p, call.vaddr) /\ IndexAt(t, p, call.vaddr) = i
      /\ p \in InTree /\ p \in PageRegions /\ i \in EntryIndex
      /\ t[p].lev = layer - 1 /\ layer - 1 \in 0 .. 2 /\ layer \in 1 .. 3
  BY <1>0, <1>2, <1>3, <1>4, CallerAt
<1>6. /\ w \in Word /\ w.P /\ is_dir(t[p].lev, w) /\ all_mb0_bits_are_zero(t[p].lev, w)
      /\ w.RW /\ w.US /\ ~w.XD /\ address(w) = d
  <2>1. d \in PageRegions
    BY <1>0, <1>4, MemoryType
  <2> QED
    BY <1>5, <2>1, DirEntryFits
<1>7. d \in PageRegions \ T
  BY <1>0, <1>4, MemoryType
<1>8. GoesBelow(call.pte, layer)
  BY <1>0, <1>1, BelowLayer
<1>9. GoesBelow(call.pte, t[p].lev) /\ call.pte.frame.size # entry_size(t[p].lev)
  BY <1>5, <1>8 DEF GoesBelow, Layer
<1> DEFINE u == [t EXCEPT ![d] = Child(t, p, i)]
           U == T \cup {d}
<1> HIDE DEF w, d, p, i
<1>10. p # d /\ t \in [PageRegions -> Node] /\ T \subseteq PageRegions
  BY <1>2, <1>5, <1>7 DEF Tree
<1>11. Tree(U, region_view', u)
  <2>1. t[p].lev < 3 /\ Tree(T, region_view, t) /\ p \in T
    BY <1>2, <1>5
  <2> HIDE DEF T
  <2> QED
    BY <1>1, <1>4, <1>5, <1>6, <1>7, <2>1, AddChild
<1>12. Changed(region_view, region_view', p, i, w)
  BY <1>0, <1>1, <1>5, <1>6, WriteChanges
<1>13. \A q \in T \cap U : u[q] = t[q]
  BY <1>10
<1>14. \A q \in T \cap U : \A j \in EntryIndex :
         ~(q = p /\ j = IndexAt(t, p, call.vaddr)) => region_view'[q][j] = region_view[q][j]
  BY <1>5, <1>10, <1>12 DEF Changed
<1>15. Edit(T, region_view, t, U, region_view', u, call.vaddr, p)
  BY <1>2, <1>5, <1>11, <1>13, <1>14 DEF Edit
<1>16. region_view'[p][i] = w /\ Empty(region_view', d)
  BY <1>4, <1>5, <1>7, <1>10, <1>12 DEF Changed, Empty
<1>17. links(t[p].lev, region_view'[p][i]) /\ d = address(region_view'[p][i])
  BY <1>6, <1>16 DEF links
<1>18. dir = Dir(region_view, t, cr3) /\ dir' = Dir(region_view', u, cr3)
  <2>1. dir = Dir(region_view, t, cr3)
    BY <1>5, DirIsRoot
  <2> HIDE DEF u, U
  <2> QED
    BY <1>11, <2>1, TreeRoot DEF Recorded
<1> HIDE DEF u, U, T
<1>19. MapIn(0, Dir(region_view', u, cr3), call.vaddr, call.pte)
         = MapIn(0, Dir(region_view, t, cr3), call.vaddr, call.pte)
  BY <1>4, <1>5, <1>9, <1>15, <1>16, <1>17, InsertUp
<1> QED
  BY <1>16, <1>18, <1>19 DEF d

LEMMA WriteEndsMap ==
  ASSUME HTree, Recorded, MapWritePage
  PROVE  MapIn(0, dir, call.vaddr, call.pte) = L0!Ok(dir')
<1> DEFINE p == Top.ptr
           i == idx(layer)
           w == new_page_entry(layer, call.pte)
           T == regions
           a == call.vaddr
<1>0. TreeInv
  BY DEF HTree
<1>1. /\ pc = "map" /\ ~is_mapping(entry) /\ AtPageSize
      /\ region_view' = [region_view EXCEPT ![p][i] = w]
  BY DEF MapWritePage, write
<1>2. ~AtUnlinked /\ pc # "idle" /\ InTree = regions
  BY <1>1 DEF AtUnlinked, InTree
<1>3. PICK t : TreeFits(t)
  BY <1>0 DEF TreeInv
<1>4. /\ Tree(T, region_view, t) /\ a \in Nat
      /\ AtAddr(T, t, p, a) /\ IndexAt(t, p, a) = i
      /\ p \in T /\ t[p].lev = layer /\ i \in EntryIndex /\ entry = region_view[p][i]
  BY <1>0, <1>2, <1>3, TopAt
<1>5. layer \in 1 .. 3 /\ call.pte.frame.size = entry_size(layer)
  BY <1>0, <1>1, PageSizeLayer
<1>6. call.pte \in PTE /\ accepted_mapping(call.vaddr, call.pte)
  BY <1>0, <1>1 DEF TreeInv, CallFits, MapCall
<1>7. call.pte.frame.base <= MAX_PHYADDR /\ aligned(call.pte.frame.base, call.pte.frame.size)
  BY <1>6 DEF accepted_mapping
<1>8. w \in Word /\ w.P /\ is_page(layer, w) /\ LeafFits(layer, w) /\ PteOf(layer, w) = call.pte
  BY <1>5, <1>6, <1>7, PageEntryFits, PteOfNewEntry
<1>10. ~region_view[p][i].P
  BY <1>1, <1>4 DEF is_mapping
<1>11. GoesBelow(call.pte, t[p].lev)
  BY <1>0, <1>1, <1>4, BelowLayer
<1>12. dir = Dir(region_view, t, cr3)
  BY <1>2, <1>4, DirIsRoot
<1> HIDE DEF p, i, w, T, a
<1>13. ~links(t[p].lev, region_view[p][i]) /\ ~links(t[p].lev, w)
  BY <1>4, <1>8, <1>10 DEF links, is_dir
<1>14. Tree(T, region_view', t)
  BY <1>1, <1>4, <1>8, <1>13, WriteLeaf
<1>15. Changed(region_view, region_view', p, i, w)
  BY <1>0, <1>1, <1>4, <1>8, TreeType, WriteChanges
<1>16. \A q \in T \cap T : \A j \in EntryIndex : ~(q = p /\ j = IndexAt(t, p, a)) => region_view'[q][j] = region_view[q][j]
  BY <1>4, <1>15 DEF Changed, Tree
<1>17. Edit(T, region_view, t, T, region_view', t, a, p)
  BY <1>4, <1>14, <1>16 DEF Edit
<1>18. region_view'[p][i] = w
  BY <1>4, <1>15, TreeType DEF Changed
<1>19. MapIn(0, Dir(region_view, t, cr3), a, call.pte) = L0!Ok(Dir(region_view', t, cr3))
  BY <1>4, <1>5, <1>8, <1>10, <1>11, <1>17, <1>18, WriteUp
<1>20. dir' = Dir(region_view', t, cr3)
  BY <1>14, TreeRoot DEF Recorded
<1> QED
  BY <1>12, <1>19, <1>20 DEF a

LEMMA ConflictEndsMap ==
  ASSUME HTree, MapDirectorySameSize \/ MapPagePresent
  PROVE  /\ MapIn(0, dir, call.vaddr, call.pte) = L0!Err(dir)
         /\ ~Empty(region_view, Top.ptr)
<1> DEFINE p == Top.ptr
           i == idx(layer)
           T == regions
           a == call.vaddr
<1>0. TreeInv
  BY DEF HTree
<1>1. pc = "map" /\ is_mapping(entry) /\ ~is_page(layer, entry) => call.pte.frame.size = entry_size(layer)
  BY DEF MapDirectorySameSize, MapPagePresent, is_dir, AtPageSize
<1>2. pc = "map" /\ is_mapping(entry)
  BY DEF MapDirectorySameSize, MapPagePresent
<1>3. ~AtUnlinked /\ pc # "idle" /\ InTree = regions
  BY <1>2 DEF AtUnlinked, InTree
<1>4. PICK t : TreeFits(t)
  BY <1>0 DEF TreeInv
<1>5. /\ Tree(T, region_view, t) /\ a \in Nat
      /\ AtAddr(T, t, p, a) /\ IndexAt(t, p, a) = i
      /\ p \in T /\ t[p].lev = layer /\ i \in EntryIndex /\ entry = region_view[p][i]
  BY <1>0, <1>3, <1>4, TopAt
<1>6. GoesBelow(call.pte, t[p].lev)
  BY <1>0, <1>2, <1>5, BelowLayer
<1>7. dir = Dir(region_view, t, cr3)
  BY <1>3, <1>5, DirIsRoot
<1>8. region_view[p][i].P /\ (~is_page(t[p].lev, region_view[p][i]) => call.pte.frame.size = entry_size(t[p].lev))
  BY <1>1, <1>2, <1>5 DEF is_mapping
<1> HIDE DEF p, i, T, a
<1>9. MapIn(0, Dir(region_view, t, cr3), a, call.pte) = L0!Err(Dir(region_view, t, cr3))
  BY <1>5, <1>6, <1>8, ConflictUp
<1>10. ~Empty(region_view, p)
  BY <1>5, <1>8 DEF Empty
<1> QED
  BY <1>7, <1>9, <1>10 DEF p, a


(* What unmap does at the top of the stack, and on its way back. *)
LEMMA PageEndsUnmap ==
  ASSUME HTree, Recorded, UnmapPage
  PROVE  UnmapIn(0, dir, call.vaddr) = RestIn(0, layer, dir', call.vaddr)
<1> DEFINE p == Top.ptr
           i == idx(layer)
           w == zero_entry
           T == regions
           a == call.vaddr
<1>0. TreeInv
  BY DEF HTree
<1>1. /\ pc = "unmap" /\ is_mapping(entry) /\ is_page(layer, entry) /\ aligned(a, entry_size(layer))
      /\ region_view' = [region_view EXCEPT ![p][i] = w]
  BY DEF UnmapPage, write
<1>2. ~AtUnlinked /\ pc # "idle" /\ InTree = regions
  BY <1>1 DEF AtUnlinked, InTree
<1>3. PICK t : TreeFits(t)
  BY <1>0 DEF TreeInv
<1>4. /\ Tree(T, region_view, t) /\ a \in Nat
      /\ AtAddr(T, t, p, a) /\ IndexAt(t, p, a) = i
      /\ p \in T /\ t[p].lev = layer /\ i \in EntryIndex /\ entry = region_view[p][i]
  BY <1>0, <1>2, <1>3, TopAt
<1>5. region_view[p][i].P /\ is_page(t[p].lev, region_view[p][i]) /\ aligned(a, entry_size(t[p].lev))
  BY <1>1, <1>4 DEF is_mapping
<1>6. dir = Dir(region_view, t, cr3)
  BY <1>2, <1>4, DirIsRoot
<1>7. w \in Word /\ ~w.P
  BY DEF zero_entry, Word
<1> HIDE DEF p, i, w, T, a
<1>8. ~links(t[p].lev, region_view[p][i]) /\ ~links(t[p].lev, w) /\ LeafFits(t[p].lev, w)
  BY <1>5, <1>7 DEF links, is_dir, LeafFits
<1>9. Tree(T, region_view', t)
  BY <1>1, <1>4, <1>7, <1>8, WriteLeaf
<1>10. Changed(region_view, region_view', p, i, w)
  BY <1>0, <1>1, <1>4, <1>7, TreeType, WriteChanges
<1>11. \A q \in T \cap T : \A j \in EntryIndex : ~(q = p /\ j = IndexAt(t, p, a)) => region_view'[q][j] = region_view[q][j]
  BY <1>4, <1>10 DEF Changed, Tree
<1>12. Edit(T, region_view, t, T, region_view', t, a, p)
  BY <1>4, <1>9, <1>11 DEF Edit
<1>13. region_view'[p][i] = w
  BY <1>4, <1>10, TreeType DEF Changed
<1>14. UnmapIn(0, Dir(region_view, t, cr3), a) = RestIn(0, t[p].lev, Dir(region_view', t, cr3), a)
  BY <1>4, <1>5, <1>7, <1>12, <1>13, UnmapUp
<1>15. dir' = Dir(region_view', t, cr3)
  BY <1>9, TreeRoot DEF Recorded
<1> QED
  BY <1>4, <1>6, <1>14, <1>15 DEF a

LEMMA NothingEndsUnmap ==
  ASSUME HTree, UnmapNothing
  PROVE  UnmapIn(0, dir, call.vaddr) = L0!Err(dir)
<1> DEFINE p == Top.ptr
           i == idx(layer)
           T == regions
           a == call.vaddr
<1>0. TreeInv
  BY DEF HTree
<1>1. pc = "unmap" /\ (~is_mapping(entry) \/ (is_page(layer, entry) /\ ~aligned(a, entry_size(layer))))
  BY DEF UnmapNothing
<1>2. ~AtUnlinked /\ pc # "idle" /\ InTree = regions
  BY <1>1 DEF AtUnlinked, InTree
<1>3. PICK t : TreeFits(t)
  BY <1>0 DEF TreeInv
<1>4. /\ Tree(T, region_view, t) /\ a \in Nat
      /\ AtAddr(T, t, p, a) /\ IndexAt(t, p, a) = i
      /\ p \in T /\ t[p].lev = layer /\ i \in EntryIndex /\ entry = region_view[p][i]
  BY <1>0, <1>2, <1>3, TopAt
<1>5. \/ ~region_view[p][i].P
      \/ is_page(t[p].lev, region_view[p][i]) /\ ~aligned(a, entry_size(t[p].lev))
  BY <1>1, <1>4 DEF is_mapping
<1>6. dir = Dir(region_view, t, cr3)
  BY <1>2, <1>4, DirIsRoot
<1> HIDE DEF p, i, T, a
<1>7. UnmapIn(0, Dir(region_view, t, cr3), a) = L0!Err(Dir(region_view, t, cr3))
  BY <1>4, <1>5, NothingUp
<1> QED
  BY <1>6, <1>7 DEF a

(* The directory on top of the stack and the entry that refers to it. *)
LEMMA TopLinked ==
  ASSUME HTree, Returning("Ok"), layer > 0, NEW t, TreeFits(t)
  PROVE  LET p == Caller.ptr
             i == idx(layer - 1)
         IN  /\ Tree(regions, region_view, t) /\ call.vaddr \in Nat
             /\ AtAddr(regions, t, p, call.vaddr) /\ IndexAt(t, p, call.vaddr) = i
             /\ p \in regions /\ p \in PageRegions /\ i \in EntryIndex
             /\ t[p].lev = layer - 1 /\ layer \in 1 .. 3
             /\ links(t[p].lev, region_view[p][i]) /\ address(region_view[p][i]) = Top.ptr
             /\ Top.ptr \in regions \ {cr3} /\ t[Top.ptr].par = p /\ t[Top.ptr].slot = i
             /\ dir = Dir(region_view, t, cr3)
<1> DEFINE p == Caller.ptr
           i == idx(layer - 1)
<1>0. TreeInv
  BY DEF HTree
<1>1. pc # "idle" /\ ~AtUnlinked /\ InTree = regions
  BY DEF Returning, AtUnlinked, InTree
<1>2. Len(stack) > 1
  <2>1. Len(stack) = layer + 1 /\ layer \in Nat
    BY <1>0, <1>1, TopFits
  <2> QED
    BY <2>1
<1>3. /\ Tree(regions, region_view, t) /\ call.vaddr \in Nat
      /\ AtAddr(regions, t, p, call.vaddr) /\ IndexAt(t, p, call.vaddr) = i
      /\ p \in regions /\ p \in PageRegions /\ i \in EntryIndex
      /\ t[p].lev = layer - 1 /\ layer \in 1 .. 3
  BY <1>0, <1>1, <1>2, CallerAt
<1>4. Top.ptr \in regions \ {cr3} /\ t[Top.ptr].par = p /\ t[Top.ptr].slot = i
  BY <1>0, <1>1, <1>2, CallerFits
<1>5. dir = Dir(region_view, t, cr3)
  BY <1>1, <1>3, DirIsRoot
<1> HIDE DEF p, i
<1>6. links(t[p].lev, region_view[p][i]) /\ address(region_view[p][i]) = Top.ptr
  BY <1>3, <1>4, ChildOfParent
<1> QED
  BY <1>3, <1>4, <1>5, <1>6 DEF p, i

LEMMA UnlinkReturns ==
  ASSUME HTree, Recorded, UnmapUnlink
  PROVE  RestIn(0, layer, dir, call.vaddr) = RestIn(0, layer - 1, dir', call.vaddr)
<1> DEFINE p == Caller.ptr
           d == Top.ptr
           i == idx(layer - 1)
           w == zero_entry
           T == regions
           U == regions \ {d}
           a == call.vaddr
<1>0. TreeInv
  BY DEF HTree
<1>1. /\ Returning("Ok") /\ layer > 0 /\ is_directory_empty(d)
      /\ region_view' = [region_view EXCEPT ![p][i] = w]
  BY DEF UnmapUnlink, write
<1>2. PICK t : TreeFits(t)
  BY <1>0 DEF TreeInv
<1>3. /\ Tree(T, region_view, t) /\ a \in Nat
      /\ AtAddr(T, t, p, a) /\ IndexAt(t, p, a) = i
      /\ p \in T /\ p \in PageRegions /\ i \in EntryIndex
      /\ t[p].lev = layer - 1 /\ layer \in 1 .. 3
      /\ links(t[p].lev, region_view[p][i]) /\ address(region_view[p][i]) = d
      /\ d \in T \ {cr3} /\ t[d].par = p /\ t[d].slot = i
      /\ dir = Dir(region_view, t, cr3)
  BY <1>1, <1>2, TopLinked
<1>4. Empty(region_view, d)
  BY <1>1 DEF is_directory_empty, Empty, is_mapping, spec_read
<1>5. w \in Word /\ ~w.P
  BY DEF zero_entry, Word
<1>6. layer = t[p].lev + 1 /\ layer - 1 = t[p].lev
  BY <1>3
<1> HIDE DEF d, p, i, T, a
<1>7. p # d
  <2>1. t[d] = Child(t, p, i)
    BY <1>3, ChildOfParent
  <2>2. t[d].lev = t[p].lev + 1 /\ t[p].lev \in Layer
    BY <1>3, <2>1, TreeType DEF Child
  <2> QED
    BY <2>2 DEF Layer
<1>8. Tree(T \ {d}, region_view', t)
  BY <1>1, <1>3, <1>4, RemoveChild
<1> HIDE DEF w
<1>9. Changed(region_view, region_view', p, i, w)
  BY <1>0, <1>1, <1>3, <1>5, WriteChanges
<1>10. U = T \ {d} /\ T \subseteq PageRegions
  BY <1>3 DEF T, Tree
<1> HIDE DEF U
<1>11. \A q \in T \cap U : \A j \in EntryIndex :
         ~(q = p /\ j = IndexAt(t, p, a)) => region_view'[q][j] = region_view[q][j]
  BY <1>3, <1>9, <1>10 DEF Changed
<1>12. Edit(T, region_view, t, U, region_view', t, a, p)
  BY <1>3, <1>7, <1>8, <1>10, <1>11 DEF Edit
<1>13. region_view'[p][i] = w
  BY <1>3, <1>9 DEF Changed
<1>14. RestIn(0, t[p].lev + 1, Dir(region_view, t, cr3), a) = RestIn(0, t[p].lev, Dir(region_view', t, cr3), a)
  BY <1>3, <1>4, <1>5, <1>12, <1>13, UnlinkUp
<1>15. dir' = Dir(region_view', t, cr3)
  BY <1>8, TreeRoot DEF Recorded
<1> QED
  BY <1>3, <1>6, <1>14, <1>15 DEF a

LEMMA KeepReturns ==
  ASSUME HTree, UnmapKeepDirectory
  PROVE  RestIn(0, layer, dir, call.vaddr) = RestIn(0, layer - 1, dir, call.vaddr)
<1> DEFINE p == Caller.ptr
           d == Top.ptr
           i == idx(layer - 1)
           T == regions
           a == call.vaddr
<1>1. Returning("Ok") /\ layer > 0 /\ ~is_directory_empty(d)
  BY DEF UnmapKeepDirectory
<1>2. PICK t : TreeFits(t)
  BY DEF HTree, TreeInv
<1>3. /\ Tree(T, region_view, t) /\ a \in Nat
      /\ AtAddr(T, t, p, a) /\ IndexAt(t, p, a) = i
      /\ t[p].lev = layer - 1 /\ layer \in 1 .. 3
      /\ links(t[p].lev, region_view[p][i]) /\ address(region_view[p][i]) = d
      /\ dir = Dir(region_view, t, cr3)
  BY <1>1, <1>2, TopLinked
<1>4. ~Empty(region_view, d)
  BY <1>1 DEF is_directory_empty, Empty, is_mapping, spec_read
<1>5. layer = t[p].lev + 1 /\ layer - 1 = t[p].lev
  BY <1>3
<1> HIDE DEF d, p, i, T, a
<1>6. RestIn(0, t[p].lev + 1, Dir(region_view, t, cr3), a) = RestIn(0, t[p].lev, Dir(region_view, t, cr3), a)
  BY <1>3, <1>4, KeepUp
<1> QED
  BY <1>3, <1>5, <1>6 DEF a

(* What is left of a call has the same result and leaves the same tree     *)
(* behind as the whole call has in layer 1, and it is known whether the    *)
(* call has written.                                                       *)
Before == old.dir

MapOfCall(d) == MapIn(0, d, call.vaddr, call.pte)

CallIsMap == pc \in {"map", "insert"} => MapOfCall(Before) = MapOfCall(dir)

WroteIsNew == pc = "map" /\ old.written => Empty(region_view, Top.ptr)

CallIsNew == pc \in {"idle", "unmap"} => Before = dir /\ ~old.written

UnmapFailed ==
  pc = "unmap_return" /\ ret = "Err" => UnmapIn(0, Before, call.vaddr) = L0!Err(dir) /\ ~old.written

UnmapSucceeded ==
  /\ pc = "unmap_return" /\ ret = "Ok" =>
       UnmapIn(0, Before, call.vaddr) = RestIn(0, layer, dir, call.vaddr)
  /\ pc = "dealloc" =>
       UnmapIn(0, Before, call.vaddr) = RestIn(0, layer - 1, dir, call.vaddr)

OldFits ==
  /\ old = [dir |-> old.dir, written |-> old.written]
  /\ CallIsMap /\ WroteIsNew /\ CallIsNew /\ UnmapFailed /\ UnmapSucceeded

HInv == HTree /\ OldFits

(* What happens to the history. *)
Continues ==
  /\ old' = [dir |-> old'.dir, written |-> old'.written]
  /\ Before' = Before /\ (old'.written <=> old.written \/ memvars' # memvars)

LEMMA OldContinues ==
  ASSUME OldFits, HNext, pc # "idle", pc' # "idle"
  PROVE  Continues
<1>1. old' = [old EXCEPT !.written = old.written \/ memvars' # memvars]
  BY DEF HNext
<1>2. old = [dir |-> old.dir, written |-> old.written]
  BY DEF OldFits
<1>3. old' = [dir |-> old.dir, written |-> old.written \/ memvars' # memvars]
  BY <1>1, <1>2
<1>4. old'.dir = old.dir /\ (old'.written <=> old.written \/ memvars' # memvars)
  BY <1>3
<1>5. old' = [dir |-> old'.dir, written |-> old'.written]
  BY <1>3
<1> QED
  BY <1>4, <1>5 DEF Continues, Before

LEMMA OldStarts ==
  ASSUME HNext, pc = "idle" \/ pc' = "idle"
  PROVE  old' = [dir |-> old'.dir, written |-> old'.written] /\ old'.dir = dir' /\ ~old'.written
<1>1. old' = [dir |-> dir', written |-> FALSE]
  BY DEF HNext
<1> QED
  BY <1>1


LEMMA HInvInit == HInit => HInv
<1> SUFFICES ASSUME HInit PROVE HInv
  OBVIOUS
<1>1. HTree
  BY HTreeInit
<1>2. pc = "idle" /\ old = [dir |-> dir, written |-> FALSE]
  BY DEF HInit, MInit, Init
<1> QED
  BY <1>1, <1>2 DEF HInv, OldFits, CallIsMap, WroteIsNew, CallIsNew, UnmapFailed, UnmapSucceeded, Before

(* A call that begins or ends. *)
LEMMA HInvIdle ==
  ASSUME HTree', HNext, pc = "idle" \/ pc' = "idle",
         pc' \in {"idle", "unmap"} \/ (pc' = "map"),
         pc' # "idle" => region_view' = region_view
  PROVE  OldFits'
<1>1. /\ old' = [dir |-> old'.dir, written |-> old'.written]
      /\ old'.dir = dir' /\ ~old'.written
  BY OldStarts
<1>2. CallIsMap'
  BY <1>1 DEF CallIsMap, MapOfCall, Before
<1>3. WroteIsNew' /\ CallIsNew'
  BY <1>1 DEF WroteIsNew, CallIsNew, Before
<1>4. UnmapFailed' /\ UnmapSucceeded'
  BY DEF UnmapFailed, UnmapSucceeded
<1> QED
  BY <1>1, <1>2, <1>3, <1>4 DEF OldFits

LEMMA HInvStart ==
  ASSUME HTree', HNext, NEW args, NEW at \in {"map", "unmap"}, Start(args, at)
  PROVE  OldFits'
<1>1. pc = "idle" /\ pc' = at /\ region_view' = region_view
  BY DEF Start, memvars
<1> QED
  BY <1>1, HInvIdle

LEMMA HInvFinish ==
  ASSUME HTree', HNext, NEW res, Finish(res)
  PROVE  OldFits'
<1>1. pc' = "idle"
  BY DEF Finish
<1> QED
  BY <1>1, HInvIdle

LEMMA HInvMapDescend ==
  ASSUME HInv, HNext, Recorded, MapDescend
  PROVE  OldFits'
<1>1. /\ pc = "map" /\ pc' = "map" /\ call' = call /\ is_mapping(entry)
      /\ region_view' = region_view /\ regions' = regions
  BY DEF MapDescend
<1>2. dir' = dir
  BY <1>1, SameMemory DEF HInv
<1>3. Continues
  BY <1>1, OldContinues DEF HInv
<1>4. memvars' = memvars
  BY <1>1 DEF memvars
<1>5. ~old.written
  <2>1. TreeInv /\ ~AtUnlinked
    BY <1>1 DEF HInv, HTree, AtUnlinked
  <2>2. PICK t : TreeFits(t)
    BY <2>1 DEF TreeInv
  <2>3. entry = region_view[Top.ptr][idx(layer)] /\ idx(layer) \in EntryIndex
    BY <1>1, <2>1, <2>2, TopAt
  <2>4. ~Empty(region_view, Top.ptr)
    BY <1>1, <2>3 DEF Empty, is_mapping
  <2> QED
    BY <1>1, <2>4 DEF HInv, OldFits, WroteIsNew
<1>6. ~old'.written /\ Before' = Before
  BY <1>3, <1>4, <1>5 DEF Continues
<1>7. CallIsMap'
  <2>1. MapOfCall(Before) = MapOfCall(dir)
    BY <1>1 DEF HInv, OldFits, CallIsMap
  <2> QED
    BY <1>1, <1>2, <1>6, <2>1 DEF CallIsMap, MapOfCall
<1>8. WroteIsNew' /\ CallIsNew' /\ UnmapFailed' /\ UnmapSucceeded'
  BY <1>1, <1>6 DEF WroteIsNew, CallIsNew, UnmapFailed, UnmapSucceeded
<1> QED
  BY <1>3, <1>7, <1>8 DEF OldFits, Continues

LEMMA HInvAlloc ==
  ASSUME HInv, HNext, Recorded, insert_empty_directory_alloc
  PROVE  OldFits'
<1>1. pc = "map" /\ pc' = "insert" /\ call' = call
  BY DEF insert_empty_directory_alloc
<1>2. dir' = dir
  BY AllocKeepsDir DEF HInv
<1>3. Continues
  BY <1>1, OldContinues DEF HInv
<1>4. CallIsMap'
  <2>1. MapOfCall(Before) = MapOfCall(dir)
    BY <1>1 DEF HInv, OldFits, CallIsMap
  <2> QED
    BY <1>1, <1>2, <1>3, <2>1 DEF CallIsMap, MapOfCall, Continues
<1>5. WroteIsNew' /\ CallIsNew' /\ UnmapFailed' /\ UnmapSucceeded'
  BY <1>1 DEF WroteIsNew, CallIsNew, UnmapFailed, UnmapSucceeded
<1> QED
  BY <1>3, <1>4, <1>5 DEF OldFits, Continues

LEMMA HInvInsert ==
  ASSUME HInv, HNext, Recorded, insert_empty_directory_write
  PROVE  OldFits'
<1>1. pc = "insert" /\ pc' = "map" /\ call' = call /\ stack' = stack
  BY DEF insert_empty_directory_write
<1>2. /\ MapIn(0, dir', call.vaddr, call.pte) = MapIn(0, dir, call.vaddr, call.pte)
      /\ Empty(region_view', Top.ptr)
  BY InsertKeepsMap DEF HInv
<1>3. Continues
  BY <1>1, OldContinues DEF HInv
<1>4. CallIsMap'
  <2>1. MapOfCall(Before) = MapOfCall(dir)
    BY <1>1 DEF HInv, OldFits, CallIsMap
  <2> QED
    BY <1>1, <1>2, <1>3, <2>1 DEF CallIsMap, MapOfCall, Continues
<1>5. WroteIsNew'
  BY <1>1, <1>2 DEF WroteIsNew, Top
<1>6. CallIsNew' /\ UnmapFailed' /\ UnmapSucceeded'
  BY <1>1 DEF CallIsNew, UnmapFailed, UnmapSucceeded
<1> QED
  BY <1>3, <1>4, <1>5, <1>6 DEF OldFits, Continues

LEMMA HInvUnmapDescend ==
  ASSUME HInv, HNext, Recorded, UnmapDescend
  PROVE  OldFits'
<1>1. pc = "unmap" /\ pc' = "unmap" /\ region_view' = region_view /\ regions' = regions
  BY DEF UnmapDescend
<1>2. dir' = dir
  BY <1>1, SameMemory DEF HInv
<1>3. Continues
  BY <1>1, OldContinues DEF HInv
<1>4. memvars' = memvars
  BY <1>1 DEF memvars
<1>5. CallIsNew'
  BY <1>1, <1>2, <1>3, <1>4 DEF HInv, OldFits, CallIsNew, Continues
<1>6. CallIsMap' /\ WroteIsNew' /\ UnmapFailed' /\ UnmapSucceeded'
  BY <1>1 DEF CallIsMap, WroteIsNew, UnmapFailed, UnmapSucceeded
<1> QED
  BY <1>3, <1>5, <1>6 DEF OldFits, Continues

LEMMA HInvUnmapPage ==
  ASSUME HInv, HNext, Recorded, UnmapPage
  PROVE  OldFits'
<1>1. pc = "unmap" /\ pc' = "unmap_return" /\ ret' = "Ok" /\ call' = call /\ stack' = stack
  BY DEF UnmapPage
<1>2. UnmapIn(0, dir, call.vaddr) = RestIn(0, layer, dir', call.vaddr)
  BY PageEndsUnmap DEF HInv
<1>3. Continues
  BY <1>1, OldContinues DEF HInv
<1>4. Before' = dir
  BY <1>1, <1>3 DEF HInv, OldFits, CallIsNew, Continues
<1>5. layer' = layer
  BY <1>1 DEF layer
<1>6. UnmapSucceeded'
  BY <1>1, <1>2, <1>4, <1>5 DEF UnmapSucceeded
<1>7. CallIsMap' /\ WroteIsNew' /\ CallIsNew' /\ UnmapFailed'
  BY <1>1 DEF CallIsMap, WroteIsNew, CallIsNew, UnmapFailed
<1> QED
  BY <1>3, <1>6, <1>7 DEF OldFits, Continues

LEMMA HInvUnmapNothing ==
  ASSUME HInv, HNext, Recorded, UnmapNothing
  PROVE  OldFits'
<1>1. /\ pc = "unmap" /\ pc' = "unmap_return" /\ ret' = "Err" /\ call' = call
      /\ region_view' = region_view /\ regions' = regions
  BY DEF UnmapNothing
<1>2. UnmapIn(0, dir, call.vaddr) = L0!Err(dir)
  BY NothingEndsUnmap DEF HInv
<1>3. Continues
  BY <1>1, OldContinues DEF HInv
<1>4. dir' = dir /\ memvars' = memvars
  BY <1>1, SameMemory DEF HInv, memvars
<1>5. Before' = dir /\ ~old'.written
  BY <1>1, <1>3, <1>4 DEF HInv, OldFits, CallIsNew, Continues
<1>6. UnmapFailed'
  BY <1>1, <1>2, <1>4, <1>5 DEF UnmapFailed
<1>7. CallIsMap' /\ WroteIsNew' /\ CallIsNew' /\ UnmapSucceeded'
  BY <1>1 DEF CallIsMap, WroteIsNew, CallIsNew, UnmapSucceeded
<1> QED
  BY <1>3, <1>6, <1>7 DEF OldFits, Continues

LEMMA HInvUnlink ==
  ASSUME HInv, HNext, Recorded, UnmapUnlink
  PROVE  OldFits'
<1>1. pc = "unmap_return" /\ ret = "Ok" /\ pc' = "dealloc" /\ call' = call /\ stack' = stack
  BY DEF UnmapUnlink, Returning
<1>2. RestIn(0, layer, dir, call.vaddr) = RestIn(0, layer - 1, dir', call.vaddr)
  BY UnlinkReturns DEF HInv
<1>3. Continues
  BY <1>1, OldContinues DEF HInv
<1>4. UnmapIn(0, Before, call.vaddr) = RestIn(0, layer, dir, call.vaddr)
  BY <1>1 DEF HInv, OldFits, UnmapSucceeded
<1>5. layer' = layer
  BY <1>1 DEF layer
<1>6. UnmapSucceeded'
  BY <1>1, <1>2, <1>3, <1>4, <1>5 DEF UnmapSucceeded, Continues
<1>7. CallIsMap' /\ WroteIsNew' /\ CallIsNew' /\ UnmapFailed'
  BY <1>1 DEF CallIsMap, WroteIsNew, CallIsNew, UnmapFailed
<1> QED
  BY <1>3, <1>6, <1>7 DEF OldFits, Continues

(* The stack after a return. *)
LEMMA LayerReturns ==
  ASSUME TreeInv, pc # "idle", Len(stack) > 1, Return, call' = call
  PROVE  layer' = layer - 1
<1>1. PICK t : TreeFits(t)
  BY DEF TreeInv
<1> QED
  BY <1>1, ReturnFits

LEMMA HInvDealloc ==
  ASSUME HInv, HNext, Recorded, UnmapDealloc
  PROVE  OldFits'
<1>1. /\ pc = "dealloc" /\ pc' = "unmap_return" /\ ret' = ret /\ call' = call /\ Return
  BY DEF UnmapDealloc
<1>2. dir' = dir
  BY DeallocKeepsDir DEF HInv
<1>3. Continues
  BY <1>1, OldContinues DEF HInv
<1>4. UnmapIn(0, Before, call.vaddr) = RestIn(0, layer - 1, dir, call.vaddr)
  BY <1>1 DEF HInv, OldFits, UnmapSucceeded
<1>5. TreeInv /\ ret = "Ok" /\ Len(stack) > 1
  BY <1>1 DEF HInv, HTree, TreeInv, CallFits, UnlinkedFits, AtUnlinked
<1>6. layer' = layer - 1
  BY <1>1, <1>5, LayerReturns
<1>7. UnmapSucceeded'
  BY <1>1, <1>2, <1>3, <1>4, <1>6 DEF UnmapSucceeded, Continues
<1>8. CallIsMap' /\ WroteIsNew' /\ CallIsNew' /\ UnmapFailed'
  BY <1>1, <1>5 DEF CallIsMap, WroteIsNew, CallIsNew, UnmapFailed
<1> QED
  BY <1>3, <1>7, <1>8 DEF OldFits, Continues

LEMMA HInvKeep ==
  ASSUME HInv, HNext, Recorded, UnmapKeepDirectory
  PROVE  OldFits'
<1>1. /\ pc = "unmap_return" /\ ret = "Ok" /\ pc' = "unmap_return" /\ ret' = ret /\ call' = call /\ Return
      /\ layer > 0 /\ region_view' = region_view
  BY DEF UnmapKeepDirectory, Returning
<1>2. dir' = dir /\ RestIn(0, layer, dir, call.vaddr) = RestIn(0, layer - 1, dir, call.vaddr)
  BY <1>1, SameMemory, KeepReturns DEF HInv
<1>3. Continues
  BY <1>1, OldContinues DEF HInv
<1>4. UnmapIn(0, Before, call.vaddr) = RestIn(0, layer, dir, call.vaddr)
  BY <1>1 DEF HInv, OldFits, UnmapSucceeded
<1>5. TreeInv /\ Len(stack) > 1
  <2>1. TreeInv /\ Len(stack) \in Nat
    BY LayerType DEF HInv, HTree, TreeInv, TypeOK, StackIsSequence
  <2> QED
    BY <1>1, <2>1 DEF layer
<1>6. layer' = layer - 1
  BY <1>1, <1>5, LayerReturns
<1>7. UnmapSucceeded'
  BY <1>1, <1>2, <1>3, <1>4, <1>6 DEF UnmapSucceeded, Continues
<1>8. CallIsMap' /\ WroteIsNew' /\ CallIsNew' /\ UnmapFailed'
  BY <1>1 DEF CallIsMap, WroteIsNew, CallIsNew, UnmapFailed
<1> QED
  BY <1>3, <1>7, <1>8 DEF OldFits, Continues

LEMMA HInvStep == HInv /\ [HNext]_hvars => HInv'
<1> SUFFICES ASSUME HInv, [HNext]_hvars PROVE HInv'
  OBVIOUS
<1>1. HTree'
  BY HTreeStep DEF HInv
<1>2. CASE UNCHANGED hvars
  <2>1. /\ pc' = pc /\ call' = call /\ stack' = stack /\ ret' = ret /\ regions' = regions
        /\ region_view' = region_view /\ dir' = dir /\ old' = old
    BY <1>2 DEF hvars, mvars, vars
  <2>2. Before' = Before /\ layer' = layer /\ Top' = Top
    BY <2>1 DEF Before, layer, Top
  <2>3. OldFits
    BY DEF HInv
  <2>4. CallIsMap' /\ WroteIsNew' /\ CallIsNew' /\ UnmapFailed' /\ UnmapSucceeded'
    BY <2>1, <2>2, <2>3
    DEF OldFits, CallIsMap, MapOfCall, WroteIsNew, CallIsNew, UnmapFailed, UnmapSucceeded
  <2>5. old' = [dir |-> old'.dir, written |-> old'.written]
    BY <2>1, <2>3 DEF OldFits
  <2> QED
    BY <1>1, <2>4, <2>5 DEF HInv, OldFits
<1>3. CASE HNext
  <2>1. Next /\ Recorded
    BY <1>3 DEF HNext, MNext, Recorded
  <2>2. ASSUME NEW vaddr \in VAddr, unmap(vaddr) \/ \E pte \in PTE : map_frame(vaddr, pte)
        PROVE  OldFits'
    <3>1. CASE unmap(vaddr)
      BY <1>1, <1>3, <3>1, HInvStart DEF unmap
    <3>2. CASE \E pte \in PTE : map_frame(vaddr, pte)
      BY <1>1, <1>3, <3>2, HInvStart DEF map_frame
    <3> QED
      BY <2>2, <3>1, <3>2
  <2>3. ASSUME MapStep PROVE OldFits'
    <3>1. CASE MapDirectorySameSize
      BY <1>1, <1>3, <3>1, HInvFinish DEF MapDirectorySameSize
    <3>2. CASE MapDescend
      BY <1>3, <2>1, <3>2, HInvMapDescend
    <3>3. CASE MapPagePresent
      BY <1>1, <1>3, <3>3, HInvFinish DEF MapPagePresent
    <3>4. CASE MapWritePage
      BY <1>1, <1>3, <3>4, HInvFinish DEF MapWritePage
    <3>5. CASE insert_empty_directory_alloc
      BY <1>3, <2>1, <3>5, HInvAlloc
    <3>6. CASE insert_empty_directory_write
      BY <1>3, <2>1, <3>6, HInvInsert
    <3> QED
      BY <2>3, <3>1, <3>2, <3>3, <3>4, <3>5, <3>6 DEF MapStep
  <2>4. ASSUME UnmapStep PROVE OldFits'
    <3>1. CASE UnmapDescend
      BY <1>3, <2>1, <3>1, HInvUnmapDescend
    <3>2. CASE UnmapPage
      BY <1>3, <2>1, <3>2, HInvUnmapPage
    <3>3. CASE UnmapNothing
      BY <1>3, <2>1, <3>3, HInvUnmapNothing
    <3>4. CASE UnmapUnlink
      BY <1>3, <2>1, <3>4, HInvUnlink
    <3>5. CASE UnmapDealloc
      BY <1>3, <2>1, <3>5, HInvDealloc
    <3>6. CASE UnmapKeepDirectory
      BY <1>3, <2>1, <3>6, HInvKeep
    <3>7. CASE UnmapEnd
      BY <1>1, <1>3, <3>7, HInvFinish DEF UnmapEnd
    <3> QED
      BY <2>4, <3>1, <3>2, <3>3, <3>4, <3>5, <3>6, <3>7 DEF UnmapStep
  <2>5. OldFits'
    BY <2>1, <2>2, <2>3, <2>4 DEF Next
  <2> QED
    BY <1>1, <2>5 DEF HInv
<1> QED
  BY <1>2, <1>3

LEMMA HInvAlways == HSpec => []HInv
<1> QED
  BY HInvInit, HInvStep, PTL DEF HSpec


(* The end of a call. *)
Expected ==
  IF call \in MapCall
  THEN L1!map_frame(Before, call.vaddr, call.pte)
  ELSE L1!unmap(Before, call.vaddr)

EndsAsExpected(res) ==
  /\ ret' = res.res /\ dir' = res.value
  /\ ret' = "Err" => ~old.written /\ UNCHANGED memvars

LEMMA OkErr ==
  ASSUME NEW v
  PROVE  /\ L0!Ok(v).res = "Ok" /\ L0!Ok(v).value = v
         /\ L0!Err(v).res = "Err" /\ L0!Err(v).value = v
BY DEF L0!Ok, L0!Err

LEMMA ExpectedIs ==
  ASSUME TreeInv
  PROVE  /\ pc = "map" => Expected = MapOfCall(Before)
         /\ pc = "unmap_return" => Expected = UnmapIn(0, Before, call.vaddr)
<1>1. pc = "map" => call \in MapCall
  BY DEF TreeInv, CallFits
<1>2. pc = "unmap_return" => call \in UnmapCall
  BY DEF TreeInv, CallFits
<1>3. ASSUME call \in UnmapCall, call \in MapCall PROVE FALSE
  <2>1. DOMAIN call = {"vaddr"} /\ DOMAIN call = {"vaddr", "pte"}
    BY <1>3 DEF UnmapCall, MapCall
  <2> QED
    BY <2>1
<1>4. /\ MapOfCall(Before) = L1!map_frame(Before, call.vaddr, call.pte)
      /\ UnmapIn(0, Before, call.vaddr) = L1!unmap(Before, call.vaddr)
  BY DEF MapOfCall, MapIn, UnmapIn
<1> QED
  BY <1>1, <1>2, <1>3, <1>4 DEF Expected

LEMMA MapEnds ==
  ASSUME HInv, Recorded, MapDirectorySameSize \/ MapPagePresent \/ MapWritePage
  PROVE  EndsAsExpected(Expected)
<1>1. pc = "map"
  BY DEF MapDirectorySameSize, MapPagePresent, MapWritePage
<1>2. Expected = MapOfCall(dir)
  BY <1>1, ExpectedIs DEF HInv, HTree, OldFits, CallIsMap
<1>3. CASE MapWritePage
  <2>1. MapOfCall(dir) = L0!Ok(dir')
    BY <1>3, WriteEndsMap DEF HInv, MapOfCall
  <2>2. ret' = "Ok"
    BY <1>3 DEF MapWritePage, Finish
  <2> QED
    BY <1>2, <2>1, <2>2, OkErr DEF EndsAsExpected
<1>4. CASE MapDirectorySameSize \/ MapPagePresent
  <2>1. MapOfCall(dir) = L0!Err(dir) /\ ~Empty(region_view, Top.ptr)
    BY <1>4, ConflictEndsMap DEF HInv, MapOfCall
  <2>2. ret' = "Err" /\ UNCHANGED memvars
    BY <1>4 DEF MapDirectorySameSize, MapPagePresent, Finish
  <2>3. dir' = dir
    BY <2>2, SameMemory DEF HInv, memvars
  <2>4. ~old.written
    BY <1>1, <2>1 DEF HInv, OldFits, WroteIsNew
  <2> QED
    BY <1>2, <2>1, <2>2, <2>3, <2>4, OkErr DEF EndsAsExpected
<1> QED
  BY <1>3, <1>4

LEMMA UnmapEnds ==
  ASSUME HInv, Recorded, UnmapEnd
  PROVE  EndsAsExpected(Expected)
<1>1. pc = "unmap_return" /\ ret' = ret /\ UNCHANGED memvars /\ (ret = "Err" \/ (ret = "Ok" /\ layer = 0))
  BY DEF UnmapEnd, Returning, Finish
<1>2. Expected = UnmapIn(0, Before, call.vaddr)
  BY <1>1, ExpectedIs DEF HInv, HTree
<1>3. dir' = dir
  BY <1>1, SameMemory DEF HInv, memvars
<1>4. CASE ret = "Err"
  <2>1. UnmapIn(0, Before, call.vaddr) = L0!Err(dir) /\ ~old.written
    BY <1>1, <1>4 DEF HInv, OldFits, UnmapFailed
  <2> QED
    BY <1>1, <1>2, <1>3, <1>4, <2>1, OkErr DEF EndsAsExpected
<1>5. CASE ret = "Ok" /\ layer = 0
  <2>1. UnmapIn(0, Before, call.vaddr) = RestIn(0, 0, dir, call.vaddr)
    BY <1>1, <1>5 DEF HInv, OldFits, UnmapSucceeded
  <2>2. RestIn(0, 0, dir, call.vaddr) = L0!Ok(dir)
    BY RestInIs DEF Layer
  <2> QED
    BY <1>1, <1>2, <1>3, <1>5, <2>1, <2>2, OkErr DEF EndsAsExpected
<1> QED
  BY <1>1, <1>4, <1>5

LEMMA CallEnds ==
  ASSUME HInv, HNext, pc # "idle", pc' = "idle"
  PROVE  EndsAsExpected(Expected)
<1>1. Next /\ Recorded
  BY DEF HNext, MNext, Recorded
<1>2. \A vaddr : ~unmap(vaddr) /\ \A pte : ~map_frame(vaddr, pte)
  BY DEF unmap, map_frame, Start
<1>3. MapStep => MapDirectorySameSize \/ MapPagePresent \/ MapWritePage
  BY DEF MapStep, MapDescend, insert_empty_directory_alloc, insert_empty_directory_write
<1>4. UnmapStep => UnmapEnd
  BY DEF UnmapStep, UnmapDescend, UnmapPage, UnmapNothing, UnmapUnlink, UnmapDealloc, UnmapKeepDirectory, Returning
<1>5. MapStep \/ UnmapStep
  BY <1>1, <1>2 DEF Next
<1> QED
  BY <1>1, <1>3, <1>4, <1>5, MapEnds, UnmapEnds

(* Every call of map_frame and unmap returns what the same call of layer 1 *)
(* returns for the tree the call began with, leaves the tree behind that   *)
(* layer 1 computes, and has not written, allocated or freed anything when *)
(* it fails: the postconditions of map_frame_aux and unmap_aux, for calls  *)
(* whose writes, allocations and deallocations are steps of their own.     *)
THEOREM OperationsRefineL1Correct == HSpec => OperationsRefineL1
<1>1. HInv /\ [HNext]_hvars
        => [pc # "idle" /\ pc' = "idle" =>
              LET expected == IF call \in MapCall
                              THEN L1!map_frame(old.dir, call.vaddr, call.pte)
                              ELSE L1!unmap(old.dir, call.vaddr)
              IN  /\ ret' = expected.res
                  /\ dir' = expected.value
                  /\ ret' = "Err" => ~old.written /\ UNCHANGED memvars]_hvars
  <2> SUFFICES ASSUME HInv, [HNext]_hvars, hvars' # hvars, pc # "idle", pc' = "idle"
               PROVE  LET expected == IF call \in MapCall
                                      THEN L1!map_frame(old.dir, call.vaddr, call.pte)
                                      ELSE L1!unmap(old.dir, call.vaddr)
                      IN  /\ ret' = expected.res
                          /\ dir' = expected.value
                          /\ ret' = "Err" => ~old.written /\ UNCHANGED memvars
    OBVIOUS
  <2>1. EndsAsExpected(Expected)
    BY CallEnds
  <2> QED
    BY <2>1 DEF EndsAsExpected, Expected, Before
<1> QED
  BY <1>1, HInvAlways, PTL DEF OperationsRefineL1, HSpec
=============================================================================
