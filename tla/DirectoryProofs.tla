--------------------------- MODULE DirectoryProofs ---------------------------
(***************************************************************************)
(* Proofs about the page table as a tree (impl_u/l1.rs), for every number  *)
(* of entries per directory, every tree that satisfies the invariant and   *)
(* every call: the tree refines the map of impl_u/l0.rs.                   *)
(*                                                                         *)
(* What is said of the function of one layer is proved from what is said   *)
(* of the function of the layer below, once for all layers; the four       *)
(* layers are then put together.                                           *)
(***************************************************************************)
EXTENDS Directory, TLAPS

-----------------------------------------------------------------------------
(* Products and division. *)
LEMMA ProductType == \A a, b \in Nat : a * b \in Nat
  OBVIOUS

LEMMA DivMod ==
  ASSUME NEW a \in Nat, NEW n \in Nat \ {0}
  PROVE  /\ a \div n \in Nat /\ a % n \in Nat /\ a % n < n
         /\ a = ((a \div n) * n) + (a % n)
  OBVIOUS

LEMMA DivUnique ==
  ASSUME NEW a \in Nat, NEW n \in Nat \ {0}, NEW q \in Nat, q * n <= a, a < q * n + n
  PROVE  a \div n = q /\ a % n = a - (q * n)
<1>1. /\ a \div n \in Nat /\ a % n \in Nat /\ a % n < n
      /\ a = ((a \div n) * n) + (a % n)
  BY DivMod
<1> DEFINE k == a \div n
<1>2. ~(k < q)
  <2> SUFFICES ASSUME k + 1 <= q PROVE FALSE
    BY <1>1
  <2>1. (k + 1) * n <= q * n
    BY <1>1
  <2> QED
    BY <1>1, <2>1
<1>3. ~(q < k)
  <2> SUFFICES ASSUME q + 1 <= k PROVE FALSE
    BY <1>1
  <2>1. (q + 1) * n <= k * n
    BY <1>1
  <2> QED
    BY <1>1, <2>1
<1>4. k = q
  BY <1>1, <1>2, <1>3
<1> QED
  BY <1>1, <1>4

LEMMA AlignedIsMultiple ==
  ASSUME NEW a \in Nat, NEW n \in Nat \ {0}
  PROVE  aligned(a, n) <=> \E k \in Nat : a = k * n
<1>1. ASSUME aligned(a, n) PROVE \E k \in Nat : a = k * n
  <2> DEFINE q == a \div n
  <2>1. q \in Nat /\ a = (q * n) + (a % n) /\ a % n = 0
    BY <1>1, DivMod DEF aligned
  <2> HIDE DEF q
  <2>2. q * n \in Nat
    BY <2>1, ProductType
  <2>3. a = q * n
    BY <2>1, <2>2
  <2> QED
    BY <2>1, <2>3
<1>2. ASSUME NEW k \in Nat, a = k * n PROVE aligned(a, n)
  BY <1>2, DivUnique DEF aligned
<1> QED
  BY <1>1, <1>2

(* The sizes of the four layers. *)
LEMMA Sizes ==
  /\ entry_size(0) = X86_NUM_ENTRIES * entry_size(1)
  /\ entry_size(1) = X86_NUM_ENTRIES * entry_size(2)
  /\ entry_size(2) = X86_NUM_ENTRIES * entry_size(3)
  /\ entry_size(3) = PAGE_SIZE
  /\ X86_NUM_ENTRIES \in Nat /\ X86_NUM_ENTRIES >= 2
  /\ \A l \in Layer : entry_size(l) \in Nat \ {0}
<1>1. /\ entry_size(0) = X86_NUM_ENTRIES * entry_size(1)
      /\ entry_size(1) = X86_NUM_ENTRIES * entry_size(2)
      /\ entry_size(2) = X86_NUM_ENTRIES * entry_size(3)
      /\ entry_size(3) = PAGE_SIZE
  BY DEF entry_size, L0_ENTRY_SIZE, L1_ENTRY_SIZE, L2_ENTRY_SIZE, L3_ENTRY_SIZE
<1>2. X86_NUM_ENTRIES \in Nat /\ X86_NUM_ENTRIES >= 2 /\ PAGE_SIZE \in Nat \ {0}
  BY ArchAssumption
<1>3. \A a, b \in Nat \ {0} : a * b \in Nat \ {0}
  OBVIOUS
<1>4. /\ entry_size(3) \in Nat \ {0} /\ entry_size(2) \in Nat \ {0}
      /\ entry_size(1) \in Nat \ {0} /\ entry_size(0) \in Nat \ {0}
  BY <1>1, <1>2, <1>3
<1> QED
  BY <1>1, <1>2, <1>4 DEF Layer

LEMMA SizesDecrease ==
  entry_size(0) > entry_size(1) /\ entry_size(1) > entry_size(2) /\ entry_size(2) > entry_size(3)
<1>1. \A n \in Nat, s \in Nat \ {0} : n >= 2 => n * s > s
  <2> SUFFICES ASSUME NEW n \in Nat, NEW s \in Nat \ {0}, n >= 2 PROVE n * s > s
    OBVIOUS
  <2>1. n * s >= 2 * s
    OBVIOUS
  <2>2. n * s \in Nat
    BY ProductType
  <2> QED
    BY <2>1, <2>2
<1> QED
  BY <1>1, Sizes DEF Layer

LEMMA EntryBaseType ==
  ASSUME NEW l \in Layer, NEW base \in Nat, NEW i \in EntryIndex
  PROVE  entry_base(l, base, i) \in Nat
<1>1. entry_size(l) \in Nat /\ X86_NUM_ENTRIES \in Nat
  BY Sizes
<1>2. i \in Nat
  BY <1>1 DEF EntryIndex
<1>3. \A a, b \in Nat : a * b \in Nat
  OBVIOUS
<1>4. i * entry_size(l) \in Nat
  BY <1>1, <1>2, <1>3
<1> QED
  BY <1>4 DEF entry_base

-----------------------------------------------------------------------------
(* The entry of a directory that an address falls into. *)

Covers(l, base, addr) == base <= addr /\ addr < upper_vaddr(l, base)

LEMMA IndexInDirectory ==
  ASSUME NEW l \in Layer, NEW base \in Nat, NEW addr \in Nat, Covers(l, base, addr)
  PROVE  /\ index_for_vaddr(l, base, addr) \in EntryIndex
         /\ entry_base(l, base, index_for_vaddr(l, base, addr)) <= addr
         /\ addr < entry_base(l, base, index_for_vaddr(l, base, addr)) + entry_size(l)
<1> DEFINE s == entry_size(l)
           n == X86_NUM_ENTRIES
           i == (addr - base) \div s
<1>1. s \in Nat \ {0} /\ n \in Nat
  BY Sizes
<1>2. base <= addr /\ addr < base + n * s
  BY DEF Covers, upper_vaddr, entry_base
<1>3. index_for_vaddr(l, base, addr) = i /\ entry_base(l, base, i) = base + i * s
  BY DEF index_for_vaddr, entry_base
<1> HIDE DEF s, n
<1>4. i \in Nat /\ i * s <= addr - base /\ addr - base < i * s + s
  <2> DEFINE a == addr - base
  <2>1. a \in Nat
    BY <1>2
  <2> HIDE DEF a
  <2>2. a \div s \in Nat /\ a % s \in Nat /\ a % s < s /\ a = ((a \div s) * s) + (a % s)
    BY <1>1, <2>1, DivMod
  <2>3. (a \div s) * s \in Nat
    BY <1>1, <2>2, ProductType
  <2>4. a \div s \in Nat /\ (a \div s) * s <= a /\ a < (a \div s) * s + s
    BY <1>1, <2>1, <2>2, <2>3
  <2> QED
    BY <2>4 DEF a
<1> HIDE DEF i
<1>5. i < n
  <2> SUFFICES ASSUME n <= i PROVE FALSE
    BY <1>1, <1>4
  <2>1. n * s <= i * s
    BY <1>1, <1>4
  <2>2. n * s \in Nat /\ i * s \in Nat
    BY <1>1, <1>4, ProductType
  <2> QED
    BY <1>2, <1>4, <2>1, <2>2
<1>6. i * s \in Nat
  BY <1>1, <1>4, ProductType
<1>7. i \in EntryIndex
  BY <1>1, <1>4, <1>5 DEF EntryIndex, n
<1>8. base + i * s <= addr /\ addr < base + i * s + s
  BY <1>1, <1>4, <1>6
<1> QED
  BY <1>3, <1>7, <1>8 DEF s

(* No other entry does. *)
LEMMA IndexUnique ==
  ASSUME NEW l \in Layer, NEW base \in Nat, NEW addr \in Nat, NEW i \in EntryIndex,
         entry_base(l, base, i) <= addr, addr < entry_base(l, base, i) + entry_size(l)
  PROVE  index_for_vaddr(l, base, addr) = i /\ Covers(l, base, addr)
<1> DEFINE s == entry_size(l)
           n == X86_NUM_ENTRIES
<1>1. s \in Nat \ {0} /\ n \in Nat
  BY Sizes
<1>2. i \in Nat /\ i + 1 <= n
  BY <1>1 DEF EntryIndex
<1>3. base + i * s <= addr /\ addr < base + i * s + s
  BY DEF entry_base
<1>4. /\ index_for_vaddr(l, base, addr) = (addr - base) \div s
      /\ Covers(l, base, addr) = (base <= addr /\ addr < base + n * s)
  BY DEF index_for_vaddr, Covers, upper_vaddr, entry_base
<1> HIDE DEF s, n
<1>5. i * s \in Nat /\ n * s \in Nat
  BY <1>1, <1>2, ProductType
<1>6. addr - base \in Nat /\ i * s <= addr - base /\ addr - base < i * s + s
  BY <1>1, <1>3, <1>5
<1>7. (addr - base) \div s = i
  BY <1>1, <1>2, <1>6, DivUnique
<1>8. (i + 1) * s <= n * s /\ (i + 1) * s = i * s + s
  BY <1>1, <1>2
<1>9. base <= addr /\ addr < base + n * s
  BY <1>1, <1>3, <1>5, <1>8
<1> QED
  BY <1>4, <1>7, <1>9

(* The directory an entry refers to is about the addresses of the entry.   *)
LEMMA CoversBelow ==
  ASSUME NEW l \in 0 .. 2, NEW base \in Nat
  PROVE  upper_vaddr(l + 1, base) = base + entry_size(l)
<1>1. X86_NUM_ENTRIES * entry_size(l + 1) = entry_size(l)
  BY Sizes
<1> QED
  BY <1>1 DEF upper_vaddr, entry_base

-----------------------------------------------------------------------------
(* The addresses of the entries of a directory. *)

LEMMA EntriesInOrder ==
  ASSUME NEW l \in Layer, NEW base \in Nat, NEW i \in EntryIndex
  PROVE  /\ base <= entry_base(l, base, i)
         /\ entry_base(l, base, i) + entry_size(l) <= upper_vaddr(l, base)
         /\ upper_vaddr(l, base) \in Nat /\ entry_base(l, base, i) \in Nat
         /\ \A j \in EntryIndex :
              i < j => entry_base(l, base, i) + entry_size(l) <= entry_base(l, base, j)
<1> DEFINE s == entry_size(l)
<1>1. s \in Nat \ {0} /\ X86_NUM_ENTRIES \in Nat
  BY Sizes
<1>2. i \in Nat /\ i + 1 <= X86_NUM_ENTRIES
  BY <1>1 DEF EntryIndex
<1>3. \A k \in Nat : entry_base(l, base, k) = base + k * s
  BY DEF entry_base
<1> HIDE DEF s
<1>4. \A k \in Nat : k * s \in Nat /\ (i < k => i * s + s <= k * s)
  <2> SUFFICES ASSUME NEW k \in Nat PROVE k * s \in Nat /\ (i < k => i * s + s <= k * s)
    OBVIOUS
  <2>1. k * s \in Nat
    BY <1>1, ProductType
  <2>2. ASSUME i < k PROVE i * s + s <= k * s
    <3>1. (i + 1) * s <= k * s
      BY <1>1, <1>2, <2>2
    <3> QED
      BY <1>1, <1>2, <3>1
  <2> QED
    BY <2>1, <2>2
<1>5. i < X86_NUM_ENTRIES /\ \A j \in EntryIndex : j \in Nat
  BY <1>1, <1>2 DEF EntryIndex
<1>6. upper_vaddr(l, base) = base + X86_NUM_ENTRIES * s
  BY <1>1, <1>3 DEF upper_vaddr
<1>7. entry_base(l, base, i) = base + i * s /\ i * s \in Nat /\ X86_NUM_ENTRIES * s \in Nat
  BY <1>1, <1>2, <1>3, <1>4
<1>8. ASSUME NEW j \in EntryIndex, i < j
      PROVE  entry_base(l, base, i) + s <= entry_base(l, base, j)
  <2>1. entry_base(l, base, j) = base + j * s /\ j * s \in Nat /\ i * s + s <= j * s
    BY <1>3, <1>4, <1>5, <1>8
  <2> QED
    BY <1>1, <1>7, <2>1
<1>9. i * s + s <= X86_NUM_ENTRIES * s
  BY <1>1, <1>4, <1>5
<1>10. base + i * s + s <= base + X86_NUM_ENTRIES * s
  BY <1>1, <1>7, <1>9
<1> QED
  BY <1>1, <1>6, <1>7, <1>8, <1>10 DEF s

LEMMA SizeDivides ==
  ASSUME NEW l \in Layer, NEW j \in Layer, l <= j
  PROVE  \E m \in Nat : entry_size(l) = m * entry_size(j)
<1> DEFINE n == X86_NUM_ENTRIES
           s == entry_size(3)
<1>1. n \in Nat /\ s \in Nat
  BY Sizes DEF Layer
<1>2. /\ entry_size(2) = n * s /\ entry_size(1) = n * entry_size(2)
      /\ entry_size(0) = n * entry_size(1)
  BY Sizes
<1>3. \A i \in Layer : entry_size(i) \in Nat
  BY Sizes
<1> HIDE DEF n, s
<1>4. \A k \in Layer : entry_size(k) = 1 * entry_size(k)
  BY <1>3
<1>5. entry_size(1) = (n * n) * s /\ entry_size(0) = (n * n) * entry_size(2)
  BY <1>1, <1>2, <1>3 DEF Layer
<1>6. entry_size(0) = (n * n * n) * s
  BY <1>1, <1>2, <1>5
<1>7. n * n \in Nat /\ n * n * n \in Nat /\ 1 \in Nat
  BY <1>1, ProductType
<1>8. \/ l = j \/ (l = 0 /\ j = 1) \/ (l = 0 /\ j = 2) \/ (l = 0 /\ j = 3)
      \/ (l = 1 /\ j = 2) \/ (l = 1 /\ j = 3) \/ (l = 2 /\ j = 3)
  BY DEF Layer
<1> QED
  BY <1>1, <1>2, <1>4, <1>5, <1>6, <1>7, <1>8 DEF s

(* A smaller page that begins in an entry ends in it. *)
LEMMA PageInEntry ==
  ASSUME NEW l \in Layer, NEW j \in Layer, l <= j,
         NEW start \in Nat, aligned(start, entry_size(l)),
         NEW addr \in Nat, aligned(addr, entry_size(j)),
         start <= addr, addr < start + entry_size(l)
  PROVE  /\ addr + entry_size(j) <= start + entry_size(l)
         /\ l = j => addr = start
<1> DEFINE s == entry_size(j)
<1>1. s \in Nat \ {0} /\ entry_size(l) \in Nat \ {0}
  BY Sizes
<1>2. PICK m \in Nat : entry_size(l) = m * s
  BY SizeDivides
<1>3. PICK a \in Nat : start = a * entry_size(l)
  BY <1>1, AlignedIsMultiple
<1>4. PICK b \in Nat : addr = b * s
  BY <1>1, AlignedIsMultiple
<1> HIDE DEF s
<1>5. start = (a * m) * s /\ start + entry_size(l) = (a * m + m) * s
  BY <1>1, <1>2, <1>3
<1>6. a * m \in Nat /\ a * m + m \in Nat
  BY ProductType
<1>7. b < a * m + m
  <2> SUFFICES ASSUME a * m + m <= b PROVE FALSE
    BY <1>6
  <2>1. (a * m + m) * s <= b * s
    BY <1>1, <1>6
  <2> QED
    BY <1>4, <1>5, <2>1, <1>1
<1>8. (b + 1) * s <= (a * m + m) * s
  BY <1>1, <1>6, <1>7
<1>9. addr + s <= start + entry_size(l)
  BY <1>1, <1>4, <1>5, <1>8
<1>10. ASSUME l = j PROVE addr = start
  BY <1>1, <1>9, <1>10 DEF s
<1> QED
  BY <1>9, <1>10 DEF s

LEMMA AlignedInEntry ==
  ASSUME NEW l \in Layer, NEW start \in Nat, NEW addr \in Nat,
         aligned(start, entry_size(l)), aligned(addr, entry_size(l)),
         start <= addr, addr < start + entry_size(l)
  PROVE  addr = start
<1>1. l <= l
  BY DEF Layer
<1> QED
  BY <1>1, PageInEntry

LEMMA EntryAligned ==
  ASSUME NEW l \in Layer, NEW base \in Nat, aligned(base, entry_size(l) * X86_NUM_ENTRIES),
         NEW i \in EntryIndex
  PROVE  aligned(base, entry_size(l)) /\ aligned(entry_base(l, base, i), entry_size(l))
<1> DEFINE s == entry_size(l)
           n == X86_NUM_ENTRIES
<1>1. s \in Nat \ {0} /\ n \in Nat \ {0} /\ i \in Nat
  BY Sizes DEF EntryIndex
<1>2. entry_base(l, base, i) = base + i * s
  BY DEF entry_base
<1> HIDE DEF s, n
<1>3. s * n \in Nat \ {0}
  BY <1>1
<1>4. PICK a \in Nat : base = a * (s * n)
  BY <1>3, AlignedIsMultiple DEF s, n
<1>5. base = (a * n) * s /\ base + i * s = (a * n + i) * s
  BY <1>1, <1>4
<1>6. a * n \in Nat /\ a * n + i \in Nat /\ i * s \in Nat
  BY <1>1, ProductType
<1>7. base + i * s \in Nat
  BY <1>6
<1>8. aligned(base, s) /\ aligned(base + i * s, s)
  BY <1>1, <1>5, <1>6, <1>7, AlignedIsMultiple
<1> QED
  BY <1>2, <1>8 DEF s
-----------------------------------------------------------------------------
(* Maps of mappings, and the union of those of the entries. *)

SizeAt(M, va) == M[va].frame.size

(* The pages of M are of some layer's size, aligned, between lo and hi, and *)
(* do not overlap.                                                         *)
Fits(M, lo, hi) ==
  /\ M = [va \in DOMAIN M |-> M[va]]
  /\ \A va \in DOMAIN M :
       /\ va \in Nat /\ lo <= va
       /\ SizeAt(M, va) \in Nat \ {0} /\ va + SizeAt(M, va) <= hi
       /\ contains_entry_size(SizeAt(M, va))
       /\ aligned(va, SizeAt(M, va)) /\ aligned(M[va].frame.base, SizeAt(M, va))
  /\ \A v, w \in DOMAIN M :
       v = w \/ v + SizeAt(M, v) <= w \/ w + SizeAt(M, w) <= v

EntryMaps(l, base, maps) ==
  \A i \in EntryIndex :
    Fits(maps[i], entry_base(l, base, i), entry_base(l, base, i) + entry_size(l))

(* What an address finds in the map of an entry it finds in the union.     *)
LEMMA UnionAt ==
  ASSUME NEW l \in Layer, NEW base \in Nat, NEW maps, EntryMaps(l, base, maps),
         NEW i \in EntryIndex, NEW va \in DOMAIN maps[i]
  PROVE  /\ va \in DOMAIN union_of(maps) /\ union_of(maps)[va] = maps[i][va]
         /\ va \in Nat /\ index_for_vaddr(l, base, va) = i
<1>1. ASSUME NEW j \in EntryIndex, va \in DOMAIN maps[j]
      PROVE  va \in Nat /\ index_for_vaddr(l, base, va) = j
  <2>1. /\ va \in Nat /\ entry_base(l, base, j) <= va
        /\ SizeAt(maps[j], va) \in Nat \ {0}
        /\ va + SizeAt(maps[j], va) <= entry_base(l, base, j) + entry_size(l)
    BY <1>1 DEF EntryMaps, Fits
  <2>2. entry_base(l, base, j) + entry_size(l) \in Nat
    BY EntryBaseType, Sizes
  <2>3. va < entry_base(l, base, j) + entry_size(l)
    BY <2>1, <2>2
  <2> QED
    BY <2>1, <2>3, IndexUnique
<1> DEFINE Q(k) == va \in DOMAIN maps[k] /\ \A j \in 0 .. k - 1 : va \notin DOMAIN maps[j]
<1>2. Q(i)
  <2> SUFFICES ASSUME NEW j \in 0 .. i - 1, va \in DOMAIN maps[j] PROVE FALSE
    OBVIOUS
  <2>1. j \in EntryIndex /\ j # i
    BY Sizes DEF EntryIndex
  <2> QED
    BY <1>1, <2>1
<1>3. \A k \in EntryIndex : Q(k) => k = i
  BY <1>1
<1>4. entry_with(maps, va) = i
  <2>1. entry_with(maps, va) = CHOOSE k \in EntryIndex : Q(k)
    BY DEF entry_with
  <2> HIDE DEF Q
  <2> QED
    BY <1>2, <1>3, <2>1
<1>5. va \in UNION {DOMAIN maps[k] : k \in EntryIndex}
  OBVIOUS
<1> QED
  BY <1>1, <1>4, <1>5 DEF union_of

LEMMA UnionDomain ==
  ASSUME NEW maps, NEW va
  PROVE  va \in DOMAIN union_of(maps) <=> \E i \in EntryIndex : va \in DOMAIN maps[i]
BY DEF union_of

(* The union is the only map that has what the entries have. *)
LEMMA UnionIs ==
  ASSUME NEW l \in Layer, NEW base \in Nat, NEW maps, EntryMaps(l, base, maps),
         NEW f, f = [va \in DOMAIN f |-> f[va]],
         \A i \in EntryIndex : \A va \in DOMAIN maps[i] : va \in DOMAIN f /\ f[va] = maps[i][va],
         \A va \in DOMAIN f : \E i \in EntryIndex : va \in DOMAIN maps[i]
  PROVE  union_of(maps) = f
<1> DEFINE u == union_of(maps)
<1>1. u = [va \in DOMAIN u |-> u[va]]
  BY DEF union_of
<1>2. \A va : va \in DOMAIN u <=> va \in DOMAIN f
  BY UnionDomain
<1>3. \A va \in DOMAIN u : u[va] = f[va]
  BY UnionDomain, UnionAt
<1> HIDE DEF u
<1> QED
  BY <1>1, <1>2, <1>3 DEF u

LEMMA UnionFits ==
  ASSUME NEW l \in Layer, NEW base \in Nat, NEW maps, EntryMaps(l, base, maps)
  PROVE  Fits(union_of(maps), base, upper_vaddr(l, base))
<1> DEFINE u == union_of(maps)
           at(i) == entry_base(l, base, i)
<1>1. u = [va \in DOMAIN u |-> u[va]]
  BY DEF union_of
<1>2. entry_size(l) \in Nat \ {0} /\ X86_NUM_ENTRIES \in Nat
  BY Sizes
<1>3. ASSUME NEW va \in DOMAIN u
      PROVE  \E i \in EntryIndex :
               /\ va \in DOMAIN maps[i] /\ u[va] = maps[i][va] /\ SizeAt(u, va) = SizeAt(maps[i], va)
               /\ Fits(maps[i], at(i), at(i) + entry_size(l))
               /\ base <= at(i) /\ at(i) + entry_size(l) <= upper_vaddr(l, base)
               /\ at(i) \in Nat /\ upper_vaddr(l, base) \in Nat
  <2>1. PICK i \in EntryIndex : va \in DOMAIN maps[i]
    BY UnionDomain
  <2> QED
    BY <2>1, UnionAt, EntriesInOrder DEF EntryMaps, SizeAt
<1>4. ASSUME NEW va \in DOMAIN u
      PROVE  /\ va \in Nat /\ base <= va
             /\ SizeAt(u, va) \in Nat \ {0} /\ va + SizeAt(u, va) <= upper_vaddr(l, base)
             /\ contains_entry_size(SizeAt(u, va))
             /\ aligned(va, SizeAt(u, va)) /\ aligned(u[va].frame.base, SizeAt(u, va))
  <2>1. PICK i \in EntryIndex :
               /\ va \in DOMAIN maps[i] /\ u[va] = maps[i][va] /\ SizeAt(u, va) = SizeAt(maps[i], va)
               /\ Fits(maps[i], at(i), at(i) + entry_size(l))
               /\ base <= at(i) /\ at(i) + entry_size(l) <= upper_vaddr(l, base)
               /\ at(i) \in Nat /\ upper_vaddr(l, base) \in Nat
    BY <1>3
  <2>2. /\ va \in Nat /\ at(i) <= va
        /\ SizeAt(u, va) \in Nat \ {0} /\ va + SizeAt(u, va) <= at(i) + entry_size(l)
        /\ contains_entry_size(SizeAt(u, va))
        /\ aligned(va, SizeAt(u, va)) /\ aligned(u[va].frame.base, SizeAt(u, va))
    BY <2>1 DEF Fits
  <2> HIDE DEF u, at
  <2> QED
    BY <1>2, <2>1, <2>2
<1>5. ASSUME NEW v \in DOMAIN u, NEW w \in DOMAIN u, v # w
      PROVE  v + SizeAt(u, v) <= w \/ w + SizeAt(u, w) <= v
  <2>1. PICK i \in EntryIndex :
               /\ v \in DOMAIN maps[i] /\ SizeAt(u, v) = SizeAt(maps[i], v)
               /\ Fits(maps[i], at(i), at(i) + entry_size(l)) /\ at(i) \in Nat
    BY <1>3
  <2>2. PICK j \in EntryIndex :
               /\ w \in DOMAIN maps[j] /\ SizeAt(u, w) = SizeAt(maps[j], w)
               /\ Fits(maps[j], at(j), at(j) + entry_size(l)) /\ at(j) \in Nat
    BY <1>3
  <2>3. CASE i = j
    BY <1>5, <2>1, <2>2, <2>3 DEF Fits
  <2>4. /\ v \in Nat /\ w \in Nat /\ at(i) <= v /\ at(j) <= w
        /\ SizeAt(u, v) \in Nat /\ SizeAt(u, w) \in Nat
        /\ v + SizeAt(u, v) <= at(i) + entry_size(l)
        /\ w + SizeAt(u, w) <= at(j) + entry_size(l)
    BY <2>1, <2>2 DEF Fits
  <2>5. i \in Nat /\ j \in Nat
    BY <1>2 DEF EntryIndex
  <2>6. CASE i < j
    <3>1. at(i) + entry_size(l) <= at(j)
      BY <2>6, EntriesInOrder
    <3> HIDE DEF u, at
    <3> QED
      BY <1>2, <2>1, <2>2, <2>4, <3>1
  <2>7. CASE j < i
    <3>1. at(j) + entry_size(l) <= at(i)
      BY <2>7, EntriesInOrder
    <3> HIDE DEF u, at
    <3> QED
      BY <1>2, <2>1, <2>2, <2>4, <3>1
  <2> QED
    BY <2>3, <2>5, <2>6, <2>7
<1> HIDE DEF u
<1> QED
  BY <1>1, <1>4, <1>5 DEF Fits, u

(* One entry gets one mapping more. *)
LEMMA UnionInsert ==
  ASSUME NEW l \in Layer, NEW base \in Nat,
         NEW maps, EntryMaps(l, base, maps), NEW maps2, EntryMaps(l, base, maps2),
         NEW i \in EntryIndex, \A k \in EntryIndex : k # i => maps2[k] = maps[k],
         NEW va, NEW pte, maps2[i] = Insert(maps[i], va, pte)
  PROVE  union_of(maps2) = Insert(union_of(maps), va, pte)
<1> DEFINE f == Insert(union_of(maps), va, pte)
<1>1. /\ f = [x \in DOMAIN f |-> f[x]]
      /\ \A x : x \in DOMAIN f <=> x \in DOMAIN union_of(maps) \/ x = va
      /\ \A x \in DOMAIN f : f[x] = IF x = va THEN pte ELSE union_of(maps)[x]
  BY DEF Insert
<1>2. /\ \A x : x \in DOMAIN maps2[i] <=> x \in DOMAIN maps[i] \/ x = va
      /\ \A x \in DOMAIN maps2[i] : maps2[i][x] = IF x = va THEN pte ELSE maps[i][x]
  BY DEF Insert
<1> HIDE DEF f
<1>3. ASSUME NEW k \in EntryIndex, NEW x \in DOMAIN maps2[k]
      PROVE  x \in DOMAIN f /\ f[x] = maps2[k][x]
  <2>1. CASE k = i
    BY <1>1, <1>2, <2>1, UnionAt
  <2>2. CASE k # i
    <3>1. x \in DOMAIN union_of(maps) /\ union_of(maps)[x] = maps2[k][x]
      BY <2>2, UnionAt
    <3>2. x # va
      BY <1>2, <2>2, UnionAt
    <3> QED
      BY <1>1, <3>1, <3>2
  <2> QED
    BY <2>1, <2>2
<1>4. ASSUME NEW x \in DOMAIN f PROVE \E k \in EntryIndex : x \in DOMAIN maps2[k]
  BY <1>1, <1>2, UnionDomain
<1> QED
  BY <1>1, <1>3, <1>4, UnionIs DEF f

(* One entry loses a mapping. *)
LEMMA UnionRemove ==
  ASSUME NEW l \in Layer, NEW base \in Nat,
         NEW maps, EntryMaps(l, base, maps), NEW maps2, EntryMaps(l, base, maps2),
         NEW i \in EntryIndex, \A k \in EntryIndex : k # i => maps2[k] = maps[k],
         NEW va \in DOMAIN maps[i], maps2[i] = Remove(maps[i], va)
  PROVE  union_of(maps2) = Remove(union_of(maps), va)
<1> DEFINE f == Remove(union_of(maps), va)
<1>1. /\ f = [x \in DOMAIN f |-> f[x]]
      /\ \A x : x \in DOMAIN f <=> x \in DOMAIN union_of(maps) /\ x # va
      /\ \A x \in DOMAIN f : f[x] = union_of(maps)[x]
  BY DEF Remove
<1>2. /\ \A x : x \in DOMAIN maps2[i] <=> x \in DOMAIN maps[i] /\ x # va
      /\ \A x \in DOMAIN maps2[i] : maps2[i][x] = maps[i][x]
  BY DEF Remove
<1> HIDE DEF f
<1>3. ASSUME NEW k \in EntryIndex, NEW x \in DOMAIN maps2[k]
      PROVE  x \in DOMAIN f /\ f[x] = maps2[k][x]
  <2>1. CASE k = i
    BY <1>1, <1>2, <2>1, UnionAt
  <2>2. CASE k # i
    <3>1. x \in DOMAIN maps[k] /\ maps2[k][x] = maps[k][x]
      BY <2>2
    <3>2. x # va
      BY <3>1, <2>2, UnionAt
    <3> QED
      BY <1>1, <3>1, <3>2, UnionAt
  <2> QED
    BY <2>1, <2>2
<1>4. ASSUME NEW x \in DOMAIN f PROVE \E k \in EntryIndex : x \in DOMAIN maps2[k]
  <2>1. x # va /\ \E k \in EntryIndex : x \in DOMAIN maps[k]
    BY <1>1, UnionDomain
  <2> QED
    BY <1>2, <2>1
<1> QED
  BY <1>1, <1>3, <1>4, UnionIs DEF f

LEMMA UnionSame ==
  ASSUME NEW l \in Layer, NEW base \in Nat,
         NEW maps, EntryMaps(l, base, maps), NEW maps2,
         \A k \in EntryIndex : maps2[k] = maps[k]
  PROVE  union_of(maps2) = union_of(maps)
<1>1. EntryMaps(l, base, maps2)
  BY DEF EntryMaps
<1>2. union_of(maps) = [va \in DOMAIN union_of(maps) |-> union_of(maps)[va]]
  BY DEF union_of
<1>3. \A k \in EntryIndex : \A x \in DOMAIN maps2[k] :
         x \in DOMAIN union_of(maps) /\ union_of(maps)[x] = maps2[k][x]
  BY UnionAt
<1>4. \A x \in DOMAIN union_of(maps) : \E k \in EntryIndex : x \in DOMAIN maps2[k]
  BY UnionDomain
<1> QED
  BY <1>1, <1>2, <1>3, <1>4, UnionIs

(* The definitions that layer 0 shares with layer 1. *)
LEMMA SameEntrySize == \A l : L0!entry_size(l) = entry_size(l)
BY Zenon DEF L0!entry_size, entry_size, L0_ENTRY_SIZE, L1_ENTRY_SIZE, L2_ENTRY_SIZE, L3_ENTRY_SIZE,
             L0!L0_ENTRY_SIZE, L0!L1_ENTRY_SIZE, L0!L2_ENTRY_SIZE, L0!L3_ENTRY_SIZE

LEMMA SameDefinitions ==
  /\ \A s : L0!contains_entry_size(s) <=> contains_entry_size(s)
  /\ \A a, s : L0!aligned(a, s) <=> aligned(a, s)
  /\ \A r1, r2 : L0!overlap(r1, r2) <=> overlap(r1, r2)
  /\ \A b, s : L0!Region(b, s) = Region(b, s)
  /\ \A x, a, b : L0!between(x, a, b) <=> between(x, a, b)
  /\ \A m, a, pte : L0!Insert(m, a, pte) = Insert(m, a, pte) /\ L0!Remove(m, a) = Remove(m, a)
<1>1. \A s : L0!contains_entry_size(s) <=> contains_entry_size(s)
  BY SameEntrySize DEF L0!contains_entry_size, contains_entry_size,
     L0!contains_entry_size_at_index_atleast, contains_entry_size_at_index_atleast
<1>2. /\ \A a, s : L0!aligned(a, s) <=> aligned(a, s)
      /\ \A b, s : L0!Region(b, s) = Region(b, s)
      /\ \A x, a, b : L0!between(x, a, b) <=> between(x, a, b)
      /\ \A m, a, pte : L0!Insert(m, a, pte) = Insert(m, a, pte) /\ L0!Remove(m, a) = Remove(m, a)
  BY DEF L0!aligned, aligned, L0!Region, Region, L0!between, between,
         L0!Insert, Insert, L0!Remove, Remove
<1>3. \A r1, r2 : L0!overlap(r1, r2) <=> overlap(r1, r2)
  BY DEF L0!overlap, overlap
<1> QED
  BY <1>1, <1>2, <1>3

(* A map that fits has the invariant of layer 0. *)
LEMMA FitsInv ==
  ASSUME NEW M, NEW lo, NEW hi, Fits(M, lo, hi)
  PROVE  L0!inv([map |-> M, lower |-> lo, upper |-> hi])
<1> DEFINE c == [map |-> M, lower |-> lo, upper |-> hi]
<1>1. c.map = M /\ c.lower = lo /\ c.upper = hi
  OBVIOUS
<1> HIDE DEF c
<1>2. L0!mappings_are_of_valid_size(c)
  BY <1>1, SameDefinitions DEF L0!mappings_are_of_valid_size, Fits, SizeAt
<1>3. L0!mappings_are_aligned(c)
  BY <1>1, SameDefinitions DEF L0!mappings_are_aligned, Fits, SizeAt
<1>4. L0!mappings_in_bounds(c)
  BY <1>1 DEF L0!mappings_in_bounds, L0!candidate_in_bounds, Fits, SizeAt
<1>5. L0!mappings_dont_overlap(c)
  <2> SUFFICES ASSUME NEW b1 \in DOMAIN M, NEW b2 \in DOMAIN M, b1 # b2
               PROVE  ~overlap(Region(b1, SizeAt(M, b1)), Region(b2, SizeAt(M, b2)))
    BY <1>1, SameDefinitions DEF L0!mappings_dont_overlap, L0!mapping_region, SizeAt
  <2>1. b1 \in Nat /\ b2 \in Nat /\ SizeAt(M, b1) \in Nat \ {0} /\ SizeAt(M, b2) \in Nat \ {0}
    BY DEF Fits
  <2>2. b1 + SizeAt(M, b1) <= b2 \/ b2 + SizeAt(M, b2) <= b1
    BY DEF Fits
  <2> QED
    BY <2>1, <2>2 DEF overlap, Region
<1> QED
  BY <1>2, <1>3, <1>4, <1>5 DEF L0!inv, c
-----------------------------------------------------------------------------
(* Directories and their maps. subs are the maps of the directories at the *)
(* entries of a directory d, and M is the map of d.                        *)

Maps(d, subs) == [i \in EntryIndex |-> interp_of_entry(d, i, subs[i])]

Content(d, M) ==
  /\ inv_at(d)
  /\ Fits(M, d.base_vaddr, upper_vaddr_of(d))
  /\ empty(d) <=> DOMAIN M = {}

SubContents(d, subs) ==
  \A i \in entries_with(d, "Directory") : Content(d.entries[i].dir, subs[i])

LEMMA EntryFacts ==
  ASSUME NEW d, inv_at(d), NEW i \in EntryIndex
  PROVE  /\ d.layer \in Layer /\ d.base_vaddr \in Nat
         /\ DOMAIN d.entries = EntryIndex
         /\ d.entries[i].tag \in {"Directory", "Page", "Empty"}
         /\ \A tag : i \in entries_with(d, tag) <=> d.entries[i].tag = tag
         /\ base_of_entry(d, i) = entry_base(d.layer, d.base_vaddr, i)
         /\ base_of_entry(d, i) \in Nat /\ entry_size(d.layer) \in Nat \ {0}
         /\ aligned(base_of_entry(d, i), entry_size(d.layer))
         /\ d.entries[i].tag = "Page" =>
              /\ d.entries[i].pte.frame.size = entry_size(d.layer)
              /\ aligned(d.entries[i].pte.frame.base, entry_size(d.layer))
         /\ d.entries[i].tag = "Directory" =>
              /\ d.entries[i].dir.layer = d.layer + 1
              /\ d.entries[i].dir.base_vaddr = base_of_entry(d, i)
              /\ ~empty(d.entries[i].dir)
<1>1. well_formed(d) /\ d.layer \in Layer /\ d.base_vaddr \in Nat /\ DOMAIN d.entries = EntryIndex
  BY DEF inv_at, well_formed
<1>2. \A tag : i \in entries_with(d, tag) <=> d.entries[i].tag = tag
  BY <1>1 DEF entries_with
<1>3. base_of_entry(d, i) = entry_base(d.layer, d.base_vaddr, i)
  BY DEF base_of_entry
<1>4. base_of_entry(d, i) \in Nat /\ entry_size(d.layer) \in Nat \ {0}
  BY <1>1, <1>3, EntryBaseType, Sizes
<1>5. aligned(base_of_entry(d, i), entry_size(d.layer))
  BY <1>1, <1>3, EntryAligned DEF well_formed
<1> QED
  BY <1>1, <1>2, <1>3, <1>4, <1>5
  DEF inv_at, well_formed, pages_match_entry_size, directories_are_in_next_layer,
      directories_are_nonempty, frames_aligned

LEMMA MapsAt ==
  ASSUME NEW d, NEW subs, NEW i \in EntryIndex
  PROVE  /\ d.entries[i].tag = "Page" =>
              Maps(d, subs)[i] = Insert(EmptyMap, base_of_entry(d, i), d.entries[i].pte)
         /\ d.entries[i].tag = "Directory" => Maps(d, subs)[i] = subs[i]
         /\ d.entries[i].tag = "Empty" => Maps(d, subs)[i] = EmptyMap
BY DEF Maps, interp_of_entry

LEMMA EmptyFits ==
  ASSUME NEW lo, NEW hi
  PROVE  Fits(EmptyMap, lo, hi)
BY DEF Fits, EmptyMap

LEMMA EmptyDomain == DOMAIN EmptyMap = {}
BY DEF EmptyMap

LEMMA NoDomain ==
  ASSUME NEW M, NEW lo, NEW hi, Fits(M, lo, hi), DOMAIN M = {}
  PROVE  M = EmptyMap
<1>1. M = [va \in {} |-> M[va]]
  BY DEF Fits
<1> QED
  BY <1>1 DEF EmptyMap

LEMMA OnePage ==
  ASSUME NEW va, NEW pte
  PROVE  /\ DOMAIN Insert(EmptyMap, va, pte) = {va}
         /\ Insert(EmptyMap, va, pte)[va] = pte
         /\ Insert(EmptyMap, va, pte) = [x \in {va} |-> pte]
BY DEF Insert, EmptyMap

LEMMA PageFits ==
  ASSUME NEW l \in Layer, NEW va \in Nat, NEW pte, pte.frame.size = entry_size(l),
         aligned(va, entry_size(l)), aligned(pte.frame.base, entry_size(l))
  PROVE  Fits(Insert(EmptyMap, va, pte), va, va + entry_size(l))
<1> DEFINE M == Insert(EmptyMap, va, pte)
<1>1. DOMAIN M = {va} /\ M[va] = pte /\ M = [x \in {va} |-> pte]
  BY OnePage
<1>2. entry_size(l) \in Nat \ {0}
  BY Sizes
<1>3. contains_entry_size(entry_size(l))
  BY DEF contains_entry_size, contains_entry_size_at_index_atleast, Layer
<1> HIDE DEF M
<1>4. M = [x \in DOMAIN M |-> M[x]]
  BY <1>1
<1> QED
  BY <1>1, <1>2, <1>3, <1>4 DEF Fits, SizeAt, M

(* The addresses of a directory are those of its entry. *)
LEMMA SubRange ==
  ASSUME NEW d, inv_at(d), NEW i \in EntryIndex, NEW c, inv_at(c),
         c.layer = d.layer + 1, c.base_vaddr = base_of_entry(d, i)
  PROVE  d.layer \in 0 .. 2 /\ upper_vaddr_of(c) = base_of_entry(d, i) + entry_size(d.layer)
<1>1. d.layer \in Layer /\ c.layer \in Layer /\ base_of_entry(d, i) \in Nat
  BY EntryFacts DEF inv_at, well_formed
<1>2. d.layer \in 0 .. 2
  BY <1>1 DEF Layer
<1> QED
  BY <1>1, <1>2, CoversBelow DEF upper_vaddr_of

LEMMA MapsFit ==
  ASSUME NEW d, inv_at(d), NEW subs, SubContents(d, subs)
  PROVE  EntryMaps(d.layer, d.base_vaddr, Maps(d, subs))
<1> SUFFICES ASSUME NEW i \in EntryIndex
             PROVE  Fits(Maps(d, subs)[i], base_of_entry(d, i), base_of_entry(d, i) + entry_size(d.layer))
  BY EntryFacts DEF EntryMaps
<1>1. CASE d.entries[i].tag = "Page"
  BY <1>1, EntryFacts, MapsAt, PageFits
<1>2. CASE d.entries[i].tag = "Directory"
  <2>1. Content(d.entries[i].dir, subs[i])
    BY <1>2, EntryFacts DEF SubContents
  <2>2. upper_vaddr_of(d.entries[i].dir) = base_of_entry(d, i) + entry_size(d.layer)
    BY <1>2, <2>1, EntryFacts, SubRange DEF Content
  <2> QED
    BY <1>2, <2>1, <2>2, EntryFacts, MapsAt DEF Content
<1>3. CASE d.entries[i].tag = "Empty"
  BY <1>3, MapsAt, EmptyFits
<1> QED
  BY <1>1, <1>2, <1>3, EntryFacts

LEMMA ContentStep ==
  ASSUME NEW d, inv_at(d), NEW subs, SubContents(d, subs)
  PROVE  Content(d, union_of(Maps(d, subs)))
<1>1. EntryMaps(d.layer, d.base_vaddr, Maps(d, subs)) /\ d.layer \in Layer /\ d.base_vaddr \in Nat
  BY MapsFit DEF inv_at, well_formed
<1>2. Fits(union_of(Maps(d, subs)), d.base_vaddr, upper_vaddr_of(d))
  BY <1>1, UnionFits DEF upper_vaddr_of
<1>3. ASSUME NEW i \in EntryIndex
      PROVE  DOMAIN Maps(d, subs)[i] = {} <=> d.entries[i].tag = "Empty"
  <2>1. CASE d.entries[i].tag = "Page"
    <3>1. Maps(d, subs)[i] = Insert(EmptyMap, base_of_entry(d, i), d.entries[i].pte)
      BY <2>1, MapsAt
    <3>2. DOMAIN Maps(d, subs)[i] = {base_of_entry(d, i)}
      BY <3>1, OnePage
    <3> QED
      BY <2>1, <3>2
  <2>2. CASE d.entries[i].tag = "Directory"
    <3>1. i \in entries_with(d, "Directory") /\ ~empty(d.entries[i].dir)
      BY <2>2, EntryFacts
    <3>2. Content(d.entries[i].dir, subs[i])
      BY <3>1 DEF SubContents
    <3>3. DOMAIN subs[i] # {}
      BY <3>1, <3>2 DEF Content
    <3> QED
      BY <2>2, <3>3, MapsAt
  <2>3. CASE d.entries[i].tag = "Empty"
    BY <2>3, MapsAt, EmptyDomain
  <2> QED
    BY <2>1, <2>2, <2>3, EntryFacts
<1>4. empty(d) <=> DOMAIN union_of(Maps(d, subs)) = {}
  BY <1>3, UnionDomain DEF empty
<1> QED
  BY <1>2, <1>4 DEF Content

(* The maps of the directories of each layer. *)
Subs0(d) == [i \in EntryIndex |-> interp1(d.entries[i].dir)]
Subs1(d) == [i \in EntryIndex |-> interp2(d.entries[i].dir)]
Subs2(d) == [i \in EntryIndex |-> interp3(d.entries[i].dir)]
Subs3(d) == [i \in EntryIndex |-> EmptyMap]

LEMMA InterpIsUnion ==
  ASSUME NEW d
  PROVE  /\ interp0(d) = union_of(Maps(d, Subs0(d)))
         /\ interp1(d) = union_of(Maps(d, Subs1(d)))
         /\ interp2(d) = union_of(Maps(d, Subs2(d)))
         /\ interp3(d) = union_of(Maps(d, Subs3(d)))
<1>1. /\ Maps(d, Subs0(d)) = [i \in EntryIndex |-> interp_of_entry(d, i, interp1(d.entries[i].dir))]
      /\ Maps(d, Subs1(d)) = [i \in EntryIndex |-> interp_of_entry(d, i, interp2(d.entries[i].dir))]
      /\ Maps(d, Subs2(d)) = [i \in EntryIndex |-> interp_of_entry(d, i, interp3(d.entries[i].dir))]
      /\ Maps(d, Subs3(d)) = [i \in EntryIndex |-> interp_of_entry(d, i, EmptyMap)]
  BY DEF Maps, Subs0, Subs1, Subs2, Subs3
<1> QED
  BY <1>1 DEF interp0, interp1, interp2, interp3

LEMMA Contents3 ==
  ASSUME NEW d, inv3(d)
  PROVE  SubContents(d, Subs3(d)) /\ Content(d, interp3(d))
<1>1. inv_at(d) /\ entries_with(d, "Directory") = {}
  BY DEF inv3
<1>2. SubContents(d, Subs3(d))
  BY <1>1 DEF SubContents
<1> QED
  BY <1>1, <1>2, ContentStep, InterpIsUnion

LEMMA Contents2 ==
  ASSUME NEW d, inv2(d)
  PROVE  SubContents(d, Subs2(d)) /\ Content(d, interp2(d))
<1>1. inv_at(d) /\ \A i \in entries_with(d, "Directory") : inv3(d.entries[i].dir)
  BY DEF inv2
<1>2. \A i \in entries_with(d, "Directory") : i \in EntryIndex
  BY <1>1 DEF entries_with, inv_at, well_formed
<1>3. SubContents(d, Subs2(d))
  BY <1>1, <1>2, Contents3 DEF SubContents, Subs2
<1> QED
  BY <1>1, <1>3, ContentStep, InterpIsUnion

LEMMA Contents1 ==
  ASSUME NEW d, inv1(d)
  PROVE  SubContents(d, Subs1(d)) /\ Content(d, interp1(d))
<1>1. inv_at(d) /\ \A i \in entries_with(d, "Directory") : inv2(d.entries[i].dir)
  BY DEF inv1
<1>2. \A i \in entries_with(d, "Directory") : i \in EntryIndex
  BY <1>1 DEF entries_with, inv_at, well_formed
<1>3. SubContents(d, Subs1(d))
  BY <1>1, <1>2, Contents2 DEF SubContents, Subs1
<1> QED
  BY <1>1, <1>3, ContentStep, InterpIsUnion

LEMMA Contents0 ==
  ASSUME NEW d, inv(d)
  PROVE  SubContents(d, Subs0(d)) /\ Content(d, interp0(d))
<1>1. inv_at(d) /\ \A i \in entries_with(d, "Directory") : inv1(d.entries[i].dir)
  BY DEF inv
<1>2. \A i \in entries_with(d, "Directory") : i \in EntryIndex
  BY <1>1 DEF entries_with, inv_at, well_formed
<1>3. SubContents(d, Subs0(d))
  BY <1>1, <1>2, Contents1 DEF SubContents, Subs0
<1> QED
  BY <1>1, <1>3, ContentStep, InterpIsUnion
-----------------------------------------------------------------------------
(* One entry of a directory changes. *)

IsResult(d, r) ==
  /\ r = [res |-> r.res, value |-> r.value]
  /\ r.value.layer = d.layer /\ r.value.base_vaddr = d.base_vaddr

LEMMA UpdateFacts ==
  ASSUME NEW d, DOMAIN d.entries = EntryIndex, NEW i \in EntryIndex, NEW e
  PROVE  /\ update(d, i, e).layer = d.layer /\ update(d, i, e).base_vaddr = d.base_vaddr
         /\ update(d, i, e).flags = d.flags
         /\ DOMAIN update(d, i, e).entries = EntryIndex
         /\ \A k \in EntryIndex :
              update(d, i, e).entries[k] = IF k = i THEN e ELSE d.entries[k]
BY DEF update

(* What may stand at entry i. *)
EntryFits(d, i, e) ==
  /\ e.tag \in {"Directory", "Page", "Empty"}
  /\ e.tag = "Page" =>
       e.pte.frame.size = entry_size(d.layer) /\ aligned(e.pte.frame.base, entry_size(d.layer))
  /\ e.tag = "Directory" =>
       e.dir.layer = d.layer + 1 /\ e.dir.base_vaddr = base_of_entry(d, i) /\ ~empty(e.dir)

LEMMA UpdateInv ==
  ASSUME NEW d, inv_at(d), NEW i \in EntryIndex, NEW e, EntryFits(d, i, e)
  PROVE  inv_at(update(d, i, e))
<1> DEFINE u == update(d, i, e)
<1>1. well_formed(d) /\ DOMAIN d.entries = EntryIndex
  BY DEF inv_at, well_formed
<1>2. /\ u.layer = d.layer /\ u.base_vaddr = d.base_vaddr /\ u.flags = d.flags
      /\ DOMAIN u.entries = EntryIndex
      /\ \A k \in EntryIndex : u.entries[k] = IF k = i THEN e ELSE d.entries[k]
  BY <1>1, UpdateFacts
<1> HIDE DEF u
<1>3. \A k \in EntryIndex : EntryFits(d, k, d.entries[k])
  BY EntryFacts DEF EntryFits
<1>4. \A k \in EntryIndex : EntryFits(d, k, u.entries[k])
  BY <1>2, <1>3
<1>5. \A k : base_of_entry(u, k) = base_of_entry(d, k)
  BY <1>2 DEF base_of_entry
<1>6. \A k \in EntryIndex : EntryFits(u, k, u.entries[k])
  BY <1>2, <1>4, <1>5 DEF EntryFits
<1>7. well_formed(u)
  BY <1>1, <1>2, <1>6 DEF well_formed, EntryFits
<1>8. \A tag : entries_with(u, tag) = {k \in EntryIndex : u.entries[k].tag = tag}
  BY <1>2 DEF entries_with
<1>9. pages_match_entry_size(u) /\ frames_aligned(u)
  BY <1>6, <1>8 DEF pages_match_entry_size, frames_aligned, EntryFits
<1>10. directories_are_in_next_layer(u) /\ directories_are_nonempty(u)
  BY <1>6, <1>8 DEF directories_are_in_next_layer, directories_are_nonempty, EntryFits
<1> QED
  BY <1>7, <1>9, <1>10 DEF inv_at, u

(* The maps below stay where the entries stay. *)
SameBelow(d, subs, v, subs2) ==
  \A k \in EntryIndex : v.entries[k] = d.entries[k] => subs2[k] = subs[k]

LEMMA MapsStay ==
  ASSUME NEW d, NEW subs, NEW v, NEW subs2, SameBelow(d, subs, v, subs2),
         v.layer = d.layer, v.base_vaddr = d.base_vaddr,
         NEW k \in EntryIndex, v.entries[k] = d.entries[k]
  PROVE  Maps(v, subs2)[k] = Maps(d, subs)[k]
<1>1. subs2[k] = subs[k] /\ base_of_entry(v, k) = base_of_entry(d, k)
  BY DEF SameBelow, base_of_entry
<1>2. interp_of_entry(v, k, subs[k]) = interp_of_entry(d, k, subs[k])
  BY <1>1, Zenon DEF interp_of_entry
<1>3. /\ Maps(v, subs2)[k] = interp_of_entry(v, k, subs2[k])
      /\ Maps(d, subs)[k] = interp_of_entry(d, k, subs[k])
  BY DEF Maps
<1> QED
  BY <1>1, <1>2, <1>3

(* How v comes from d by an operation at entry i; r is its result below.   *)
Derived(d, v, i, r, below) ==
  \A k \in EntryIndex :
    \/ v.entries[k] = d.entries[k]
    \/ v.entries[k].tag # "Directory"
    \/ below /\ k = i /\ v.entries[k] = DirectoryEntry(r.value)

-----------------------------------------------------------------------------
(* map_frame *)

Free(M, base, pte) ==
  \A b \in DOMAIN M : ~overlap(Region(base, pte.frame.size), Region(b, SizeAt(M, b)))

(* The map becomes M2, with the result of r. *)
Inserted(M, base, pte, r, M2) ==
  IF Free(M, base, pte)
  THEN r.res = "Ok" /\ M2 = Insert(M, base, pte)
  ELSE r.res = "Err" /\ M2 = M

(* Other entries do not matter for a page that fits in an entry. *)
LEMMA FreeInEntry ==
  ASSUME NEW l \in Layer, NEW start \in Nat, NEW maps, EntryMaps(l, start, maps),
         NEW i \in EntryIndex, NEW base \in Nat, NEW pte, pte.frame.size \in Nat \ {0},
         entry_base(l, start, i) <= base,
         base + pte.frame.size <= entry_base(l, start, i) + entry_size(l)
  PROVE  Free(union_of(maps), base, pte) <=> Free(maps[i], base, pte)
<1> DEFINE u == union_of(maps)
           size == pte.frame.size
           at(k) == entry_base(l, start, k)
           s == entry_size(l)
<1>1. s \in Nat \ {0}
  BY Sizes
<1>2. ASSUME NEW b \in DOMAIN maps[i]
      PROVE  b \in DOMAIN u /\ SizeAt(u, b) = SizeAt(maps[i], b)
  BY UnionAt DEF SizeAt
<1>3. ASSUME NEW k \in EntryIndex, k # i, NEW b \in DOMAIN maps[k]
      PROVE  ~overlap(Region(base, size), Region(b, SizeAt(maps[k], b)))
  <2>1. /\ b \in Nat /\ at(k) <= b /\ SizeAt(maps[k], b) \in Nat \ {0}
        /\ b + SizeAt(maps[k], b) <= at(k) + s
    BY DEF EntryMaps, Fits
  <2>2. at(k) \in Nat /\ at(i) \in Nat /\ (at(i) + s <= at(k) \/ at(k) + s <= at(i))
    <3>1. i \in Nat /\ k \in Nat
      BY Sizes DEF EntryIndex
    <3>2. i < k \/ k < i
      BY <1>3, <3>1
    <3> QED
      BY <3>2, EntriesInOrder
  <2> DEFINE sb == SizeAt(maps[k], b)
  <2>3. base + size <= b \/ b + sb <= base
    <3> HIDE DEF at, s, size, sb
    <3>1. base + size <= at(i) + s /\ at(i) <= base /\ size \in Nat \ {0}
      BY DEF at, s, size
    <3>2. b \in Nat /\ at(k) <= b /\ sb \in Nat \ {0} /\ b + sb <= at(k) + s
      BY <2>1 DEF sb
    <3> QED
      BY <1>1, <2>2, <3>1, <3>2
  <2> QED
    BY <2>1, <2>3 DEF overlap, Region
<1>4. ASSUME NEW b \in DOMAIN u
      PROVE  \E k \in EntryIndex : b \in DOMAIN maps[k] /\ SizeAt(u, b) = SizeAt(maps[k], b)
  BY UnionDomain, UnionAt DEF SizeAt
<1> HIDE DEF u
<1>5. Free(u, base, pte) => Free(maps[i], base, pte)
  BY <1>2 DEF Free
<1>6. Free(maps[i], base, pte) => Free(u, base, pte)
  <2> SUFFICES ASSUME Free(maps[i], base, pte), NEW b \in DOMAIN u
               PROVE  ~overlap(Region(base, size), Region(b, SizeAt(u, b)))
    BY DEF Free
  <2>1. PICK k \in EntryIndex : b \in DOMAIN maps[k] /\ SizeAt(u, b) = SizeAt(maps[k], b)
    BY <1>4
  <2>2. CASE k = i
    BY <2>1, <2>2 DEF Free
  <2>3. CASE k # i
    BY <1>3, <2>1, <2>3
  <2> QED
    BY <2>2, <2>3
<1> QED
  BY <1>5, <1>6 DEF u

LEMMA MapEntry ==
  ASSUME NEW d, inv_at(d), NEW base \in Nat, NEW pte, accepted_mapping(d, base, pte),
         NEW i, i = index_in(d, base)
  PROVE  /\ i \in EntryIndex
         /\ pte.frame.size \in Nat \ {0}
         /\ base_of_entry(d, i) <= base
         /\ base + pte.frame.size <= base_of_entry(d, i) + entry_size(d.layer)
         /\ contains_entry_size(pte.frame.size)
         /\ entry_size(d.layer) = pte.frame.size => base = base_of_entry(d, i)
         /\ entry_size(d.layer) # pte.frame.size =>
              d.layer \in 0 .. 2 /\ contains_entry_size_at_index_atleast(pte.frame.size, d.layer + 1)
<1> DEFINE size == pte.frame.size
<1>1. d.layer \in Layer /\ d.base_vaddr \in Nat /\ well_formed(d)
  BY DEF inv_at, well_formed
<1>2. PICK j \in d.layer .. 3 : entry_size(j) = size
  BY DEF accepted_mapping, contains_entry_size_at_index_atleast
<1>3. j \in Layer /\ d.layer <= j
  BY <1>1, <1>2 DEF Layer
<1>4. size \in Nat \ {0} /\ entry_size(d.layer) \in Nat \ {0}
  BY <1>1, <1>2, <1>3, Sizes
<1>5. d.base_vaddr <= base /\ base + size <= upper_vaddr(d.layer, d.base_vaddr)
  BY DEF accepted_mapping, upper_vaddr_of
<1>6. upper_vaddr(d.layer, d.base_vaddr) \in Nat
  <2>1. 0 \in EntryIndex
    BY Sizes DEF EntryIndex
  <2> QED
    BY <1>1, <2>1, EntriesInOrder
<1>7. Covers(d.layer, d.base_vaddr, base)
  BY <1>4, <1>5, <1>6 DEF Covers
<1>8. /\ i \in EntryIndex /\ base_of_entry(d, i) <= base
      /\ base < base_of_entry(d, i) + entry_size(d.layer)
  BY <1>1, <1>7, IndexInDirectory DEF index_in, base_of_entry
<1>9. /\ base_of_entry(d, i) \in Nat /\ aligned(base_of_entry(d, i), entry_size(d.layer))
  BY <1>8, EntryFacts
<1>10. aligned(base, entry_size(j))
  BY <1>2 DEF accepted_mapping
<1>11. /\ base + entry_size(j) <= base_of_entry(d, i) + entry_size(d.layer)
       /\ d.layer = j => base = base_of_entry(d, i)
  BY <1>1, <1>3, <1>8, <1>9, <1>10, PageInEntry
<1>12. ASSUME entry_size(d.layer) = size PROVE d.layer = j
  BY <1>2, <1>3, <1>1, <1>12, SizesDecrease, Sizes DEF Layer
<1>13. ASSUME entry_size(d.layer) # size
       PROVE  d.layer \in 0 .. 2 /\ contains_entry_size_at_index_atleast(size, d.layer + 1)
  <2>1. d.layer # j
    BY <1>2, <1>13
  <2>2. d.layer \in 0 .. 2 /\ j \in d.layer + 1 .. 3
    BY <1>1, <1>2, <1>3, <2>1 DEF Layer
  <2> QED
    BY <1>2, <2>2 DEF contains_entry_size_at_index_atleast
<1>14. contains_entry_size(size)
  BY <1>2, <1>3 DEF contains_entry_size, contains_entry_size_at_index_atleast, Layer
<1> QED
  BY <1>2, <1>4, <1>8, <1>11, <1>12, <1>13, <1>14

LEMMA NewDirectory ==
  ASSUME NEW d, inv_at(d), NEW i \in EntryIndex, d.layer \in 0 .. 2
  PROVE  LET c == new_empty_dir(d, i)
         IN  /\ inv_at(c) /\ entries_with(c, "Directory") = {} /\ empty(c)
             /\ c.layer = d.layer + 1 /\ c.base_vaddr = base_of_entry(d, i)
<1> DEFINE c == new_empty_dir(d, i)
<1>1. /\ c.layer = d.layer + 1 /\ c.base_vaddr = base_of_entry(d, i) /\ c.flags = permissive_flags
      /\ DOMAIN c.entries = EntryIndex /\ \A k \in EntryIndex : c.entries[k] = EmptyEntry
  BY DEF new_empty_dir
<1> HIDE DEF c
<1>2. c.layer \in Layer /\ base_of_entry(d, i) \in Nat
  BY <1>1, EntryFacts DEF Layer
<1>3. entry_size(d.layer + 1) * X86_NUM_ENTRIES = entry_size(d.layer)
  <2>1. X86_NUM_ENTRIES * entry_size(d.layer + 1) = entry_size(d.layer)
    BY Sizes
  <2>2. X86_NUM_ENTRIES \in Nat /\ entry_size(d.layer + 1) \in Nat
    BY Sizes DEF Layer
  <2> QED
    BY <2>1, <2>2
<1>4. aligned(c.base_vaddr, entry_size(c.layer) * X86_NUM_ENTRIES)
  BY <1>1, <1>3, EntryFacts
<1>5. \A k \in EntryIndex : c.entries[k].tag = "Empty"
  BY <1>1 DEF EmptyEntry
<1>6. well_formed(c)
  BY <1>1, <1>2, <1>4, <1>5 DEF well_formed
<1>7. entries_with(c, "Directory") = {} /\ entries_with(c, "Page") = {}
  BY <1>1, <1>5 DEF entries_with
<1>8. inv_at(c)
  BY <1>6, <1>7 DEF inv_at, pages_match_entry_size, directories_are_in_next_layer,
     directories_are_nonempty, frames_aligned
<1>9. empty(c)
  BY <1>5 DEF empty
<1> QED
  BY <1>1, <1>7, <1>8, <1>9 DEF c

(* The directory at entry i, or the one that is made there, and its map. *)
SubAt(d, subs, i) == IF d.entries[i].tag = "Directory" THEN subs[i] ELSE EmptyMap

LEMMA DirAt ==
  ASSUME NEW d, inv_at(d), NEW subs, SubContents(d, subs), NEW i \in EntryIndex,
         d.entries[i].tag # "Page", d.layer \in 0 .. 2
  PROVE  LET c == dir_at(d, i)
         IN  /\ Content(c, SubAt(d, subs, i))
             /\ c.layer = d.layer + 1 /\ c.base_vaddr = base_of_entry(d, i)
             /\ upper_vaddr_of(c) = base_of_entry(d, i) + entry_size(d.layer)
<1> DEFINE c == dir_at(d, i)
<1>1. CASE d.entries[i].tag = "Directory"
  <2>1. c = d.entries[i].dir /\ SubAt(d, subs, i) = subs[i]
    BY <1>1 DEF dir_at, SubAt
  <2>2. Content(c, subs[i]) /\ c.layer = d.layer + 1 /\ c.base_vaddr = base_of_entry(d, i)
    BY <1>1, <2>1, EntryFacts DEF SubContents
  <2>3. inv_at(c)
    BY <2>2 DEF Content
  <2> HIDE DEF c
  <2>4. upper_vaddr_of(c) = base_of_entry(d, i) + entry_size(d.layer)
    BY <2>2, <2>3, SubRange
  <2> QED
    BY <2>1, <2>2, <2>4 DEF c
<1>2. CASE d.entries[i].tag = "Empty"
  <2>1. c = new_empty_dir(d, i) /\ SubAt(d, subs, i) = EmptyMap
    BY <1>2 DEF dir_at, SubAt
  <2>2. inv_at(c) /\ empty(c) /\ c.layer = d.layer + 1 /\ c.base_vaddr = base_of_entry(d, i)
    BY <2>1, NewDirectory
  <2>3. Content(c, EmptyMap)
    BY <2>2, EmptyFits, EmptyDomain DEF Content
  <2> HIDE DEF c
  <2>4. upper_vaddr_of(c) = base_of_entry(d, i) + entry_size(d.layer)
    BY <2>2, SubRange
  <2> QED
    BY <2>1, <2>2, <2>3, <2>4 DEF c
<1> QED
  BY <1>1, <1>2, EntryFacts

(* Entry i becomes e. *)
LEMMA Changed ==
  ASSUME NEW d, inv_at(d), NEW subs, SubContents(d, subs), NEW i \in EntryIndex,
         NEW e, EntryFits(d, i, e), NEW v, v = update(d, i, e),
         NEW subs2, SameBelow(d, subs, v, subs2),
         e.tag = "Directory" => Content(e.dir, subs2[i])
  PROVE  /\ inv_at(v) /\ SubContents(v, subs2)
         /\ v.layer = d.layer /\ v.base_vaddr = d.base_vaddr
         /\ \A k \in EntryIndex : v.entries[k] = IF k = i THEN e ELSE d.entries[k]
         /\ \A k \in EntryIndex : k # i => Maps(v, subs2)[k] = Maps(d, subs)[k]
         /\ EntryMaps(d.layer, d.base_vaddr, Maps(d, subs))
         /\ EntryMaps(d.layer, d.base_vaddr, Maps(v, subs2))
<1>1. inv_at(v)
  BY UpdateInv
<1>2. /\ v.layer = d.layer /\ v.base_vaddr = d.base_vaddr
      /\ \A k \in EntryIndex : v.entries[k] = IF k = i THEN e ELSE d.entries[k]
  <2>1. DOMAIN d.entries = EntryIndex
    BY EntryFacts
  <2> QED
    BY <2>1, UpdateFacts
<1>3. SubContents(v, subs2)
  <2> SUFFICES ASSUME NEW k \in entries_with(v, "Directory")
               PROVE  Content(v.entries[k].dir, subs2[k])
    BY DEF SubContents
  <2>1. k \in EntryIndex /\ v.entries[k].tag = "Directory"
    BY <1>1 DEF entries_with, inv_at, well_formed
  <2>2. CASE k = i
    BY <1>2, <2>1, <2>2
  <2>3. CASE k # i
    <3>1. v.entries[k] = d.entries[k]
      BY <1>2, <2>1, <2>3
    <3>2. k \in entries_with(d, "Directory")
      BY <2>1, <3>1, EntryFacts
    <3>3. subs2[k] = subs[k]
      BY <2>1, <3>1 DEF SameBelow
    <3> QED
      BY <3>1, <3>2, <3>3 DEF SubContents
  <2> QED
    BY <2>2, <2>3
<1>4. ASSUME NEW k \in EntryIndex, k # i PROVE Maps(v, subs2)[k] = Maps(d, subs)[k]
  <2>1. v.entries[k] = d.entries[k]
    BY <1>2, <1>4
  <2> QED
    BY <1>2, <2>1, MapsStay
<1>5. EntryMaps(d.layer, d.base_vaddr, Maps(d, subs))
  BY MapsFit
<1>6. EntryMaps(d.layer, d.base_vaddr, Maps(v, subs2))
  BY <1>1, <1>2, <1>3, MapsFit
<1> QED
  BY <1>1, <1>2, <1>3, <1>4, <1>5, <1>6

(* Nothing changes. *)
LEMMA Unchanged ==
  ASSUME NEW d, inv_at(d), NEW subs, SubContents(d, subs), NEW subs2, SameBelow(d, subs, d, subs2)
  PROVE  /\ SubContents(d, subs2)
         /\ union_of(Maps(d, subs2)) = union_of(Maps(d, subs))
<1>1. \A k \in EntryIndex : subs2[k] = subs[k]
  BY DEF SameBelow
<1>2. \A k \in EntryIndex : Maps(d, subs2)[k] = Maps(d, subs)[k]
  BY <1>1 DEF Maps
<1>3. EntryMaps(d.layer, d.base_vaddr, Maps(d, subs)) /\ d.layer \in Layer /\ d.base_vaddr \in Nat
  BY MapsFit DEF inv_at, well_formed
<1>4. SubContents(d, subs2)
  <2>1. \A k \in entries_with(d, "Directory") : k \in EntryIndex
    BY DEF entries_with, inv_at, well_formed
  <2> QED
    BY <1>1, <2>1 DEF SubContents
<1> QED
  BY <1>2, <1>3, <1>4, UnionSame

(* What map_frame does in one directory. *)
LEMMA MapFrameAt ==
  ASSUME NEW d, NEW base, NEW pte, NEW r, NEW i, i = index_in(d, base),
         d.entries[i].tag \in {"Directory", "Page", "Empty"}
  PROVE  LET here == entry_size(d.layer) = pte.frame.size
             q == map_frame_at(d, base, pte, r)
         IN  /\ d.entries[i].tag = "Page" => q = L0!Err(d)
             /\ d.entries[i].tag = "Directory" /\ here => q = L0!Err(d)
             /\ d.entries[i].tag = "Empty" /\ here => q = L0!Ok(update(d, i, PageEntry(pte)))
             /\ d.entries[i].tag # "Page" /\ ~here => q = put_back(d, i, r)
BY DEF map_frame_at

(* Where the map of an entry is one page of the entry's size, or not empty *)
(* and the new page has that size, there is no room for the new page.      *)
LEMMA TakenEntry ==
  ASSUME NEW l \in Layer, NEW start \in Nat, NEW M, Fits(M, start, start + entry_size(l)),
         DOMAIN M # {}, NEW base \in Nat, NEW pte, pte.frame.size \in Nat \ {0},
         start <= base, base + pte.frame.size <= start + entry_size(l),
         \/ DOMAIN M = {start} /\ SizeAt(M, start) = entry_size(l)
         \/ entry_size(l) = pte.frame.size
  PROVE  ~Free(M, base, pte)
<1>1. PICK b \in DOMAIN M : TRUE
  OBVIOUS
<1> DEFINE s == pte.frame.size
           sb == SizeAt(M, b)
           L == entry_size(l)
<1>2. b \in Nat /\ start <= b /\ sb \in Nat \ {0} /\ b + sb <= start + L
  BY DEF Fits
<1>3. L \in Nat \ {0}
  BY Sizes
<1>4. s \in Nat \ {0} /\ start <= base /\ base + s <= start + L
  OBVIOUS
<1>5. b < base + s /\ base < b + sb
  <2>1. CASE L = s
    <3> HIDE DEF L, sb, s
    <3> QED
      BY <1>2, <1>3, <1>4, <2>1
  <2>2. CASE DOMAIN M = {start} /\ SizeAt(M, start) = L
    <3>1. b = start /\ sb = L
      BY <2>2
    <3> HIDE DEF L, sb, s
    <3> QED
      BY <1>2, <1>3, <1>4, <3>1
  <2> QED
    BY <2>1, <2>2
<1> QED
  BY <1>1, <1>2, <1>4, <1>5 DEF Free, overlap, Region

(* map_frame goes on in the directory at entry i. *)
GoesBelow(d, i, pte) == d.entries[i].tag # "Page" /\ entry_size(d.layer) # pte.frame.size

(* What it did there, r being its result and sub2 the map afterwards. *)
MappedBelow(d, subs, i, base, pte, r, sub2) ==
  GoesBelow(d, i, pte) =>
    /\ IsResult(dir_at(d, i), r) /\ Content(r.value, sub2)
    /\ Inserted(SubAt(d, subs, i), base, pte, r, sub2)

(* map_frame in one directory, given what it does below. *)
LEMMA MapStep ==
  ASSUME NEW d, inv_at(d), NEW subs, SubContents(d, subs),
         NEW base \in Nat, NEW pte, accepted_mapping(d, base, pte),
         NEW i, i = index_in(d, base), NEW r, NEW q, q = map_frame_at(d, base, pte, r),
         NEW sub2,
         MappedBelow(d, subs, i, base, pte, r, sub2),
         NEW subs2, SameBelow(d, subs, q.value, subs2),
         q.value.entries[i] = DirectoryEntry(r.value) => subs2[i] = sub2
  PROVE  /\ IsResult(d, q) /\ inv_at(q.value) /\ SubContents(q.value, subs2)
         /\ Derived(d, q.value, i, r, GoesBelow(d, i, pte))
         /\ Inserted(union_of(Maps(d, subs)), base, pte, q, union_of(Maps(q.value, subs2)))
<1> DEFINE here == entry_size(d.layer) = pte.frame.size
           M == union_of(Maps(d, subs))
           M2 == union_of(Maps(q.value, subs2))
           Mi == Maps(d, subs)[i]
           at == base_of_entry(d, i)
<1>1. /\ i \in EntryIndex /\ pte.frame.size \in Nat \ {0}
      /\ at <= base /\ base + pte.frame.size <= at + entry_size(d.layer)
      /\ here => base = at
      /\ ~here => d.layer \in 0 .. 2
  BY MapEntry
<1>2. /\ d.layer \in Layer /\ d.base_vaddr \in Nat /\ at \in Nat
      /\ at = entry_base(d.layer, d.base_vaddr, i)
      /\ DOMAIN d.entries = EntryIndex
      /\ d.entries[i].tag \in {"Directory", "Page", "Empty"}
  BY <1>1, EntryFacts
<1>3. /\ EntryMaps(d.layer, d.base_vaddr, Maps(d, subs))
      /\ Fits(Mi, at, at + entry_size(d.layer))
  BY <1>1, <1>2, MapsFit DEF EntryMaps
<1>4. Free(M, base, pte) <=> Free(Mi, base, pte)
  BY <1>1, <1>2, <1>3, FreeInEntry
<1>5. ASSUME q = L0!Err(d), ~Free(Mi, base, pte)
      PROVE  /\ IsResult(d, q) /\ inv_at(q.value) /\ SubContents(q.value, subs2)
             /\ Derived(d, q.value, i, r, GoesBelow(d, i, pte))
             /\ Inserted(M, base, pte, q, M2)
  <2>1. q.res = "Err" /\ q.value = d /\ IsResult(d, q)
    BY <1>5 DEF L0!Err, IsResult
  <2>2. SubContents(d, subs2) /\ M2 = M
    BY <2>1, Unchanged
  <2> QED
    BY <1>4, <1>5, <2>1, <2>2 DEF Derived, Inserted
<1>6. CASE d.entries[i].tag = "Page"
  <2>1. q = L0!Err(d)
    BY <1>2, <1>6, MapFrameAt
  <2>2. Mi = Insert(EmptyMap, at, d.entries[i].pte) /\ d.entries[i].pte.frame.size = entry_size(d.layer)
    BY <1>1, <1>6, MapsAt, EntryFacts
  <2>3. DOMAIN Mi = {at} /\ SizeAt(Mi, at) = entry_size(d.layer)
    <3> HIDE DEF Mi, at
    <3>1. DOMAIN Mi = {at} /\ Mi[at] = d.entries[i].pte
      BY <2>2, OnePage
    <3> QED
      BY <2>2, <3>1 DEF SizeAt
  <2>4. ~Free(Mi, base, pte)
    BY <1>1, <1>2, <1>3, <2>3, TakenEntry
  <2> QED
    BY <1>5, <2>1, <2>4
<1>7. CASE d.entries[i].tag = "Directory" /\ here
  <2>1. q = L0!Err(d)
    BY <1>2, <1>7, MapFrameAt
  <2>2. DOMAIN Mi # {}
    <3>1. Mi = subs[i] /\ i \in entries_with(d, "Directory") /\ ~empty(d.entries[i].dir)
      BY <1>1, <1>7, MapsAt, EntryFacts
    <3>2. Content(d.entries[i].dir, subs[i])
      BY <3>1 DEF SubContents
    <3> QED
      BY <3>1, <3>2 DEF Content
  <2>3. ~Free(Mi, base, pte)
    BY <1>1, <1>2, <1>3, <1>7, <2>2, TakenEntry
  <2> QED
    BY <1>5, <2>1, <2>3
<1>8. CASE d.entries[i].tag = "Empty" /\ here
  <2> DEFINE e == PageEntry(pte)
             v == update(d, i, e)
  <2>1. q = L0!Ok(v) /\ q.res = "Ok" /\ q.value = v
    BY <1>2, <1>8, MapFrameAt DEF L0!Ok
  <2>2. e.tag = "Page" /\ e.pte = pte
    BY DEF PageEntry
  <2>3. EntryFits(d, i, e)
    BY <1>8, <2>2 DEF EntryFits, accepted_mapping
  <2>4. /\ inv_at(v) /\ SubContents(v, subs2)
        /\ v.layer = d.layer /\ v.base_vaddr = d.base_vaddr
        /\ \A k \in EntryIndex : v.entries[k] = IF k = i THEN e ELSE d.entries[k]
        /\ \A k \in EntryIndex : k # i => Maps(v, subs2)[k] = Maps(d, subs)[k]
        /\ EntryMaps(d.layer, d.base_vaddr, Maps(v, subs2))
    <3> HIDE DEF e
    <3>1. e.tag # "Directory"
      BY <2>2
    <3> QED
      BY <1>1, <2>1, <2>3, <3>1, Changed
  <2> HIDE DEF e, v
  <2>5. Mi = EmptyMap /\ Maps(v, subs2)[i] = Insert(EmptyMap, base, pte)
    <3>1. v.entries[i] = e /\ base_of_entry(v, i) = base
      BY <1>1, <1>8, <2>4 DEF base_of_entry
    <3> QED
      BY <1>1, <1>8, <2>2, <3>1, MapsAt
  <2>6. M2 = Insert(M, base, pte)
    BY <1>1, <1>2, <1>3, <2>1, <2>4, <2>5, UnionInsert
  <2>7. Free(Mi, base, pte)
    BY <2>5, EmptyDomain DEF Free
  <2>8. IsResult(d, q) /\ Inserted(M, base, pte, q, M2)
    BY <1>4, <2>1, <2>4, <2>6, <2>7 DEF IsResult, Inserted, L0!Ok
  <2>9. Derived(d, v, i, r, GoesBelow(d, i, pte))
    BY <2>2, <2>4 DEF Derived
  <2> QED
    BY <2>1, <2>4, <2>8, <2>9
<1>9. CASE d.entries[i].tag # "Page" /\ ~here
  <2> DEFINE e == DirectoryEntry(r.value)
             v == update(d, i, e)
             c == dir_at(d, i)
             sub == SubAt(d, subs, i)
  <2>1. q = put_back(d, i, r) /\ q.res = r.res /\ q.value = v /\ q = [res |-> r.res, value |-> v]
    BY <1>2, <1>9, MapFrameAt DEF put_back
  <2>2. IsResult(c, r) /\ Content(r.value, sub2) /\ Inserted(sub, base, pte, r, sub2)
    BY <1>9 DEF MappedBelow, GoesBelow
  <2>3. Content(c, sub) /\ c.layer = d.layer + 1 /\ c.base_vaddr = at
    BY <1>1, <1>9, DirAt
  <2>4. sub = Mi
    BY <1>1, <1>2, <1>9, MapsAt DEF SubAt
  <2>5. e.tag = "Directory" /\ e.dir = r.value
    BY DEF DirectoryEntry
  <2>6. DOMAIN sub2 # {}
    <3>1. CASE Free(sub, base, pte)
      BY <2>2, <3>1 DEF Inserted, Insert
    <3>2. CASE ~Free(sub, base, pte)
      <4>1. sub2 = sub
        BY <2>2, <3>2 DEF Inserted
      <4>2. \E b \in DOMAIN sub : TRUE
        BY <3>2 DEF Free
      <4> QED
        BY <4>1, <4>2
    <3> QED
      BY <3>1, <3>2
  <2>7. EntryFits(d, i, e)
    <3> HIDE DEF c, sub, e
    <3>1. ~empty(r.value)
      BY <2>2, <2>6 DEF Content
    <3>2. r.value.layer = d.layer + 1 /\ r.value.base_vaddr = at
      BY <2>2, <2>3 DEF IsResult
    <3> QED
      BY <2>5, <3>1, <3>2 DEF EntryFits
  <2>8. v.entries[i] = e
    BY <1>1, <1>2, UpdateFacts
  <2>9. subs2[i] = sub2
    BY <2>1, <2>8
  <2>10. /\ inv_at(v) /\ SubContents(v, subs2)
         /\ v.layer = d.layer /\ v.base_vaddr = d.base_vaddr
         /\ \A k \in EntryIndex : v.entries[k] = IF k = i THEN e ELSE d.entries[k]
         /\ \A k \in EntryIndex : k # i => Maps(v, subs2)[k] = Maps(d, subs)[k]
         /\ EntryMaps(d.layer, d.base_vaddr, Maps(v, subs2))
    <3> HIDE DEF e
    <3>1. Content(e.dir, subs2[i])
      BY <2>2, <2>5, <2>9
    <3> QED
      BY <1>1, <2>1, <2>7, <3>1, Changed
  <2> HIDE DEF e, v, c, sub
  <2>11. Maps(v, subs2)[i] = sub2
    BY <1>1, <2>5, <2>9, <2>10, MapsAt
  <2>12. Inserted(M, base, pte, q, M2)
    <3>1. CASE Free(Mi, base, pte)
      <4>1. r.res = "Ok" /\ sub2 = Insert(Mi, base, pte)
        BY <2>2, <2>4, <3>1 DEF Inserted
      <4>2. M2 = Insert(M, base, pte)
        BY <1>1, <1>2, <1>3, <2>1, <2>10, <2>11, <4>1, UnionInsert
      <4> QED
        BY <1>4, <2>1, <3>1, <4>1, <4>2 DEF Inserted
    <3>2. CASE ~Free(Mi, base, pte)
      <4>1. r.res = "Err" /\ sub2 = Mi
        BY <2>2, <2>4, <3>2 DEF Inserted
      <4>2. \A k \in EntryIndex : Maps(v, subs2)[k] = Maps(d, subs)[k]
        BY <2>10, <2>11, <4>1
      <4>3. M2 = M
        BY <1>2, <1>3, <2>1, <4>2, UnionSame
      <4> QED
        BY <1>4, <2>1, <3>2, <4>1, <4>3 DEF Inserted
    <3> QED
      BY <3>1, <3>2
  <2>13. IsResult(d, q)
    BY <2>1, <2>10 DEF IsResult
  <2>14. Derived(d, v, i, r, GoesBelow(d, i, pte))
    BY <1>9, <2>10 DEF Derived, GoesBelow, e
  <2> QED
    BY <2>1, <2>10, <2>12, <2>13, <2>14
<1> QED
  BY <1>2, <1>6, <1>7, <1>8, <1>9

LEMMA MapBelow ==
  ASSUME NEW d, inv_at(d), NEW base \in Nat, NEW pte, accepted_mapping(d, base, pte),
         NEW i, i = index_in(d, base), NEW c, c.layer = d.layer + 1,
         upper_vaddr_of(c) = base_of_entry(d, i) + entry_size(d.layer),
         c.base_vaddr = base_of_entry(d, i), entry_size(d.layer) # pte.frame.size
  PROVE  accepted_mapping(c, base, pte)
<1>1. /\ base_of_entry(d, i) <= base
      /\ base + pte.frame.size <= base_of_entry(d, i) + entry_size(d.layer)
      /\ contains_entry_size_at_index_atleast(pte.frame.size, d.layer + 1)
  BY MapEntry
<1> QED
  BY <1>1 DEF accepted_mapping

LEMMA SubsBelow ==
  ASSUME NEW d, NEW v
  PROVE  /\ SameBelow(d, Subs0(d), v, Subs0(v)) /\ SameBelow(d, Subs1(d), v, Subs1(v))
         /\ SameBelow(d, Subs2(d), v, Subs2(v)) /\ SameBelow(d, Subs3(d), v, Subs3(v))
BY DEF SameBelow, Subs0, Subs1, Subs2, Subs3

LEMMA DirAt2 ==
  ASSUME NEW d, inv2(d), d.layer = 2, NEW i \in EntryIndex, d.entries[i].tag # "Page"
  PROVE  LET c == dir_at(d, i)
         IN  /\ inv3(c) /\ interp3(c) = SubAt(d, Subs2(d), i) /\ c.layer = 3
             /\ c.base_vaddr = base_of_entry(d, i)
             /\ upper_vaddr_of(c) = base_of_entry(d, i) + entry_size(d.layer)
<1> DEFINE c == dir_at(d, i)
<1>1. inv_at(d) /\ d.layer \in 0 .. 2 /\ SubContents(d, Subs2(d))
  BY Contents2 DEF inv2
<1>2. /\ Content(c, SubAt(d, Subs2(d), i)) /\ c.layer = 3 /\ c.base_vaddr = base_of_entry(d, i)
      /\ upper_vaddr_of(c) = base_of_entry(d, i) + entry_size(d.layer)
  BY <1>1, DirAt
<1>3. CASE d.entries[i].tag = "Directory"
  <2>1. c = d.entries[i].dir /\ i \in entries_with(d, "Directory")
    BY <1>1, <1>3, EntryFacts DEF dir_at
  <2>2. inv3(c)
    BY <2>1 DEF inv2
  <2>3. interp3(c) = SubAt(d, Subs2(d), i)
    BY <1>3, <2>1 DEF SubAt, Subs2
  <2> QED
    BY <1>2, <2>2, <2>3
<1>4. CASE d.entries[i].tag = "Empty"
  <2>1. c = new_empty_dir(d, i) /\ SubAt(d, Subs2(d), i) = EmptyMap
    BY <1>4 DEF dir_at, SubAt
  <2>2. inv_at(c) /\ entries_with(c, "Directory") = {} /\ empty(c)
    BY <1>1, <2>1, NewDirectory
  <2> HIDE DEF c
  <2>3. inv3(c)
    BY <2>2 DEF inv3
  <2>4. DOMAIN interp3(c) = {} /\ Fits(interp3(c), c.base_vaddr, upper_vaddr_of(c))
    BY <2>2, <2>3, Contents3 DEF Content
  <2>5. interp3(c) = EmptyMap
    BY <2>4, NoDomain
  <2> QED
    BY <1>2, <2>1, <2>3, <2>5 DEF c
<1> QED
  BY <1>1, <1>3, <1>4, EntryFacts

LEMMA DirAt1 ==
  ASSUME NEW d, inv1(d), d.layer = 1, NEW i \in EntryIndex, d.entries[i].tag # "Page"
  PROVE  LET c == dir_at(d, i)
         IN  /\ inv2(c) /\ interp2(c) = SubAt(d, Subs1(d), i) /\ c.layer = 2
             /\ c.base_vaddr = base_of_entry(d, i)
             /\ upper_vaddr_of(c) = base_of_entry(d, i) + entry_size(d.layer)
<1> DEFINE c == dir_at(d, i)
<1>1. inv_at(d) /\ d.layer \in 0 .. 2 /\ SubContents(d, Subs1(d))
  BY Contents1 DEF inv1
<1>2. /\ Content(c, SubAt(d, Subs1(d), i)) /\ c.layer = 2 /\ c.base_vaddr = base_of_entry(d, i)
      /\ upper_vaddr_of(c) = base_of_entry(d, i) + entry_size(d.layer)
  BY <1>1, DirAt
<1>3. CASE d.entries[i].tag = "Directory"
  <2>1. c = d.entries[i].dir /\ i \in entries_with(d, "Directory")
    BY <1>1, <1>3, EntryFacts DEF dir_at
  <2>2. inv2(c)
    BY <2>1 DEF inv1
  <2>3. interp2(c) = SubAt(d, Subs1(d), i)
    BY <1>3, <2>1 DEF SubAt, Subs1
  <2> QED
    BY <1>2, <2>2, <2>3
<1>4. CASE d.entries[i].tag = "Empty"
  <2>1. c = new_empty_dir(d, i) /\ SubAt(d, Subs1(d), i) = EmptyMap
    BY <1>4 DEF dir_at, SubAt
  <2>2. inv_at(c) /\ entries_with(c, "Directory") = {} /\ empty(c)
    BY <1>1, <2>1, NewDirectory
  <2> HIDE DEF c
  <2>3. inv2(c)
    BY <2>2 DEF inv2
  <2>4. DOMAIN interp2(c) = {} /\ Fits(interp2(c), c.base_vaddr, upper_vaddr_of(c))
    BY <2>2, <2>3, Contents2 DEF Content
  <2>5. interp2(c) = EmptyMap
    BY <2>4, NoDomain
  <2> QED
    BY <1>2, <2>1, <2>3, <2>5 DEF c
<1> QED
  BY <1>1, <1>3, <1>4, EntryFacts

LEMMA DirAt0 ==
  ASSUME NEW d, inv(d), d.layer = 0, NEW i \in EntryIndex, d.entries[i].tag # "Page"
  PROVE  LET c == dir_at(d, i)
         IN  /\ inv1(c) /\ interp1(c) = SubAt(d, Subs0(d), i) /\ c.layer = 1
             /\ c.base_vaddr = base_of_entry(d, i)
             /\ upper_vaddr_of(c) = base_of_entry(d, i) + entry_size(d.layer)
<1> DEFINE c == dir_at(d, i)
<1>1. inv_at(d) /\ d.layer \in 0 .. 2 /\ SubContents(d, Subs0(d))
  BY Contents0 DEF inv
<1>2. /\ Content(c, SubAt(d, Subs0(d), i)) /\ c.layer = 1 /\ c.base_vaddr = base_of_entry(d, i)
      /\ upper_vaddr_of(c) = base_of_entry(d, i) + entry_size(d.layer)
  BY <1>1, DirAt
<1>3. CASE d.entries[i].tag = "Directory"
  <2>1. c = d.entries[i].dir /\ i \in entries_with(d, "Directory")
    BY <1>1, <1>3, EntryFacts DEF dir_at
  <2>2. inv1(c)
    BY <2>1 DEF inv
  <2>3. interp1(c) = SubAt(d, Subs0(d), i)
    BY <1>3, <2>1 DEF SubAt, Subs0
  <2> QED
    BY <1>2, <2>2, <2>3
<1>4. CASE d.entries[i].tag = "Empty"
  <2>1. c = new_empty_dir(d, i) /\ SubAt(d, Subs0(d), i) = EmptyMap
    BY <1>4 DEF dir_at, SubAt
  <2>2. inv_at(c) /\ entries_with(c, "Directory") = {} /\ empty(c)
    BY <1>1, <2>1, NewDirectory
  <2> HIDE DEF c
  <2>3. inv1(c)
    BY <2>2 DEF inv1
  <2>4. DOMAIN interp1(c) = {} /\ Fits(interp1(c), c.base_vaddr, upper_vaddr_of(c))
    BY <2>2, <2>3, Contents1 DEF Content
  <2>5. interp1(c) = EmptyMap
    BY <2>4, NoDomain
  <2> QED
    BY <1>2, <2>1, <2>3, <2>5 DEF c
<1> QED
  BY <1>1, <1>3, <1>4, EntryFacts

LEMMA MapRefines3 ==
  ASSUME NEW d, inv3(d), d.layer = 3, NEW base \in Nat, NEW pte, accepted_mapping(d, base, pte)
  PROVE  LET q == map_frame3(d, base, pte)
         IN  /\ IsResult(d, q) /\ inv3(q.value)
             /\ Inserted(interp3(d), base, pte, q, interp3(q.value))
<1> DEFINE i == index_in(d, base)
           r == L0!Err(d)
           q == map_frame3(d, base, pte)
           sub2 == Subs3(q.value)[i]
<1>1. inv_at(d) /\ entries_with(d, "Directory") = {} /\ SubContents(d, Subs3(d))
  BY Contents3 DEF inv3
<1>2. q = map_frame_at(d, base, pte, r)
  BY DEF map_frame3
<1>3. SameBelow(d, Subs3(d), q.value, Subs3(q.value))
  BY SubsBelow
<1>4. entry_size(d.layer) = pte.frame.size
  BY <1>1, MapEntry
<1> HIDE DEF q, r, i
<1>5. i = index_in(d, base)
  BY DEF i
<1>6. /\ IsResult(d, q) /\ inv_at(q.value)
      /\ Derived(d, q.value, i, r, GoesBelow(d, i, pte))
      /\ Inserted(union_of(Maps(d, Subs3(d))), base, pte, q, union_of(Maps(q.value, Subs3(q.value))))
  <2>1. MappedBelow(d, Subs3(d), i, base, pte, r, sub2)
    BY <1>4 DEF MappedBelow, GoesBelow
  <2>2. q.value.entries[i] = DirectoryEntry(r.value) => Subs3(q.value)[i] = sub2
    OBVIOUS
  <2> HIDE DEF sub2
  <2> QED
    BY <1>1, <1>2, <1>3, <1>5, <2>1, <2>2, MapStep
<1>7. entries_with(q.value, "Directory") = {}
  <2> SUFFICES ASSUME NEW k \in entries_with(q.value, "Directory") PROVE FALSE
    OBVIOUS
  <2>1. k \in EntryIndex /\ q.value.entries[k].tag = "Directory"
    BY <1>6 DEF entries_with, inv_at, well_formed
  <2>2. q.value.entries[k] = d.entries[k]
    BY <1>4, <1>6, <2>1 DEF Derived, GoesBelow
  <2> QED
    BY <1>1, <2>1, <2>2, EntryFacts
<1> QED
  BY <1>6, <1>7, InterpIsUnion DEF inv3, q

LEMMA MapRefines2 ==
  ASSUME NEW d, inv2(d), d.layer = 2, NEW base \in Nat, NEW pte, accepted_mapping(d, base, pte)
  PROVE  LET q == map_frame2(d, base, pte)
         IN  /\ IsResult(d, q) /\ inv2(q.value)
             /\ Inserted(interp2(d), base, pte, q, interp2(q.value))
<1> DEFINE i == index_in(d, base)
           c == dir_at(d, i)
           r == map_frame3(c, base, pte)
           q == map_frame2(d, base, pte)
           sub2 == interp3(r.value)
           down == GoesBelow(d, i, pte)
<1>1. inv_at(d) /\ SubContents(d, Subs2(d))
  BY Contents2 DEF inv2
<1>2. q = map_frame_at(d, base, pte, r)
  BY DEF map_frame2
<1>3. SameBelow(d, Subs2(d), q.value, Subs2(q.value))
  BY SubsBelow
<1>4. i \in EntryIndex
  BY <1>1, MapEntry
<1>5. q.value.entries[i] = DirectoryEntry(r.value) => Subs2(q.value)[i] = sub2
  BY <1>4 DEF Subs2, DirectoryEntry
<1> HIDE DEF q, r, i, c
<1>6. i = index_in(d, base)
  BY DEF i
<1>7. ASSUME down
      PROVE  /\ IsResult(c, r) /\ inv3(r.value) /\ Content(r.value, sub2)
             /\ Inserted(SubAt(d, Subs2(d), i), base, pte, r, sub2)
  <2>1. /\ inv3(c) /\ interp3(c) = SubAt(d, Subs2(d), i) /\ c.layer = 3
        /\ c.base_vaddr = base_of_entry(d, i)
        /\ upper_vaddr_of(c) = base_of_entry(d, i) + entry_size(d.layer)
    BY <1>4, <1>7, DirAt2 DEF c, GoesBelow
  <2>2. accepted_mapping(c, base, pte)
    BY <1>1, <1>6, <1>7, <2>1, MapBelow DEF GoesBelow
  <2>3. /\ IsResult(c, r) /\ inv3(r.value)
        /\ Inserted(interp3(c), base, pte, r, interp3(r.value))
    BY <2>1, <2>2, MapRefines3 DEF r
  <2> QED
    BY <2>1, <2>3, Contents3
<1> HIDE DEF sub2
<1>8. /\ IsResult(d, q) /\ inv_at(q.value) /\ Derived(d, q.value, i, r, down)
      /\ Inserted(union_of(Maps(d, Subs2(d))), base, pte, q, union_of(Maps(q.value, Subs2(q.value))))
  <2>1. MappedBelow(d, Subs2(d), i, base, pte, r, sub2)
    BY <1>7 DEF MappedBelow, c
  <2> QED
    BY <1>1, <1>2, <1>3, <1>5, <1>6, <2>1, MapStep
<1>9. ASSUME NEW k \in entries_with(q.value, "Directory") PROVE inv3(q.value.entries[k].dir)
  <2>1. k \in EntryIndex /\ q.value.entries[k].tag = "Directory"
    BY <1>8 DEF entries_with, inv_at, well_formed
  <2>2. CASE q.value.entries[k] = d.entries[k]
    <3>1. k \in entries_with(d, "Directory")
      BY <1>1, <2>1, <2>2, EntryFacts
    <3> QED
      BY <2>2, <3>1 DEF inv2
  <2>3. CASE down /\ q.value.entries[k] = DirectoryEntry(r.value)
    BY <1>7, <2>3 DEF DirectoryEntry
  <2> QED
    BY <1>8, <2>1, <2>2, <2>3 DEF Derived
<1> QED
  BY <1>8, <1>9, InterpIsUnion DEF inv2, q

LEMMA MapRefines1 ==
  ASSUME NEW d, inv1(d), d.layer = 1, NEW base \in Nat, NEW pte, accepted_mapping(d, base, pte)
  PROVE  LET q == map_frame1(d, base, pte)
         IN  /\ IsResult(d, q) /\ inv1(q.value)
             /\ Inserted(interp1(d), base, pte, q, interp1(q.value))
<1> DEFINE i == index_in(d, base)
           c == dir_at(d, i)
           r == map_frame2(c, base, pte)
           q == map_frame1(d, base, pte)
           sub2 == interp2(r.value)
           down == GoesBelow(d, i, pte)
<1>1. inv_at(d) /\ SubContents(d, Subs1(d))
  BY Contents1 DEF inv1
<1>2. q = map_frame_at(d, base, pte, r)
  BY DEF map_frame1
<1>3. SameBelow(d, Subs1(d), q.value, Subs1(q.value))
  BY SubsBelow
<1>4. i \in EntryIndex
  BY <1>1, MapEntry
<1>5. q.value.entries[i] = DirectoryEntry(r.value) => Subs1(q.value)[i] = sub2
  BY <1>4 DEF Subs1, DirectoryEntry
<1> HIDE DEF q, r, i, c
<1>6. i = index_in(d, base)
  BY DEF i
<1>7. ASSUME down
      PROVE  /\ IsResult(c, r) /\ inv2(r.value) /\ Content(r.value, sub2)
             /\ Inserted(SubAt(d, Subs1(d), i), base, pte, r, sub2)
  <2>1. /\ inv2(c) /\ interp2(c) = SubAt(d, Subs1(d), i) /\ c.layer = 2
        /\ c.base_vaddr = base_of_entry(d, i)
        /\ upper_vaddr_of(c) = base_of_entry(d, i) + entry_size(d.layer)
    BY <1>4, <1>7, DirAt1 DEF c, GoesBelow
  <2>2. accepted_mapping(c, base, pte)
    BY <1>1, <1>6, <1>7, <2>1, MapBelow DEF GoesBelow
  <2>3. /\ IsResult(c, r) /\ inv2(r.value)
        /\ Inserted(interp2(c), base, pte, r, interp2(r.value))
    BY <2>1, <2>2, MapRefines2 DEF r
  <2> QED
    BY <2>1, <2>3, Contents2
<1> HIDE DEF sub2
<1>8. /\ IsResult(d, q) /\ inv_at(q.value) /\ Derived(d, q.value, i, r, down)
      /\ Inserted(union_of(Maps(d, Subs1(d))), base, pte, q, union_of(Maps(q.value, Subs1(q.value))))
  <2>1. MappedBelow(d, Subs1(d), i, base, pte, r, sub2)
    BY <1>7 DEF MappedBelow, c
  <2> QED
    BY <1>1, <1>2, <1>3, <1>5, <1>6, <2>1, MapStep
<1>9. ASSUME NEW k \in entries_with(q.value, "Directory") PROVE inv2(q.value.entries[k].dir)
  <2>1. k \in EntryIndex /\ q.value.entries[k].tag = "Directory"
    BY <1>8 DEF entries_with, inv_at, well_formed
  <2>2. CASE q.value.entries[k] = d.entries[k]
    <3>1. k \in entries_with(d, "Directory")
      BY <1>1, <2>1, <2>2, EntryFacts
    <3> QED
      BY <2>2, <3>1 DEF inv1
  <2>3. CASE down /\ q.value.entries[k] = DirectoryEntry(r.value)
    BY <1>7, <2>3 DEF DirectoryEntry
  <2> QED
    BY <1>8, <2>1, <2>2, <2>3 DEF Derived
<1> QED
  BY <1>8, <1>9, InterpIsUnion DEF inv1, q

LEMMA MapRefines0 ==
  ASSUME NEW d, inv(d), d.layer = 0, NEW base \in Nat, NEW pte, accepted_mapping(d, base, pte)
  PROVE  LET q == map_frame(d, base, pte)
         IN  /\ IsResult(d, q) /\ inv(q.value)
             /\ Inserted(interp0(d), base, pte, q, interp0(q.value))
<1> DEFINE i == index_in(d, base)
           c == dir_at(d, i)
           r == map_frame1(c, base, pte)
           q == map_frame(d, base, pte)
           sub2 == interp1(r.value)
           down == GoesBelow(d, i, pte)
<1>1. inv_at(d) /\ SubContents(d, Subs0(d))
  BY Contents0 DEF inv
<1>2. q = map_frame_at(d, base, pte, r)
  BY DEF map_frame
<1>3. SameBelow(d, Subs0(d), q.value, Subs0(q.value))
  BY SubsBelow
<1>4. i \in EntryIndex
  BY <1>1, MapEntry
<1>5. q.value.entries[i] = DirectoryEntry(r.value) => Subs0(q.value)[i] = sub2
  BY <1>4 DEF Subs0, DirectoryEntry
<1> HIDE DEF q, r, i, c
<1>6. i = index_in(d, base)
  BY DEF i
<1>7. ASSUME down
      PROVE  /\ IsResult(c, r) /\ inv1(r.value) /\ Content(r.value, sub2)
             /\ Inserted(SubAt(d, Subs0(d), i), base, pte, r, sub2)
  <2>1. /\ inv1(c) /\ interp1(c) = SubAt(d, Subs0(d), i) /\ c.layer = 1
        /\ c.base_vaddr = base_of_entry(d, i)
        /\ upper_vaddr_of(c) = base_of_entry(d, i) + entry_size(d.layer)
    BY <1>4, <1>7, DirAt0 DEF c, GoesBelow
  <2>2. accepted_mapping(c, base, pte)
    BY <1>1, <1>6, <1>7, <2>1, MapBelow DEF GoesBelow
  <2>3. /\ IsResult(c, r) /\ inv1(r.value)
        /\ Inserted(interp1(c), base, pte, r, interp1(r.value))
    BY <2>1, <2>2, MapRefines1 DEF r
  <2> QED
    BY <2>1, <2>3, Contents1
<1> HIDE DEF sub2
<1>8. /\ IsResult(d, q) /\ inv_at(q.value) /\ Derived(d, q.value, i, r, down)
      /\ Inserted(union_of(Maps(d, Subs0(d))), base, pte, q, union_of(Maps(q.value, Subs0(q.value))))
  <2>1. MappedBelow(d, Subs0(d), i, base, pte, r, sub2)
    BY <1>7 DEF MappedBelow, c
  <2> QED
    BY <1>1, <1>2, <1>3, <1>5, <1>6, <2>1, MapStep
<1>9. ASSUME NEW k \in entries_with(q.value, "Directory") PROVE inv1(q.value.entries[k].dir)
  <2>1. k \in EntryIndex /\ q.value.entries[k].tag = "Directory"
    BY <1>8 DEF entries_with, inv_at, well_formed
  <2>2. CASE q.value.entries[k] = d.entries[k]
    <3>1. k \in entries_with(d, "Directory")
      BY <1>1, <2>1, <2>2, EntryFacts
    <3> QED
      BY <2>2, <3>1 DEF inv
  <2>3. CASE down /\ q.value.entries[k] = DirectoryEntry(r.value)
    BY <1>7, <2>3 DEF DirectoryEntry
  <2> QED
    BY <1>8, <2>1, <2>2, <2>3 DEF Derived
<1> QED
  BY <1>8, <1>9, InterpIsUnion DEF inv, q

-----------------------------------------------------------------------------
(* unmap *)

(* The map becomes M2, with the result of r. *)
Removed(M, base, r, M2) ==
  IF base \in DOMAIN M
  THEN r.res = "Ok" /\ M2 = Remove(M, base)
  ELSE r.res = "Err" /\ M2 = M

(* The entry at an address, and what is found there. *)
LEMMA EntryAt ==
  ASSUME NEW d, inv_at(d), NEW vaddr \in Nat, Covers(d.layer, d.base_vaddr, vaddr),
         NEW i, i = index_in(d, vaddr)
  PROVE  /\ i \in EntryIndex /\ i = index_for_vaddr(d.layer, d.base_vaddr, vaddr)
         /\ base_of_entry(d, i) <= vaddr /\ vaddr < base_of_entry(d, i) + entry_size(d.layer)
<1>1. d.layer \in Layer /\ d.base_vaddr \in Nat
  BY DEF inv_at, well_formed
<1> QED
  BY <1>1, IndexInDirectory DEF index_in, base_of_entry

LEMMA UnionHas ==
  ASSUME NEW l \in Layer, NEW start \in Nat, NEW maps, EntryMaps(l, start, maps),
         NEW i \in EntryIndex, NEW va, i = index_for_vaddr(l, start, va)
  PROVE  va \in DOMAIN union_of(maps) <=> va \in DOMAIN maps[i]
<1>1. va \in DOMAIN maps[i] => va \in DOMAIN union_of(maps)
  BY UnionDomain
<1>2. ASSUME va \in DOMAIN union_of(maps) PROVE va \in DOMAIN maps[i]
  <2>1. PICK k \in EntryIndex : va \in DOMAIN maps[k]
    BY <1>2, UnionDomain
  <2>2. k = i
    BY <2>1, UnionAt
  <2> QED
    BY <2>1, <2>2
<1> QED
  BY <1>1, <1>2

LEMMA UnmapAt ==
  ASSUME NEW d, NEW base, NEW r, NEW i, i = index_in(d, base),
         d.entries[i].tag \in {"Directory", "Page", "Empty"}
  PROVE  LET at == aligned(base, entry_size(d.layer))
             gone == r.res = "Ok" /\ empty(r.value)
             clear == L0!Ok(update(d, i, EmptyEntry))
             q == unmap_at(d, base, r)
         IN  /\ d.entries[i].tag = "Empty" => q = L0!Err(d)
             /\ d.entries[i].tag = "Page" /\ at => q = clear
             /\ d.entries[i].tag = "Page" /\ ~at => q = L0!Err(d)
             /\ d.entries[i].tag = "Directory" /\ gone => q = clear
             /\ d.entries[i].tag = "Directory" /\ ~gone => q = put_back(d, i, r)
BY DEF unmap_at, unmap_page

(* What unmap did in the directory at entry i, if there is one. *)
UnmappedBelow(d, subs, i, base, r, sub2) ==
  d.entries[i].tag = "Directory" =>
    /\ IsResult(d.entries[i].dir, r) /\ Content(r.value, sub2)
    /\ Removed(subs[i], base, r, sub2)

(* unmap in one directory, given what it does below. *)
LEMMA UnmapStep ==
  ASSUME NEW d, inv_at(d), NEW subs, SubContents(d, subs),
         NEW base \in Nat, Covers(d.layer, d.base_vaddr, base),
         NEW i, i = index_in(d, base), NEW r, NEW q, q = unmap_at(d, base, r),
         NEW sub2, UnmappedBelow(d, subs, i, base, r, sub2),
         NEW subs2, SameBelow(d, subs, q.value, subs2),
         q.value.entries[i] = DirectoryEntry(r.value) => subs2[i] = sub2
  PROVE  /\ IsResult(d, q) /\ inv_at(q.value) /\ SubContents(q.value, subs2)
         /\ Derived(d, q.value, i, r, d.entries[i].tag = "Directory")
         /\ Removed(union_of(Maps(d, subs)), base, q, union_of(Maps(q.value, subs2)))
<1> DEFINE M == union_of(Maps(d, subs))
           M2 == union_of(Maps(q.value, subs2))
           Mi == Maps(d, subs)[i]
           at == base_of_entry(d, i)
           clear == update(d, i, EmptyEntry)
           below == d.entries[i].tag = "Directory"
<1>1. /\ i \in EntryIndex /\ i = index_for_vaddr(d.layer, d.base_vaddr, base)
      /\ at <= base /\ base < at + entry_size(d.layer)
  BY EntryAt
<1>2. /\ d.layer \in Layer /\ d.base_vaddr \in Nat /\ at \in Nat
      /\ at = entry_base(d.layer, d.base_vaddr, i) /\ aligned(at, entry_size(d.layer))
      /\ DOMAIN d.entries = EntryIndex
      /\ d.entries[i].tag \in {"Directory", "Page", "Empty"}
  BY <1>1, EntryFacts
<1>3. EntryMaps(d.layer, d.base_vaddr, Maps(d, subs))
  BY MapsFit
<1>4. base \in DOMAIN M <=> base \in DOMAIN Mi
  BY <1>1, <1>2, <1>3, UnionHas
<1>5. ASSUME q = L0!Err(d), base \notin DOMAIN Mi
      PROVE  /\ IsResult(d, q) /\ inv_at(q.value) /\ SubContents(q.value, subs2)
             /\ Derived(d, q.value, i, r, below) /\ Removed(M, base, q, M2)
  <2>1. q.res = "Err" /\ q.value = d /\ IsResult(d, q)
    BY <1>5 DEF L0!Err, IsResult
  <2>2. SubContents(d, subs2) /\ M2 = M
    BY <2>1, Unchanged
  <2> QED
    BY <1>4, <1>5, <2>1, <2>2 DEF Derived, Removed
<1>6. ASSUME q = L0!Ok(clear), base \in DOMAIN Mi, Remove(Mi, base) = EmptyMap
      PROVE  /\ IsResult(d, q) /\ inv_at(q.value) /\ SubContents(q.value, subs2)
             /\ Derived(d, q.value, i, r, below) /\ Removed(M, base, q, M2)
  <2> HIDE DEF clear
  <2>1. q.res = "Ok" /\ q.value = clear /\ q = [res |-> q.res, value |-> q.value]
    BY <1>6 DEF L0!Ok
  <2>2. EntryFits(d, i, EmptyEntry) /\ EmptyEntry.tag = "Empty"
    BY DEF EntryFits, EmptyEntry
  <2>3. /\ inv_at(clear) /\ SubContents(clear, subs2)
        /\ clear.layer = d.layer /\ clear.base_vaddr = d.base_vaddr
        /\ \A k \in EntryIndex : clear.entries[k] = IF k = i THEN EmptyEntry ELSE d.entries[k]
        /\ \A k \in EntryIndex : k # i => Maps(clear, subs2)[k] = Maps(d, subs)[k]
        /\ EntryMaps(d.layer, d.base_vaddr, Maps(clear, subs2))
    <3>1. EmptyEntry.tag # "Directory"
      BY <2>2
    <3> QED
      BY <1>1, <2>1, <2>2, <3>1, Changed DEF clear
  <2>4. Maps(clear, subs2)[i] = EmptyMap
    BY <1>1, <2>2, <2>3, MapsAt
  <2>5. M2 = Remove(M, base)
    <3>1. Maps(clear, subs2)[i] = Remove(Mi, base)
      BY <1>6, <2>4
    <3> QED
      BY <1>1, <1>2, <1>3, <1>6, <2>1, <2>3, <3>1, UnionRemove
  <2>6. Derived(d, clear, i, r, below)
    BY <2>2, <2>3 DEF Derived
  <2> QED
    BY <1>4, <1>6, <2>1, <2>3, <2>5, <2>6 DEF IsResult, Removed
<1>7. CASE d.entries[i].tag = "Empty"
  <2>1. q = L0!Err(d)
    BY <1>7, UnmapAt
  <2>2. base \notin DOMAIN Mi
    BY <1>1, <1>7, MapsAt, EmptyDomain
  <2> QED
    BY <1>5, <2>1, <2>2
<1>8. CASE d.entries[i].tag = "Page"
  <2>1. Mi = Insert(EmptyMap, at, d.entries[i].pte)
    BY <1>1, <1>8, MapsAt
  <2> HIDE DEF Mi, at, clear
  <2>2. DOMAIN Mi = {at}
    BY <2>1, OnePage
  <2>3. CASE aligned(base, entry_size(d.layer))
    <3>1. base = at
      BY <1>1, <1>2, <2>3, AlignedInEntry
    <3>2. Remove(Mi, base) = EmptyMap
      BY <2>2, <3>1 DEF Remove, EmptyMap
    <3>3. q = L0!Ok(clear)
      BY <1>2, <1>8, <2>3, UnmapAt DEF clear
    <3> QED
      BY <1>6, <2>2, <3>1, <3>2, <3>3
  <2>4. CASE ~aligned(base, entry_size(d.layer))
    <3>1. base # at
      BY <1>2, <2>4
    <3>2. q = L0!Err(d)
      BY <1>2, <1>8, <2>4, UnmapAt
    <3> QED
      BY <1>5, <2>2, <3>1, <3>2
  <2> QED
    BY <2>3, <2>4
<1>9. CASE d.entries[i].tag = "Directory"
  <2>1. Mi = subs[i] /\ Content(d.entries[i].dir, subs[i]) /\ ~empty(d.entries[i].dir)
    <3>1. Mi = subs[i] /\ i \in entries_with(d, "Directory") /\ ~empty(d.entries[i].dir)
      BY <1>1, <1>9, MapsAt, EntryFacts
    <3> QED
      BY <3>1 DEF SubContents
  <2>2. /\ IsResult(d.entries[i].dir, r) /\ Content(r.value, sub2)
        /\ Removed(Mi, base, r, sub2)
    BY <1>9, <2>1 DEF UnmappedBelow
  <2>3. CASE r.res = "Ok" /\ empty(r.value)
    <3>1. q = L0!Ok(clear)
      BY <1>2, <1>9, <2>3, UnmapAt
    <3> HIDE DEF Mi, clear
    <3>2. base \in DOMAIN Mi /\ sub2 = Remove(Mi, base)
      BY <2>2, <2>3 DEF Removed
    <3>3. sub2 = EmptyMap
      BY <2>2, <2>3, NoDomain DEF Content
    <3> QED
      BY <1>6, <3>1, <3>2, <3>3
  <2>4. CASE ~(r.res = "Ok" /\ empty(r.value))
    <3> DEFINE e == DirectoryEntry(r.value)
               v == update(d, i, e)
    <3>1. q = put_back(d, i, r) /\ q.res = r.res /\ q.value = v /\ q = [res |-> r.res, value |-> v]
      BY <1>2, <1>9, <2>4, UnmapAt DEF put_back
    <3>2. e.tag = "Directory" /\ e.dir = r.value
      BY DEF DirectoryEntry
    <3>3. ~empty(r.value)
      <4>1. CASE r.res = "Ok"
        BY <2>4, <4>1
      <4>2. CASE r.res # "Ok"
        <5>1. sub2 = Mi
          BY <2>2, <4>2 DEF Removed
        <5>2. DOMAIN Mi # {}
          BY <2>1 DEF Content
        <5> QED
          BY <2>2, <5>1, <5>2 DEF Content
      <4> QED
        BY <4>1, <4>2
    <3>4. EntryFits(d, i, e)
      <4> HIDE DEF e
      <4>1. r.value.layer = d.layer + 1 /\ r.value.base_vaddr = at
        BY <1>1, <1>9, <2>2, EntryFacts DEF IsResult
      <4> QED
        BY <3>2, <3>3, <4>1 DEF EntryFits
    <3>5. v.entries[i] = e
      BY <1>1, <1>2, UpdateFacts
    <3>6. subs2[i] = sub2
      BY <3>1, <3>5
    <3>7. /\ inv_at(v) /\ SubContents(v, subs2)
          /\ v.layer = d.layer /\ v.base_vaddr = d.base_vaddr
          /\ \A k \in EntryIndex : v.entries[k] = IF k = i THEN e ELSE d.entries[k]
          /\ \A k \in EntryIndex : k # i => Maps(v, subs2)[k] = Maps(d, subs)[k]
          /\ EntryMaps(d.layer, d.base_vaddr, Maps(v, subs2))
      <4> HIDE DEF e
      <4>1. Content(e.dir, subs2[i])
        BY <2>2, <3>2, <3>6
      <4> QED
        BY <1>1, <3>1, <3>4, <4>1, Changed
    <3> HIDE DEF e, v
    <3>8. Maps(v, subs2)[i] = sub2
      BY <1>1, <3>2, <3>6, <3>7, MapsAt
    <3>9. Removed(M, base, q, M2)
      <4>1. CASE base \in DOMAIN Mi
        <5>1. r.res = "Ok" /\ sub2 = Remove(Mi, base)
          BY <2>2, <4>1 DEF Removed
        <5>2. M2 = Remove(M, base)
          BY <1>1, <1>2, <1>3, <3>1, <3>7, <3>8, <4>1, <5>1, UnionRemove
        <5> QED
          BY <1>4, <3>1, <4>1, <5>1, <5>2 DEF Removed
      <4>2. CASE base \notin DOMAIN Mi
        <5>1. r.res = "Err" /\ sub2 = Mi
          BY <2>2, <4>2 DEF Removed
        <5>2. \A k \in EntryIndex : Maps(v, subs2)[k] = Maps(d, subs)[k]
          BY <3>7, <3>8, <5>1
        <5>3. M2 = M
          BY <1>2, <1>3, <3>1, <5>2, UnionSame
        <5> QED
          BY <1>4, <3>1, <4>2, <5>1, <5>3 DEF Removed
      <4> QED
        BY <4>1, <4>2
    <3>10. IsResult(d, q)
      BY <3>1, <3>7 DEF IsResult
    <3>11. Derived(d, v, i, r, below)
      BY <1>9, <3>7 DEF Derived, e
    <3> QED
      BY <3>1, <3>7, <3>9, <3>10, <3>11
  <2> QED
    BY <2>3, <2>4
<1> QED
  BY <1>2, <1>7, <1>8, <1>9

LEMMA CoversEntry ==
  ASSUME NEW d, inv_at(d), NEW vaddr \in Nat, Covers(d.layer, d.base_vaddr, vaddr),
         NEW i, i = index_in(d, vaddr), d.entries[i].tag = "Directory", inv_at(d.entries[i].dir)
  PROVE  Covers(d.entries[i].dir.layer, d.entries[i].dir.base_vaddr, vaddr)
<1> DEFINE c == d.entries[i].dir
<1>1. /\ i \in EntryIndex
      /\ base_of_entry(d, i) <= vaddr /\ vaddr < base_of_entry(d, i) + entry_size(d.layer)
  BY EntryAt
<1>2. c.layer = d.layer + 1 /\ c.base_vaddr = base_of_entry(d, i)
  BY <1>1, EntryFacts
<1>3. upper_vaddr_of(c) = base_of_entry(d, i) + entry_size(d.layer)
  BY <1>1, <1>2, SubRange
<1> QED
  BY <1>1, <1>2, <1>3 DEF Covers, upper_vaddr_of

LEMMA UnmapRefines3 ==
  ASSUME NEW d, inv3(d), d.layer = 3, NEW base \in Nat, Covers(d.layer, d.base_vaddr, base)
  PROVE  LET q == unmap3(d, base)
         IN  /\ IsResult(d, q) /\ inv3(q.value)
             /\ Removed(interp3(d), base, q, interp3(q.value))
<1> DEFINE i == index_in(d, base)
           r == L0!Err(d)
           q == unmap3(d, base)
           sub2 == Subs3(q.value)[i]
<1>1. inv_at(d) /\ entries_with(d, "Directory") = {} /\ SubContents(d, Subs3(d))
  BY Contents3 DEF inv3
<1>2. q = unmap_at(d, base, r)
  BY DEF unmap3
<1>3. SameBelow(d, Subs3(d), q.value, Subs3(q.value))
  BY SubsBelow
<1>4. d.entries[i].tag # "Directory"
  BY <1>1, EntryAt, EntryFacts
<1> HIDE DEF q, r, i
<1>5. i = index_in(d, base)
  BY DEF i
<1>6. /\ IsResult(d, q) /\ inv_at(q.value)
      /\ Derived(d, q.value, i, r, d.entries[i].tag = "Directory")
      /\ Removed(union_of(Maps(d, Subs3(d))), base, q, union_of(Maps(q.value, Subs3(q.value))))
  <2>1. UnmappedBelow(d, Subs3(d), i, base, r, sub2)
    BY <1>4 DEF UnmappedBelow
  <2>2. q.value.entries[i] = DirectoryEntry(r.value) => Subs3(q.value)[i] = sub2
    OBVIOUS
  <2> HIDE DEF sub2
  <2> QED
    BY <1>1, <1>2, <1>3, <1>5, <2>1, <2>2, UnmapStep
<1>7. entries_with(q.value, "Directory") = {}
  <2> SUFFICES ASSUME NEW k \in entries_with(q.value, "Directory") PROVE FALSE
    OBVIOUS
  <2>1. k \in EntryIndex /\ q.value.entries[k].tag = "Directory"
    BY <1>6 DEF entries_with, inv_at, well_formed
  <2>2. q.value.entries[k] = d.entries[k]
    BY <1>4, <1>6, <2>1 DEF Derived
  <2> QED
    BY <1>1, <2>1, <2>2, EntryFacts
<1> QED
  BY <1>6, <1>7, InterpIsUnion DEF inv3, q

LEMMA UnmapRefines2 ==
  ASSUME NEW d, inv2(d), d.layer = 2, NEW base \in Nat, Covers(d.layer, d.base_vaddr, base)
  PROVE  LET q == unmap2(d, base)
         IN  /\ IsResult(d, q) /\ inv2(q.value)
             /\ Removed(interp2(d), base, q, interp2(q.value))
<1> DEFINE i == index_in(d, base)
           c == dir_at(d, i)
           r == unmap3(c, base)
           q == unmap2(d, base)
           sub2 == interp3(r.value)
           down == d.entries[i].tag = "Directory"
<1>1. inv_at(d) /\ SubContents(d, Subs2(d))
  BY Contents2 DEF inv2
<1>2. q = unmap_at(d, base, r)
  BY DEF unmap2
<1>3. SameBelow(d, Subs2(d), q.value, Subs2(q.value))
  BY SubsBelow
<1>4. i \in EntryIndex
  BY <1>1, EntryAt
<1>5. q.value.entries[i] = DirectoryEntry(r.value) => Subs2(q.value)[i] = sub2
  BY <1>4 DEF Subs2, DirectoryEntry
<1> HIDE DEF q, r, i, c
<1>6. i = index_in(d, base)
  BY DEF i
<1>7. ASSUME down
      PROVE  /\ IsResult(d.entries[i].dir, r) /\ inv3(r.value) /\ Content(r.value, sub2)
             /\ Removed(Subs2(d)[i], base, r, sub2)
  <2>1. c = d.entries[i].dir /\ i \in entries_with(d, "Directory")
    BY <1>1, <1>4, <1>7, EntryFacts DEF dir_at, c
  <2>2. inv3(c) /\ inv_at(c) /\ c.layer = 3
    <3>1. c.layer = 3
      BY <1>1, <1>4, <1>7, <2>1, EntryFacts
    <3>2. inv3(c)
      BY <2>1 DEF inv2
    <3> QED
      BY <3>1, <3>2 DEF inv3
  <2>3. Covers(c.layer, c.base_vaddr, base)
    BY <1>1, <1>6, <1>7, <2>1, <2>2, CoversEntry
  <2>4. /\ IsResult(c, r) /\ inv3(r.value)
        /\ Removed(interp3(c), base, r, interp3(r.value))
    BY <2>2, <2>3, UnmapRefines3 DEF r
  <2>5. Subs2(d)[i] = interp3(c)
    BY <1>4, <2>1 DEF Subs2
  <2> QED
    BY <2>1, <2>4, <2>5, Contents3
<1> HIDE DEF sub2
<1>8. /\ IsResult(d, q) /\ inv_at(q.value) /\ Derived(d, q.value, i, r, down)
      /\ Removed(union_of(Maps(d, Subs2(d))), base, q, union_of(Maps(q.value, Subs2(q.value))))
  <2>1. UnmappedBelow(d, Subs2(d), i, base, r, sub2)
    BY <1>7 DEF UnmappedBelow
  <2> QED
    BY <1>1, <1>2, <1>3, <1>5, <1>6, <2>1, UnmapStep
<1>9. ASSUME NEW k \in entries_with(q.value, "Directory") PROVE inv3(q.value.entries[k].dir)
  <2>1. k \in EntryIndex /\ q.value.entries[k].tag = "Directory"
    BY <1>8 DEF entries_with, inv_at, well_formed
  <2>2. CASE q.value.entries[k] = d.entries[k]
    <3>1. k \in entries_with(d, "Directory")
      BY <1>1, <2>1, <2>2, EntryFacts
    <3> QED
      BY <2>2, <3>1 DEF inv2
  <2>3. CASE down /\ q.value.entries[k] = DirectoryEntry(r.value)
    BY <1>7, <2>3 DEF DirectoryEntry
  <2> QED
    BY <1>8, <2>1, <2>2, <2>3 DEF Derived
<1> QED
  BY <1>8, <1>9, InterpIsUnion DEF inv2, q

LEMMA UnmapRefines1 ==
  ASSUME NEW d, inv1(d), d.layer = 1, NEW base \in Nat, Covers(d.layer, d.base_vaddr, base)
  PROVE  LET q == unmap1(d, base)
         IN  /\ IsResult(d, q) /\ inv1(q.value)
             /\ Removed(interp1(d), base, q, interp1(q.value))
<1> DEFINE i == index_in(d, base)
           c == dir_at(d, i)
           r == unmap2(c, base)
           q == unmap1(d, base)
           sub2 == interp2(r.value)
           down == d.entries[i].tag = "Directory"
<1>1. inv_at(d) /\ SubContents(d, Subs1(d))
  BY Contents1 DEF inv1
<1>2. q = unmap_at(d, base, r)
  BY DEF unmap1
<1>3. SameBelow(d, Subs1(d), q.value, Subs1(q.value))
  BY SubsBelow
<1>4. i \in EntryIndex
  BY <1>1, EntryAt
<1>5. q.value.entries[i] = DirectoryEntry(r.value) => Subs1(q.value)[i] = sub2
  BY <1>4 DEF Subs1, DirectoryEntry
<1> HIDE DEF q, r, i, c
<1>6. i = index_in(d, base)
  BY DEF i
<1>7. ASSUME down
      PROVE  /\ IsResult(d.entries[i].dir, r) /\ inv2(r.value) /\ Content(r.value, sub2)
             /\ Removed(Subs1(d)[i], base, r, sub2)
  <2>1. c = d.entries[i].dir /\ i \in entries_with(d, "Directory")
    BY <1>1, <1>4, <1>7, EntryFacts DEF dir_at, c
  <2>2. inv2(c) /\ inv_at(c) /\ c.layer = 2
    <3>1. c.layer = 2
      BY <1>1, <1>4, <1>7, <2>1, EntryFacts
    <3>2. inv2(c)
      BY <2>1 DEF inv1
    <3> QED
      BY <3>1, <3>2 DEF inv2
  <2>3. Covers(c.layer, c.base_vaddr, base)
    BY <1>1, <1>6, <1>7, <2>1, <2>2, CoversEntry
  <2>4. /\ IsResult(c, r) /\ inv2(r.value)
        /\ Removed(interp2(c), base, r, interp2(r.value))
    BY <2>2, <2>3, UnmapRefines2 DEF r
  <2>5. Subs1(d)[i] = interp2(c)
    BY <1>4, <2>1 DEF Subs1
  <2> QED
    BY <2>1, <2>4, <2>5, Contents2
<1> HIDE DEF sub2
<1>8. /\ IsResult(d, q) /\ inv_at(q.value) /\ Derived(d, q.value, i, r, down)
      /\ Removed(union_of(Maps(d, Subs1(d))), base, q, union_of(Maps(q.value, Subs1(q.value))))
  <2>1. UnmappedBelow(d, Subs1(d), i, base, r, sub2)
    BY <1>7 DEF UnmappedBelow
  <2> QED
    BY <1>1, <1>2, <1>3, <1>5, <1>6, <2>1, UnmapStep
<1>9. ASSUME NEW k \in entries_with(q.value, "Directory") PROVE inv2(q.value.entries[k].dir)
  <2>1. k \in EntryIndex /\ q.value.entries[k].tag = "Directory"
    BY <1>8 DEF entries_with, inv_at, well_formed
  <2>2. CASE q.value.entries[k] = d.entries[k]
    <3>1. k \in entries_with(d, "Directory")
      BY <1>1, <2>1, <2>2, EntryFacts
    <3> QED
      BY <2>2, <3>1 DEF inv1
  <2>3. CASE down /\ q.value.entries[k] = DirectoryEntry(r.value)
    BY <1>7, <2>3 DEF DirectoryEntry
  <2> QED
    BY <1>8, <2>1, <2>2, <2>3 DEF Derived
<1> QED
  BY <1>8, <1>9, InterpIsUnion DEF inv1, q

LEMMA UnmapRefines0 ==
  ASSUME NEW d, inv(d), d.layer = 0, NEW base \in Nat, Covers(d.layer, d.base_vaddr, base)
  PROVE  LET q == unmap(d, base)
         IN  /\ IsResult(d, q) /\ inv(q.value)
             /\ Removed(interp0(d), base, q, interp0(q.value))
<1> DEFINE i == index_in(d, base)
           c == dir_at(d, i)
           r == unmap1(c, base)
           q == unmap(d, base)
           sub2 == interp1(r.value)
           down == d.entries[i].tag = "Directory"
<1>1. inv_at(d) /\ SubContents(d, Subs0(d))
  BY Contents0 DEF inv
<1>2. q = unmap_at(d, base, r)
  BY DEF unmap
<1>3. SameBelow(d, Subs0(d), q.value, Subs0(q.value))
  BY SubsBelow
<1>4. i \in EntryIndex
  BY <1>1, EntryAt
<1>5. q.value.entries[i] = DirectoryEntry(r.value) => Subs0(q.value)[i] = sub2
  BY <1>4 DEF Subs0, DirectoryEntry
<1> HIDE DEF q, r, i, c
<1>6. i = index_in(d, base)
  BY DEF i
<1>7. ASSUME down
      PROVE  /\ IsResult(d.entries[i].dir, r) /\ inv1(r.value) /\ Content(r.value, sub2)
             /\ Removed(Subs0(d)[i], base, r, sub2)
  <2>1. c = d.entries[i].dir /\ i \in entries_with(d, "Directory")
    BY <1>1, <1>4, <1>7, EntryFacts DEF dir_at, c
  <2>2. inv1(c) /\ inv_at(c) /\ c.layer = 1
    <3>1. c.layer = 1
      BY <1>1, <1>4, <1>7, <2>1, EntryFacts
    <3>2. inv1(c)
      BY <2>1 DEF inv
    <3> QED
      BY <3>1, <3>2 DEF inv1
  <2>3. Covers(c.layer, c.base_vaddr, base)
    BY <1>1, <1>6, <1>7, <2>1, <2>2, CoversEntry
  <2>4. /\ IsResult(c, r) /\ inv1(r.value)
        /\ Removed(interp1(c), base, r, interp1(r.value))
    BY <2>2, <2>3, UnmapRefines1 DEF r
  <2>5. Subs0(d)[i] = interp1(c)
    BY <1>4, <2>1 DEF Subs0
  <2> QED
    BY <2>1, <2>4, <2>5, Contents1
<1> HIDE DEF sub2
<1>8. /\ IsResult(d, q) /\ inv_at(q.value) /\ Derived(d, q.value, i, r, down)
      /\ Removed(union_of(Maps(d, Subs0(d))), base, q, union_of(Maps(q.value, Subs0(q.value))))
  <2>1. UnmappedBelow(d, Subs0(d), i, base, r, sub2)
    BY <1>7 DEF UnmappedBelow
  <2> QED
    BY <1>1, <1>2, <1>3, <1>5, <1>6, <2>1, UnmapStep
<1>9. ASSUME NEW k \in entries_with(q.value, "Directory") PROVE inv1(q.value.entries[k].dir)
  <2>1. k \in EntryIndex /\ q.value.entries[k].tag = "Directory"
    BY <1>8 DEF entries_with, inv_at, well_formed
  <2>2. CASE q.value.entries[k] = d.entries[k]
    <3>1. k \in entries_with(d, "Directory")
      BY <1>1, <2>1, <2>2, EntryFacts
    <3> QED
      BY <2>2, <3>1 DEF inv
  <2>3. CASE down /\ q.value.entries[k] = DirectoryEntry(r.value)
    BY <1>7, <2>3 DEF DirectoryEntry
  <2> QED
    BY <1>8, <2>1, <2>2, <2>3 DEF Derived
<1> QED
  BY <1>8, <1>9, InterpIsUnion DEF inv, q

-----------------------------------------------------------------------------
(* resolve *)

Contains(M, vaddr, b) == b \in DOMAIN M /\ between(vaddr, b, b + SizeAt(M, b))

(* r is what the map holds at the address. *)
Holds(M, vaddr, r) ==
  \/ \E b : Contains(M, vaddr, b) /\ r = L0!Ok(<<b, M[b]>>)
  \/ (\A b : ~Contains(M, vaddr, b)) /\ r = L0!Err("none")

LEMMA FoundInEntry ==
  ASSUME NEW l \in Layer, NEW start \in Nat, NEW maps, EntryMaps(l, start, maps),
         NEW i \in EntryIndex, NEW vaddr \in Nat, i = index_for_vaddr(l, start, vaddr),
         NEW r, Holds(maps[i], vaddr, r)
  PROVE  Holds(union_of(maps), vaddr, r)
<1> DEFINE u == union_of(maps)
<1>1. \A k \in EntryIndex : \A b \in DOMAIN maps[k] :
         b \in DOMAIN u /\ u[b] = maps[k][b] /\ SizeAt(u, b) = SizeAt(maps[k], b)
  BY UnionAt DEF SizeAt
<1>2. ASSUME NEW b, Contains(u, vaddr, b) PROVE Contains(maps[i], vaddr, b)
  <2>1. PICK k \in EntryIndex : b \in DOMAIN maps[k]
    BY <1>2, UnionDomain DEF Contains
  <2> DEFINE sb == SizeAt(maps[k], b)
             at == entry_base(l, start, k)
  <2>2. b <= vaddr /\ vaddr < b + sb
    BY <1>1, <1>2, <2>1 DEF Contains, between
  <2>3. b \in Nat /\ at <= b /\ sb \in Nat /\ b + sb <= at + entry_size(l)
    BY <2>1 DEF EntryMaps, Fits
  <2>4. at \in Nat /\ entry_size(l) \in Nat
    BY EntryBaseType, Sizes
  <2>5. at <= vaddr /\ vaddr < at + entry_size(l)
    <3> HIDE DEF at, sb
    <3> QED
      BY <2>2, <2>3, <2>4
  <2>6. k = i
    BY <2>5, IndexUnique
  <2> QED
    BY <1>1, <1>2, <2>1, <2>6 DEF Contains
<1>3. ASSUME NEW b, Contains(maps[i], vaddr, b) PROVE Contains(u, vaddr, b) /\ u[b] = maps[i][b]
  BY <1>1, <1>3 DEF Contains
<1> HIDE DEF u
<1> QED
  BY <1>2, <1>3 DEF Holds, u

LEMMA ResolveAt ==
  ASSUME NEW d, NEW vaddr, NEW r, NEW i, i = index_in(d, vaddr),
         d.entries[i].tag \in {"Directory", "Page", "Empty"}
  PROVE  LET q == resolve_at(d, vaddr, r)
         IN  /\ d.entries[i].tag = "Page" => q = L0!Ok(<<base_of_entry(d, i), d.entries[i].pte>>)
             /\ d.entries[i].tag = "Directory" => q = r
             /\ d.entries[i].tag = "Empty" => q = L0!Err("none")
BY DEF resolve_at

(* resolve in one directory, given what it finds below. *)
LEMMA ResolveStep ==
  ASSUME NEW d, inv_at(d), NEW subs, SubContents(d, subs),
         NEW vaddr \in Nat, Covers(d.layer, d.base_vaddr, vaddr),
         NEW i, i = index_in(d, vaddr), NEW r,
         d.entries[i].tag = "Directory" => Holds(subs[i], vaddr, r)
  PROVE  Holds(union_of(Maps(d, subs)), vaddr, resolve_at(d, vaddr, r))
<1> DEFINE Mi == Maps(d, subs)[i]
           at == base_of_entry(d, i)
           q == resolve_at(d, vaddr, r)
<1>1. /\ i \in EntryIndex /\ i = index_for_vaddr(d.layer, d.base_vaddr, vaddr)
      /\ at <= vaddr /\ vaddr < at + entry_size(d.layer)
  BY EntryAt
<1>2. d.layer \in Layer /\ d.base_vaddr \in Nat /\ d.entries[i].tag \in {"Directory", "Page", "Empty"}
  BY <1>1, EntryFacts
<1>3. EntryMaps(d.layer, d.base_vaddr, Maps(d, subs))
  BY MapsFit
<1>4. Holds(Mi, vaddr, q)
  <2>1. CASE d.entries[i].tag = "Page"
    <3>1. Mi = Insert(EmptyMap, at, d.entries[i].pte)
      BY <1>1, <2>1, MapsAt
    <3>2. d.entries[i].pte.frame.size = entry_size(d.layer)
      BY <1>1, <2>1, EntryFacts
    <3>3. q = L0!Ok(<<at, d.entries[i].pte>>)
      BY <1>2, <2>1, ResolveAt
    <3> HIDE DEF Mi, at, q
    <3>4. DOMAIN Mi = {at} /\ Mi[at] = d.entries[i].pte
      BY <3>1, OnePage
    <3>5. Contains(Mi, vaddr, at)
      BY <1>1, <3>2, <3>4 DEF Contains, SizeAt, between
    <3> QED
      BY <3>3, <3>4, <3>5 DEF Holds
  <2>2. CASE d.entries[i].tag = "Directory"
    <3>1. Mi = subs[i]
      BY <1>1, <2>2, MapsAt
    <3>2. q = r
      BY <1>2, <2>2, ResolveAt
    <3> QED
      BY <2>2, <3>1, <3>2
  <2>3. CASE d.entries[i].tag = "Empty"
    <3>1. Mi = EmptyMap
      BY <1>1, <2>3, MapsAt
    <3>2. q = L0!Err("none")
      BY <1>2, <2>3, ResolveAt
    <3> HIDE DEF Mi, q
    <3> QED
      BY <3>1, <3>2, EmptyDomain DEF Holds, Contains
  <2> QED
    BY <1>2, <2>1, <2>2, <2>3
<1> HIDE DEF q
<1> QED
  BY <1>1, <1>2, <1>3, <1>4, FoundInEntry DEF q

LEMMA ResolveRefines3 ==
  ASSUME NEW d, inv3(d), d.layer = 3, NEW vaddr \in Nat, Covers(d.layer, d.base_vaddr, vaddr)
  PROVE  Holds(interp3(d), vaddr, resolve3(d, vaddr))
<1>1. inv_at(d) /\ entries_with(d, "Directory") = {} /\ SubContents(d, Subs3(d))
  BY Contents3 DEF inv3
<1>2. d.entries[index_in(d, vaddr)].tag # "Directory"
  BY <1>1, EntryAt, EntryFacts
<1>3. Holds(union_of(Maps(d, Subs3(d))), vaddr, resolve_at(d, vaddr, L0!Err("none")))
  BY <1>1, <1>2, ResolveStep
<1> QED
  BY <1>3, InterpIsUnion DEF resolve3

LEMMA ResolveRefines2 ==
  ASSUME NEW d, inv2(d), d.layer = 2, NEW vaddr \in Nat, Covers(d.layer, d.base_vaddr, vaddr)
  PROVE  Holds(interp2(d), vaddr, resolve2(d, vaddr))
<1> DEFINE i == index_in(d, vaddr)
           c == dir_at(d, i)
           r == resolve3(c, vaddr)
<1>1. inv_at(d) /\ SubContents(d, Subs2(d))
  BY Contents2 DEF inv2
<1>2. ASSUME d.entries[i].tag = "Directory" PROVE Holds(Subs2(d)[i], vaddr, r)
  <2>1. i \in EntryIndex
    BY <1>1, EntryAt
  <2>2. c = d.entries[i].dir /\ i \in entries_with(d, "Directory") /\ c.layer = 3
    BY <1>1, <1>2, <2>1, EntryFacts DEF dir_at
  <2>3. inv3(c) /\ inv_at(c)
    BY <2>2 DEF inv2, inv3
  <2>4. Covers(c.layer, c.base_vaddr, vaddr)
    BY <1>1, <1>2, <2>2, <2>3, CoversEntry
  <2>5. Subs2(d)[i] = interp3(c)
    BY <2>1, <2>2 DEF Subs2
  <2> HIDE DEF c
  <2> QED
    BY <2>2, <2>3, <2>4, <2>5, ResolveRefines3
<1> HIDE DEF r
<1>3. Holds(union_of(Maps(d, Subs2(d))), vaddr, resolve_at(d, vaddr, r))
  BY <1>1, <1>2, ResolveStep
<1> QED
  BY <1>3, InterpIsUnion DEF resolve2, r

LEMMA ResolveRefines1 ==
  ASSUME NEW d, inv1(d), d.layer = 1, NEW vaddr \in Nat, Covers(d.layer, d.base_vaddr, vaddr)
  PROVE  Holds(interp1(d), vaddr, resolve1(d, vaddr))
<1> DEFINE i == index_in(d, vaddr)
           c == dir_at(d, i)
           r == resolve2(c, vaddr)
<1>1. inv_at(d) /\ SubContents(d, Subs1(d))
  BY Contents1 DEF inv1
<1>2. ASSUME d.entries[i].tag = "Directory" PROVE Holds(Subs1(d)[i], vaddr, r)
  <2>1. i \in EntryIndex
    BY <1>1, EntryAt
  <2>2. c = d.entries[i].dir /\ i \in entries_with(d, "Directory") /\ c.layer = 2
    BY <1>1, <1>2, <2>1, EntryFacts DEF dir_at
  <2>3. inv2(c) /\ inv_at(c)
    BY <2>2 DEF inv1, inv2
  <2>4. Covers(c.layer, c.base_vaddr, vaddr)
    BY <1>1, <1>2, <2>2, <2>3, CoversEntry
  <2>5. Subs1(d)[i] = interp2(c)
    BY <2>1, <2>2 DEF Subs1
  <2> HIDE DEF c
  <2> QED
    BY <2>2, <2>3, <2>4, <2>5, ResolveRefines2
<1> HIDE DEF r
<1>3. Holds(union_of(Maps(d, Subs1(d))), vaddr, resolve_at(d, vaddr, r))
  BY <1>1, <1>2, ResolveStep
<1> QED
  BY <1>3, InterpIsUnion DEF resolve1, r

LEMMA ResolveRefines0 ==
  ASSUME NEW d, inv(d), d.layer = 0, NEW vaddr \in Nat, Covers(d.layer, d.base_vaddr, vaddr)
  PROVE  Holds(interp0(d), vaddr, resolve(d, vaddr))
<1> DEFINE i == index_in(d, vaddr)
           c == dir_at(d, i)
           r == resolve1(c, vaddr)
<1>1. inv_at(d) /\ SubContents(d, Subs0(d))
  BY Contents0 DEF inv
<1>2. ASSUME d.entries[i].tag = "Directory" PROVE Holds(Subs0(d)[i], vaddr, r)
  <2>1. i \in EntryIndex
    BY <1>1, EntryAt
  <2>2. c = d.entries[i].dir /\ i \in entries_with(d, "Directory") /\ c.layer = 1
    BY <1>1, <1>2, <2>1, EntryFacts DEF dir_at
  <2>3. inv1(c) /\ inv_at(c)
    BY <2>2 DEF inv, inv1
  <2>4. Covers(c.layer, c.base_vaddr, vaddr)
    BY <1>1, <1>2, <2>2, <2>3, CoversEntry
  <2>5. Subs0(d)[i] = interp1(c)
    BY <2>1, <2>2 DEF Subs0
  <2> HIDE DEF c
  <2> QED
    BY <2>2, <2>3, <2>4, <2>5, ResolveRefines1
<1> HIDE DEF r
<1>3. Holds(union_of(Maps(d, Subs0(d))), vaddr, resolve_at(d, vaddr, r))
  BY <1>1, <1>2, ResolveStep
<1> QED
  BY <1>3, InterpIsUnion DEF resolve, r

-----------------------------------------------------------------------------
(* The tree refines the map. *)

(* The result of the tree as one of the map. *)
abs(r) == [r EXCEPT !.value = interp(r.value)]

LEMMA InterpFields ==
  ASSUME NEW d
  PROVE  /\ interp(d).map = interp0(d) /\ interp(d).lower = d.base_vaddr
         /\ interp(d).upper = upper_vaddr_of(d)
BY DEF interp

LEMMA AbsResult ==
  ASSUME NEW d, NEW r, IsResult(d, r)
  PROVE  abs(r) = [res   |-> r.res,
                   value |-> [map |-> interp0(r.value), lower |-> d.base_vaddr,
                              upper |-> upper_vaddr_of(d)]]
<1>1. abs(r) = [res |-> r.res, value |-> interp(r.value)]
  BY DEF abs, IsResult
<1>2. r.value.base_vaddr = d.base_vaddr /\ upper_vaddr_of(r.value) = upper_vaddr_of(d)
  BY DEF IsResult, upper_vaddr_of
<1> QED
  BY <1>1, <1>2 DEF interp

(* The map of a tree that satisfies Directory::inv has pages of the right  *)
(* sizes, aligned, without overlap and within the tree's addresses         *)
(* (lemma_inv_implies_interp_inv).                                         *)
THEOREM TreeHasMap ==
  ASSUME NEW d, inv(d)
  PROVE  L0!inv(interp(d))
<1>1. Fits(interp0(d), d.base_vaddr, upper_vaddr_of(d))
  BY Contents0 DEF Content
<1> QED
  BY <1>1, FitsInv DEF interp

(* map_frame on a tree keeps Directory::inv and does to the map what       *)
(* layer 0's map_frame does: the walk down one path finds out whether the  *)
(* new page overlaps some existing one (lemma_map_frame_refines_map_frame, *)
(* lemma_map_frame_preserves_inv).                                         *)
THEOREM TreeMapFrame ==
  ASSUME NEW d, inv(d), d.layer = 0, NEW base \in Nat, NEW pte, accepted_mapping(d, base, pte)
  PROVE  /\ L0!accepted_mapping(interp(d), base, pte)
         /\ inv(map_frame(d, base, pte).value)
         /\ abs(map_frame(d, base, pte)) = L0!map_frame(interp(d), base, pte)
<1> DEFINE q == map_frame(d, base, pte)
           c == interp(d)
           M2 == interp0(q.value)
<1>1. IsResult(d, q) /\ inv(q.value) /\ Inserted(interp0(d), base, pte, q, M2)
  BY MapRefines0
<1> HIDE DEF q, M2
<1>2. abs(q) = [res |-> q.res, value |-> [map |-> M2, lower |-> c.lower, upper |-> c.upper]]
  BY <1>1, AbsResult, InterpFields DEF M2
<1>3. c.map = interp0(d) /\ c = [map |-> c.map, lower |-> c.lower, upper |-> c.upper]
  BY DEF interp
<1>4. L0!accepted_mapping(c, base, pte)
  <2>1. contains_entry_size(pte.frame.size)
    BY MapEntry DEF inv
  <2> QED
    BY <2>1, InterpFields, SameDefinitions
    DEF accepted_mapping, L0!accepted_mapping, L0!candidate_in_bounds
<1> HIDE DEF c
<1>5. L0!valid_mapping(c, base, pte) <=> Free(interp0(d), base, pte)
  BY <1>3, SameDefinitions DEF L0!valid_mapping, L0!mapping_region, Free, SizeAt
<1>6. abs(q) = L0!map_frame(c, base, pte)
  <2>1. CASE Free(interp0(d), base, pte)
    <3>1. q.res = "Ok" /\ M2 = L0!Insert(c.map, base, pte)
      BY <1>1, <1>3, <2>1, SameDefinitions DEF Inserted
    <3>2. [c EXCEPT !.map = M2] = [map |-> M2, lower |-> c.lower, upper |-> c.upper]
      BY <1>3
    <3> QED
      BY <1>2, <1>5, <2>1, <3>1, <3>2 DEF L0!map_frame, L0!Ok
  <2>2. CASE ~Free(interp0(d), base, pte)
    <3>1. q.res = "Err" /\ M2 = c.map
      BY <1>1, <1>3, <2>2 DEF Inserted
    <3> QED
      BY <1>2, <1>3, <1>5, <2>2, <3>1 DEF L0!map_frame, L0!Err
  <2> QED
    BY <2>1, <2>2
<1> QED
  BY <1>1, <1>4, <1>6 DEF q, c

(* unmap on a tree keeps Directory::inv and removes from the map the page  *)
(* that begins at the address, and no other; directories that become empty *)
(* do not show in the map (lemma_unmap_refines_unmap,                      *)
(* lemma_unmap_preserves_inv).                                             *)
THEOREM TreeUnmap ==
  ASSUME NEW d, inv(d), d.layer = 0, NEW base \in Nat, L0!accepted_unmap(interp(d), base)
  PROVE  /\ inv(unmap(d, base).value)
         /\ abs(unmap(d, base)) = L0!unmap(interp(d), base)
<1> DEFINE q == unmap(d, base)
           c == interp(d)
           M2 == interp0(q.value)
<1>1. Covers(d.layer, d.base_vaddr, base)
  BY InterpFields, SameDefinitions DEF L0!accepted_unmap, between, Covers, upper_vaddr_of
<1>2. IsResult(d, q) /\ inv(q.value) /\ Removed(interp0(d), base, q, M2)
  BY <1>1, UnmapRefines0
<1> HIDE DEF q, M2
<1>3. abs(q) = [res |-> q.res, value |-> [map |-> M2, lower |-> c.lower, upper |-> c.upper]]
  BY <1>2, AbsResult, InterpFields DEF M2
<1>4. c.map = interp0(d) /\ c = [map |-> c.map, lower |-> c.lower, upper |-> c.upper]
  BY DEF interp
<1> HIDE DEF c
<1>5. abs(q) = L0!unmap(c, base)
  <2>1. CASE base \in DOMAIN c.map
    <3>1. q.res = "Ok" /\ M2 = L0!Remove(c.map, base)
      BY <1>2, <1>4, <2>1, SameDefinitions DEF Removed
    <3>2. [c EXCEPT !.map = M2] = [map |-> M2, lower |-> c.lower, upper |-> c.upper]
      BY <1>4
    <3> QED
      BY <1>3, <2>1, <3>1, <3>2 DEF L0!unmap, L0!Ok
  <2>2. CASE base \notin DOMAIN c.map
    <3>1. q.res = "Err" /\ M2 = c.map
      BY <1>2, <1>4, <2>2 DEF Removed
    <3> QED
      BY <1>3, <1>4, <2>2, <3>1 DEF L0!unmap, L0!Err
  <2> QED
    BY <2>1, <2>2
<1> QED
  BY <1>2, <1>5 DEF q, c

(* resolve on a tree finds the page that contains the address, if there is *)
(* one (lemma_resolve_refines).                                            *)
THEOREM TreeResolve ==
  ASSUME NEW d, inv(d), d.layer = 0, NEW vaddr \in Nat, L0!accepted_resolve(interp(d), vaddr)
  PROVE  resolve(d, vaddr) = L0!resolve(interp(d), vaddr)
<1> DEFINE c == interp(d)
           M == interp0(d)
           bases == {b \in DOMAIN c.map : L0!between(vaddr, b, b + c.map[b].frame.size)}
<1>1. Covers(d.layer, d.base_vaddr, vaddr)
  BY InterpFields, SameDefinitions DEF L0!accepted_resolve, between, Covers, upper_vaddr_of
<1>2. Holds(M, vaddr, resolve(d, vaddr))
  BY <1>1, ResolveRefines0
<1>3. c.map = M
  BY InterpFields
<1>4. Fits(M, d.base_vaddr, upper_vaddr_of(d))
  BY Contents0 DEF Content
<1> HIDE DEF c, M
<1>5. \A b : b \in bases <=> Contains(M, vaddr, b)
  BY <1>3, SameDefinitions DEF Contains, SizeAt
<1>6. ASSUME NEW v, NEW w, Contains(M, vaddr, v), Contains(M, vaddr, w) PROVE v = w
  <2> DEFINE sv == SizeAt(M, v)
             sw == SizeAt(M, w)
  <2>1. v \in Nat /\ w \in Nat /\ sv \in Nat /\ sw \in Nat
    BY <1>4, <1>6 DEF Contains, Fits
  <2>2. v <= vaddr /\ vaddr < v + sv /\ w <= vaddr /\ vaddr < w + sw
    BY <1>6 DEF Contains, between
  <2>3. v = w \/ v + sv <= w \/ w + sw <= v
    BY <1>4, <1>6 DEF Contains, Fits
  <2> HIDE DEF sv, sw
  <2> QED
    BY <2>1, <2>2, <2>3
<1>7. L0!resolve(c, vaddr) = IF bases # {}
                             THEN L0!Ok(<<CHOOSE b \in bases : TRUE, c.map[CHOOSE b \in bases : TRUE]>>)
                             ELSE L0!Err("none")
  BY DEF L0!resolve
<1> HIDE DEF bases
<1>8. CASE \E b : Contains(M, vaddr, b) /\ resolve(d, vaddr) = L0!Ok(<<b, M[b]>>)
  <2>1. PICK b : Contains(M, vaddr, b) /\ resolve(d, vaddr) = L0!Ok(<<b, M[b]>>)
    BY <1>8
  <2>2. bases = {b}
    BY <1>5, <1>6, <2>1
  <2> QED
    BY <1>3, <1>7, <2>1, <2>2 DEF c
<1>9. CASE (\A b : ~Contains(M, vaddr, b)) /\ resolve(d, vaddr) = L0!Err("none")
  <2>1. bases = {}
    BY <1>5, <1>9
  <2> QED
    BY <1>7, <1>9, <2>1 DEF c
<1> QED
  BY <1>2, <1>8, <1>9 DEF Holds
=============================================================================
