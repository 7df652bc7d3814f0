----------------------------- MODULE EdictProofs -----------------------------
(***************************************************************************)
(* Theorems about an edict process: what a save has completed can be       *)
(* restored, and what is restored is of one save, the last; a rollback of  *)
(* the VM undoes what its transaction did, and that alone; a speculation   *)
(* leaves the activations of its callers as they are; and data that cross  *)
(* between Edict and C are kept.                                           *)
(***************************************************************************)
EXTENDS EdictParts, FiniteSetTheorems, SequenceTheorems, NaturalsInduction,
        WellFoundedInduction, TLAPS

(* A heap in which some names, and perhaps the root, have a slot.          *)
Taken == 0 .. NoSlot
IsHeap(h, names) ==
  /\ DOMAIN h.at \ {Root} = names
  /\ \A n \in DOMAIN h.at : h.at[n] \in Taken
  /\ h.sentinels \subseteq Taken

(* What a save was given: the name of the scheduler's state is among the    *)
(* names.  And the most a save may be given.                                *)
Given == [names : {N \in SUBSET (UserNames \cup {Scheduler}) : Scheduler \in N},
          parked : SUBSET Parked, mounts : SUBSET Mounts]
Anything == [names |-> Names, parked |-> Parked, mounts |-> Mounts]

(* A file carries nothing but what a save was given.  That all the whole    *)
(* files do survives the loss of any of them.                               *)
Carries(f, text, was) ==
  /\ f[1] = "slab" =>
       /\ DOMAIN text.slots \subseteq Slots
       /\ \A s \in DOMAIN text.slots : text.slots[s] \in was.names \cup {Root}
  /\ f = RootsFile => text.parked \subseteq was.parked
  /\ f = BootstrapFile => text.mounts \subseteq was.mounts
AllCarry(d, was) == \A f \in DOMAIN d : d[f] # Torn => Carries(f, d[f], was)
OfSave(d, was, k) == AllCarry(d, was) /\ \A f \in DOMAIN d : d[f] # Torn => d[f].save = k

(* The files besides bootstrap and manifest restore what a save was given; *)
(* the bootstrap names that save.                                          *)
BodyIs(d, was) ==
  /\ \A a \in Allocs : AllocatorLoads(d, a) /\ IsHeap(RestoredHeap(d, a), was.names)
  /\ RootLoads(d) /\ d[RootsFile].parked = was.parked
CatalogueIs(c, was, k) == c = [allocators |-> Allocs, mounts |-> was.mounts, save |-> k]

(* The manifest is written after the bootstrap, and the bootstrap after    *)
(* the rest.                                                               *)
DiskIs(d, was, k) ==
  /\ ManifestFile \in DOMAIN d => Whole(d, BootstrapFile)
  /\ Whole(d, BootstrapFile) =>
       k > 0 /\ BodyIs(d, was) /\ CatalogueIs(d[BootstrapFile], was, k)

IsFile(f) ==
  \/ \E a \in Allocs : f = MetaFile(a) \/ \E b \in Slabs : f = SlabFile(a, b)
  \/ f \in {RootsFile, BootstrapFile, ManifestFile}
FilesAre(files, was, k) ==
  /\ \A f \in DOMAIN files : IsFile(f)
  /\ {BootstrapFile, ManifestFile} \subseteq DOMAIN files
  /\ BodyIs(files, was) /\ CatalogueIs(files[BootstrapFile], was, k)
  /\ OfSave(files, was, k)

(* A process at work has every name bound in every allocator.              *)
UpIs(r) ==
  /\ DOMAIN r = {"state", "heap", "names", "parked", "mounts", "from"} /\ r.state = "up"
  /\ DOMAIN r.heap = Allocs
  /\ r.names \subseteq Names /\ r.parked \subseteq Parked /\ r.mounts \subseteq Mounts
  /\ \A a \in Allocs : IsHeap(r.heap[a], r.names)

(* One that clears the directory has its image ready.                      *)
ImageFields == {"state", "save", "given", "todo", "files"}
ClearingIs(r, k) ==
  /\ DOMAIN r = ImageFields /\ r.state = "clearing" /\ r.save = k + 1
  /\ r.given \in Given /\ FilesAre(r.files, r.given, k + 1) /\ r.todo = DOMAIN r.files

(* One that saves has written the files it has not still to write; there   *)
(* are no others, unless some could not be removed.                        *)
SavingIs(r, d, was, k, left) ==
  /\ DOMAIN r = ImageFields /\ r.state = "saving" /\ r.save = k
  /\ k > 0 /\ FilesAre(r.files, was, k)
  /\ r.todo \subseteq DOMAIN r.files
  /\ left = "left" => /\ DOMAIN d = DOMAIN r.files \ r.todo
                      /\ \A f \in DOMAIN d : d[f] = r.files[f]
  /\ BootstrapFile \in r.todo \/ r.todo \subseteq {ManifestFile}
  /\ ManifestFile \in r.todo \/ r.todo = {}

StateIs(r, d, was, k, completed, left) ==
  /\ r.state \in {"down", "up", "clearing", "saving"}
  /\ AllCarry(d, Anything)
  /\ left # "mixed" => OfSave(d, was, k)
  /\ r.state = "up" => UpIs(r)
  /\ r.state = "clearing" => ClearingIs(r, k)
  /\ r.state = "saving" => SavingIs(r, d, was, k, left) /\ k \notin completed
  /\ (r.state # "saving" /\ left = "left") => /\ DiskIs(d, was, k)
                                              /\ completed = {k} => Whole(d, BootstrapFile)

SessionInv ==
  /\ saves \in Nat /\ begun \in Seq(Given) /\ Len(begun) = saves
  /\ done \subseteq 0 .. saves
  /\ DOMAIN proc = Procs
  /\ \A p \in Procs : StateIs(proc[p], disk, begun[saves], saves, done, image)

---------------------------------------------------------------------------
(* Numbers and sequences.                                                  *)

(* The least of a set of numbers.                                          *)
LEMMA LeastNumber ==
  ASSUME NEW T \in SUBSET Nat, T # {}
  PROVE  \E x \in T : \A y \in T : x <= y
<1> DEFINE R == OpToRel(<, Nat)
<1>1. IsWellFoundedOn(R, Nat)
  BY NatLessThanWellFounded, Zenon
<1>2. \A x, y \in Nat : x < y => <<x, y>> \in R
  BY Zenon DEF OpToRel
<1> HIDE DEF R
<1>3. PICK x \in T : \A y \in T : <<y, x>> \notin R
  BY <1>1, WFMin, Zenon
<1>4. \A y \in T : ~ (y < x)
  BY <1>2, <1>3, Zenon
<1> QED BY <1>3, <1>4, SMT

LEMMA MinIsIn ==
  ASSUME NEW T \in SUBSET Nat, T # {}
  PROVE  Min(T) \in T
<1>1. \E x \in T : \A y \in T : x <= y
  BY LeastNumber
<1> QED BY <1>1, Zenon DEF Min

(* The greatest of a set of numbers with a bound.                          *)
LEMMA MaxIsGreatest ==
  ASSUME NEW T \in SUBSET Nat, T # {}, NEW b \in Nat, \A x \in T : x <= b
  PROVE  Max(T) \in T /\ \A y \in T : Max(T) >= y
<1> DEFINE Above == {n \in Nat : \A x \in T : x <= n}
<1>1. Above \in SUBSET Nat /\ Above # {}
  OBVIOUS
<1>2. PICK m \in Above : \A n \in Above : m <= n
  <2> HIDE DEF Above
  <2> QED BY <1>1, LeastNumber
<1>3. m \in T
  <2> SUFFICES ASSUME m \notin T PROVE FALSE
    OBVIOUS
  <2>1. m \in Nat /\ \A x \in T : x \in Nat /\ x < m
    BY <1>2
  <2>2. PICK x \in T : TRUE
    OBVIOUS
  <2>3. x \in Nat /\ x < m
    BY <2>1, <2>2
  <2>4. m - 1 \in Above
    BY <2>1, <2>3
  <2> QED BY <1>2, <2>1, <2>3, <2>4
<1>4. \E x \in T : \A y \in T : x >= y
  BY <1>2, <1>3
<1> QED BY <1>4, Zenon DEF Max

(* A set as a sequence.                                                    *)
LEMMA SetAsSequence ==
  ASSUME NEW S, IsFiniteSet(S)
  PROVE  /\ SetToSeq(S) \in Seq(S)
         /\ S = {SetToSeq(S)[i] : i \in 1 .. Len(SetToSeq(S))}
<1>1. Cardinality(S) \in Nat /\ ExistsBijection(1 .. Cardinality(S), S)
  BY FS_CardinalityType
<1>2. PICK f \in [1 .. Cardinality(S) -> S] : IsInjective(f)
  BY <1>1, Zenon DEF ExistsBijection, Bijection, Injection
<1>3. SetToSeq(S) \in [1 .. Cardinality(S) -> S] /\ IsInjective(SetToSeq(S))
  BY <1>2, Zenon DEF SetToSeq
<1> DEFINE g == SetToSeq(S)
           n == Cardinality(S)
<1>4. g \in Injection(1 .. n, S)
  BY <1>3, Zenon DEF Injection
<1>5. IsFiniteSet(1 .. n) /\ Cardinality(1 .. n) = n
  BY <1>1, FS_Interval
<1>6. g \in Surjection(1 .. n, S)
  <2> HIDE DEF g
  <2> QED BY <1>4, <1>5, FS_Injection, Zenon
<1>7. g \in [1 .. n -> S] /\ \A x \in S : \E i \in 1 .. n : g[i] = x
  BY <1>6, Zenon DEF Surjection
<1> HIDE DEF g, n
<1>8. g \in Seq(S) /\ Len(g) = n
  BY <1>1, <1>7 DEF n
<1> QED BY <1>7, <1>8 DEF g

---------------------------------------------------------------------------
(* Heaps.                                                                  *)

LEMMA SlotNumbers ==
  ASSUME SessionAssumption
  PROVE  /\ NoSlot \in Nat \ {0} /\ Slots = 0 .. NoSlot - 1
         /\ \A s \in Slots : SlabOf(s) \in Slabs
<1>1. NumSlabs \in Nat \ {0} /\ SlabSize \in Nat \ {0}
  BY DEF SessionAssumption
<1>2. NoSlot \in Nat \ {0} /\ Slots = 0 .. NoSlot - 1
  BY <1>1 DEF NoSlot, Slots
<1>3. ASSUME NEW s \in Slots PROVE SlabOf(s) \in Slabs
  <2>1. s \in Nat /\ s < NumSlabs * SlabSize
    BY <1>1, <1>3 DEF Slots
  <2>2. s \div SlabSize \in Nat /\ s \div SlabSize < NumSlabs
    BY <1>1, <2>1, Z3
  <2> QED BY <1>1, <2>2 DEF SlabOf, Slabs
<1> QED BY <1>2, <1>3

LEMMA FirstFreeIs ==
  ASSUME SessionAssumption, NEW h
  PROVE  FirstFree(h) \in Taken
<1>1. FreeSlots(h) \cup {NoSlot} \in SUBSET Taken
  BY SlotNumbers DEF FreeSlots, Taken
<1>2. FreeSlots(h) \cup {NoSlot} # {}
  OBVIOUS
<1>3. Taken \subseteq Nat
  BY SlotNumbers DEF Taken
<1> DEFINE T == FreeSlots(h) \cup {NoSlot}
<1>4. T \in SUBSET Nat /\ T # {}
  BY <1>1, <1>2, <1>3
<1>5. Min(T) \in T
  <2> HIDE DEF T
  <2> QED BY <1>4, MinIsIn
<1> QED BY <1>1, <1>5 DEF FirstFree

(* An allocation gives its name a slot.                                    *)
LEMMA AllocatedIs ==
  ASSUME SessionAssumption, NEW names, NEW h, IsHeap(h, names), NEW n
  PROVE  IsHeap(Allocated(h, n), (names \cup {n}) \ {Root})
<1>1. FirstFree(h) \in Taken
  BY FirstFreeIs
<1>2. DOMAIN Allocated(h, n).at = DOMAIN h.at \cup {n}
  BY DEF Allocated
<1>3. ASSUME NEW m \in DOMAIN Allocated(h, n).at PROVE Allocated(h, n).at[m] \in Taken
  BY <1>1, <1>2, <1>3 DEF Allocated, IsHeap
<1>4. Allocated(h, n).sentinels = h.sentinels
  BY DEF Allocated
<1> QED BY <1>2, <1>3, <1>4, Zenon DEF IsHeap

LEMMA FreedIs ==
  ASSUME NEW names, NEW h, IsHeap(h, names), NEW S, Root \notin S
  PROVE  IsHeap(Freed(h, S), names \ S)
<1>1. DOMAIN Freed(h, S).at = DOMAIN h.at \ S
  BY DEF Freed
<1>2. ASSUME NEW m \in DOMAIN Freed(h, S).at PROVE Freed(h, S).at[m] \in Taken
  BY <1>1, <1>2 DEF Freed, IsHeap
<1>3. Freed(h, S).sentinels = h.sentinels
  BY DEF Freed
<1>4. DOMAIN Freed(h, S).at \ {Root} = names \ S
  BY <1>1, Zenon DEF IsHeap
<1> QED BY <1>2, <1>3, <1>4, Zenon DEF IsHeap

LEMMA SentinelIs ==
  ASSUME SessionAssumption, NEW names, NEW h, IsHeap(h, names)
  PROVE  IsHeap(Sentinel(h), names)
<1>1. Sentinel(h).at = h.at /\ Sentinel(h).sentinels = h.sentinels \cup {FirstFree(h)}
  BY DEF Sentinel
<1> QED BY <1>1, FirstFreeIs, Zenon DEF IsHeap

LEMMA FreshIs ==
  ASSUME SessionAssumption
  PROVE  IsHeap(FreshHeap, {})
<1>1. DOMAIN FreshHeap.at = {} /\ FreshHeap.sentinels = {0}
  BY DEF FreshHeap, NoGraph
<1> QED BY <1>1, SlotNumbers DEF IsHeap, Taken

(* The high watermark is a number.                                         *)
LEMMA WatermarkIs ==
  ASSUME SessionAssumption, NEW names, NEW h, IsHeap(h, names)
  PROVE  HighWatermark(h) \in Nat
<1> DEFINE T == Live(h) \cup {0}
<1>1. T \in SUBSET Nat /\ T # {} /\ (\A x \in T : x <= NoSlot) /\ NoSlot \in Nat
  BY SlotNumbers DEF IsHeap, Taken, Live
<1>2. Max(T) \in T
  <2> HIDE DEF T
  <2> QED BY <1>1, MaxIsGreatest
<1>3. Max(T) \in Nat
  <2> HIDE DEF T
  <2> QED BY <1>1, <1>2
<1> QED BY <1>3 DEF HighWatermark

---------------------------------------------------------------------------
(* The startup bindings, one after another.                                *)

LEMMA WithBuiltinsIs ==
  ASSUME SessionAssumption, NEW names, NEW h, IsHeap(h, names)
  PROVE  IsHeap(WithBuiltins(h), names \cup Builtins)
<1> DEFINE order == SetToSeq(Builtins)
           Upto(f, n) == [i \in 0 .. n |->
                            IF i = 0 THEN h ELSE Allocated(f[i - 1], order[i])]
           bound == CHOOSE f : f = Upto(f, Len(order))
<1>1. order \in Seq(Builtins) /\ Builtins = {order[i] : i \in 1 .. Len(order)}
  BY SetAsSequence, Zenon DEF SessionAssumption
<1>2. WithBuiltins(h) = bound[Len(order)]
  BY Zenon DEF WithBuiltins
<1>3. Root \notin names /\ Root \notin Builtins
  BY DEF IsHeap, SessionAssumption, Names
<1>4. ASSUME NEW m \in Nat, NEW f, f = Upto(f, m) PROVE \E g : g = Upto(g, m + 1)
  <2> DEFINE g == [i \in 0 .. m + 1 |->
                     IF i = m + 1 THEN Allocated(f[m], order[m + 1]) ELSE f[i]]
  <2>1. DOMAIN g = 0 .. m + 1 /\ DOMAIN Upto(g, m + 1) = 0 .. m + 1
    OBVIOUS
  <2>2. \A i \in 0 .. m : g[i] = f[i]
    OBVIOUS
  <2>3. g[m + 1] = Allocated(f[m], order[m + 1])
    OBVIOUS
  <2>4. g[m] = f[m]
    BY <2>2
  <2> HIDE DEF g
  <2>5. Upto(g, m + 1)[m + 1] = Allocated(g[m], order[m + 1])
    OBVIOUS
  <2>6. ASSUME NEW i \in 0 .. m PROVE g[i] = Upto(g, m + 1)[i]
    <3>1. f[i] = IF i = 0 THEN h ELSE Allocated(f[i - 1], order[i])
      BY <1>4
    <3>2. Upto(g, m + 1)[i] = IF i = 0 THEN h ELSE Allocated(g[i - 1], order[i])
      OBVIOUS
    <3>3. CASE i = 0
      BY <2>2, <3>1, <3>2, <3>3
    <3>4. CASE i # 0
      <4>1. i - 1 \in 0 .. m
        BY <3>4
      <4>2. g[i - 1] = f[i - 1] /\ g[i] = f[i]
        BY <2>2, <4>1
      <4> HIDE DEF Upto
      <4> QED BY <3>1, <3>2, <3>4, <4>2
    <3> QED BY <3>3, <3>4
  <2>7. \A i \in 0 .. m + 1 : g[i] = Upto(g, m + 1)[i]
    <3> HIDE DEF Upto
    <3>1. \A i \in 0 .. m + 1 : i \in 0 .. m \/ i = m + 1
      OBVIOUS
    <3> QED BY <2>3, <2>4, <2>5, <2>6, <3>1
  <2>8. g = [i \in 0 .. m + 1 |-> g[i]]
    BY DEF g
  <2>9. Upto(g, m + 1) = [i \in 0 .. m + 1 |-> Upto(g, m + 1)[i]]
    OBVIOUS
  <2>10. g = Upto(g, m + 1)
    <3> HIDE DEF Upto
    <3> QED BY <2>7, <2>8, <2>9
  <2> QED BY <2>10
<1>5. \E f : f = Upto(f, 0)
  <2> DEFINE g == [i \in 0 .. 0 |-> h]
  <2>1. g = Upto(g, 0)
    OBVIOUS
  <2> QED BY <2>1
<1> HIDE DEF Upto
<1>6. \A n \in Nat : \E f : f = Upto(f, n)
  <2> DEFINE T == {n \in Nat : ~ \E f : f = Upto(f, n)}
  <2> SUFFICES ASSUME T # {} PROVE FALSE
    OBVIOUS
  <2>1. PICK m \in T : \A n \in T : m <= n
    <3>1. T \in SUBSET Nat
      OBVIOUS
    <3> HIDE DEF T
    <3> QED BY <3>1, LeastNumber
  <2>2. m \in Nat \ {0}
    BY <1>5, <2>1
  <2>3. m - 1 \in Nat /\ m - 1 \notin T
    BY <2>1, <2>2
  <2>4. \E f : f = Upto(f, m - 1)
    BY <2>3
  <2>5. PICK f : f = Upto(f, m - 1)
    BY <2>4
  <2>6. \E g : g = Upto(g, (m - 1) + 1)
    BY <1>4, <2>3, <2>5
  <2>7. (m - 1) + 1 = m
    BY <2>2
  <2> QED BY <2>1, <2>6, <2>7
<1> DEFINE k == Len(order)
<1>7. k \in Nat
  BY <1>1
<1>8. bound = Upto(bound, k)
  BY <1>6, <1>7, Zenon
<1> HIDE DEF bound, order, k
<1>9. bound[0] = h /\ \A i \in 1 .. k : bound[i] = Allocated(bound[i - 1], order[i])
  BY <1>7, <1>8 DEF Upto
<1> DEFINE Named(i) == names \cup {order[j] : j \in 1 .. i}
           Wrong == {i \in 0 .. k : ~ IsHeap(bound[i], Named(i))}
<1>10. Wrong = {}
  <2> SUFFICES ASSUME Wrong # {} PROVE FALSE
    OBVIOUS
  <2>1. PICK m \in Wrong : \A n \in Wrong : m <= n
    <3>1. Wrong \in SUBSET Nat
      BY <1>7
    <3> HIDE DEF Wrong
    <3> QED BY <3>1, LeastNumber
  <2>2. m \in 0 .. k /\ ~ IsHeap(bound[m], Named(m))
    BY <2>1
  <2>3. Named(0) = names
    OBVIOUS
  <2>4. m # 0
    BY <1>9, <2>2, <2>3
  <2>5. m \in 1 .. k /\ m - 1 \in 0 .. k /\ m - 1 \notin Wrong
    BY <1>7, <2>1, <2>2, <2>4
  <2>6. IsHeap(bound[m - 1], Named(m - 1))
    BY <2>5
  <2>7. order[m] # Root
    BY <1>1, <1>3, <2>5 DEF k
  <2>8. (Named(m - 1) \cup {order[m]}) \ {Root} = Named(m)
    <3>1. \A j \in 1 .. m : order[j] # Root
      BY <1>1, <1>3, <2>5 DEF k
    <3>2. 1 .. m = (1 .. m - 1) \cup {m}
      BY <2>5, <1>7
    <3> QED BY <1>3, <3>1, <3>2
  <2>9. bound[m] = Allocated(bound[m - 1], order[m])
    BY <1>9, <2>5
  <2> HIDE DEF Named
  <2>10. IsHeap(bound[m], Named(m))
    BY <2>6, <2>8, <2>9, AllocatedIs
  <2> QED BY <2>2, <2>10
<1>11. k \in 0 .. k
  BY <1>7
<1>12. IsHeap(bound[k], Named(k))
  BY <1>10, <1>11
<1>13. Named(k) = names \cup Builtins
  BY <1>1 DEF k
<1> QED BY <1>2, <1>12, <1>13 DEF k

---------------------------------------------------------------------------
(* A snapshot, and what is restored of it.                                 *)

LEMMA NodesAre ==
  ASSUME NEW names, IsFiniteSet(names), Root \notin names, NEW a
  PROVE  /\ Nodes(a, names) \in Seq(names \cup {Root})
         /\ {Nodes(a, names)[i] : i \in 1 .. Len(Nodes(a, names))} \ {Root} = names
         /\ a \in Rooted => Len(Nodes(a, names)) > 0
<1> DEFINE q == SetToSeq(names)
<1>1. q \in Seq(names) /\ names = {q[i] : i \in 1 .. Len(q)}
  BY SetAsSequence, Zenon
<1>2. Nodes(a, names) = (IF a \in Rooted THEN <<Root>> ELSE <<>>) \o q
  BY DEF Nodes
<1> HIDE DEF q
<1>3. CASE a \in Rooted
  <2> DEFINE r == <<Root>> \o q
  <2>1. r \in Seq(names \cup {Root}) /\ Len(r) = 1 + Len(q) /\ Len(q) \in Nat
    BY <1>1
  <2>2. r[1] = Root /\ \A i \in 1 .. Len(q) : r[i + 1] = q[i]
    BY <1>1
  <2> HIDE DEF r
  <2>3. \A i \in 2 .. Len(r) : i - 1 \in 1 .. Len(q) /\ (i - 1) + 1 = i
    BY <2>1
  <2>4. \A i \in 2 .. Len(r) : r[i] \in names
    BY <1>1, <2>2, <2>3
  <2>5. \A x \in names : \E i \in 2 .. Len(r) : r[i] = x
    <3> SUFFICES ASSUME NEW x \in names PROVE \E i \in 2 .. Len(r) : r[i] = x
      OBVIOUS
    <3>1. PICK i \in 1 .. Len(q) : q[i] = x
      BY <1>1
    <3>2. i + 1 \in 2 .. Len(r) /\ r[i + 1] = x
      BY <2>1, <2>2, <3>1
    <3> QED BY <3>2
  <2>6. \A i \in 1 .. Len(r) : i = 1 \/ i \in 2 .. Len(r)
    BY <2>1
  <2>7. 2 .. Len(r) \subseteq 1 .. Len(r)
    BY <2>1
  <2>8. {r[i] : i \in 1 .. Len(r)} \ {Root} = names
    BY <2>2, <2>4, <2>5, <2>6, <2>7
  <2>9. Nodes(a, names) = r
    BY <1>2, <1>3 DEF r
  <2> QED BY <2>1, <2>8, <2>9
<1>4. CASE a \notin Rooted
  <2>1. Nodes(a, names) = q
    BY <1>1, <1>2, <1>4
  <2>2. q \in Seq(names \cup {Root})
    BY <1>1
  <2>3. {q[i] : i \in 1 .. Len(q)} \ {Root} = names
    BY <1>1
  <2> QED BY <1>4, <2>1, <2>2, <2>3
<1> QED BY <1>3, <1>4

LEMMA SnapshotIs ==
  ASSUME SessionAssumption, NEW h, NEW names, IsHeap(h, names),
         NEW X, NEW ns \in Seq(X), SnapshotFits(h, ns)
  PROVE  /\ DOMAIN SnapshotAt(h, ns) \subseteq Slots
         /\ \A i \in 1 .. Len(ns) :
              /\ HighWatermark(h) + i \in DOMAIN SnapshotAt(h, ns)
              /\ SnapshotAt(h, ns)[HighWatermark(h) + i] = ns[i]
         /\ {SnapshotAt(h, ns)[s] : s \in DOMAIN SnapshotAt(h, ns)}
              = {ns[i] : i \in 1 .. Len(ns)}
<1> DEFINE w == HighWatermark(h)
           k == Len(ns)
           snap == SnapshotAt(h, ns)
<1>1. w \in Nat /\ k \in Nat
  BY WatermarkIs
<1>2. snap = [s \in (w + 1) .. (w + k) |-> ns[s - w]]
  BY DEF SnapshotAt
<1>3. w + k \in Slots
  BY DEF SnapshotFits
<1> HIDE DEF w, k, snap
<1>4. DOMAIN snap = (w + 1) .. (w + k)
  BY <1>2
<1>5. DOMAIN snap \subseteq Slots
  BY <1>1, <1>3, <1>4, SlotNumbers
<1>6. \A i \in 1 .. k : w + i \in DOMAIN snap /\ (w + i) - w = i
  BY <1>1, <1>4
<1>7. \A i \in 1 .. k : snap[w + i] = ns[i]
  BY <1>2, <1>4, <1>6
<1>8. \A s \in DOMAIN snap : s - w \in 1 .. k /\ snap[s] = ns[s - w]
  BY <1>1, <1>2, <1>4
<1>9. {snap[s] : s \in DOMAIN snap} = {ns[i] : i \in 1 .. k}
  BY <1>6, <1>7, <1>8
<1> QED BY <1>5, <1>6, <1>7, <1>9 DEF w, k, snap

(* The slots found in the slabs of an allocator are the snapshot's.        *)
LEMMA RestoredIs ==
  ASSUME SessionAssumption, NEW d, NEW a, NEW snap, DOMAIN snap \subseteq Slots,
         \A f \in Discovered(d, a) :
           /\ DOMAIN d[f].slots \subseteq DOMAIN snap
           /\ \A s \in DOMAIN d[f].slots : d[f].slots[s] = snap[s],
         \A s \in DOMAIN snap : \E f \in Discovered(d, a) : s \in DOMAIN d[f].slots
  PROVE  IsHeap(RestoredHeap(d, a), {snap[s] : s \in DOMAIN snap} \ {Root})
<1> DEFINE images == {d[f] : f \in Discovered(d, a)}
           slots  == UNION {DOMAIN i.slots : i \in images}
           nodeAt(s) == (CHOOSE i \in images : s \in DOMAIN i.slots).slots[s]
           of(b) == {i \in images : i.index = b}
           at == [n \in {nodeAt(s) : s \in slots} |-> CHOOSE s \in slots : nodeAt(s) = n]
           loaded == [at |-> at, sentinels |-> {},
                      count |-> [b \in Slabs |-> IF of(b) = {} THEN 0
                                                 ELSE (CHOOSE i \in of(b) : TRUE).count]]
           nodes == {snap[s] : s \in DOMAIN snap}
<1>1. RestoredHeap(d, a) = IF images = {} THEN FreshHeap ELSE Sentinel(loaded)
  BY Zenon DEF RestoredHeap, SlabImages, Rebuilt
<1>2. CASE images = {}
  <2>1. DOMAIN snap = {}
    BY <1>2
  <2>2. nodes \ {Root} = {}
    BY <2>1
  <2> QED BY <1>1, <1>2, <2>2, FreshIs
<1>3. CASE images # {}
  <2>1. slots = DOMAIN snap
    <3>1. \A s \in slots : s \in DOMAIN snap
      OBVIOUS
    <3>2. \A s \in DOMAIN snap : s \in slots
      OBVIOUS
    <3> QED BY <3>1, <3>2
  <2>2. ASSUME NEW s \in slots PROVE nodeAt(s) = snap[s]
    <3>1. \E i \in images : s \in DOMAIN i.slots
      OBVIOUS
    <3> DEFINE j == CHOOSE i \in images : s \in DOMAIN i.slots
    <3>2. j \in images /\ s \in DOMAIN j.slots
      <4> HIDE DEF images
      <4> QED BY <3>1, Zenon
    <3> HIDE DEF j
    <3>3. j.slots[s] = snap[s]
      BY <3>2
    <3> QED BY <3>3 DEF j
  <2> HIDE DEF nodeAt, images
  <2>3. DOMAIN at = nodes
    BY <2>1, <2>2
  <2>4. ASSUME NEW n \in DOMAIN at PROVE at[n] \in Taken
    <3>1. n \in {nodeAt(s) : s \in slots}
      OBVIOUS
    <3>2. \E s \in slots : nodeAt(s) = n
      BY <3>1, Zenon
    <3>3. at[n] = CHOOSE s \in slots : nodeAt(s) = n
      BY <3>1
    <3>4. at[n] \in slots
      BY <3>2, <3>3, Zenon
    <3> HIDE DEF at, slots
    <3>5. at[n] \in 0 .. NoSlot - 1 /\ NoSlot \in Nat
      BY <2>1, <3>4, SlotNumbers
    <3> QED BY <3>5 DEF Taken
  <2>5. loaded.at = at /\ loaded.sentinels = {}
    OBVIOUS
  <2> HIDE DEF at, loaded
  <2>6. IsHeap(loaded, nodes \ {Root})
    BY <2>3, <2>4, <2>5, Zenon DEF IsHeap
  <2>7. IsHeap(Sentinel(loaded), nodes \ {Root})
    <3> HIDE DEF nodes
    <3> QED BY <2>6, SentinelIs, Zenon
  <2> QED BY <1>1, <1>3, <2>7, Zenon
<1> QED BY <1>2, <1>3

(* What is restored of any slabs, be some of an image missing, is within    *)
(* what they carry.                                                         *)
LEMMA RestoredWithin ==
  ASSUME SessionAssumption, NEW d, NEW a, NEW N,
         \A f \in Discovered(d, a) :
           /\ DOMAIN d[f].slots \subseteq Slots
           /\ \A s \in DOMAIN d[f].slots : d[f].slots[s] \in N
  PROVE  /\ DOMAIN RestoredHeap(d, a).at \subseteq N
         /\ IsHeap(RestoredHeap(d, a), DOMAIN RestoredHeap(d, a).at \ {Root})
<1> DEFINE images == {d[f] : f \in Discovered(d, a)}
           slots  == UNION {DOMAIN i.slots : i \in images}
           nodeAt(s) == (CHOOSE i \in images : s \in DOMAIN i.slots).slots[s]
           of(b) == {i \in images : i.index = b}
           at == [n \in {nodeAt(s) : s \in slots} |-> CHOOSE s \in slots : nodeAt(s) = n]
           loaded == [at |-> at, sentinels |-> {},
                      count |-> [b \in Slabs |-> IF of(b) = {} THEN 0
                                                 ELSE (CHOOSE i \in of(b) : TRUE).count]]
<1>1. RestoredHeap(d, a) = IF images = {} THEN FreshHeap ELSE Sentinel(loaded)
  BY Zenon DEF RestoredHeap, SlabImages, Rebuilt
<1>2. CASE images = {}
  <2>1. DOMAIN FreshHeap.at = {}
    BY DEF FreshHeap, NoGraph
  <2> HIDE DEF images, loaded
  <2>2. DOMAIN RestoredHeap(d, a).at = {}
    BY <1>1, <1>2, <2>1
  <2>3. {} \ {Root} = {}
    OBVIOUS
  <2>4. IsHeap(RestoredHeap(d, a), {})
    BY <1>1, <1>2, FreshIs
  <2> QED BY <2>2, <2>3, <2>4
<1>3. CASE images # {}
  <2>1. slots \subseteq Slots
    OBVIOUS
  <2>2. ASSUME NEW s \in slots PROVE nodeAt(s) \in N
    <3>1. \E i \in images : s \in DOMAIN i.slots
      OBVIOUS
    <3> DEFINE j == CHOOSE i \in images : s \in DOMAIN i.slots
    <3>2. j \in images /\ s \in DOMAIN j.slots
      <4> HIDE DEF images
      <4> QED BY <3>1, Zenon
    <3> HIDE DEF j
    <3>3. j.slots[s] \in N
      BY <3>2
    <3> QED BY <3>3 DEF j
  <2> HIDE DEF nodeAt, images
  <2>3. DOMAIN at \subseteq N
    BY <2>2
  <2>4. ASSUME NEW n \in DOMAIN at PROVE at[n] \in Taken
    <3>1. n \in {nodeAt(s) : s \in slots}
      OBVIOUS
    <3>2. \E s \in slots : nodeAt(s) = n
      BY <3>1, Zenon
    <3>3. at[n] = CHOOSE s \in slots : nodeAt(s) = n
      BY <3>1
    <3>4. at[n] \in slots
      BY <3>2, <3>3, Zenon
    <3> HIDE DEF at, slots
    <3>5. at[n] \in 0 .. NoSlot - 1 /\ NoSlot \in Nat
      BY <2>1, <3>4, SlotNumbers
    <3> QED BY <3>5 DEF Taken
  <2>5. loaded.at = at /\ loaded.sentinels = {}
    OBVIOUS
  <2> HIDE DEF at, loaded
  <2>6. IsHeap(loaded, DOMAIN at \ {Root})
    BY <2>4, <2>5, Zenon DEF IsHeap
  <2>7. IsHeap(Sentinel(loaded), DOMAIN at \ {Root})
    BY <2>6, SentinelIs, Zenon
  <2>8. DOMAIN Sentinel(loaded).at = DOMAIN at
    BY <2>5 DEF Sentinel
  <2>9. RestoredHeap(d, a) = Sentinel(loaded)
    BY <1>1, <1>3
  <2> QED BY <2>3, <2>7, <2>8, <2>9
<1> QED BY <1>2, <1>3

(* The part of a heap that some of its names lead to.                      *)
LEMMA ReachedIs ==
  ASSUME NEW h, NEW M, IsHeap(h, M), NEW names \in SUBSET M, Root \notin names
  PROVE  IsHeap(Reached(h, names), names)
<1> DEFINE nodes == DOMAIN h.at \cap (names \cup {Root})
<1>1. /\ Reached(h, names).at = Restrict(h.at, nodes)
      /\ Reached(h, names).sentinels = Live(h) \ {h.at[n] : n \in nodes}
  BY DEF Reached
<1>2. Reached(h, names).sentinels \subseteq Taken
  BY <1>1 DEF Live, IsHeap
<1>3. DOMAIN Reached(h, names).at = nodes
  BY <1>1 DEF Restrict
<1>4. nodes \ {Root} = names
  BY DEF IsHeap
<1>5. \A n \in nodes : Reached(h, names).at[n] \in Taken
  BY <1>1 DEF Restrict, IsHeap
<1> HIDE DEF nodes
<1> QED BY <1>2, <1>3, <1>4, <1>5, Zenon DEF IsHeap

---------------------------------------------------------------------------
(* The files of an image restore what the save was given.                  *)

LEMMA FilesDiffer ==
  \A a, b : /\ MetaFile(a) \notin {RootsFile, BootstrapFile, ManifestFile}
            /\ SlabFile(a, b) \notin {RootsFile, BootstrapFile, ManifestFile}
            /\ MetaFile(a)[1] = "meta" /\ MetaFile(a)[2] = a
            /\ SlabFile(a, b)[1] = "slab" /\ SlabFile(a, b)[2] = a /\ SlabFile(a, b)[3] = b
BY DEF MetaFile, SlabFile, RootsFile, BootstrapFile, ManifestFile

LEMMA LastFilesDiffer ==
  /\ RootsFile # BootstrapFile /\ RootsFile # ManifestFile /\ BootstrapFile # ManifestFile
  /\ \A f \in {RootsFile, BootstrapFile, ManifestFile} : f[1] # "meta" /\ f[1] # "slab"
BY DEF RootsFile, BootstrapFile, ManifestFile

LEMMA TextOf ==
  ASSUME NEW heap, NEW names, NEW parked, NEW mounts, NEW k, NEW f \in ImageFiles(heap, names)
  PROVE  Contents(heap, names, parked, mounts, k)[f] = Text(f, heap, names, parked, mounts, k)
BY DEF Contents

LEMMA TextOfMeta ==
  ASSUME NEW heap, NEW names, NEW parked, NEW mounts, NEW k, NEW a \in Allocs
  PROVE  Contents(heap, names, parked, mounts, k)[MetaFile(a)] = Metadata(Nodes(a, names), k)
<1> DEFINE f == MetaFile(a)
<1>1. f \in ImageFiles(heap, names)
  BY DEF ImageFiles
<1>2. f[1] = "meta" /\ f[2] = a /\ f # RootsFile
  BY FilesDiffer
<1> HIDE DEF f
<1>3. f[1] # "slab"
  BY <1>2
<1>4. Text(f, heap, names, parked, mounts, k) = Metadata(Nodes(a, names), k)
  BY <1>2, <1>3, Zenon DEF Text
<1>5. Contents(heap, names, parked, mounts, k)[f] = Metadata(Nodes(a, names), k)
  BY <1>1, <1>4, TextOf
<1> QED BY <1>5 DEF f

LEMMA TextOfSlab ==
  ASSUME NEW heap, NEW names, NEW parked, NEW mounts, NEW k, NEW a \in Allocs,
         NEW b \in ImageSlabs(heap[a], Nodes(a, names))
  PROVE  Contents(heap, names, parked, mounts, k)[SlabFile(a, b)]
           = Image(a, heap[a], Nodes(a, names), b, k)
<1> DEFINE f == SlabFile(a, b)
<1>1. f \in ImageFiles(heap, names)
  BY DEF ImageFiles, SlabFiles
<1>2. f[1] = "slab" /\ f[2] = a /\ f[3] = b /\ f # RootsFile
  BY FilesDiffer
<1> HIDE DEF f
<1>3. f[1] # "meta"
  BY <1>2
<1>4. Text(f, heap, names, parked, mounts, k) = Image(a, heap[a], Nodes(a, names), b, k)
  BY <1>2, <1>3, Zenon DEF Text
<1>5. Contents(heap, names, parked, mounts, k)[f] = Image(a, heap[a], Nodes(a, names), b, k)
  BY <1>1, <1>4, TextOf
<1> QED BY <1>5 DEF f

LEMMA ContentsAre ==
  ASSUME NEW heap, NEW names, NEW parked, NEW mounts, NEW k
  PROVE  /\ DOMAIN Contents(heap, names, parked, mounts, k) = ImageFiles(heap, names)
         /\ Contents(heap, names, parked, mounts, k)[RootsFile] = Roots(heap, parked, k)
         /\ \A f \in {BootstrapFile, ManifestFile} :
              Contents(heap, names, parked, mounts, k)[f] = Described(mounts, k)
<1>1. DOMAIN Contents(heap, names, parked, mounts, k) = ImageFiles(heap, names)
  BY DEF Contents
<1>2. {RootsFile, BootstrapFile, ManifestFile} \subseteq ImageFiles(heap, names)
  BY DEF ImageFiles
<1>3. Text(RootsFile, heap, names, parked, mounts, k) = Roots(heap, parked, k)
  BY LastFilesDiffer, Zenon DEF Text
<1>4. ASSUME NEW f \in {BootstrapFile, ManifestFile}
      PROVE  Text(f, heap, names, parked, mounts, k) = Described(mounts, k)
  <2>1. f[1] # "meta" /\ f[1] # "slab" /\ f # RootsFile
    BY LastFilesDiffer
  <2> QED BY <2>1, Zenon DEF Text
<1> QED BY <1>1, <1>2, <1>3, <1>4, TextOf

(* What was found of an allocator is its slabs in the image.               *)
LEMMA DiscoveredAre ==
  ASSUME NEW heap, NEW names, NEW parked, NEW mounts, NEW k, NEW a \in Allocs
  PROVE  Discovered(Contents(heap, names, parked, mounts, k), a)
           = {SlabFile(a, b) : b \in ImageSlabs(heap[a], Nodes(a, names))}
<1> DEFINE F == Contents(heap, names, parked, mounts, k)
           S == {SlabFile(a, b) : b \in ImageSlabs(heap[a], Nodes(a, names))}
<1>1. DOMAIN F = ImageFiles(heap, names)
  BY ContentsAre
<1> HIDE DEF F
<1>2. ASSUME NEW f \in Discovered(F, a) PROVE f \in S
  <2>1. f \in ImageFiles(heap, names) /\ f[1] = "slab" /\ f[2] = a
    BY <1>1 DEF Discovered
  <2>2. f \in SlabFiles(heap, names)
    BY <2>1, FilesDiffer, LastFilesDiffer DEF ImageFiles
  <2>3. PICK c \in Allocs : \E b \in ImageSlabs(heap[c], Nodes(c, names)) : f = SlabFile(c, b)
    BY <2>2 DEF SlabFiles
  <2>4. PICK b \in ImageSlabs(heap[c], Nodes(c, names)) : f = SlabFile(c, b)
    BY <2>3
  <2>5. c = a
    BY <2>1, <2>4, FilesDiffer
  <2> QED BY <2>4, <2>5
<1>3. ASSUME NEW b \in ImageSlabs(heap[a], Nodes(a, names))
      PROVE  SlabFile(a, b) \in Discovered(F, a)
  <2>1. SlabFile(a, b) \in ImageFiles(heap, names)
    BY DEF ImageFiles, SlabFiles
  <2> QED BY <1>1, <2>1, FilesDiffer DEF Discovered
<1>4. Discovered(F, a) = S
  BY <1>2, <1>3
<1> QED BY <1>4 DEF F

(* A slab of an image carries its part of the snapshot.                    *)
LEMMA ImageIs ==
  ASSUME NEW a, NEW h, NEW ns, NEW b, NEW k
  PROVE  LET i == Image(a, h, ns, b, k)
         IN  /\ i.allocator = a /\ i.index = b /\ i # Torn
             /\ DOMAIN i.slots = Since(h, ns, b)
             /\ \A s \in Since(h, ns, b) : i.slots[s] = SnapshotAt(h, ns)[s]
<1> DEFINE i == Image(a, h, ns, b, k)
           part == [s \in Since(h, ns, b) |-> SnapshotAt(h, ns)[s]]
<1>1. i.allocator = a /\ i.index = b /\ i.slots = part
  BY DEF Image
<1>2. i # Torn
  <2>1. DOMAIN i = {"allocator", "index", "save", "slots", "count"}
    BY DEF Image
  <2>2. DOMAIN Torn = {"torn"}
    BY DEF Torn
  <2> QED BY <2>1, <2>2
<1>3. DOMAIN part = Since(h, ns, b) /\ \A s \in Since(h, ns, b) : part[s] = SnapshotAt(h, ns)[s]
  OBVIOUS
<1> QED BY <1>1, <1>2, <1>3, Zenon

LEMMA AllocatorRestores ==
  ASSUME SessionAssumption, NEW heap, NEW names, NEW parked, NEW mounts, NEW k, NEW a \in Allocs,
         IsFiniteSet(names), Root \notin names,
         IsHeap(heap[a], names), SnapshotFits(heap[a], Nodes(a, names))
  PROVE  LET F == Contents(heap, names, parked, mounts, k)
         IN  /\ AllocatorLoads(F, a) /\ IsHeap(RestoredHeap(F, a), names)
             /\ a \in Rooted => HighWatermark(heap[a]) + 1 \in
                                  UNION {DOMAIN F[f].slots : f \in Discovered(F, a)}
<1> DEFINE F == Contents(heap, names, parked, mounts, k)
           h == heap[a]
           ns == Nodes(a, names)
           snap == SnapshotAt(h, ns)
           found == Discovered(F, a)
           slabs == ImageSlabs(h, ns)
<1>1. /\ ns \in Seq(names \cup {Root})
      /\ {ns[i] : i \in 1 .. Len(ns)} \ {Root} = names
      /\ a \in Rooted => Len(ns) > 0
  BY NodesAre
<1>2. /\ DOMAIN snap \subseteq Slots
      /\ \A i \in 1 .. Len(ns) : HighWatermark(h) + i \in DOMAIN snap
      /\ {snap[s] : s \in DOMAIN snap} = {ns[i] : i \in 1 .. Len(ns)}
  <2>1. IsHeap(h, names) /\ SnapshotFits(h, ns)
    OBVIOUS
  <2> HIDE DEF ns, h
  <2> QED BY <1>1, <2>1, SnapshotIs
<1>3. found = {SlabFile(a, b) : b \in slabs}
  BY DiscoveredAre
<1>4. \A b \in slabs : F[SlabFile(a, b)] = Image(a, h, ns, b, k)
  BY TextOfSlab
<1>5. F[MetaFile(a)] = Metadata(ns, k)
  BY TextOfMeta
<1>6. MetaFile(a) \in DOMAIN F /\ \A b \in slabs : SlabFile(a, b) \in DOMAIN F
  <2>1. DOMAIN F = ImageFiles(heap, names)
    BY ContentsAre
  <2> HIDE DEF F
  <2> QED BY <2>1 DEF ImageFiles, SlabFiles
<1>7. \A s \in DOMAIN snap : SlabOf(s) \in slabs /\ s \in Since(h, ns, SlabOf(s))
  BY <1>2, SlotNumbers DEF ImageSlabs, Since
<1>8. \A b \in slabs : Since(h, ns, b) \subseteq DOMAIN snap
  BY DEF Since
<1> HIDE DEF F, h, ns, snap, found, slabs
<1>9. \A b \in slabs :
        LET i == F[SlabFile(a, b)]
        IN  /\ i.allocator = a /\ i.index = b /\ i # Torn
            /\ DOMAIN i.slots = Since(h, ns, b)
            /\ \A s \in Since(h, ns, b) : i.slots[s] = snap[s]
  BY <1>4, ImageIs DEF snap
<1>10. SlabsReadable(F, a)
  <2>1. ASSUME NEW f \in found PROVE SlabDecodes(F, f)
    <3>1. PICK b \in slabs : f = SlabFile(a, b)
      BY <1>3
    <3> QED BY <1>6, <1>9, <3>1, FilesDiffer DEF SlabDecodes, Whole
  <2>2. ASSUME NEW f \in found, NEW g \in found, F[f].index = F[g].index PROVE f = g
    <3>1. PICK b \in slabs : f = SlabFile(a, b)
      BY <1>3
    <3>2. PICK c \in slabs : g = SlabFile(a, c)
      BY <1>3
    <3> QED BY <1>9, <2>2, <3>1, <3>2
  <2> QED BY <2>1, <2>2 DEF SlabsReadable, found
<1>11. found = {} => Len(ns) = 0
  <2> SUFFICES ASSUME found = {}, Len(ns) # 0 PROVE FALSE
    OBVIOUS
  <2>1. 1 \in 1 .. Len(ns)
    BY <1>1
  <2>2. HighWatermark(h) + 1 \in DOMAIN snap
    BY <1>2, <2>1
  <2>3. SlabOf(HighWatermark(h) + 1) \in slabs
    BY <1>7, <2>2
  <2> QED BY <1>3, <2>3
<1>12. AllocatorLoads(F, a)
  <2>1. Metadata(ns, k) # Torn /\ Metadata(ns, k).live = Len(ns)
    <3>1. DOMAIN Metadata(ns, k) = {"live", "save"} /\ DOMAIN Torn = {"torn"}
      BY DEF Metadata, Torn
    <3> QED BY <3>1 DEF Metadata
  <2>2. Whole(F, MetaFile(a))
    BY <1>5, <1>6, <2>1 DEF Whole
  <2>3. found = {} => F[MetaFile(a)].live = 0
    BY <1>5, <1>11, <2>1
  <2> QED BY <1>10, <2>2, <2>3 DEF AllocatorLoads, found
<1>13. \A f \in found : /\ DOMAIN F[f].slots \subseteq DOMAIN snap
                        /\ \A s \in DOMAIN F[f].slots : F[f].slots[s] = snap[s]
  BY <1>3, <1>8, <1>9
<1>14. \A s \in DOMAIN snap : \E f \in found : s \in DOMAIN F[f].slots
  <2> SUFFICES ASSUME NEW s \in DOMAIN snap PROVE \E f \in found : s \in DOMAIN F[f].slots
    OBVIOUS
  <2>1. SlabFile(a, SlabOf(s)) \in found
    BY <1>3, <1>7
  <2>2. s \in DOMAIN F[SlabFile(a, SlabOf(s))].slots
    BY <1>7, <1>9
  <2> QED BY <2>1, <2>2
<1>15. IsHeap(RestoredHeap(F, a), {snap[s] : s \in DOMAIN snap} \ {Root})
  BY <1>2, <1>13, <1>14, RestoredIs DEF found
<1>16. {snap[s] : s \in DOMAIN snap} \ {Root} = names
  BY <1>1, <1>2
<1>17. IsHeap(RestoredHeap(F, a), names)
  BY <1>15, <1>16
<1>18. ASSUME a \in Rooted
       PROVE  HighWatermark(h) + 1 \in UNION {DOMAIN F[f].slots : f \in found}
  <2>1. 1 \in 1 .. Len(ns)
    BY <1>1, <1>18
  <2>2. HighWatermark(h) + 1 \in DOMAIN snap
    BY <1>2, <2>1
  <2> QED BY <1>14, <2>2
<1> QED BY <1>12, <1>17, <1>18, Zenon DEF F, h, found

(* Every file of an image carries what the save was given, and its number.  *)
LEMMA ContentsCarry ==
  ASSUME SessionAssumption, NEW heap, NEW was, NEW k,
         IsFiniteSet(was.names), Root \notin was.names,
         \A a \in Allocs : /\ IsHeap(heap[a], was.names)
                           /\ SnapshotFits(heap[a], Nodes(a, was.names))
  PROVE  OfSave(Contents(heap, was.names, was.parked, was.mounts, k), was, k)
<1> DEFINE F == Contents(heap, was.names, was.parked, was.mounts, k)
<1>1. /\ DOMAIN F = ImageFiles(heap, was.names)
      /\ F[RootsFile] = Roots(heap, was.parked, k)
      /\ \A f \in {BootstrapFile, ManifestFile} : F[f] = Described(was.mounts, k)
  BY ContentsAre
<1>2. \A a \in Allocs : F[MetaFile(a)] = Metadata(Nodes(a, was.names), k)
  BY TextOfMeta
<1>3. \A a \in Allocs : \A b \in ImageSlabs(heap[a], Nodes(a, was.names)) :
        F[SlabFile(a, b)] = Image(a, heap[a], Nodes(a, was.names), b, k)
  BY TextOfSlab
<1> HIDE DEF F
<1>4. SUFFICES ASSUME NEW f \in ImageFiles(heap, was.names)
               PROVE  Carries(f, F[f], was) /\ F[f].save = k
  BY <1>1 DEF OfSave, AllCarry, F
<1>5. CASE \E a \in Allocs : f = MetaFile(a)
  <2>1. PICK a \in Allocs : f = MetaFile(a)
    BY <1>5
  <2>2. f[1] # "slab" /\ f # RootsFile /\ f # BootstrapFile
    BY <2>1, FilesDiffer
  <2>3. F[f] = Metadata(Nodes(a, was.names), k)
    BY <1>2, <2>1
  <2>4. F[f].save = k
    BY <2>3 DEF Metadata
  <2> QED BY <2>2, <2>4 DEF Carries
<1>6. CASE f \in SlabFiles(heap, was.names)
  <2>1. PICK a \in Allocs : \E b \in ImageSlabs(heap[a], Nodes(a, was.names)) : f = SlabFile(a, b)
    BY <1>6 DEF SlabFiles
  <2> DEFINE ns == Nodes(a, was.names)
             h == heap[a]
  <2>2. PICK b \in ImageSlabs(h, ns) : f = SlabFile(a, b)
    BY <2>1
  <2>3. F[f] = Image(a, h, ns, b, k)
    BY <1>3, <2>2
  <2>4. F[f].save = k
    BY <2>3 DEF Image
  <2>5. ns \in Seq(was.names \cup {Root})
    BY NodesAre
  <2>6. /\ IsHeap(h, was.names) /\ SnapshotFits(h, ns)
    OBVIOUS
  <2> HIDE DEF ns, h
  <2>7. /\ DOMAIN SnapshotAt(h, ns) \subseteq Slots
        /\ {SnapshotAt(h, ns)[s] : s \in DOMAIN SnapshotAt(h, ns)} = {ns[i] : i \in 1 .. Len(ns)}
    BY <2>5, <2>6, SnapshotIs
  <2>8. /\ DOMAIN F[f].slots = Since(h, ns, b)
        /\ \A s \in Since(h, ns, b) : F[f].slots[s] = SnapshotAt(h, ns)[s]
    BY <2>3, ImageIs
  <2>9. Since(h, ns, b) \subseteq DOMAIN SnapshotAt(h, ns)
    BY DEF Since
  <2>10. \A i \in 1 .. Len(ns) : ns[i] \in was.names \cup {Root}
    BY <2>5
  <2>11. ASSUME NEW s \in DOMAIN F[f].slots PROVE F[f].slots[s] \in was.names \cup {Root}
    <3>1. F[f].slots[s] = SnapshotAt(h, ns)[s] /\ s \in DOMAIN SnapshotAt(h, ns)
      BY <2>8, <2>9
    <3>2. SnapshotAt(h, ns)[s] \in {ns[i] : i \in 1 .. Len(ns)}
      BY <2>7, <3>1
    <3> QED BY <2>10, <3>1, <3>2
  <2>12. f # RootsFile /\ f # BootstrapFile
    BY <2>2, FilesDiffer
  <2> QED BY <2>4, <2>7, <2>8, <2>9, <2>11, <2>12 DEF Carries
<1>7. CASE f = RootsFile
  <2>1. F[f].save = k /\ F[f].parked = was.parked
    BY <1>1, <1>7 DEF Roots
  <2>2. f[1] # "slab" /\ f # BootstrapFile
    BY <1>7, LastFilesDiffer
  <2> QED BY <2>1, <2>2 DEF Carries
<1>8. CASE f \in {BootstrapFile, ManifestFile}
  <2>1. F[f] = Described(was.mounts, k)
    BY <1>1, <1>8
  <2>2. F[f].save = k /\ F[f].mounts = was.mounts
    BY <2>1 DEF Described
  <2>3. f[1] # "slab" /\ f # RootsFile
    BY <1>8, LastFilesDiffer
  <2> QED BY <2>2, <2>3 DEF Carries
<1> QED BY <1>5, <1>6, <1>7, <1>8 DEF ImageFiles

(* What a save writes restores what it was given.                          *)
LEMMA ImageRestores ==
  ASSUME SessionAssumption, NEW heap, NEW was, NEW k,
         IsFiniteSet(was.names), Root \notin was.names,
         \A a \in Allocs : /\ IsHeap(heap[a], was.names)
                           /\ SnapshotFits(heap[a], Nodes(a, was.names))
  PROVE  FilesAre(Contents(heap, was.names, was.parked, was.mounts, k), was, k)
<1> DEFINE F == Contents(heap, was.names, was.parked, was.mounts, k)
<1>1. /\ DOMAIN F = ImageFiles(heap, was.names)
      /\ F[RootsFile] = Roots(heap, was.parked, k)
      /\ F[BootstrapFile] = Described(was.mounts, k)
  BY ContentsAre
<1>2. \A a \in Allocs :
        /\ AllocatorLoads(F, a) /\ IsHeap(RestoredHeap(F, a), was.names)
        /\ a \in Rooted => HighWatermark(heap[a]) + 1 \in
                             UNION {DOMAIN F[f].slots : f \in Discovered(F, a)}
  BY AllocatorRestores
<1> HIDE DEF F
<1>3. {RootsFile, BootstrapFile, ManifestFile} \subseteq DOMAIN F
  BY <1>1 DEF ImageFiles
<1>4. F[RootsFile] # Torn
  <2>1. DOMAIN F[RootsFile] = {"anchor", "parked", "save"} /\ DOMAIN Torn = {"torn"}
    BY <1>1 DEF Torn, Roots
  <2> QED BY <2>1
<1>5. F[RootsFile].parked = was.parked
      /\ \A a \in Rooted : F[RootsFile].anchor[a] = HighWatermark(heap[a]) + 1
  BY <1>1 DEF Roots
<1>6. Rooted \subseteq Allocs
  BY DEF SessionAssumption
<1>7. RootLoads(F)
  BY <1>2, <1>3, <1>4, <1>5, <1>6 DEF RootLoads, Whole
<1>8. BodyIs(F, was)
  BY <1>2, <1>5, <1>7, Zenon DEF BodyIs
<1>9. CatalogueIs(F[BootstrapFile], was, k)
  BY <1>1 DEF CatalogueIs, Described
<1>10. \A f \in DOMAIN F : IsFile(f)
  <2> SUFFICES ASSUME NEW f \in ImageFiles(heap, was.names) PROVE IsFile(f)
    BY <1>1
  <2>1. CASE f \in SlabFiles(heap, was.names)
    BY <2>1 DEF SlabFiles, ImageSlabs, IsFile
  <2>2. CASE f \notin SlabFiles(heap, was.names)
    BY <2>2 DEF ImageFiles, IsFile
  <2> QED BY <2>1, <2>2
<1>11. OfSave(F, was, k)
  BY ContentsCarry DEF F
<1> QED BY <1>3, <1>8, <1>9, <1>10, <1>11 DEF FilesAre, F

(* It does not matter for that what bootstrap and manifest say.            *)
Agree(d, e) ==
  \A f : f \notin {BootstrapFile, ManifestFile} =>
           /\ f \in DOMAIN d <=> f \in DOMAIN e
           /\ f \in DOMAIN d => d[f] = e[f]

LEMMA BodyRests ==
  ASSUME NEW d, NEW e, Agree(d, e), NEW was, BodyIs(d, was)
  PROVE  BodyIs(e, was)
<1>1. \A a : Discovered(d, a) = Discovered(e, a)
  BY LastFilesDiffer DEF Discovered, Agree
<1>2. \A a : \A f \in Discovered(d, a) : f \in DOMAIN d /\ f \in DOMAIN e /\ d[f] = e[f]
  BY LastFilesDiffer DEF Discovered, Agree
<1>3. \A a : /\ MetaFile(a) \in DOMAIN d <=> MetaFile(a) \in DOMAIN e
             /\ MetaFile(a) \in DOMAIN d => d[MetaFile(a)] = e[MetaFile(a)]
  BY FilesDiffer DEF Agree
<1>4. RootsFile \in DOMAIN d => RootsFile \in DOMAIN e /\ d[RootsFile] = e[RootsFile]
  BY LastFilesDiffer DEF Agree
<1>5. ASSUME NEW a \in Allocs
      PROVE  AllocatorLoads(e, a) /\ IsHeap(RestoredHeap(e, a), was.names)
  <2>1. AllocatorLoads(d, a) /\ IsHeap(RestoredHeap(d, a), was.names)
    BY DEF BodyIs
  <2>2. SlabsReadable(e, a)
    BY <1>1, <1>2, <2>1 DEF AllocatorLoads, SlabsReadable, SlabDecodes, Whole
  <2>3. AllocatorLoads(e, a)
    BY <1>1, <1>3, <2>1, <2>2 DEF AllocatorLoads, Whole
  <2>4. SlabImages(d, a) = SlabImages(e, a)
    BY <1>1, <1>2 DEF SlabImages
  <2>5. RestoredHeap(d, a) = RestoredHeap(e, a)
    BY <2>4, Zenon DEF RestoredHeap
  <2> QED BY <2>1, <2>3, <2>5
<1>6. RootLoads(e) /\ e[RootsFile].parked = was.parked
  <2>1. RootLoads(d) /\ d[RootsFile].parked = was.parked /\ Whole(d, RootsFile)
    BY DEF BodyIs, RootLoads
  <2>2. e[RootsFile] = d[RootsFile] /\ Whole(e, RootsFile)
    BY <1>4, <2>1 DEF Whole
  <2>3. \A a : UNION {DOMAIN d[f].slots : f \in Discovered(d, a)}
             = UNION {DOMAIN e[f].slots : f \in Discovered(e, a)}
    BY <1>1, <1>2
  <2> QED BY <2>1, <2>2, <2>3 DEF RootLoads
<1> QED BY <1>5, <1>6 DEF BodyIs

---------------------------------------------------------------------------
(* Steps.                                                                  *)

LEMMA SessionInit ==
  ASSUME Init
  PROVE  SessionInv
<1>1. /\ disk = <<>> /\ saves = 0 /\ done = {} /\ begun = <<>>
      /\ proc = [p \in Procs |-> NoProc]
  BY DEF Init
<1>2. DOMAIN disk = {}
  BY <1>1
<1>3. DiskIs(disk, begun[saves], saves)
  BY <1>2 DEF DiskIs, Whole
<1>4. \A p \in Procs : proc[p].state = "down"
  BY <1>1 DEF NoProc
<1>5. done # {saves}
  BY <1>1
<1>6. AllCarry(disk, Anything) /\ OfSave(disk, begun[saves], saves)
  BY <1>2 DEF OfSave, AllCarry
<1>7. \A p \in Procs : StateIs(proc[p], disk, begun[saves], saves, done, image)
  BY <1>3, <1>4, <1>5, <1>6 DEF StateIs
<1>8. begun \in Seq(Given) /\ Len(begun) = 0
  BY <1>1
<1> QED BY <1>1, <1>7, <1>8 DEF SessionInv

(* A step of the one process.                                              *)
LEMMA StepKeeps ==
  ASSUME NEW p \in Procs, Procs = {p}, DOMAIN proc = Procs,
         NEW r, proc' = [proc EXCEPT ![p] = r],
         saves' \in Nat, begun' \in Seq(Given), Len(begun') = saves', done' \subseteq 0 .. saves',
         StateIs(r, disk', begun'[saves'], saves', done', image')
  PROVE  SessionInv'
<1>1. DOMAIN proc' = Procs /\ proc'[p] = r
  OBVIOUS
<1> QED BY <1>1, Zenon DEF SessionInv

(* A step that touches no file.                                            *)
LEMMA RestKeeps ==
  ASSUME SessionInv, NEW p \in Procs, Procs = {p},
         UNCHANGED <<disk, saves, done, begun, image>>,
         proc[p].state # "saving", NEW r, proc' = [proc EXCEPT ![p] = r],
         r.state \in {"down", "up", "clearing"}, r.state = "up" => UpIs(r),
         r.state = "clearing" => ClearingIs(r, saves)
  PROVE  SessionInv'
<1>1. disk' = disk /\ saves' = saves /\ done' = done /\ begun' = begun /\ image' = image
  OBVIOUS
<1>2. /\ DOMAIN proc = Procs /\ saves \in Nat /\ begun \in Seq(Given) /\ Len(begun) = saves
      /\ done \subseteq 0 .. saves /\ StateIs(proc[p], disk, begun[saves], saves, done, image)
  BY DEF SessionInv
<1>3. StateIs(r, disk, begun[saves], saves, done, image)
  BY <1>2 DEF StateIs
<1>4. StateIs(r, disk', begun'[saves'], saves', done', image')
  BY <1>1, <1>3, Zenon
<1> QED BY <1>1, <1>2, <1>4, StepKeeps

LEMMA StartedIs ==
  ASSUME SessionAssumption, NEW heap, NEW names \in SUBSET Names,
         NEW parked \in SUBSET Parked, NEW mounts \in SUBSET Mounts, NEW from,
         \A a \in Allocs : IsHeap(heap[a], names)
  PROVE  UpIs(Started(heap, names, parked, mounts, from))
<1> DEFINE r == Started(heap, names, parked, mounts, from)
<1>1. /\ r.state = "up" /\ r.heap = [a \in Allocs |-> WithBuiltins(heap[a])]
      /\ r.names = names \cup Builtins
      /\ r.parked = parked /\ r.mounts = mounts /\ r.from = from
      /\ DOMAIN r = {"state", "heap", "names", "parked", "mounts", "from"}
  BY DEF Started
<1> HIDE DEF r
<1>2. \A a \in Allocs : IsHeap(WithBuiltins(heap[a]), names \cup Builtins)
  BY WithBuiltinsIs
<1>3. DOMAIN r.heap = Allocs /\ \A a \in Allocs : r.heap[a] = WithBuiltins(heap[a])
  BY <1>1
<1>4. \A a \in Allocs : IsHeap(r.heap[a], r.names)
  BY <1>1, <1>2, <1>3
<1>5. r.names \subseteq Names /\ r.parked \subseteq Parked /\ r.mounts \subseteq Mounts
  BY <1>1 DEF Names
<1>6. UpIs(r)
  BY <1>1, <1>3, <1>4, <1>5 DEF UpIs
<1> QED BY <1>6 DEF r

LEMMA StartFreshKeeps ==
  ASSUME SessionAssumption, SessionInv, NEW p \in Procs, Procs = {p}, StartFresh(p)
  PROVE  SessionInv'
<1>1. proc[p].state = "down" /\ UNCHANGED <<disk, saves, done, begun, image>>
  BY DEF StartFresh
<1> DEFINE heap == [a \in Allocs |-> FreshHeapOf(a)]
<1>2. PICK mounts \in SUBSET Mounts : Starts(p, Started(heap, {}, {}, mounts, 0))
  BY DEF StartFresh
<1> DEFINE r == Started(heap, {}, {}, mounts, 0)
<1>3. \A a \in Allocs : IsHeap(heap[a], {})
  <2>1. IsHeap(FreshHeap, {})
    BY FreshIs
  <2>2. IsHeap(Allocated(FreshHeap, Root), ({} \cup {Root}) \ {Root})
    BY <2>1, AllocatedIs
  <2>3. ({} \cup {Root}) \ {Root} = {}
    OBVIOUS
  <2> QED BY <2>1, <2>2, <2>3 DEF FreshHeapOf
<1> HIDE DEF heap
<1>4. UpIs(r)
  BY <1>3, StartedIs
<1>5. r.state = "up"
  BY DEF Started
<1>6. proc' = [proc EXCEPT ![p] = r]
  BY <1>2 DEF Starts
<1> HIDE DEF r
<1> QED BY <1>1, <1>4, <1>5, <1>6, RestKeeps

(* What a start finds on disk: names, continuations and mounts, and of them *)
(* what the files carry.                                                   *)
FoundNodes == [a \in Allocs |-> Reached(RestoredHeap(disk, a), Found(disk))]

LEMMA SlabsCarry ==
  ASSUME SessionAssumption, NEW d, NEW was, AllCarry(d, was), NEW a, SlabsReadable(d, a)
  PROVE  /\ DOMAIN RestoredHeap(d, a).at \subseteq was.names \cup {Root}
         /\ IsHeap(RestoredHeap(d, a), DOMAIN RestoredHeap(d, a).at \ {Root})
<1>1. ASSUME NEW f \in Discovered(d, a)
      PROVE  /\ DOMAIN d[f].slots \subseteq Slots
             /\ \A s \in DOMAIN d[f].slots : d[f].slots[s] \in was.names \cup {Root}
  <2>1. f \in DOMAIN d /\ f[1] = "slab" /\ d[f] # Torn
    BY DEF SlabsReadable, SlabDecodes, Whole, Discovered
  <2> QED BY <2>1 DEF AllCarry, Carries
<1> QED BY <1>1, RestoredWithin

LEMMA FoundIs ==
  ASSUME SessionAssumption, NEW was, AllCarry(disk, was), Exists(disk), Loads(disk)
  PROVE  /\ Found(disk) \subseteq Names \cap was.names
         /\ \A a \in Allocs : IsHeap(FoundNodes[a], Found(disk))
         /\ Waiting(disk) \subseteq was.parked /\ Declared(disk) \subseteq was.mounts
         /\ Whole(disk, Catalogue(disk))
<1>1. /\ Whole(disk, Catalogue(disk)) /\ RootLoads(disk)
      /\ \A a \in Allocs : SlabsReadable(disk, a)
  BY DEF Loads, CatalogueLoads, AllocatorLoads
<1>2. \A a \in Allocs :
        /\ DOMAIN RestoredHeap(disk, a).at \subseteq was.names \cup {Root}
        /\ IsHeap(RestoredHeap(disk, a), DOMAIN RestoredHeap(disk, a).at \ {Root})
  BY <1>1, SlabsCarry
<1>3. Root \notin Names /\ Rooted \subseteq Allocs /\ Rooted # {}
  BY DEF SessionAssumption
<1>4. Found(disk) \subseteq Names
  BY DEF Found
<1>5. \A a \in Allocs : Found(disk) \subseteq DOMAIN RestoredHeap(disk, a).at \ {Root}
  BY <1>3, <1>4 DEF Found
<1>6. Found(disk) \subseteq was.names
  BY <1>2, <1>3, <1>5
<1>7. ASSUME NEW a \in Allocs PROVE IsHeap(FoundNodes[a], Found(disk))
  <2>1. Root \notin Found(disk)
    BY <1>3, <1>4
  <2>2. IsHeap(Reached(RestoredHeap(disk, a), Found(disk)), Found(disk))
    BY <1>2, <1>5, <2>1, ReachedIs
  <2> QED BY <2>2 DEF FoundNodes
<1>8. Waiting(disk) \subseteq was.parked
  <2>1. RootsFile \in DOMAIN disk /\ disk[RootsFile] # Torn
    BY <1>1 DEF RootLoads, Whole
  <2> QED BY <2>1 DEF Waiting, AllCarry, Carries
<1>9. Declared(disk) \subseteq was.mounts
  <2>1. BootstrapFile \in DOMAIN disk => disk[BootstrapFile] # Torn
    BY <1>1 DEF Catalogue, Whole
  <2> QED BY <2>1 DEF Declared, AllCarry, Carries
<1> QED BY <1>1, <1>4, <1>6, <1>7, <1>8, <1>9

(* Where no clearing was cut short, that is all the last save was given.   *)
LEMMA AllFound ==
  ASSUME SessionAssumption, SessionInv, NEW p \in Procs, proc[p].state = "down",
         Exists(disk), Loads(disk), image = "left"
  PROVE  /\ Found(disk) = begun[saves].names
         /\ Waiting(disk) = begun[saves].parked
         /\ Declared(disk) = begun[saves].mounts
<1> DEFINE was == begun[saves]
<1>1. DiskIs(disk, was, saves) /\ saves \in Nat /\ begun \in Seq(Given) /\ Len(begun) = saves
  BY DEF SessionInv, StateIs
<1>2. /\ Whole(disk, BootstrapFile) /\ Declared(disk) = disk[BootstrapFile].mounts
  BY <1>1 DEF DiskIs, Exists, Loads, CatalogueLoads, Catalogue, Declared, Whole
<1>3. saves > 0 /\ BodyIs(disk, was) /\ CatalogueIs(disk[BootstrapFile], was, saves)
  BY <1>1, <1>2 DEF DiskIs
<1>4. was \in Given
  BY <1>1, <1>3
<1> HIDE DEF was
<1>5. \A a \in Allocs : DOMAIN RestoredHeap(disk, a).at \ {Root} = was.names
  BY <1>3 DEF BodyIs, IsHeap
<1>6. was.names \subseteq Names /\ Scheduler \in was.names /\ Root \notin Names
  BY <1>4 DEF Given, Names, SessionAssumption
<1>7. Found(disk) = was.names
  <2>1. PICK c \in Rooted : c \in Allocs
    BY DEF SessionAssumption
  <2>2. ASSUME NEW n \in Names
        PROVE  n \in was.names <=> \A a \in Allocs : n \in DOMAIN RestoredHeap(disk, a).at
    BY <1>5, <1>6, <2>1
  <2> QED BY <1>6, <2>2, Zenon DEF Found
<1>8. disk[RootsFile].parked = was.parked /\ disk[BootstrapFile].mounts = was.mounts
  BY <1>3 DEF BodyIs, CatalogueIs
<1> QED BY <1>2, <1>6, <1>7, <1>8 DEF Waiting, was

LEMMA StartRestoredKeeps ==
  ASSUME SessionAssumption, SessionInv, NEW p \in Procs, Procs = {p}, StartRestored(p)
  PROVE  SessionInv'
<1> DEFINE r == Started(FoundNodes, Found(disk), Waiting(disk), Declared(disk),
                        disk[Catalogue(disk)].save)
<1>1. /\ proc[p].state = "down" /\ Exists(disk) /\ Loads(disk)
      /\ UNCHANGED <<disk, saves, done, begun, image>>
      /\ proc' = [proc EXCEPT ![p] = r]
  BY DEF StartRestored, Starts, FoundNodes
<1>2. AllCarry(disk, Anything)
  BY DEF SessionInv, StateIs
<1>3. /\ Found(disk) \subseteq Names \cap Anything.names
      /\ \A a \in Allocs : IsHeap(FoundNodes[a], Found(disk))
      /\ Waiting(disk) \subseteq Anything.parked /\ Declared(disk) \subseteq Anything.mounts
  BY <1>1, <1>2, FoundIs
<1>4. Waiting(disk) \subseteq Parked /\ Declared(disk) \subseteq Mounts
  BY <1>3 DEF Anything
<1>5. UpIs(r)
  BY <1>3, <1>4, StartedIs
<1>6. r.state = "up"
  BY DEF Started
<1> HIDE DEF r
<1> QED BY <1>1, <1>5, <1>6, RestKeeps

LEMMA Rebound ==
  ASSUME NEW r, UpIs(r), NEW names, NEW heap
  PROVE  LET new == [r EXCEPT !.names = names, !.heap = heap]
         IN  /\ DOMAIN new = DOMAIN r /\ new.state = "up"
             /\ new.heap = heap /\ new.names = names
             /\ new.parked = r.parked /\ new.mounts = r.mounts
BY DEF UpIs

LEMMA BindKeeps ==
  ASSUME SessionAssumption, SessionInv, NEW p \in Procs, Procs = {p}, Bind(p)
  PROVE  SessionInv'
<1>1. PICK n \in UserNames :
        /\ proc[p].state = "up"
        /\ proc' = [proc EXCEPT ![p].names = @ \cup {n},
                                ![p].heap = [a \in Allocs |-> Allocated(@[a], n)]]
        /\ UNCHANGED <<disk, saves, done, begun, image>>
  BY DEF Bind
<1> DEFINE heap == [a \in Allocs |-> Allocated(proc[p].heap[a], n)]
           names == proc[p].names \cup {n}
           r == [proc[p] EXCEPT !.names = names, !.heap = heap]
<1>2. UpIs(proc[p])
  BY <1>1 DEF SessionInv, StateIs
<1>3. proc' = [proc EXCEPT ![p] = r]
  BY <1>1
<1> HIDE DEF heap, names
<1>4. /\ DOMAIN r = DOMAIN proc[p] /\ r.state = "up" /\ r.heap = heap /\ r.names = names
      /\ r.parked = proc[p].parked /\ r.mounts = proc[p].mounts
  BY <1>2, Rebound
<1> USE DEF names
<1> HIDE DEF r
<1>5. \A a \in Allocs : IsHeap(heap[a], proc[p].names \cup {n})
  <2> SUFFICES ASSUME NEW a \in Allocs PROVE IsHeap(heap[a], proc[p].names \cup {n})
    OBVIOUS
  <2>1. IsHeap(Allocated(proc[p].heap[a], n), (proc[p].names \cup {n}) \ {Root})
    BY <1>2, AllocatedIs DEF UpIs
  <2>2. (proc[p].names \cup {n}) \ {Root} = proc[p].names \cup {n}
    BY <1>2 DEF UpIs, SessionAssumption, Names
  <2> QED BY <2>1, <2>2 DEF heap
<1>6. DOMAIN heap = Allocs
  BY DEF heap
<1>7. proc[p].names \cup {n} \subseteq Names
  BY <1>2 DEF UpIs, Names
<1>8. proc[p].parked \subseteq Parked /\ proc[p].mounts \subseteq Mounts
  BY <1>2 DEF UpIs
<1>9. UpIs(r) /\ r.state = "up"
  BY <1>2, <1>4, <1>5, <1>6, <1>7, <1>8 DEF UpIs
<1> QED BY <1>1, <1>3, <1>9, RestKeeps

LEMMA UnbindKeeps ==
  ASSUME SessionAssumption, SessionInv, NEW p \in Procs, Procs = {p}, Unbind(p)
  PROVE  SessionInv'
<1>1. PICK n \in UserNames :
        /\ proc[p].state = "up"
        /\ proc' = [proc EXCEPT ![p].names = @ \ {n},
                                ![p].heap = [a \in Allocs |-> Freed(@[a], {n})]]
        /\ UNCHANGED <<disk, saves, done, begun, image>>
  BY DEF Unbind
<1> DEFINE heap == [a \in Allocs |-> Freed(proc[p].heap[a], {n})]
           names == proc[p].names \ {n}
           r == [proc[p] EXCEPT !.names = names, !.heap = heap]
<1>2. UpIs(proc[p])
  BY <1>1 DEF SessionInv, StateIs
<1>3. proc' = [proc EXCEPT ![p] = r]
  BY <1>1
<1> HIDE DEF heap, names
<1>4. /\ DOMAIN r = DOMAIN proc[p] /\ r.state = "up" /\ r.heap = heap /\ r.names = names
      /\ r.parked = proc[p].parked /\ r.mounts = proc[p].mounts
  BY <1>2, Rebound
<1> USE DEF names
<1> HIDE DEF r
<1>5. \A a \in Allocs : IsHeap(heap[a], proc[p].names \ {n})
  <2>1. Root \notin {n}
    BY DEF SessionAssumption, Names
  <2>2. \A a \in Allocs : IsHeap(Freed(proc[p].heap[a], {n}), proc[p].names \ {n})
    BY <1>2, <2>1, FreedIs DEF UpIs
  <2> QED BY <2>2 DEF heap
<1>6. DOMAIN heap = Allocs
  BY DEF heap
<1>7. /\ proc[p].names \ {n} \subseteq Names
      /\ proc[p].parked \subseteq Parked /\ proc[p].mounts \subseteq Mounts
  BY <1>2 DEF UpIs
<1>8. UpIs(r) /\ r.state = "up"
  BY <1>2, <1>4, <1>5, <1>6, <1>7 DEF UpIs
<1> QED BY <1>1, <1>3, <1>8, RestKeeps

LEMMA ParkKeeps ==
  ASSUME SessionAssumption, SessionInv, NEW p \in Procs, Procs = {p}, Park(p)
  PROVE  SessionInv'
<1>1. proc[p].state = "up" /\ UNCHANGED <<disk, saves, done, begun, image>>
  BY DEF Park
<1>2. PICK c \in Parked : proc' = [proc EXCEPT ![p].parked = @ \cup {c}]
  BY DEF Park
<1> DEFINE r == [proc[p] EXCEPT !.parked = @ \cup {c}]
<1>3. UpIs(proc[p])
  BY <1>1 DEF SessionInv, StateIs
<1>4. proc' = [proc EXCEPT ![p] = r]
  BY <1>2
<1>5. /\ DOMAIN r = DOMAIN proc[p] /\ r.state = "up" /\ r.heap = proc[p].heap
      /\ r.names = proc[p].names /\ r.parked = proc[p].parked \cup {c}
      /\ r.mounts = proc[p].mounts
  BY <1>3 DEF UpIs
<1> HIDE DEF r
<1>6. UpIs(r) /\ r.state = "up"
  BY <1>3, <1>5 DEF UpIs
<1> QED BY <1>1, <1>4, <1>6, RestKeeps

LEMMA ExitKeeps ==
  ASSUME SessionInv, NEW p \in Procs, Procs = {p}, SaveRefused(p) \/ ExitWithoutSave(p)
  PROVE  SessionInv'
<1>1. /\ proc[p].state # "saving" /\ proc' = [proc EXCEPT ![p] = NoProc]
      /\ UNCHANGED <<disk, saves, done, begun, image>>
  BY DEF SaveRefused, ExitWithoutSave
<1>2. NoProc.state = "down"
  BY DEF NoProc
<1> QED BY <1>1, <1>2, RestKeeps

(* What a save is given: the names of the program and the scheduler's, each *)
(* with a slot in every allocator.                                         *)
LEMMA KeptIs ==
  ASSUME SessionAssumption, NEW p, UpIs(proc[p])
  PROVE  /\ Kept(p) \subseteq UserNames \cup {Scheduler}
         /\ IsFiniteSet(Kept(p)) /\ Root \notin Kept(p)
         /\ \A a \in Allocs : IsHeap(KeptHeap(p)[a], Kept(p))
<1> DEFINE names == proc[p].names
           S == names \cap Volatile
<1>1. names \subseteq Names /\ Root \notin Names
  BY DEF UpIs, SessionAssumption
<1>2. Kept(p) \subseteq UserNames \cup {Scheduler}
  BY <1>1 DEF Kept, Names
<1>3. IsFiniteSet(UserNames \cup {Scheduler})
  BY FS_Singleton, FS_Union DEF SessionAssumption
<1>4. IsFiniteSet(Kept(p))
  BY <1>2, <1>3, FS_Subset
<1>5. Root \notin Kept(p)
  BY <1>1, <1>2 DEF Names
<1>6. ((names \ S) \cup {Scheduler}) \ {Root} = Kept(p)
  BY <1>1 DEF Kept, Volatile, Names
<1>7. ASSUME NEW a \in Allocs PROVE IsHeap(KeptHeap(p)[a], Kept(p))
  <2>1. IsHeap(proc[p].heap[a], names) /\ Root \notin S
    BY <1>1 DEF UpIs
  <2>2. Stripped(p, a) = Freed(proc[p].heap[a], S)
    BY DEF Stripped
  <2> HIDE DEF S, names
  <2>3. IsHeap(Stripped(p, a), names \ S)
    BY <2>1, <2>2, FreedIs
  <2>4. IsHeap(Allocated(Stripped(p, a), Scheduler), ((names \ S) \cup {Scheduler}) \ {Root})
    BY <2>3, AllocatedIs
  <2>5. KeptHeap(p)[a] = Allocated(Stripped(p, a), Scheduler)
    BY DEF KeptHeap
  <2> QED BY <1>6, <2>4, <2>5, Zenon
<1> QED BY <1>2, <1>4, <1>5, <1>7

LEMMA SaveBeginsKeeps ==
  ASSUME SessionAssumption, SessionInv, NEW p \in Procs, Procs = {p}, SaveBegins(p)
  PROVE  SessionInv'
<1>1. /\ proc[p].state = "up" /\ Fits(p)
      /\ UNCHANGED <<disk, saves, done, begun, image>>
  BY DEF SaveBegins
<1>2. PICK still \in SUBSET proc[p].parked :
        proc' = [proc EXCEPT ![p] =
          [state |-> "clearing", save |-> saves + 1,
           given |-> [names |-> Kept(p), parked |-> still, mounts |-> proc[p].mounts],
           todo |-> ImageFiles(KeptHeap(p), Kept(p)),
           files |-> Contents(KeptHeap(p), Kept(p), still, proc[p].mounts, saves + 1)]]
  BY DEF SaveBegins
<1> DEFINE was == [names |-> Kept(p), parked |-> still, mounts |-> proc[p].mounts]
           files == Contents(KeptHeap(p), Kept(p), still, proc[p].mounts, saves + 1)
           todo == ImageFiles(KeptHeap(p), Kept(p))
           r == [state |-> "clearing", save |-> saves + 1, given |-> was, todo |-> todo,
                 files |-> files]
<1>3. UpIs(proc[p])
  BY <1>1 DEF SessionInv, StateIs
<1>4. /\ Kept(p) \subseteq UserNames \cup {Scheduler} /\ Scheduler \in Kept(p)
      /\ IsFiniteSet(Kept(p)) /\ Root \notin Kept(p)
      /\ \A a \in Allocs : IsHeap(KeptHeap(p)[a], Kept(p))
  BY <1>3, KeptIs DEF Kept
<1>5. was \in Given
  BY <1>3, <1>4 DEF Given, UpIs
<1>6. was.names = Kept(p) /\ was.parked = still /\ was.mounts = proc[p].mounts
  OBVIOUS
<1>7. DOMAIN files = todo
  BY ContentsAre
<1>8. proc' = [proc EXCEPT ![p] = r]
  BY <1>2
<1>9. \A a \in Allocs : SnapshotFits(KeptHeap(p)[a], Nodes(a, Kept(p)))
  BY <1>1 DEF Fits
<1> HIDE DEF was
<1>10. FilesAre(files, was, saves + 1)
  <2>1. FilesAre(Contents(KeptHeap(p), was.names, was.parked, was.mounts, saves + 1),
                 was, saves + 1)
    BY <1>4, <1>6, <1>9, ImageRestores
  <2> QED BY <1>6, <2>1
<1> HIDE DEF files, todo
<1>11. /\ DOMAIN r = ImageFields /\ r.state = "clearing" /\ r.save = saves + 1
       /\ r.given = was /\ r.todo = todo /\ r.files = files
  BY DEF ImageFields
<1> HIDE DEF r
<1>12. ClearingIs(r, saves)
  BY <1>5, <1>7, <1>10, <1>11 DEF ClearingIs
<1> QED BY <1>1, <1>8, <1>11, <1>12, RestKeeps

(* A file removed takes nothing from what the others carry.                *)
LEMMA ClearFileKeeps ==
  ASSUME SessionInv, NEW p \in Procs, Procs = {p}, ClearFile(p)
  PROVE  SessionInv'
<1>1. PICK f \in DOMAIN disk : disk' = Restrict(disk, DOMAIN disk \ {f})
  BY DEF ClearFile
<1>2. /\ proc[p].state = "clearing" /\ UNCHANGED <<proc, saves, done, begun>>
      /\ image' = IF image = "mixed" THEN "mixed" ELSE "cut"
  BY DEF ClearFile
<1>3. /\ saves \in Nat /\ begun \in Seq(Given) /\ Len(begun) = saves
      /\ done \subseteq 0 .. saves /\ DOMAIN proc = Procs
      /\ StateIs(proc[p], disk, begun[saves], saves, done, image)
  BY DEF SessionInv
<1> DEFINE was == begun[saves]
<1>4. DOMAIN disk' \subseteq DOMAIN disk /\ \A g \in DOMAIN disk' : disk'[g] = disk[g]
  BY <1>1 DEF Restrict
<1>5. AllCarry(disk, Anything) /\ (image # "mixed" => OfSave(disk, was, saves))
  BY <1>3 DEF StateIs
<1> HIDE DEF was
<1>6. AllCarry(disk', Anything)
  BY <1>4, <1>5 DEF AllCarry
<1>7. image' # "mixed" => OfSave(disk', was, saves)
  BY <1>2, <1>4, <1>5 DEF OfSave, AllCarry
<1>8. image' # "left" /\ ClearingIs(proc[p], saves)
  BY <1>2, <1>3 DEF StateIs
<1>9. StateIs(proc[p], disk', was, saves, done, image')
  BY <1>2, <1>6, <1>7, <1>8 DEF StateIs
<1>10. \A q \in Procs : StateIs(proc[q], disk', begun[saves], saves, done, image')
  BY <1>9 DEF was
<1>11. proc' = proc /\ saves' = saves /\ done' = done /\ begun' = begun
  BY <1>2
<1> QED BY <1>3, <1>10, <1>11, Zenon DEF SessionInv

(* No file is left, or nothing is claimed of those that are.               *)
LEMMA ClearEndsKeeps ==
  ASSUME SessionInv, NEW p \in Procs, Procs = {p}, ClearEnds(p)
  PROVE  SessionInv'
<1>1. /\ proc[p].state = "clearing" /\ DOMAIN disk \subseteq Stuck
      /\ saves' = saves + 1 /\ begun' = Append(begun, proc[p].given)
      /\ image' = IF DOMAIN disk \cap Stuck = {} THEN "left" ELSE "mixed"
      /\ proc' = [proc EXCEPT ![p].state = "saving"]
      /\ disk' = disk /\ done' = done
  BY DEF ClearEnds, Cleared
<1>2. /\ saves \in Nat /\ begun \in Seq(Given) /\ Len(begun) = saves
      /\ done \subseteq 0 .. saves /\ DOMAIN proc = Procs
      /\ AllCarry(disk, Anything) /\ ClearingIs(proc[p], saves)
  BY <1>1 DEF SessionInv, StateIs
<1> DEFINE was == proc[p].given
           r == [proc[p] EXCEPT !.state = "saving"]
           k == saves + 1
<1>3. /\ DOMAIN proc[p] = ImageFields /\ proc[p].save = k /\ was \in Given
      /\ FilesAre(proc[p].files, was, k) /\ proc[p].todo = DOMAIN proc[p].files
  BY <1>2 DEF ClearingIs
<1>4. proc' = [proc EXCEPT ![p] = r]
  BY <1>1
<1>5. /\ DOMAIN r = ImageFields /\ r.state = "saving" /\ r.save = k
      /\ r.todo = DOMAIN r.files /\ FilesAre(r.files, was, k)
  BY <1>3 DEF ImageFields
<1> HIDE DEF r, was
<1>6. begun' \in Seq(Given) /\ Len(begun') = k /\ begun'[k] = was
  BY <1>1, <1>2, <1>3 DEF was
<1>7. k \in Nat /\ k > 0 /\ done \subseteq 0 .. k /\ k \notin done
  BY <1>2
<1>8. {BootstrapFile, ManifestFile} \subseteq r.todo
  BY <1>5 DEF FilesAre
<1>9. image' # "mixed" => DOMAIN disk = {}
  BY <1>1
<1>10. image' = "left" => DOMAIN disk = {}
  BY <1>9
<1>11. image' # "mixed" => OfSave(disk, was, k)
  BY <1>9 DEF OfSave, AllCarry
<1> HIDE DEF k
<1>12. SavingIs(r, disk, was, k, image')
  BY <1>5, <1>7, <1>8, <1>10 DEF SavingIs
<1>13. StateIs(r, disk, was, k, done, image')
  BY <1>2, <1>5, <1>7, <1>11, <1>12 DEF StateIs
<1>14. StateIs(r, disk', begun'[saves'], saves', done', image')
  BY <1>1, <1>6, <1>13, Zenon DEF k
<1> QED BY <1>1, <1>2, <1>4, <1>6, <1>7, <1>14, StepKeeps DEF k

(* Bootstrap and manifest are the last of the files.                       *)
LEMMA TurnIs ==
  ASSUME NEW g, IsFile(g)
  PROVE  /\ Turn(g) \in 1 .. 5
         /\ Turn(g) = 4 <=> g = BootstrapFile
         /\ Turn(g) = 5 <=> g = ManifestFile
<1>1. CASE \E a \in Allocs : g = MetaFile(a)
  <2>1. g[1] = "meta" /\ g \notin {RootsFile, BootstrapFile, ManifestFile}
    BY <1>1, FilesDiffer
  <2> QED BY <2>1 DEF Turn
<1>2. CASE \E a \in Allocs : \E b \in Slabs : g = SlabFile(a, b)
  <2>1. g[1] = "slab" /\ g \notin {RootsFile, BootstrapFile, ManifestFile}
    BY <1>2, FilesDiffer
  <2> QED BY <2>1 DEF Turn
<1>3. CASE g \in {RootsFile, BootstrapFile, ManifestFile}
  <2>1. g[1] # "meta" /\ g[1] # "slab"
    BY <1>3, LastFilesDiffer
  <2> QED BY <1>3, <2>1, LastFilesDiffer DEF Turn
<1> QED BY <1>1, <1>2, <1>3 DEF IsFile

LEMMA LastAre ==
  ASSUME NEW todo, \A g \in todo : IsFile(g), NEW f, IsNext(f, todo)
  PROVE  /\ f \in todo
         /\ f = BootstrapFile => todo \subseteq {BootstrapFile, ManifestFile}
         /\ f = ManifestFile => todo = {ManifestFile}
<1>1. f \in todo /\ \A g \in todo \ {f} : Turn(f) <= Turn(g)
  <2>1. f \in todo /\ \A g \in todo \ {f} : Turn(f) < Turn(g) \/ Turn(f) = Turn(g)
    BY Zenon DEF IsNext, Before
  <2>2. \A g \in todo : Turn(g) \in 1 .. 5
    BY TurnIs
  <2> QED BY <2>1, <2>2
<1>2. \A g \in todo : /\ Turn(g) \in 1 .. 5
                      /\ Turn(g) = 4 <=> g = BootstrapFile
                      /\ Turn(g) = 5 <=> g = ManifestFile
  BY TurnIs
<1> QED BY <1>1, <1>2

(* What a save writes carries no more than a save may be given.            *)
LEMMA CarriesLess ==
  ASSUME NEW was \in Given, NEW f, NEW text, Carries(f, text, was)
  PROVE  Carries(f, text, Anything)
<1>1. was.names \subseteq Names /\ was.parked \subseteq Parked /\ was.mounts \subseteq Mounts
  BY DEF Given, Names
<1>2. Anything.names = Names /\ Anything.parked = Parked /\ Anything.mounts = Mounts
  BY DEF Anything
<1> QED BY <1>1, <1>2 DEF Carries

LEMMA WriteFileKeeps ==
  ASSUME SessionInv, NEW p \in Procs, Procs = {p}, WriteFile(p)
  PROVE  SessionInv'
<1> DEFINE was == begun[saves]
           files == proc[p].files
           todo == proc[p].todo
<1>1. PICK f \in todo :
        /\ IsNext(f, todo)
        /\ disk' = Written(disk, f, files[f])
        /\ proc' = [proc EXCEPT ![p].todo = @ \ {f}]
  BY DEF WriteFile
<1>2. proc[p].state = "saving" /\ UNCHANGED <<saves, done, begun, image>>
  BY DEF WriteFile
<1>3. /\ saves \in Nat /\ begun \in Seq(Given) /\ Len(begun) = saves
      /\ done \subseteq 0 .. saves /\ DOMAIN proc = Procs
      /\ AllCarry(disk, Anything) /\ (image # "mixed" => OfSave(disk, was, saves))
      /\ SavingIs(proc[p], disk, was, saves, image) /\ saves \notin done
  BY <1>2 DEF SessionInv, StateIs
<1> DEFINE r == [proc[p] EXCEPT !.todo = todo \ {f}]
<1>4. proc' = [proc EXCEPT ![p] = r]
  BY <1>1
<1>5. /\ DOMAIN r = DOMAIN proc[p] /\ r.state = proc[p].state /\ r.save = proc[p].save
      /\ r.files = files /\ r.todo = todo \ {f}
  BY <1>3 DEF SavingIs, ImageFields
<1>6. /\ DOMAIN proc[p] = ImageFields /\ proc[p].save = saves
      /\ saves > 0 /\ FilesAre(files, was, saves) /\ todo \subseteq DOMAIN files
      /\ image = "left" => /\ DOMAIN disk = DOMAIN files \ todo
                           /\ \A g \in DOMAIN disk : disk[g] = files[g]
      /\ BootstrapFile \in todo \/ todo \subseteq {ManifestFile}
      /\ ManifestFile \in todo \/ todo = {}
  BY <1>3 DEF SavingIs
<1>7. \A g \in todo : IsFile(g)
  BY <1>6 DEF FilesAre
<1>8. was \in Given
  BY <1>3, <1>6
<1> HIDE DEF r, was, files, todo
<1>9. /\ f = BootstrapFile => todo \subseteq {BootstrapFile, ManifestFile}
      /\ f = ManifestFile => todo = {ManifestFile}
  BY <1>1, <1>7, LastAre
<1>10. image = "left" => /\ DOMAIN disk' = DOMAIN files \ r.todo
                         /\ \A g \in DOMAIN disk' : disk'[g] = files[g]
  BY <1>1, <1>5, <1>6 DEF Written
<1>11. BootstrapFile \in r.todo \/ r.todo \subseteq {ManifestFile}
  BY <1>5, <1>6, <1>9
<1>12. ManifestFile \in r.todo \/ r.todo = {}
  BY <1>5, <1>6, <1>9
<1>13. SavingIs(r, disk', was, saves, image)
  BY <1>2, <1>5, <1>6, <1>10, <1>11, <1>12 DEF SavingIs
<1>14. files[f] # Torn => /\ Carries(f, files[f], was) /\ files[f].save = saves
                          /\ Carries(f, files[f], Anything)
  <2>1. f \in DOMAIN files
    BY <1>1, <1>6
  <2>2. files[f] # Torn => Carries(f, files[f], was) /\ files[f].save = saves
    BY <1>6, <2>1 DEF FilesAre, OfSave, AllCarry
  <2> QED BY <1>8, <2>2, CarriesLess
<1>15. DOMAIN disk' = DOMAIN disk \cup {f}
       /\ \A g \in DOMAIN disk' : disk'[g] = IF g = f THEN files[f] ELSE disk[g]
  BY <1>1 DEF Written
<1>16. AllCarry(disk', Anything) /\ (image # "mixed" => OfSave(disk', was, saves))
  BY <1>3, <1>14, <1>15 DEF OfSave, AllCarry
<1>17. StateIs(r, disk', was, saves, done, image)
  BY <1>2, <1>3, <1>5, <1>13, <1>16 DEF StateIs
<1>18. StateIs(r, disk', begun'[saves'], saves', done', image')
  BY <1>2, <1>17, Zenon DEF was
<1> QED BY <1>2, <1>3, <1>4, <1>18, StepKeeps

(* The files on disk restore the save as soon as bootstrap is among them.  *)
LEMMA WrittenRestores ==
  ASSUME NEW files, NEW was, NEW k, FilesAre(files, was, k), k > 0, NEW d,
         DOMAIN files \ {ManifestFile} \subseteq DOMAIN d,
         DOMAIN d \subseteq DOMAIN files,
         \A g \in DOMAIN d \ {ManifestFile} : d[g] = files[g]
  PROVE  Whole(d, BootstrapFile) /\ DiskIs(d, was, k)
<1>1. BodyIs(files, was) /\ CatalogueIs(files[BootstrapFile], was, k)
      /\ BootstrapFile \in DOMAIN files
  BY DEF FilesAre
<1>2. BootstrapFile \in DOMAIN d /\ d[BootstrapFile] = files[BootstrapFile]
  BY <1>1, LastFilesDiffer
<1>3. d[BootstrapFile] # Torn
  <2>1. DOMAIN files[BootstrapFile] = {"allocators", "mounts", "save"} /\ DOMAIN Torn = {"torn"}
    BY <1>1 DEF CatalogueIs, Torn
  <2> QED BY <1>2, <2>1
<1>4. Agree(files, d)
  BY DEF Agree
<1>5. BodyIs(d, was)
  BY <1>1, <1>4, BodyRests
<1>6. CatalogueIs(d[BootstrapFile], was, k)
  BY <1>1, <1>2
<1> QED BY <1>2, <1>3, <1>5, <1>6 DEF Whole, DiskIs

LEMMA SaveEndsKeeps ==
  ASSUME SessionInv, NEW p \in Procs, Procs = {p}, SaveEnds(p)
  PROVE  SessionInv'
<1> DEFINE was == begun[saves]
<1>1. /\ proc[p].state = "saving" /\ proc[p].todo = {} /\ done' = {proc[p].save}
      /\ proc' = [proc EXCEPT ![p] = NoProc] /\ UNCHANGED <<disk, saves, begun, image>>
  BY DEF SaveEnds
<1>2. /\ saves \in Nat /\ begun \in Seq(Given) /\ Len(begun) = saves /\ DOMAIN proc = Procs
      /\ AllCarry(disk, Anything) /\ (image # "mixed" => OfSave(disk, was, saves))
      /\ SavingIs(proc[p], disk, was, saves, image)
  BY <1>1 DEF SessionInv, StateIs
<1>3. /\ proc[p].save = saves /\ saves > 0 /\ FilesAre(proc[p].files, was, saves)
      /\ image = "left" => /\ DOMAIN disk = DOMAIN proc[p].files
                           /\ \A g \in DOMAIN disk : disk[g] = proc[p].files[g]
  BY <1>1, <1>2 DEF SavingIs
<1> HIDE DEF was
<1>4. image = "left" => Whole(disk, BootstrapFile) /\ DiskIs(disk, was, saves)
  BY <1>3, WrittenRestores
<1>5. NoProc.state = "down"
  BY DEF NoProc
<1>6. StateIs(NoProc, disk, was, saves, done', image)
  BY <1>2, <1>4, <1>5 DEF StateIs
<1>7. StateIs(NoProc, disk', begun'[saves'], saves', done', image')
  BY <1>1, <1>6, Zenon DEF was
<1>8. done' \subseteq 0 .. saves'
  BY <1>1, <1>2, <1>3
<1> QED BY <1>1, <1>2, <1>7, <1>8, StepKeeps

LEMMA WriteBreaksKeeps ==
  ASSUME SessionInv, NEW p \in Procs, Procs = {p}, WriteBreaks(p)
  PROVE  SessionInv'
<1> DEFINE was == begun[saves]
           files == proc[p].files
           todo == proc[p].todo
<1>1. PICK f \in todo : IsNext(f, todo) /\ disk' \in {disk, Written(disk, f, Torn)}
  BY DEF WriteBreaks
<1>2. /\ proc[p].state = "saving" /\ UNCHANGED <<saves, done, begun, image>>
      /\ proc' = [proc EXCEPT ![p] = NoProc]
  BY DEF WriteBreaks
<1>3. /\ saves \in Nat /\ begun \in Seq(Given) /\ Len(begun) = saves
      /\ done \subseteq 0 .. saves /\ DOMAIN proc = Procs
      /\ AllCarry(disk, Anything) /\ (image # "mixed" => OfSave(disk, was, saves))
      /\ SavingIs(proc[p], disk, was, saves, image) /\ saves \notin done
  BY <1>2 DEF SessionInv, StateIs
<1>4. /\ saves > 0 /\ FilesAre(files, was, saves) /\ todo \subseteq DOMAIN files
      /\ image = "left" => /\ DOMAIN disk = DOMAIN files \ todo
                           /\ \A g \in DOMAIN disk : disk[g] = files[g]
      /\ BootstrapFile \in todo \/ todo \subseteq {ManifestFile}
      /\ ManifestFile \in todo \/ todo = {}
  BY <1>3 DEF SavingIs
<1>5. (\A g \in todo : IsFile(g)) /\ BootstrapFile \in DOMAIN files
  BY <1>4 DEF FilesAre
<1> HIDE DEF was, files, todo
<1>6. f = ManifestFile => todo = {ManifestFile}
  BY <1>1, <1>5, LastAre
<1>7. /\ DOMAIN disk \subseteq DOMAIN disk' /\ DOMAIN disk' \subseteq DOMAIN disk \cup {f}
      /\ \A g \in DOMAIN disk' : \/ g \in DOMAIN disk /\ disk'[g] = disk[g]
                                 \/ g = f /\ disk'[g] = Torn
  BY <1>1 DEF Written
<1>8. AllCarry(disk', Anything) /\ (image # "mixed" => OfSave(disk', was, saves))
  BY <1>3, <1>7 DEF OfSave, AllCarry
<1>9. ASSUME image = "left" PROVE DiskIs(disk', was, saves)
  <2>1. DOMAIN disk = DOMAIN files \ todo /\ \A g \in DOMAIN disk : disk[g] = files[g]
    BY <1>4, <1>9
  <2>2. CASE todo = {ManifestFile}
    <3>1. DOMAIN files \ {ManifestFile} \subseteq DOMAIN disk'
      BY <1>7, <2>1, <2>2
    <3>2. DOMAIN disk' \subseteq DOMAIN files
      BY <1>1, <1>4, <1>7, <2>1
    <3>3. \A g \in DOMAIN disk' \ {ManifestFile} : disk'[g] = files[g]
      BY <1>1, <1>7, <2>1, <2>2
    <3> QED BY <1>4, <3>1, <3>2, <3>3, WrittenRestores
  <2>3. CASE todo # {ManifestFile}
    <3>1. ManifestFile \in todo /\ BootstrapFile \in todo /\ f # ManifestFile
      BY <1>1, <1>4, <1>6, <2>3
    <3>2. ManifestFile \notin DOMAIN disk'
      BY <1>7, <2>1, <3>1
    <3>3. ~ Whole(disk', BootstrapFile)
      BY <1>7, <2>1, <3>1 DEF Whole
    <3> QED BY <3>2, <3>3 DEF DiskIs
  <2> QED BY <2>2, <2>3
<1>10. NoProc.state = "down" /\ done # {saves}
  BY <1>3 DEF NoProc
<1>11. StateIs(NoProc, disk', was, saves, done, image)
  BY <1>8, <1>9, <1>10 DEF StateIs
<1>12. StateIs(NoProc, disk', begun'[saves'], saves', done', image')
  BY <1>2, <1>11, Zenon DEF was
<1> QED BY <1>2, <1>3, <1>12, StepKeeps

---------------------------------------------------------------------------
(* The session's files, of one process at a time.                          *)

LEMMA SessionStepKeeps ==
  ASSUME SessionAssumption, NEW P, Procs = {P}, SessionInv, [Next]_vars
  PROVE  SessionInv'
<1>1. CASE UNCHANGED vars
  <2>1. /\ disk' = disk /\ proc' = proc /\ saves' = saves /\ done' = done
        /\ begun' = begun /\ image' = image
    BY <1>1 DEF vars
  <2> QED BY <2>1, Zenon DEF SessionInv
<1>2. ASSUME NEW p \in Procs, StartFresh(p) PROVE SessionInv'
  BY <1>2, StartFreshKeeps
<1>3. ASSUME NEW p \in Procs, StartRestored(p) PROVE SessionInv'
  BY <1>3, StartRestoredKeeps
<1>4. ASSUME NEW p \in Procs, Bind(p) PROVE SessionInv'
  BY <1>4, BindKeeps
<1>5. ASSUME NEW p \in Procs, Unbind(p) PROVE SessionInv'
  BY <1>5, UnbindKeeps
<1>6. ASSUME NEW p \in Procs, Park(p) PROVE SessionInv'
  BY <1>6, ParkKeeps
<1>7. ASSUME NEW p \in Procs, SaveBegins(p) PROVE SessionInv'
  BY <1>7, SaveBeginsKeeps
<1>8. ASSUME NEW p \in Procs, SaveRefused(p) \/ ExitWithoutSave(p) PROVE SessionInv'
  BY <1>8, ExitKeeps
<1>9. ASSUME NEW p \in Procs, WriteFile(p) PROVE SessionInv'
  BY <1>9, WriteFileKeeps
<1>10. ASSUME NEW p \in Procs, SaveEnds(p) PROVE SessionInv'
  BY <1>10, SaveEndsKeeps
<1>11. ASSUME NEW p \in Procs, WriteBreaks(p) PROVE SessionInv'
  BY <1>11, WriteBreaksKeeps
<1>12. ASSUME NEW p \in Procs, ClearFile(p) PROVE SessionInv'
  BY <1>12, ClearFileKeeps
<1>13. ASSUME NEW p \in Procs, ClearEnds(p) PROVE SessionInv'
  BY <1>13, ClearEndsKeeps
<1> QED
  BY <1>1, <1>2, <1>3, <1>4, <1>5, <1>6, <1>7, <1>8, <1>9, <1>10, <1>11, <1>12, <1>13,
     Zenon DEF Next

LEMMA SessionInvHolds ==
  ASSUME SessionAssumption, NEW P, Procs = {P}
  PROVE  Spec => []SessionInv
<1>1. Init => SessionInv
  BY SessionInit
<1>2. SessionInv /\ [Next]_vars => SessionInv'
  BY SessionStepKeeps
<1> QED BY <1>1, <1>2, PTL DEF Spec

(* Once saveRoot has returned true, and until the next save begins to clear *)
(* the directory, what is on disk loads, and restores in every allocator    *)
(* the names the save was given: whatever the slots the snapshot fell on,   *)
(* and whatever saves were broken or refused before, for a session of one   *)
(* process at a time.                                                       *)
THEOREM CompletedSavesRestore ==
  ASSUME SessionAssumption, NEW P, Procs = {P}
  PROVE  Spec => []CompletedSaveRestores
<1>1. ASSUME SessionInv PROVE CompletedSaveRestores
  <2> SUFFICES ASSUME done = {saves}, image = "left", proc[P].state # "saving"
               PROVE  /\ Exists(disk) /\ Loads(disk)
                      /\ \A a \in Allocs :
                           DOMAIN RestoredHeap(disk, a).at \ {Root} = begun[saves].names
    BY DEF CompletedSaveRestores
  <2>1. DiskIs(disk, begun[saves], saves) /\ Whole(disk, BootstrapFile)
    BY <1>1 DEF SessionInv, StateIs
  <2>2. BodyIs(disk, begun[saves]) /\ CatalogueIs(disk[BootstrapFile], begun[saves], saves)
    BY <2>1 DEF DiskIs
  <2>3. Exists(disk) /\ Catalogue(disk) = BootstrapFile
    BY <2>1 DEF Whole, Exists, Catalogue
  <2>4. CatalogueLoads(disk)
    BY <2>1, <2>2, <2>3 DEF CatalogueLoads, CatalogueIs
  <2>5. Loads(disk)
    BY <2>2, <2>4, Zenon DEF Loads, BodyIs
  <2>6. ASSUME NEW a \in Allocs
        PROVE  DOMAIN RestoredHeap(disk, a).at \ {Root} = begun[saves].names
    BY <2>2, Zenon DEF BodyIs, IsHeap
  <2> QED BY <2>3, <2>5, <2>6
<1> QED BY <1>1, SessionInvHolds, PTL

(* What a start finds is of one save, and all of it where no clearing was   *)
(* cut short.                                                              *)
LEMMA RestoredStart ==
  ASSUME SessionAssumption, SessionInv, NEW p \in Procs, StartRestored(p),
         proc'[p].from > 0, image # "mixed"
  PROVE  LET now == proc'[p]
             was == begun[now.from]
         IN  /\ \A k \in done : k <= now.from
             /\ \A f \in DOMAIN disk : Whole(disk, f) => disk[f].save = now.from
             /\ now.names \ Builtins \subseteq was.names
             /\ now.parked \subseteq was.parked /\ now.mounts \subseteq was.mounts
             /\ image = "left" => /\ now.names \ Builtins = was.names
                                 /\ now.parked = was.parked /\ now.mounts = was.mounts
             /\ \A a \in Allocs : DOMAIN now.heap[a].at \ {Root} = now.names
<1> DEFINE was == begun[saves]
           now == Started(FoundNodes, Found(disk), Waiting(disk), Declared(disk),
                          disk[Catalogue(disk)].save)
<1>1. proc[p].state = "down" /\ Exists(disk) /\ Loads(disk)
  BY DEF StartRestored
<1>2. proc'[p] = now
  BY DEF StartRestored, Starts, FoundNodes, SessionInv
<1>3. /\ OfSave(disk, was, saves) /\ AllCarry(disk, was)
      /\ saves \in Nat /\ begun \in Seq(Given) /\ Len(begun) = saves
  BY DEF SessionInv, StateIs, OfSave
<1>4. /\ Found(disk) \subseteq Names \cap was.names
      /\ \A a \in Allocs : IsHeap(FoundNodes[a], Found(disk))
      /\ Waiting(disk) \subseteq was.parked /\ Declared(disk) \subseteq was.mounts
      /\ Whole(disk, Catalogue(disk))
  <2> HIDE DEF was
  <2> QED BY <1>1, <1>3, FoundIs
<1>5. disk[Catalogue(disk)].save = saves
  BY <1>3, <1>4 DEF OfSave, Whole
<1>6. /\ now.heap = [a \in Allocs |-> WithBuiltins(FoundNodes[a])]
      /\ now.names = Found(disk) \cup Builtins
      /\ now.parked = Waiting(disk) /\ now.mounts = Declared(disk) /\ now.from = saves
  BY <1>5 DEF Started
<1> HIDE DEF now
<1>7. saves > 0 /\ was \in Given
  BY <1>2, <1>3, <1>6
<1>8. \A k \in done : k <= saves
  <2> HIDE DEF was
  <2>1. done \subseteq 0 .. saves /\ saves \in Nat
    BY DEF SessionInv
  <2>2. \A k \in 0 .. saves : k <= saves
    BY <2>1
  <2> QED BY <2>1, <2>2
<1>9. \A f \in DOMAIN disk : Whole(disk, f) => disk[f].save = saves
  BY <1>3 DEF OfSave, Whole
<1>10. \A a \in Allocs : DOMAIN now.heap[a].at \ {Root} = now.names
  <2>1. \A a \in Allocs : IsHeap(WithBuiltins(FoundNodes[a]), Found(disk) \cup Builtins)
    BY <1>4, WithBuiltinsIs
  <2>2. \A a \in Allocs : now.heap[a] = WithBuiltins(FoundNodes[a])
    BY <1>6
  <2> QED BY <1>6, <2>1, <2>2 DEF IsHeap
<1>11. now.names \ Builtins = Found(disk)
  <2> HIDE DEF was
  <2>1. was.names \subseteq UserNames \cup {Scheduler}
    BY <1>7 DEF Given
  <2>2. was.names \cap Builtins = {}
    BY <2>1 DEF SessionAssumption
  <2> QED BY <1>4, <1>6, <2>2
<1>12. image = "left" => /\ Found(disk) = was.names
                         /\ Waiting(disk) = was.parked /\ Declared(disk) = was.mounts
  BY <1>1, AllFound
<1>13. begun[now.from] = was
  BY <1>6
<1> HIDE DEF was
<1> QED BY <1>2, <1>4, <1>6, <1>8, <1>9, <1>10, <1>11, <1>12, <1>13

(* A start that restores gets the names, continuations and mounts of one    *)
(* save and of no other, in every allocator, whatever images, broken saves  *)
(* and crashes the directory has seen before, and never of a save older     *)
(* than the last one that completed.  It gets all of them unless a process  *)
(* died while it removed the files, whichever it had removed; nothing is    *)
(* said of files that could not be removed.  For a session of one process   *)
(* at a time.                                                               *)
THEOREM StartsRestoreOneSave ==
  ASSUME SessionAssumption, NEW P, Procs = {P}
  PROVE  Spec => RestoresOneSave
<1> DEFINE Restored(p) ==
      (/\ proc[p].state = "down" /\ proc'[p].state = "up" /\ proc'[p].from > 0
       /\ image # "mixed") =>
        LET now == proc'[p]
            was == begun[proc'[p].from]
        IN  /\ \A k \in done : k <= now.from
            /\ \A f \in DOMAIN disk : Whole(disk, f) => disk[f].save = now.from
            /\ now.names \ Builtins \subseteq was.names
            /\ now.parked \subseteq was.parked /\ now.mounts \subseteq was.mounts
            /\ image = "left" => /\ now.names \ Builtins = was.names
                                /\ now.parked = was.parked /\ now.mounts = was.mounts
            /\ \A a \in Allocs : DOMAIN now.heap[a].at \ {Root} = now.names
<1>1. ASSUME SessionInv, Next PROVE \A p \in Procs : Restored(p)
  <2> SUFFICES ASSUME proc[P].state = "down", proc'[P].state = "up", proc'[P].from > 0,
                      image # "mixed"
               PROVE  Restored(P)
    OBVIOUS
  <2>1. DOMAIN proc = Procs /\ P \in Procs
    BY <1>1 DEF SessionInv
  <2>2. ~ StartFresh(P)
    <3> SUFFICES ASSUME StartFresh(P) PROVE FALSE
      OBVIOUS
    <3>1. PICK mounts \in SUBSET Mounts :
            Starts(P, Started([a \in Allocs |-> FreshHeapOf(a)], {}, {}, mounts, 0))
      BY DEF StartFresh
    <3>2. proc'[P].from = 0
      BY <2>1, <3>1 DEF Starts, Started
    <3> QED BY <3>2
  <2>3. ~ (Bind(P) \/ Unbind(P) \/ Park(P) \/ SaveBegins(P) \/ ClearFile(P) \/ ClearEnds(P)
            \/ SaveRefused(P) \/ WriteFile(P) \/ SaveEnds(P) \/ WriteBreaks(P)
            \/ ExitWithoutSave(P))
    BY Zenon DEF Bind, Unbind, Park, SaveBegins, ClearFile, ClearEnds, SaveRefused,
                 WriteFile, SaveEnds, WriteBreaks, ExitWithoutSave
  <2>4. StartRestored(P)
    BY <1>1, <2>2, <2>3 DEF Next
  <2> HIDE DEF Restored
  <2> QED BY <1>1, <2>1, <2>4, RestoredStart, Zenon DEF Restored
<1>2. SessionInv /\ [Next]_vars => [\A p \in Procs : Restored(p)]_vars
  BY <1>1, Zenon
<1>3. [][\A p \in Procs : Restored(p)]_vars => RestoresOneSave
  BY DEF RestoresOneSave
<1> HIDE DEF Restored
<1> QED BY <1>2, <1>3, SessionInvHolds, PTL DEF Spec

---------------------------------------------------------------------------
(* The transactions of the VM.  A node of a heap is free, a list or a text. *)

ListNode == [items : Seq(VM!Nodes)]
TextNode == [text : Texts, blob : VM!Slabs \X Nat]

(* Bytes of a text lie below the count of its slab, and not at NoBlob; those *)
(* of two texts are apart.                                                  *)
EndOf(node) == node.blob[2] + Length[node.text]
Holds(count, node) ==
  Length[node.text] > 0 => /\ EndOf(node) <= count[node.blob[1]]
                           /\ node.blob[1] = 0 => node.blob[2] > 0
Apart(x, y) ==
  (Length[x.text] > 0 /\ Length[y.text] > 0 /\ x.blob[1] = y.blob[1]) =>
    EndOf(x) <= y.blob[2] \/ EndOf(y) <= x.blob[2]
BytesAre(nodes, count) ==
  /\ \A n \in VM!Nodes : VM!IsText(nodes[n]) => Holds(count, nodes[n])
  /\ \A n, m \in VM!Nodes :
       (n # m /\ VM!IsText(nodes[n]) /\ VM!IsText(nodes[m])) => Apart(nodes[n], nodes[m])

SlabsAre(made, mapped, policy, count, header) ==
  /\ made \subseteq VM!Slabs /\ 0 \in made /\ mapped \subseteq made
  /\ policy \in {"heap", "file"}
  /\ policy = "file" => made \ {0} \subseteq mapped
  /\ count \in [VM!Slabs -> 0 .. SlabBytes] /\ header \in [VM!Slabs -> 0 .. SlabBytes]
  /\ \A s \in VM!Slabs \ made : count[s] = 0
  /\ \A s \in mapped : header[s] = count[s]
  /\ count[0] > 0

HeapIs(h) ==
  /\ DOMAIN h = {"policy", "mapped", "made", "depth", "nodes", "count", "header"}
  /\ h.depth \in Int
  /\ SlabsAre(h.made, h.mapped, h.policy, h.count, h.header)
  /\ h.nodes \in [VM!Nodes -> {VM!Free} \cup ListNode \cup TextNode]
  /\ BytesAre(h.nodes, h.count)

(* A list of a heap says some texts, and nobody else's change alters that. *)
SaysIn(h, list, texts) ==
  /\ list \in VM!Nodes /\ h.nodes[list] \in ListNode
  /\ Len(VM!Items(h, list)) = Len(texts)
  /\ \A i \in DOMAIN texts : LET node == h.nodes[VM!Items(h, list)[i]] IN
                             VM!IsText(node) /\ node.text = texts[i]

(* Nothing of a list is changed.                                           *)
Stays(h, g, list) ==
  /\ g.nodes[list] = h.nodes[list]
  /\ \A i \in DOMAIN VM!Items(h, list) : g.nodes[VM!Items(h, list)[i]] = h.nodes[VM!Items(h, list)[i]]

(* A list and its values lie below the marks of a checkpoint.              *)
Under(node, mark) ==
  Length[node.text] > 0 => \/ node.blob[1] < mark[1]
                           \/ node.blob[1] = mark[1] /\ EndOf(node) <= mark[2]
Below(h, list, c) ==
  /\ list <= c.nodes
  /\ \A i \in DOMAIN VM!Items(h, list) : LET n == VM!Items(h, list)[i] IN
                                         n <= c.nodes /\ Under(h.nodes[n], c.blobs)

Checkpoints == [list : VM!Nodes, nodes : Nat, blobs : VM!Slabs \X (0 .. SlabBytes),
                speculative : BOOLEAN, said : Seq(Texts)]
MarkIs(h, mark) == mark[1] \in h.made /\ (mark[1] = 0 => mark[2] > 0)

(* The copies of a checkpoint lie below its marks and those of the inner   *)
(* ones; no two checkpoints share a list, nor one with the VM.             *)
OpenIs(h, list, checkpoints) ==
  /\ checkpoints \in Seq(Checkpoints)
  /\ \A i \in DOMAIN checkpoints :
       LET c == checkpoints[i] IN
       /\ MarkIs(h, c.blobs) /\ SaysIn(h, c.list, c.said) /\ c.list # list
       /\ \A j \in 1 .. i : /\ Below(h, checkpoints[j].list, c)
                            /\ j < i => checkpoints[j].list # c.list

VMInv ==
  /\ HeapIs(memory) /\ said \in Seq(Texts) /\ SaysIn(memory, frame, said)
  /\ OpenIs(memory, frame, open)

(* The least of some numbers is one of them.                               *)
LEMMA LeastIsIn ==
  ASSUME NEW T \in SUBSET Nat, T # {}
  PROVE  VM!Min(T) \in T
<1>1. \E x \in T : \A y \in T : x <= y
  BY LeastNumber
<1> QED BY <1>1, Zenon DEF VM!Min

(* Numbers with a bound have a greatest.                                   *)
LEMMA GreatestIsIn ==
  ASSUME NEW T \in SUBSET Nat, T # {}, NEW b \in Nat, \A x \in T : x <= b
  PROVE  VM!Max(T) \in T /\ \A y \in T : VM!Max(T) >= y
<1> DEFINE Above == {n \in Nat : \A x \in T : x <= n}
<1>1. Above \in SUBSET Nat /\ Above # {}
  OBVIOUS
<1>2. PICK m \in Above : \A n \in Above : m <= n
  <2> HIDE DEF Above
  <2> QED BY <1>1, LeastNumber
<1>3. m \in T
  <2> SUFFICES ASSUME m \notin T PROVE FALSE
    OBVIOUS
  <2>1. m \in Nat /\ \A x \in T : x \in Nat /\ x < m
    BY <1>2
  <2>2. PICK x \in T : TRUE
    OBVIOUS
  <2>3. x \in Nat /\ x < m
    BY <2>1, <2>2
  <2>4. m - 1 \in Above
    BY <2>1, <2>3
  <2> QED BY <1>2, <2>1, <2>3, <2>4
<1>4. \E x \in T : \A y \in T : x >= y
  BY <1>2, <1>3
<1> QED BY <1>4, Zenon DEF VM!Max

---------------------------------------------------------------------------

(* A node is of one kind.                                                  *)
LEMMA Kinds ==
  /\ ~VM!IsText(VM!Free)
  /\ \A x \in ListNode : ~VM!IsText(x) /\ x # VM!Free
  /\ \A x \in TextNode : VM!IsText(x) /\ x # VM!Free /\ x \notin ListNode
<1>1. DOMAIN VM!Free = {"free"}
  BY DEF VM!Free
<1>2. ASSUME NEW x \in ListNode PROVE DOMAIN x = {"items"}
  BY DEF ListNode
<1>3. ASSUME NEW x \in TextNode PROVE DOMAIN x = {"text", "blob"}
  BY DEF TextNode
<1>4. ~VM!IsText(VM!Free)
  BY <1>1 DEF VM!IsText
<1>5. ASSUME NEW x \in ListNode PROVE ~VM!IsText(x) /\ x # VM!Free
  <2>1. "items" \in DOMAIN x /\ "items" \notin DOMAIN VM!Free /\ "text" \notin DOMAIN x
    BY <1>1, <1>2
  <2> QED BY <2>1, Zenon DEF VM!IsText
<1>6. ASSUME NEW x \in TextNode PROVE VM!IsText(x) /\ x # VM!Free /\ x \notin ListNode
  <2>1. "text" \in DOMAIN x /\ "text" \notin DOMAIN VM!Free
    BY <1>1, <1>3
  <2> QED BY <2>1, <1>5, Zenon DEF VM!IsText
<1> QED BY <1>4, <1>5, <1>6, Zenon

(* A slot for a new node is a free one.                                    *)
LEMMA FreshNode ==
  ASSUME VM!TransactionAssumption, NEW h, HeapIs(h), VM!HasNode(h), NEW l \in VM!Nodes, h.nodes[l] # VM!Free
  PROVE  VM!NewNode(h) \in VM!Nodes /\ h.nodes[VM!NewNode(h)] = VM!Free
<1>1. VM!Live(h) \in SUBSET Nat /\ VM!Live(h) # {} /\ MaxNodes \in Nat /\ \A n \in VM!Live(h) : n <= MaxNodes
  BY DEF VM!Live, VM!Nodes, VM!TransactionAssumption
<1>2. VM!Max(VM!Live(h)) \in VM!Live(h) /\ \A n \in VM!Live(h) : VM!Max(VM!Live(h)) >= n
  BY <1>1, GreatestIsIn
<1>3. VM!Max(VM!Live(h)) + 1 \in VM!Nodes \ VM!Live(h)
  BY <1>1, <1>2 DEF VM!HasNode, VM!Nodes
<1>4. VM!Min(VM!Nodes \ VM!Live(h)) \in VM!Nodes \ VM!Live(h)
  <2>1. VM!Nodes \ VM!Live(h) \in SUBSET Nat /\ VM!Nodes \ VM!Live(h) # {}
    BY <1>3 DEF VM!Nodes
  <2> QED BY <2>1, LeastIsIn
<1>5. VM!NewNode(h) \in VM!Nodes \ VM!Live(h)
  BY <1>3, <1>4 DEF VM!NewNode
<1> QED BY <1>5 DEF VM!Live

(* The first slab with room.                                               *)
LEMMA RoomIsThere ==
  ASSUME VM!TransactionAssumption, NEW h, HeapIs(h), NEW k, VM!HasSpace(h, k)
  PROVE  VM!FirstWithRoom(h, k) \in VM!Slabs /\ SlabBytes - h.count[VM!FirstWithRoom(h, k)] >= k
<1> DEFINE T == {s \in VM!Slabs : SlabBytes - h.count[s] >= k}
<1>1. T \in SUBSET Nat /\ T # {}
  BY DEF VM!HasSpace, VM!Slabs
<1>2. VM!Min(T) \in T
  <2> HIDE DEF T
  <2> QED BY <1>1, LeastIsIn
<1> QED BY <1>2 DEF VM!FirstWithRoom

(* What a new text changes.                                                *)
LEMMA ShortTextAt ==
  ASSUME NEW h, HeapIs(h), NEW n \in VM!Nodes, NEW text \in Texts, Length[text] = 0
  PROVE  LET g == VM!TextAt(h, n, text) IN
         /\ DOMAIN g = DOMAIN h /\ g.depth = h.depth /\ g.policy = h.policy
         /\ g.made = h.made /\ g.mapped = h.mapped
         /\ g.count = h.count /\ g.header = h.header
         /\ g.nodes = [h.nodes EXCEPT ![n] = [text |-> text, blob |-> VM!NoBlob]]
BY DEF VM!TextAt, HeapIs

(* The same for a text with a blob.                                        *)
LEMMA LongTextAt ==
  ASSUME NEW h, HeapIs(h), NEW n \in VM!Nodes, NEW text \in Texts, Length[text] # 0,
         NEW s, s = VM!FirstWithRoom(h, Length[text])
  PROVE  LET g == VM!TextAt(h, n, text) IN
         /\ DOMAIN g = DOMAIN h /\ g.depth = h.depth /\ g.policy = h.policy
         /\ g.made = h.made \cup {s} /\ g.mapped = VM!NewMapped(h, s)
         /\ g.count = [h.count EXCEPT ![s] = @ + Length[text]]
         /\ g.header = [h.header EXCEPT ![s] = IF s \in VM!NewMapped(h, s)
                                               THEN h.count[s] + Length[text] ELSE @]
         /\ g.nodes = [h.nodes EXCEPT ![n] = [text |-> text, blob |-> <<s, h.count[s]>>]]
<1>1. VM!TextAt(h, n, text) = [VM!WithBlob(h, s, Length[text]) EXCEPT
                              !.nodes[n] = [text |-> text, blob |-> <<s, h.count[s]>>]]
  BY DEF VM!TextAt
<1> DEFINE w == VM!WithBlob(h, s, Length[text])
<1>2. /\ DOMAIN w = DOMAIN h /\ w.depth = h.depth /\ w.policy = h.policy /\ w.nodes = h.nodes
      /\ w.made = h.made \cup {s} /\ w.mapped = VM!NewMapped(h, s)
      /\ w.count = [h.count EXCEPT ![s] = @ + Length[text]]
      /\ w.header = [h.header EXCEPT ![s] = IF s \in VM!NewMapped(h, s)
                                            THEN h.count[s] + Length[text] ELSE @]
  BY DEF VM!WithBlob, HeapIs
<1> HIDE DEF w
<1> QED BY <1>1, <1>2 DEF HeapIs, w

(* A text placed at a free node, where there is room for it.               *)
LEMMA TextKeeps ==
  ASSUME VM!TransactionAssumption, NEW h, HeapIs(h), NEW n \in VM!Nodes, h.nodes[n] = VM!Free,
         NEW text \in Texts, VM!HasSpace(h, Length[text])
  PROVE  LET g == VM!TextAt(h, n, text) IN
         /\ HeapIs(g) /\ g.policy = h.policy /\ g.depth = h.depth
         /\ h.made \subseteq g.made
         /\ g.nodes[n] \in TextNode /\ g.nodes[n].text = text
         /\ \A m \in VM!Nodes \ {n} : g.nodes[m] = h.nodes[m]
<1> DEFINE g == VM!TextAt(h, n, text)
           s == VM!FirstWithRoom(h, Length[text])
<1>0. /\ SlabBytes \in Nat /\ NumBlobSlabs \in Nat \ {0} /\ 0 \in VM!Slabs
      /\ VM!Slabs \subseteq Nat /\ Length \in [Texts -> 0 .. SlabBytes]
      /\ Length[text] \in 0 .. SlabBytes
  BY DEF VM!TransactionAssumption, VM!Slabs
<1>1. CASE Length[text] = 0
  <2>1. /\ DOMAIN g = DOMAIN h /\ g.depth = h.depth /\ g.policy = h.policy
        /\ g.made = h.made /\ g.mapped = h.mapped
        /\ g.count = h.count /\ g.header = h.header
        /\ g.nodes = [h.nodes EXCEPT ![n] = [text |-> text, blob |-> VM!NoBlob]]
    BY <1>1, ShortTextAt
  <2> HIDE DEF g
  <2>2. [text |-> text, blob |-> VM!NoBlob] \in TextNode
    BY <1>0 DEF TextNode, VM!NoBlob
  <2>3. /\ g.nodes \in [VM!Nodes -> {VM!Free} \cup ListNode \cup TextNode]
        /\ g.nodes[n] \in TextNode /\ g.nodes[n].text = text
        /\ \A m \in VM!Nodes \ {n} : g.nodes[m] = h.nodes[m]
    BY <2>1, <2>2 DEF HeapIs
  <2>4. BytesAre(g.nodes, g.count)
    <3>1. \A m \in VM!Nodes : VM!IsText(g.nodes[m]) => Holds(g.count, g.nodes[m])
      BY <2>1, <2>3, <1>1 DEF HeapIs, BytesAre, Holds
    <3>2. \A m, k \in VM!Nodes : (m # k /\ VM!IsText(g.nodes[m]) /\ VM!IsText(g.nodes[k]))
                                   => Apart(g.nodes[m], g.nodes[k])
      BY <2>1, <2>3, <1>1 DEF HeapIs, BytesAre, Apart
    <3> QED BY <3>1, <3>2, Zenon DEF BytesAre
  <2> QED BY <2>1, <2>3, <2>4, Zenon DEF HeapIs, g
<1>2. CASE Length[text] # 0
  <2>0. s \in VM!Slabs /\ SlabBytes - h.count[s] >= Length[text]
    BY RoomIsThere
  <2> DEFINE p == [text |-> text, blob |-> <<s, h.count[s]>>]
             len == Length[text]
  <2> HIDE DEF s
  <2>1. /\ DOMAIN g = DOMAIN h /\ g.depth = h.depth /\ g.policy = h.policy
        /\ g.made = h.made \cup {s} /\ g.mapped = VM!NewMapped(h, s)
        /\ g.count = [h.count EXCEPT ![s] = @ + len]
        /\ g.header = [h.header EXCEPT ![s] = IF s \in VM!NewMapped(h, s)
                                              THEN h.count[s] + len ELSE @]
        /\ g.nodes = [h.nodes EXCEPT ![n] = p]
    BY <1>2, LongTextAt DEF s
  <2> HIDE DEF g, p
  <2>2. p \in TextNode /\ p.text = text /\ p.blob = <<s, h.count[s]>>
        /\ p.blob[1] = s /\ p.blob[2] = h.count[s]
    <3>1. h.count[s] \in Nat
      BY <1>0, <2>0 DEF HeapIs, SlabsAre
    <3>2. <<s, h.count[s]>> \in VM!Slabs \X Nat
      BY <2>0, <3>1
    <3> QED BY <3>2 DEF TextNode, p
  <2>3. /\ g.nodes \in [VM!Nodes -> {VM!Free} \cup ListNode \cup TextNode]
        /\ g.nodes[n] = p
        /\ \A m \in VM!Nodes \ {n} : g.nodes[m] = h.nodes[m]
    BY <2>1, <2>2 DEF HeapIs
  <2>4. h.count \in [VM!Slabs -> 0 .. SlabBytes] /\ len \in Nat \ {0} /\ h.count[s] \in Nat
    <3>1. h.count \in [VM!Slabs -> 0 .. SlabBytes]
      BY DEF HeapIs, SlabsAre
    <3>2. h.count[s] \in 0 .. SlabBytes
      BY <2>0, <3>1
    <3> QED BY <1>0, <1>2, <3>1, <3>2
  <2>5. /\ g.count \in [VM!Slabs -> 0 .. SlabBytes] /\ g.count[s] = h.count[s] + len
        /\ \A t \in VM!Slabs \ {s} : g.count[t] = h.count[t]
        /\ \A t \in VM!Slabs : g.count[t] >= h.count[t]
    BY <1>0, <2>0, <2>1, <2>4
  <2>6. SlabsAre(g.made, g.mapped, g.policy, g.count, g.header)
    <3>1. SlabsAre(h.made, h.mapped, h.policy, h.count, h.header)
      BY DEF HeapIs
    <3>2. g.header \in [VM!Slabs -> 0 .. SlabBytes] /\ \A t \in g.mapped : g.header[t] = g.count[t]
      BY <3>1, <2>0, <2>1, <2>5 DEF SlabsAre, VM!NewMapped
    <3>3. /\ g.made \subseteq VM!Slabs /\ 0 \in g.made /\ g.mapped \subseteq g.made
          /\ g.policy = "file" => g.made \ {0} \subseteq g.mapped
      BY <3>1, <2>0, <2>1 DEF SlabsAre, VM!NewMapped
    <3>4. /\ \A t \in VM!Slabs \ g.made : g.count[t] = 0
          /\ g.count[0] > 0
      BY <3>1, <1>0, <2>0, <2>1, <2>5 DEF SlabsAre
    <3> QED BY <3>1, <3>2, <3>3, <3>4, <2>1, <2>5 DEF SlabsAre
  <2>7. BytesAre(g.nodes, g.count)
    <3>1. BytesAre(h.nodes, h.count) /\ \A m \in VM!Nodes : VM!IsText(h.nodes[m]) => h.nodes[m] \in TextNode
      BY Kinds DEF HeapIs
    <3>2. \A m \in VM!Nodes \ {n} : VM!IsText(g.nodes[m]) =>
            /\ g.nodes[m] \in TextNode /\ EndOf(g.nodes[m]) \in Nat
            /\ g.nodes[m].blob[1] \in VM!Slabs /\ g.nodes[m].blob[2] \in Nat
            /\ Holds(h.count, g.nodes[m])
      <4> SUFFICES ASSUME NEW m \in VM!Nodes \ {n}, VM!IsText(g.nodes[m])
                   PROVE  /\ g.nodes[m] \in TextNode /\ EndOf(g.nodes[m]) \in Nat
                          /\ g.nodes[m].blob[1] \in VM!Slabs /\ g.nodes[m].blob[2] \in Nat
                          /\ Holds(h.count, g.nodes[m])
        OBVIOUS
      <4>1. g.nodes[m] = h.nodes[m] /\ g.nodes[m] \in TextNode
        BY <2>3, <3>1
      <4>2. g.nodes[m].text \in Texts /\ g.nodes[m].blob \in VM!Slabs \X Nat
        BY <4>1 DEF TextNode
      <4> QED BY <4>1, <4>2, <3>1, <1>0 DEF EndOf, BytesAre
    <3>3. EndOf(p) = h.count[s] + len /\ Length[p.text] = len
      BY <2>2 DEF EndOf
    <3>4. Holds(g.count, p)
      BY <3>3, <2>2, <2>4, <2>5 DEF Holds, HeapIs, SlabsAre
    <3>5. \A m \in VM!Nodes \ {n} : VM!IsText(g.nodes[m]) => Holds(g.count, g.nodes[m])
      BY <3>2, <2>4, <2>5 DEF Holds
    <3>6. \A m \in VM!Nodes \ {n} : VM!IsText(g.nodes[m]) =>
            Apart(g.nodes[m], p) /\ Apart(p, g.nodes[m])
      BY <3>2, <2>2, <3>3, <2>4 DEF Holds, Apart
    <3>7. \A m, k \in VM!Nodes \ {n} : (m # k /\ VM!IsText(g.nodes[m]) /\ VM!IsText(g.nodes[k]))
                                => Apart(g.nodes[m], g.nodes[k])
      BY <3>1, <2>3 DEF BytesAre
    <3> QED BY <3>4, <3>5, <3>6, <3>7, <2>3, Zenon DEF BytesAre
  <2>8. g.nodes[n] \in TextNode /\ g.nodes[n].text = text /\ h.made \subseteq g.made
    BY <2>1, <2>2, <2>3
  <2> QED BY <2>1, <2>3, <2>6, <2>7, <2>8, Zenon DEF HeapIs, g
<1> QED BY <1>1, <1>2, Zenon

(* A new value at the end of a list.                                       *)
LEMMA ValueKeeps ==
  ASSUME VM!TransactionAssumption, NEW h, HeapIs(h), NEW l \in VM!Nodes, h.nodes[l] \in ListNode,
         NEW text \in Texts, VM!HasRoom(h, text)
  PROVE  LET g == VM!WithValue(h, l, text) IN
         /\ HeapIs(g) /\ g.policy = h.policy /\ g.depth = h.depth
         /\ h.made \subseteq g.made
         /\ VM!NewNode(h) \in VM!Nodes /\ h.nodes[VM!NewNode(h)] = VM!Free /\ VM!NewNode(h) # l
         /\ g.nodes[VM!NewNode(h)] \in TextNode /\ g.nodes[VM!NewNode(h)].text = text
         /\ g.nodes[l] \in ListNode /\ VM!Items(g, l) = Append(VM!Items(h, l), VM!NewNode(h))
         /\ \A m \in VM!Nodes \ {l, VM!NewNode(h)} : g.nodes[m] = h.nodes[m]
<1> DEFINE n == VM!NewNode(h)
           t == VM!TextAt(h, n, text)
           g == VM!WithValue(h, l, text)
<1>1. n \in VM!Nodes /\ h.nodes[n] = VM!Free /\ n # l
  BY FreshNode, Kinds DEF VM!HasRoom
<1>2. /\ HeapIs(t) /\ t.policy = h.policy /\ t.depth = h.depth
      /\ h.made \subseteq t.made
      /\ t.nodes[n] \in TextNode /\ t.nodes[n].text = text
      /\ \A m \in VM!Nodes \ {n} : t.nodes[m] = h.nodes[m]
  <2> HIDE DEF n
  <2> QED BY <1>1, TextKeeps DEF VM!HasRoom
<1>3. g = [t EXCEPT !.nodes[l].items = Append(@, n)]
  BY DEF VM!WithValue
<1> HIDE DEF t, n, g
<1>4. t.nodes[l] = h.nodes[l] /\ VM!Items(h, l) \in Seq(VM!Nodes) /\ t.nodes[l].items = VM!Items(h, l)
  BY <1>1, <1>2 DEF ListNode, VM!Items
<1>5. /\ DOMAIN g = DOMAIN t /\ g.policy = t.policy /\ g.depth = t.depth /\ g.made = t.made
      /\ g.mapped = t.mapped /\ g.count = t.count /\ g.header = t.header
      /\ g.nodes = [t.nodes EXCEPT ![l].items = Append(t.nodes[l].items, n)]
  BY <1>2, <1>3 DEF HeapIs
<1>6. Append(t.nodes[l].items, n) \in Seq(VM!Nodes)
  BY <1>1, <1>4
<1>7. t.nodes \in [VM!Nodes -> {VM!Free} \cup ListNode \cup TextNode] /\ t.nodes[l] \in ListNode
  BY <1>2, <1>4 DEF HeapIs
<1>8. /\ g.nodes[l] \in ListNode /\ g.nodes[l].items = Append(t.nodes[l].items, n)
      /\ \A m \in VM!Nodes \ {l} : g.nodes[m] = t.nodes[m]
      /\ g.nodes \in [VM!Nodes -> {VM!Free} \cup ListNode \cup TextNode]
  <2> DEFINE x == [t.nodes[l] EXCEPT !.items = Append(t.nodes[l].items, n)]
  <2>1. x \in ListNode /\ x.items = Append(t.nodes[l].items, n)
    BY <1>6, <1>7 DEF ListNode
  <2>2. g.nodes = [t.nodes EXCEPT ![l] = x]
    BY <1>5
  <2> HIDE DEF x
  <2> QED BY <1>7, <2>1, <2>2
<1>9. BytesAre(g.nodes, g.count)
  <2>1. ~VM!IsText(g.nodes[l])
    BY <1>8, Kinds
  <2>2. \A m \in VM!Nodes : VM!IsText(g.nodes[m]) => m # l /\ g.nodes[m] = t.nodes[m]
    BY <1>8, <2>1
  <2>3. BytesAre(t.nodes, t.count) /\ g.count = t.count
    BY <1>2, <1>5 DEF HeapIs
  <2> QED BY <2>2, <2>3 DEF BytesAre
<1>10. HeapIs(g)
  BY <1>2, <1>5, <1>8, <1>9, Zenon DEF HeapIs
<1>11. g.nodes[n] = t.nodes[n] /\ \A m \in VM!Nodes \ {l, n} : g.nodes[m] = h.nodes[m]
  BY <1>1, <1>2, <1>8
<1>12. VM!Items(g, l) = Append(VM!Items(h, l), n)
  BY <1>4, <1>8, Zenon DEF VM!Items
<1> QED BY <1>1, <1>2, <1>5, <1>8, <1>10, <1>11, <1>12, Zenon DEF n, g

---------------------------------------------------------------------------
(* The copies of a list, one value after another.                          *)

(* The function of the copies exists, and follows its recursion.           *)
LEMMA CopiesAre ==
  ASSUME NEW h, NEW l, NEW k \in Nat, k = Len(VM!Items(h, l))
  PROVE  /\ VM!Copies(h, l)[0] = VM!WithList(h, <<>>)
         /\ \A i \in 1 .. k : VM!Copies(h, l)[i] =
              VM!WithValue(VM!Copies(h, l)[i - 1], VM!NewNode(h), h.nodes[VM!Items(h, l)[i]].text)
<1> DEFINE items == VM!Items(h, l)
           to == VM!NewNode(h)
           text(i) == h.nodes[items[i]].text
           Upto(f, n) == [i \in 0 .. n |-> IF i = 0 THEN VM!WithList(h, <<>>)
                                                ELSE VM!WithValue(f[i - 1], to, text(i))]
           copied == CHOOSE f : f = Upto(f, Len(items))
<1>1. VM!Copies(h, l) = copied
  BY Zenon DEF VM!Copies
<1> HIDE DEF items, to, text
<1>4. ASSUME NEW m \in Nat, NEW f, f = Upto(f, m) PROVE \E g : g = Upto(g, m + 1)
  <2> DEFINE g == [i \in 0 .. m + 1 |-> IF i = m + 1 THEN VM!WithValue(f[m], to, text(m + 1)) ELSE f[i]]
  <2>1. DOMAIN g = 0 .. m + 1 /\ DOMAIN Upto(g, m + 1) = 0 .. m + 1
    OBVIOUS
  <2>2. \A i \in 0 .. m : g[i] = f[i]
    OBVIOUS
  <2>3. g[m + 1] = VM!WithValue(f[m], to, text(m + 1))
    OBVIOUS
  <2>4. g[m] = f[m]
    BY <2>2
  <2> HIDE DEF g
  <2>5. Upto(g, m + 1)[m + 1] = VM!WithValue(g[m], to, text(m + 1))
    OBVIOUS
  <2>6. ASSUME NEW i \in 0 .. m PROVE g[i] = Upto(g, m + 1)[i]
    <3>1. f[i] = IF i = 0 THEN VM!WithList(h, <<>>) ELSE VM!WithValue(f[i - 1], to, text(i))
      BY <1>4
    <3>2. Upto(g, m + 1)[i] = IF i = 0 THEN VM!WithList(h, <<>>) ELSE VM!WithValue(g[i - 1], to, text(i))
      OBVIOUS
    <3>3. CASE i = 0
      BY <2>2, <3>1, <3>2, <3>3
    <3>4. CASE i # 0
      <4>1. i - 1 \in 0 .. m
        BY <3>4
      <4>2. g[i - 1] = f[i - 1] /\ g[i] = f[i]
        BY <2>2, <4>1
      <4> HIDE DEF Upto
      <4> QED BY <3>1, <3>2, <3>4, <4>2
    <3> QED BY <3>3, <3>4
  <2>7. \A i \in 0 .. m + 1 : g[i] = Upto(g, m + 1)[i]
    <3> HIDE DEF Upto
    <3>1. \A i \in 0 .. m + 1 : i \in 0 .. m \/ i = m + 1
      OBVIOUS
    <3> QED BY <2>3, <2>4, <2>5, <2>6, <3>1
  <2>8. g = [i \in 0 .. m + 1 |-> g[i]]
    BY DEF g
  <2>9. Upto(g, m + 1) = [i \in 0 .. m + 1 |-> Upto(g, m + 1)[i]]
    OBVIOUS
  <2>10. g = Upto(g, m + 1)
    <3> HIDE DEF Upto
    <3> QED BY <2>7, <2>8, <2>9
  <2> QED BY <2>10
<1>5. \E f : f = Upto(f, 0)
  <2> DEFINE g == [i \in 0 .. 0 |-> VM!WithList(h, <<>>)]
  <2>1. g = Upto(g, 0)
    OBVIOUS
  <2> QED BY <2>1
<1> HIDE DEF Upto
<1>6. \A n \in Nat : \E f : f = Upto(f, n)
  <2> DEFINE T == {n \in Nat : ~ \E f : f = Upto(f, n)}
  <2> SUFFICES ASSUME T # {} PROVE FALSE
    OBVIOUS
  <2>1. PICK m \in T : \A n \in T : m <= n
    <3>1. T \in SUBSET Nat
      OBVIOUS
    <3> HIDE DEF T
    <3> QED BY <3>1, LeastNumber
  <2>2. m \in Nat \ {0}
    BY <1>5, <2>1
  <2>3. m - 1 \in Nat /\ m - 1 \notin T
    BY <2>1, <2>2
  <2>4. \E f : f = Upto(f, m - 1)
    BY <2>3
  <2>5. PICK f : f = Upto(f, m - 1)
    BY <2>4
  <2>6. \E g : g = Upto(g, (m - 1) + 1)
    BY <1>4, <2>3, <2>5
  <2>7. (m - 1) + 1 = m
    BY <2>2
  <2> QED BY <2>1, <2>6, <2>7
<1>7. copied = Upto(copied, k)
  BY <1>6, Zenon DEF items
<1> HIDE DEF copied
<1>8. copied[0] = VM!WithList(h, <<>>) /\ \A i \in 1 .. k : copied[i] = VM!WithValue(copied[i - 1], to, text(i))
  BY <1>7 DEF Upto
<1> QED BY <1>1, <1>8, Zenon DEF items, to, text

(* A copy is a list of new nodes that says what its original says.         *)
LEMMA CopyKeeps ==
  ASSUME VM!TransactionAssumption, NEW h, HeapIs(h), NEW l \in VM!Nodes, NEW texts \in Seq(Texts),
         SaysIn(h, l, texts), VM!CopyFits(h, l)
  PROVE  LET g == VM!WithCopy(h, l)
             to == VM!NewNode(h)
         IN  /\ HeapIs(g) /\ g.policy = h.policy /\ g.depth = h.depth
             /\ h.made \subseteq g.made
             /\ to \in VM!Nodes /\ h.nodes[to] = VM!Free
             /\ SaysIn(g, to, texts)
             /\ \A m \in VM!Nodes : h.nodes[m] # VM!Free => g.nodes[m] = h.nodes[m]
<1> DEFINE items == VM!Items(h, l)
           k == Len(items)
           to == VM!NewNode(h)
           c == VM!Copies(h, l)
           Stage(i) ==
             /\ HeapIs(c[i]) /\ c[i].policy = h.policy /\ c[i].depth = h.depth
             /\ h.made \subseteq c[i].made
             /\ c[i].nodes[to] \in ListNode /\ Len(VM!Items(c[i], to)) = i
             /\ \A j \in 1 .. i : LET node == c[i].nodes[VM!Items(c[i], to)[j]] IN
                                  VM!IsText(node) /\ node.text = texts[j]
             /\ \A m \in VM!Nodes : h.nodes[m] # VM!Free => c[i].nodes[m] = h.nodes[m]
<1>1. /\ h.nodes[l] \in ListNode /\ items \in Seq(VM!Nodes) /\ k \in Nat /\ k = Len(texts)
      /\ \A i \in 1 .. k : h.nodes[items[i]].text = texts[i] /\ texts[i] \in Texts
  BY DEF SaysIn, ListNode, VM!Items
<1>2. to \in VM!Nodes /\ h.nodes[to] = VM!Free
  BY <1>1, FreshNode, Kinds DEF VM!CopyFits
<1>3. /\ c[0] = VM!WithList(h, <<>>)
      /\ \A i \in 1 .. k : c[i] = VM!WithValue(c[i - 1], to, h.nodes[items[i]].text)
  BY <1>1, CopiesAre
<1>4. \A i \in 1 .. k : VM!HasRoom(c[i - 1], texts[i])
  BY <1>1 DEF VM!CopyFits
<1>5. VM!WithCopy(h, l) = c[k]
  BY DEF VM!WithCopy
<1> HIDE DEF c, to, items, k
<1>6. Stage(0)
  <2> DEFINE x == [items |-> <<>>]
  <2>1. c[0] = [h EXCEPT !.nodes[to] = x]
    BY <1>3 DEF VM!WithList, to
  <2>2. x \in ListNode /\ x.items = <<>>
    BY DEF ListNode
  <2> HIDE DEF x
  <2>3. /\ DOMAIN c[0] = DOMAIN h /\ c[0].policy = h.policy /\ c[0].depth = h.depth
        /\ c[0].made = h.made /\ c[0].mapped = h.mapped /\ c[0].count = h.count
        /\ c[0].header = h.header /\ c[0].nodes = [h.nodes EXCEPT ![to] = x]
    BY <2>1 DEF HeapIs
  <2>4. /\ c[0].nodes[to] = x /\ \A m \in VM!Nodes \ {to} : c[0].nodes[m] = h.nodes[m]
        /\ c[0].nodes \in [VM!Nodes -> {VM!Free} \cup ListNode \cup TextNode]
    BY <1>2, <2>2, <2>3 DEF HeapIs
  <2>5. BytesAre(c[0].nodes, c[0].count)
    <3>1. \A m \in VM!Nodes : VM!IsText(c[0].nodes[m]) => m # to /\ c[0].nodes[m] = h.nodes[m]
      BY <2>2, <2>4, Kinds
    <3>2. BytesAre(h.nodes, h.count) /\ c[0].count = h.count
      BY <2>3 DEF HeapIs
    <3> QED BY <3>1, <3>2 DEF BytesAre
  <2>6. HeapIs(c[0])
    BY <2>3, <2>4, <2>5, Zenon DEF HeapIs
  <2>7. VM!Items(c[0], to) = <<>> /\ Len(VM!Items(c[0], to)) = 0
    BY <2>2, <2>4 DEF VM!Items
  <2>8. \A m \in VM!Nodes : h.nodes[m] # VM!Free => c[0].nodes[m] = h.nodes[m]
    BY <1>2, <2>4
  <2>9. \A j \in 1 .. 0 : FALSE
    OBVIOUS
  <2> QED BY <2>2, <2>3, <2>4, <2>6, <2>7, <2>8, <2>9
<1>7. ASSUME NEW i \in 1 .. k, Stage(i - 1) PROVE Stage(i)
  <2> DEFINE b == c[i - 1]
             n == VM!NewNode(b)
  <2>1. HeapIs(b) /\ b.nodes[to] \in ListNode /\ texts[i] \in Texts /\ VM!HasRoom(b, texts[i])
    BY <1>1, <1>4, <1>7
  <2>2. c[i] = VM!WithValue(b, to, texts[i])
    BY <1>1, <1>3
  <2>3. /\ HeapIs(c[i]) /\ c[i].policy = b.policy /\ c[i].depth = b.depth
        /\ b.made \subseteq c[i].made
        /\ n \in VM!Nodes /\ b.nodes[n] = VM!Free /\ n # to
        /\ c[i].nodes[n] \in TextNode /\ c[i].nodes[n].text = texts[i]
        /\ c[i].nodes[to] \in ListNode /\ VM!Items(c[i], to) = Append(VM!Items(b, to), n)
        /\ \A m \in VM!Nodes \ {to, n} : c[i].nodes[m] = b.nodes[m]
    <3> HIDE DEF b
    <3> QED BY <1>2, <2>1, <2>2, ValueKeeps
  <2>4. /\ b.policy = h.policy /\ b.depth = h.depth /\ h.made \subseteq b.made
        /\ Len(VM!Items(b, to)) = i - 1
        /\ \A j \in 1 .. i - 1 : /\ VM!IsText(b.nodes[VM!Items(b, to)[j]])
                                 /\ b.nodes[VM!Items(b, to)[j]].text = texts[j]
        /\ \A m \in VM!Nodes : h.nodes[m] # VM!Free => b.nodes[m] = h.nodes[m]
    BY <1>7
  <2> HIDE DEF b, n
  <2>5. VM!Items(b, to) \in Seq(VM!Nodes)
    BY <2>1 DEF ListNode, VM!Items
  <2>6. /\ Len(VM!Items(c[i], to)) = i /\ VM!Items(c[i], to)[i] = n
        /\ \A j \in 1 .. i - 1 : VM!Items(c[i], to)[j] = VM!Items(b, to)[j] /\ VM!Items(b, to)[j] \in VM!Nodes
    BY <1>1, <2>3, <2>4, <2>5
  <2>7. ASSUME NEW j \in 1 .. i - 1
        PROVE  LET node == c[i].nodes[VM!Items(c[i], to)[j]] IN VM!IsText(node) /\ node.text = texts[j]
    <3> DEFINE q == VM!Items(b, to)[j]
    <3>1. q \in VM!Nodes /\ VM!IsText(b.nodes[q]) /\ b.nodes[q].text = texts[j] /\ VM!Items(c[i], to)[j] = q
      BY <2>4, <2>6
    <3>2. q # to /\ q # n
      BY <2>1, <2>3, <3>1, Kinds
    <3> QED BY <2>3, <3>1, <3>2
  <2>8. \A j \in 1 .. i : j = i \/ j \in 1 .. i - 1
    OBVIOUS
  <2>9. \A j \in 1 .. i : LET node == c[i].nodes[VM!Items(c[i], to)[j]] IN
                          VM!IsText(node) /\ node.text = texts[j]
    BY <2>3, <2>6, <2>7, <2>8, Kinds
  <2>10. \A m \in VM!Nodes : h.nodes[m] # VM!Free => c[i].nodes[m] = h.nodes[m]
    BY <1>2, <2>3, <2>4
  <2> QED BY <2>3, <2>4, <2>6, <2>9, <2>10
<1>8. Stage(k)
  <2> DEFINE Wrong == {i \in 0 .. k : ~Stage(i)}
  <2> SUFFICES ASSUME Wrong # {} PROVE FALSE
    BY <1>1
  <2>1. Wrong \in SUBSET Nat
    BY <1>1
  <2>2. PICK m \in Wrong : \A i \in Wrong : m <= i
    <3> HIDE DEF Wrong
    <3> QED BY <2>1, LeastNumber
  <2> HIDE DEF Stage
  <2>3. m \in 0 .. k /\ ~Stage(m) /\ m # 0
    BY <1>6, <2>2
  <2>4. m \in 1 .. k /\ m - 1 \in 0 .. k /\ m - 1 \notin Wrong
    BY <1>1, <2>2, <2>3
  <2> QED BY <1>7, <2>3, <2>4
<1>9. SaysIn(c[k], to, texts)
  <2>1. DOMAIN texts = 1 .. k
    BY <1>1
  <2> QED BY <1>1, <1>2, <1>8, <2>1, Zenon DEF SaysIn
<1> QED BY <1>2, <1>5, <1>8, <1>9, Zenon DEF to

---------------------------------------------------------------------------
(* A process that loads the texts again, in the order of their slots.      *)

(* The function of the loaded texts exists.                                *)
LEMMA LoadingIs ==
  ASSUME VM!TransactionAssumption, NEW h
  PROVE  /\ VM!Loading(h)[0] = VM!EmptySlabs(h)
         /\ \A n \in VM!Nodes : VM!Loading(h)[n] =
              IF VM!IsText(h.nodes[n]) THEN VM!TextAt(VM!Loading(h)[n - 1], n, h.nodes[n].text)
              ELSE VM!Loading(h)[n - 1]
<1> DEFINE More(f, n) == IF VM!IsText(h.nodes[n]) THEN VM!TextAt(f, n, h.nodes[n].text) ELSE f
           Upto(f, n) == [i \in 0 .. n |-> IF i = 0 THEN VM!EmptySlabs(h) ELSE More(f[i - 1], i)]
           loaded == CHOOSE f : f = Upto(f, MaxNodes)
<1>1. VM!Loading(h) = loaded
  BY Zenon DEF VM!Loading
<1> HIDE DEF More
<1>4. ASSUME NEW m \in Nat, NEW f, f = Upto(f, m) PROVE \E g : g = Upto(g, m + 1)
  <2> DEFINE g == [i \in 0 .. m + 1 |-> IF i = m + 1 THEN More(f[m], m + 1) ELSE f[i]]
  <2>1. DOMAIN g = 0 .. m + 1 /\ DOMAIN Upto(g, m + 1) = 0 .. m + 1
    OBVIOUS
  <2>2. \A i \in 0 .. m : g[i] = f[i]
    OBVIOUS
  <2>3. g[m + 1] = More(f[m], m + 1)
    OBVIOUS
  <2>4. g[m] = f[m]
    BY <2>2
  <2> HIDE DEF g
  <2>5. Upto(g, m + 1)[m + 1] = More(g[m], m + 1)
    OBVIOUS
  <2>6. ASSUME NEW i \in 0 .. m PROVE g[i] = Upto(g, m + 1)[i]
    <3>1. f[i] = IF i = 0 THEN VM!EmptySlabs(h) ELSE More(f[i - 1], i)
      BY <1>4
    <3>2. Upto(g, m + 1)[i] = IF i = 0 THEN VM!EmptySlabs(h) ELSE More(g[i - 1], i)
      OBVIOUS
    <3>3. CASE i = 0
      BY <2>2, <3>1, <3>2, <3>3
    <3>4. CASE i # 0
      <4>1. i - 1 \in 0 .. m
        BY <3>4
      <4>2. g[i - 1] = f[i - 1] /\ g[i] = f[i]
        BY <2>2, <4>1
      <4> HIDE DEF Upto
      <4> QED BY <3>1, <3>2, <3>4, <4>2
    <3> QED BY <3>3, <3>4
  <2>7. \A i \in 0 .. m + 1 : g[i] = Upto(g, m + 1)[i]
    <3> HIDE DEF Upto
    <3>1. \A i \in 0 .. m + 1 : i \in 0 .. m \/ i = m + 1
      OBVIOUS
    <3> QED BY <2>3, <2>4, <2>5, <2>6, <3>1
  <2>8. g = [i \in 0 .. m + 1 |-> g[i]]
    BY DEF g
  <2>9. Upto(g, m + 1) = [i \in 0 .. m + 1 |-> Upto(g, m + 1)[i]]
    OBVIOUS
  <2>10. g = Upto(g, m + 1)
    <3> HIDE DEF Upto
    <3> QED BY <2>7, <2>8, <2>9
  <2> QED BY <2>10
<1>5. \E f : f = Upto(f, 0)
  <2> DEFINE g == [i \in 0 .. 0 |-> VM!EmptySlabs(h)]
  <2>1. g = Upto(g, 0)
    OBVIOUS
  <2> QED BY <2>1
<1> HIDE DEF Upto
<1>6. \A n \in Nat : \E f : f = Upto(f, n)
  <2> DEFINE T == {n \in Nat : ~ \E f : f = Upto(f, n)}
  <2> SUFFICES ASSUME T # {} PROVE FALSE
    OBVIOUS
  <2>1. PICK m \in T : \A n \in T : m <= n
    <3>1. T \in SUBSET Nat
      OBVIOUS
    <3> HIDE DEF T
    <3> QED BY <3>1, LeastNumber
  <2>2. m \in Nat \ {0}
    BY <1>5, <2>1
  <2>3. m - 1 \in Nat /\ m - 1 \notin T
    BY <2>1, <2>2
  <2>4. \E f : f = Upto(f, m - 1)
    BY <2>3
  <2>5. PICK f : f = Upto(f, m - 1)
    BY <2>4
  <2>6. \E g : g = Upto(g, (m - 1) + 1)
    BY <1>4, <2>3, <2>5
  <2>7. (m - 1) + 1 = m
    BY <2>2
  <2> QED BY <2>1, <2>6, <2>7
<1>7. loaded = Upto(loaded, MaxNodes)
  BY <1>6, Zenon DEF VM!TransactionAssumption
<1> HIDE DEF loaded
<1>8. MaxNodes \in Nat
  BY DEF VM!TransactionAssumption
<1>9. loaded[0] = VM!EmptySlabs(h) /\ \A n \in VM!Nodes : loaded[n] = More(loaded[n - 1], n)
  BY <1>7, <1>8 DEF Upto, VM!Nodes
<1> QED BY <1>1, <1>9, Zenon DEF More

(* Every text is there again, and every list is as it was.                 *)
LEMMA LoadKeeps ==
  ASSUME VM!TransactionAssumption, NEW h, HeapIs(h), VM!LoadFits(h)
  PROVE  LET g == VM!Reallocated(h) IN
         /\ HeapIs(g)
         /\ \A m \in VM!Nodes : IF VM!IsText(h.nodes[m])
                            THEN VM!IsText(g.nodes[m]) /\ g.nodes[m].text = h.nodes[m].text
                            ELSE g.nodes[m] = h.nodes[m]
<1> DEFINE c == VM!Loading(h)
           e == VM!EmptySlabs(h)
           Loaded(g, n, m) ==
             IF VM!IsText(h.nodes[m])
             THEN IF m <= n THEN VM!IsText(g.nodes[m]) /\ g.nodes[m].text = h.nodes[m].text
                  ELSE g.nodes[m] = VM!Free
             ELSE g.nodes[m] = h.nodes[m]
           Stage(n) == HeapIs(c[n]) /\ \A m \in VM!Nodes : Loaded(c[n], n, m)
<1>0. /\ MaxNodes \in Nat \ {0} /\ SlabBytes \in Nat \ {0, 1} /\ NumBlobSlabs \in Nat \ {0}
      /\ 0 \in VM!Slabs
  BY DEF VM!TransactionAssumption, VM!Slabs
<1>1. /\ c[0] = e
      /\ \A n \in VM!Nodes : c[n] = IF VM!IsText(h.nodes[n]) THEN VM!TextAt(c[n - 1], n, h.nodes[n].text)
                              ELSE c[n - 1]
  BY LoadingIs
<1>2. \A n \in VM!Nodes : VM!IsText(h.nodes[n]) => VM!HasSpace(c[n - 1], Length[h.nodes[n].text])
  BY DEF VM!LoadFits
<1>3. VM!Reallocated(h) = c[MaxNodes]
  BY DEF VM!Reallocated
<1>4. \A n \in VM!Nodes : VM!IsText(h.nodes[n]) => h.nodes[n] \in TextNode /\ h.nodes[n].text \in Texts
  BY Kinds DEF HeapIs, TextNode
<1> HIDE DEF c
<1>5. Stage(0)
  <2>1. /\ DOMAIN e = DOMAIN h /\ e.policy = h.policy /\ e.depth = h.depth
        /\ e.made = {0} /\ e.mapped = {}
        /\ e.count = [s \in VM!Slabs |-> IF s = 0 THEN 1 ELSE 0]
        /\ e.header = [s \in VM!Slabs |-> 0]
        /\ e.nodes = [n \in VM!Nodes |-> IF VM!IsText(h.nodes[n]) THEN VM!Free ELSE h.nodes[n]]
    BY DEF VM!EmptySlabs, HeapIs
  <2> HIDE DEF e
  <2>2. SlabsAre(e.made, e.mapped, e.policy, e.count, e.header)
    BY <1>0, <2>1 DEF SlabsAre, HeapIs
  <2>3. /\ e.nodes \in [VM!Nodes -> {VM!Free} \cup ListNode \cup TextNode]
        /\ \A m \in VM!Nodes : ~VM!IsText(e.nodes[m])
    BY <2>1, Kinds DEF HeapIs
  <2>4. HeapIs(e)
    BY <2>1, <2>2, <2>3 DEF HeapIs, BytesAre
  <2>5. \A m \in VM!Nodes : Loaded(e, 0, m)
    BY <2>1 DEF VM!Nodes
  <2> QED BY <1>1, <2>4, <2>5
<1> HIDE DEF e
<1>6. ASSUME NEW n \in VM!Nodes, Stage(n - 1) PROVE Stage(n)
  <2>0. n \in Nat \ {0} /\ \A m \in VM!Nodes : m \in Nat /\ (m <= n <=> m = n \/ m <= n - 1)
    BY <1>0 DEF VM!Nodes
  <2>1. CASE VM!IsText(h.nodes[n])
    <3> DEFINE b == c[n - 1]
               t == h.nodes[n].text
    <3>1. HeapIs(b) /\ t \in Texts /\ VM!HasSpace(b, Length[t]) /\ c[n] = VM!TextAt(b, n, t)
      BY <1>1, <1>2, <1>4, <1>6, <2>1
    <3>2. b.nodes[n] = VM!Free
      BY <1>6, <2>0, <2>1
    <3>3. \A m \in VM!Nodes : Loaded(b, n - 1, m)
      BY <1>6
    <3> HIDE DEF b, t
    <3>4. /\ HeapIs(c[n]) /\ c[n].nodes[n] \in TextNode /\ c[n].nodes[n].text = t
          /\ \A m \in VM!Nodes \ {n} : c[n].nodes[m] = b.nodes[m]
      BY <3>1, <3>2, TextKeeps
    <3>5. ASSUME NEW m \in VM!Nodes PROVE Loaded(c[n], n, m)
      <4>1. CASE m = n
        BY <2>0, <2>1, <3>4, <4>1, Kinds DEF t
      <4>2. CASE m # n
        BY <2>0, <3>3, <3>4, <4>2
      <4> QED BY <4>1, <4>2
    <3> QED BY <3>4, <3>5
  <2>2. CASE ~VM!IsText(h.nodes[n])
    <3>1. c[n] = c[n - 1]
      BY <1>1, <2>2
    <3> QED BY <1>6, <2>0, <2>2, <3>1
  <2> QED BY <2>1, <2>2
<1>7. Stage(MaxNodes)
  <2> DEFINE Wrong == {i \in 0 .. MaxNodes : ~Stage(i)}
  <2> SUFFICES ASSUME Wrong # {} PROVE FALSE
    BY <1>0
  <2>1. Wrong \in SUBSET Nat
    BY <1>0
  <2>2. PICK m \in Wrong : \A i \in Wrong : m <= i
    <3> HIDE DEF Wrong
    <3> QED BY <2>1, LeastNumber
  <2> HIDE DEF Stage
  <2>3. m \in 0 .. MaxNodes /\ ~Stage(m) /\ m # 0
    BY <1>5, <2>2
  <2>4. m \in VM!Nodes /\ m - 1 \in 0 .. MaxNodes /\ m - 1 \notin Wrong
    BY <1>0, <2>2, <2>3 DEF VM!Nodes
  <2> QED BY <1>6, <2>3, <2>4
<1>8. \A m \in VM!Nodes : m <= MaxNodes
  BY <1>0 DEF VM!Nodes
<1> QED BY <1>3, <1>7, <1>8, Zenon

---------------------------------------------------------------------------
(* What is said, when nothing of a list is changed.                        *)

(* A list of the same nodes says the same,                                 *)
LEMMA SameSays ==
  ASSUME NEW h, NEW g, NEW l, NEW texts, SaysIn(h, l, texts), Stays(h, g, l)
  PROVE  SaysIn(g, l, texts)
<1>1. VM!Items(g, l) = VM!Items(h, l)
  BY DEF Stays, VM!Items
<1>2. VM!Items(h, l) \in Seq(VM!Nodes)
  BY DEF SaysIn, ListNode, VM!Items
<1>3. \A i \in DOMAIN texts : i \in DOMAIN VM!Items(h, l)
  BY <1>2 DEF SaysIn
<1> QED BY <1>1, <1>3 DEF SaysIn, Stays

(* and lies below the same marks.                                          *)
LEMMA SameBelow ==
  ASSUME NEW h, NEW g, NEW l, NEW c, Below(h, l, c), Stays(h, g, l)
  PROVE  Below(g, l, c)
<1>1. VM!Items(g, l) = VM!Items(h, l)
  BY DEF Stays, VM!Items
<1> QED BY <1>1, Zenon DEF Below, Stays

(* The checkpoints are what they were when their lists are.                *)
LEMMA OpenStays ==
  ASSUME NEW h, NEW g, NEW l, NEW checkpoints, OpenIs(h, l, checkpoints),
         h.made \subseteq g.made,
         \A i \in DOMAIN checkpoints : Stays(h, g, checkpoints[i].list)
  PROVE  OpenIs(g, l, checkpoints)
<1>1. ASSUME NEW i \in DOMAIN checkpoints
      PROVE  LET c == checkpoints[i] IN
             /\ MarkIs(g, c.blobs) /\ SaysIn(g, c.list, c.said) /\ c.list # l
             /\ \A j \in 1 .. i : /\ Below(g, checkpoints[j].list, c)
                                  /\ j < i => checkpoints[j].list # c.list
  <2> DEFINE c == checkpoints[i]
  <2>1. MarkIs(g, c.blobs) /\ c.list # l
    BY DEF OpenIs, MarkIs
  <2>2. SaysIn(g, c.list, c.said)
    <3>1. SaysIn(h, c.list, c.said) /\ Stays(h, g, c.list)
      BY Zenon DEF OpenIs
    <3> QED BY <3>1, SameSays
  <2>3. ASSUME NEW j \in 1 .. i
        PROVE  Below(g, checkpoints[j].list, c) /\ (j < i => checkpoints[j].list # c.list)
    <3>1. j \in DOMAIN checkpoints
      BY DEF OpenIs
    <3>2. /\ Below(h, checkpoints[j].list, c) /\ Stays(h, g, checkpoints[j].list)
          /\ j < i => checkpoints[j].list # c.list
      BY <3>1, Zenon DEF OpenIs
    <3> QED BY <3>2, SameBelow
  <2> QED BY <2>1, <2>2, <2>3
<1> QED BY <1>1, Zenon DEF OpenIs

(* The outer checkpoints, for the VM on its list or on that of the inner.  *)
LEMMA OuterIs ==
  ASSUME NEW h, NEW l, NEW checkpoints, OpenIs(h, l, checkpoints), checkpoints # <<>>
  PROVE  LET c == VM!Last(checkpoints) IN
         /\ c \in Checkpoints /\ MarkIs(h, c.blobs) /\ SaysIn(h, c.list, c.said)
         /\ Below(h, c.list, c) /\ c.list # l
         /\ Len(checkpoints) \in DOMAIN checkpoints /\ c = checkpoints[Len(checkpoints)]
         /\ OpenIs(h, l, VM!Front(checkpoints)) /\ OpenIs(h, c.list, VM!Front(checkpoints))
         /\ \A i \in DOMAIN VM!Front(checkpoints) :
              /\ i \in DOMAIN checkpoints /\ VM!Front(checkpoints)[i] = checkpoints[i]
              /\ Below(h, checkpoints[i].list, c) /\ SaysIn(h, checkpoints[i].list, checkpoints[i].said)
<1> DEFINE n == Len(checkpoints)
           c == checkpoints[n]
           f == VM!Front(checkpoints)
<1>1. checkpoints \in Seq(Checkpoints) /\ n \in Nat \ {0} /\ DOMAIN checkpoints = 1 .. n
  BY DEF OpenIs
<1>2. VM!Last(checkpoints) = c /\ c \in Checkpoints
  BY <1>1 DEF VM!Last
<1>3. /\ f \in Seq(Checkpoints) /\ DOMAIN f = 1 .. n - 1
      /\ \A i \in 1 .. n - 1 : f[i] = checkpoints[i]
  BY <1>1 DEF VM!Front
<1> HIDE DEF f
<1>4. n \in 1 .. n /\ \A i \in 1 .. n - 1 : i \in 1 .. n /\ i < n
  BY <1>1
<1>5. /\ MarkIs(h, c.blobs) /\ SaysIn(h, c.list, c.said) /\ c.list # l /\ Below(h, c.list, c)
      /\ \A i \in 1 .. n - 1 : Below(h, checkpoints[i].list, c) /\ checkpoints[i].list # c.list
  BY <1>1, <1>4, Zenon DEF OpenIs
<1>6. \A i \in 1 .. n - 1 :
        /\ MarkIs(h, checkpoints[i].blobs) /\ SaysIn(h, checkpoints[i].list, checkpoints[i].said)
        /\ checkpoints[i].list # l
        /\ \A j \in 1 .. i : /\ Below(h, checkpoints[j].list, checkpoints[i])
                             /\ j < i => checkpoints[j].list # checkpoints[i].list
  BY <1>1, <1>4, Zenon DEF OpenIs
<1>7. \A i \in 1 .. n - 1 : \A j \in 1 .. i : j \in 1 .. n - 1
  BY <1>1
<1>8. OpenIs(h, l, f)
  BY <1>3, <1>6, <1>7 DEF OpenIs
<1>9. OpenIs(h, c.list, f)
  BY <1>3, <1>5, <1>6, <1>7 DEF OpenIs
<1> QED BY <1>1, <1>2, <1>3, <1>4, <1>5, <1>6, <1>8, <1>9 DEF f

---------------------------------------------------------------------------
(* A list of the VM with one more value.                                   *)

(* The list says one text more, and the checkpoints stay.                  *)
LEMMA ValueSays ==
  ASSUME VM!TransactionAssumption, NEW h, HeapIs(h), NEW l, NEW texts \in Seq(Texts),
         SaysIn(h, l, texts), NEW text \in Texts, VM!HasRoom(h, text),
         NEW checkpoints, OpenIs(h, l, checkpoints)
  PROVE  LET g == VM!WithValue(h, l, text) IN
         HeapIs(g) /\ SaysIn(g, l, Append(texts, text)) /\ OpenIs(g, l, checkpoints)
<1> DEFINE g == VM!WithValue(h, l, text)
           n == VM!NewNode(h)
<1>1. /\ HeapIs(g) /\ h.made \subseteq g.made
      /\ n \in VM!Nodes /\ h.nodes[n] = VM!Free /\ n # l
      /\ g.nodes[n] \in TextNode /\ g.nodes[n].text = text
      /\ g.nodes[l] \in ListNode /\ VM!Items(g, l) = Append(VM!Items(h, l), n)
      /\ \A m \in VM!Nodes \ {l, n} : g.nodes[m] = h.nodes[m]
  BY ValueKeeps DEF SaysIn
<1> HIDE DEF g, n
<1>2. ASSUME NEW k, NEW some \in Seq(Texts), SaysIn(h, k, some)
      PROVE  \A i \in DOMAIN VM!Items(h, k) : /\ VM!Items(h, k)[i] \in VM!Nodes \ {l, n}
                                              /\ g.nodes[VM!Items(h, k)[i]] = h.nodes[VM!Items(h, k)[i]]
                                                /\ i \in DOMAIN some
  <2>1. VM!Items(h, k) \in Seq(VM!Nodes)
    BY <1>2 DEF SaysIn, ListNode, VM!Items
  <2>2. DOMAIN VM!Items(h, k) = DOMAIN some /\ \A i \in DOMAIN some : VM!Items(h, k)[i] \in VM!Nodes
    BY <1>2, <2>1 DEF SaysIn
  <2>3. \A i \in DOMAIN some : VM!IsText(h.nodes[VM!Items(h, k)[i]])
    BY <1>2 DEF SaysIn
  <2>4. ~VM!IsText(h.nodes[l]) /\ ~VM!IsText(h.nodes[n])
    BY <1>1, Kinds DEF SaysIn
  <2> QED BY <1>1, <2>2, <2>3, <2>4
<1>3. SaysIn(g, l, Append(texts, text))
  <2> DEFINE len == Len(texts)
  <2>1. /\ VM!Items(h, l) \in Seq(VM!Nodes) /\ Len(VM!Items(h, l)) = len /\ len \in Nat
        /\ l \in VM!Nodes /\ DOMAIN texts = 1 .. len /\ DOMAIN VM!Items(h, l) = 1 .. len
    BY DEF SaysIn, ListNode, VM!Items
  <2>2. /\ Len(VM!Items(g, l)) = len + 1 /\ VM!Items(g, l)[len + 1] = n
        /\ \A i \in 1 .. len : VM!Items(g, l)[i] = VM!Items(h, l)[i]
    BY <1>1, <2>1
  <2>3. /\ Len(Append(texts, text)) = len + 1 /\ Append(texts, text)[len + 1] = text
        /\ DOMAIN Append(texts, text) = 1 .. len + 1
        /\ \A i \in 1 .. len : Append(texts, text)[i] = texts[i]
    BY <2>1
  <2>4. \A i \in 1 .. len : /\ VM!IsText(g.nodes[VM!Items(g, l)[i]])
                            /\ g.nodes[VM!Items(g, l)[i]].text = texts[i]
    <3>1. \A i \in 1 .. len : VM!IsText(h.nodes[VM!Items(h, l)[i]]) /\ h.nodes[VM!Items(h, l)[i]].text = texts[i]
      BY <2>1 DEF SaysIn
    <3> QED BY <1>2, <2>1, <2>2, <3>1
  <2>5. VM!IsText(g.nodes[n])
    BY <1>1, Kinds
  <2>6. \A i \in 1 .. len + 1 : i = len + 1 \/ i \in 1 .. len
    BY <2>1
  <2>7. \A i \in 1 .. len + 1 : /\ VM!IsText(g.nodes[VM!Items(g, l)[i]])
                                /\ g.nodes[VM!Items(g, l)[i]].text = Append(texts, text)[i]
    BY <1>1, <2>2, <2>3, <2>4, <2>5, <2>6
  <2> QED BY <1>1, <2>1, <2>2, <2>3, <2>7 DEF SaysIn
<1>4. ASSUME NEW i \in DOMAIN checkpoints PROVE Stays(h, g, checkpoints[i].list)
  <2> DEFINE k == checkpoints[i].list
  <2>1. SaysIn(h, k, checkpoints[i].said) /\ k # l /\ checkpoints[i].said \in Seq(Texts)
    <3>1. checkpoints[i] \in Checkpoints
      BY DEF OpenIs
    <3>2. checkpoints[i].said \in Seq(Texts)
      BY <3>1 DEF Checkpoints
    <3> QED BY <3>2, Zenon DEF OpenIs
  <2>2. \A j \in DOMAIN VM!Items(h, k) : g.nodes[VM!Items(h, k)[j]] = h.nodes[VM!Items(h, k)[j]]
    BY <1>2, <2>1
  <2>3. k \in VM!Nodes /\ k # n
    BY <1>1, <2>1, Kinds DEF SaysIn
  <2> QED BY <1>1, <2>1, <2>2, <2>3 DEF Stays
<1>5. OpenIs(g, l, checkpoints)
  BY <1>1, <1>4, OpenStays
<1> QED BY <1>1, <1>3, <1>5 DEF g

---------------------------------------------------------------------------
(* Only what lists refer to is kept.                                       *)

LEMMA KeptNodesAre ==
  ASSUME NEW h, h.nodes \in [VM!Nodes -> {VM!Free} \cup ListNode \cup TextNode],
         DOMAIN h = {"policy", "mapped", "made", "depth", "nodes", "count", "header"},
         NEW lists \in SUBSET VM!Nodes, \A l \in lists : h.nodes[l] \in ListNode
  PROVE  LET g == VM!Kept(h, lists) IN
         /\ DOMAIN g = DOMAIN h /\ g.policy = h.policy /\ g.depth = h.depth
         /\ g.made = h.made /\ g.mapped = h.mapped /\ g.count = h.count /\ g.header = h.header
         /\ g.nodes \in [VM!Nodes -> {VM!Free} \cup ListNode \cup TextNode]
         /\ \A m \in VM!Nodes : g.nodes[m] = h.nodes[m] \/ g.nodes[m] = VM!Free
         /\ \A l \in lists : g.nodes[l] = h.nodes[l]
         /\ \A l \in lists : \A i \in DOMAIN VM!Items(h, l) :
              g.nodes[VM!Items(h, l)[i]] = h.nodes[VM!Items(h, l)[i]]
         /\ \A m \in VM!Nodes : VM!IsText(g.nodes[m]) =>
              \E l \in lists : \E i \in DOMAIN VM!Items(h, l) : m = VM!Items(h, l)[i]
<1> DEFINE reached == lists \cup UNION {VM!Range(VM!Items(h, l)) : l \in lists \cap VM!Live(h)}
           g == VM!Kept(h, lists)
<1>1. g = [h EXCEPT !.nodes = [n \in VM!Nodes |-> IF n \in reached THEN h.nodes[n] ELSE VM!Free]]
  BY DEF VM!Kept
<1>2. \A l \in lists : l \in VM!Live(h)
  BY Kinds DEF VM!Live
<1>3. \A l \in lists : \A i \in DOMAIN VM!Items(h, l) : VM!Items(h, l)[i] \in reached
  <2> SUFFICES ASSUME NEW l \in lists, NEW i \in DOMAIN VM!Items(h, l)
               PROVE  VM!Items(h, l)[i] \in reached
    OBVIOUS
  <2>1. VM!Items(h, l)[i] \in VM!Range(VM!Items(h, l))
    BY Zenon DEF VM!Range
  <2>2. l \in lists \cap VM!Live(h)
    BY <1>2
  <2>3. VM!Range(VM!Items(h, l)) \in {VM!Range(VM!Items(h, k)) : k \in lists \cap VM!Live(h)}
    BY <2>2, Zenon
  <2> QED BY <2>1, <2>3, Zenon
<1>4. \A m \in reached : m \in lists \/ \E l \in lists : \E i \in DOMAIN VM!Items(h, l) : m = VM!Items(h, l)[i]
  BY Zenon DEF VM!Range
<1> HIDE DEF g, reached
<1>5. /\ DOMAIN g = DOMAIN h /\ g.policy = h.policy /\ g.depth = h.depth
      /\ g.made = h.made /\ g.mapped = h.mapped /\ g.count = h.count /\ g.header = h.header
      /\ g.nodes = [n \in VM!Nodes |-> IF n \in reached THEN h.nodes[n] ELSE VM!Free]
  BY <1>1
<1>6. /\ g.nodes \in [VM!Nodes -> {VM!Free} \cup ListNode \cup TextNode]
      /\ \A m \in VM!Nodes : g.nodes[m] = h.nodes[m] \/ g.nodes[m] = VM!Free
      /\ \A m \in VM!Nodes : m \in reached => g.nodes[m] = h.nodes[m]
      /\ \A m \in VM!Nodes : m \notin reached => g.nodes[m] = VM!Free
  BY <1>5
<1>7. \A l \in lists : g.nodes[l] = h.nodes[l]
  BY <1>6 DEF reached
<1>8. \A l \in lists : VM!Items(h, l) \in Seq(VM!Nodes)
  BY DEF ListNode, VM!Items
<1>9. \A l \in lists : \A i \in DOMAIN VM!Items(h, l) : g.nodes[VM!Items(h, l)[i]] = h.nodes[VM!Items(h, l)[i]]
  BY <1>3, <1>6, <1>8
<1>10. \A m \in VM!Nodes : VM!IsText(g.nodes[m]) =>
         \E l \in lists : \E i \in DOMAIN VM!Items(h, l) : m = VM!Items(h, l)[i]
  <2>1. \A l \in lists : ~VM!IsText(g.nodes[l])
    BY <1>7, Kinds
  <2>2. ~VM!IsText(VM!Free)
    BY Kinds
  <2> QED BY <1>4, <1>6, <2>1, <2>2, Zenon
<1> QED BY <1>5, <1>6, <1>7, <1>9, <1>10, Zenon DEF g

(* Fewer texts of a heap are still apart.                                  *)
LEMMA FewerTexts ==
  ASSUME NEW nodes, NEW fewer, NEW count, BytesAre(nodes, count),
         \A m \in VM!Nodes : VM!IsText(fewer[m]) => fewer[m] = nodes[m]
  PROVE  BytesAre(fewer, count)
BY DEF BytesAre

(* Lists that are kept are not changed.                                    *)
LEMMA KeptKeeps ==
  ASSUME NEW h, HeapIs(h),
         NEW lists \in SUBSET VM!Nodes, \A l \in lists : h.nodes[l] \in ListNode
  PROVE  /\ HeapIs(VM!Kept(h, lists)) /\ VM!Kept(h, lists).made = h.made
         /\ VM!Kept(h, lists).policy = h.policy
         /\ \A l \in lists : Stays(h, VM!Kept(h, lists), l)
<1> DEFINE g == VM!Kept(h, lists)
<1>1. /\ DOMAIN g = DOMAIN h /\ g.policy = h.policy /\ g.depth = h.depth
      /\ g.made = h.made /\ g.mapped = h.mapped /\ g.count = h.count /\ g.header = h.header
      /\ g.nodes \in [VM!Nodes -> {VM!Free} \cup ListNode \cup TextNode]
      /\ \A m \in VM!Nodes : g.nodes[m] = h.nodes[m] \/ g.nodes[m] = VM!Free
      /\ \A l \in lists : g.nodes[l] = h.nodes[l]
      /\ \A l \in lists : \A i \in DOMAIN VM!Items(h, l) :
           g.nodes[VM!Items(h, l)[i]] = h.nodes[VM!Items(h, l)[i]]
  BY KeptNodesAre DEF HeapIs
<1> HIDE DEF g
<1>2. BytesAre(g.nodes, g.count)
  <2>1. \A m \in VM!Nodes : VM!IsText(g.nodes[m]) => g.nodes[m] = h.nodes[m]
    BY <1>1, Kinds, Zenon
  <2>2. BytesAre(h.nodes, g.count)
    BY <1>1 DEF HeapIs
  <2> QED BY <2>1, <2>2, FewerTexts
<1>3. HeapIs(g)
  BY <1>1, <1>2, Zenon DEF HeapIs
<1>4. \A l \in lists : Stays(h, g, l)
  BY <1>1, Zenon DEF Stays
<1> QED BY <1>1, <1>3, <1>4 DEF g

(* What a rollback leaves.                                                 *)
(* Nor are the lists below the marks of a checkpoint by its rollback.      *)
LEMMA BackKeeps ==
  ASSUME VM!TransactionAssumption, NEW h, HeapIs(h), NEW c \in Checkpoints, MarkIs(h, c.blobs),
         NEW lists \in SUBSET VM!Nodes,
         \A l \in lists : /\ h.nodes[l] \in ListNode /\ Below(h, l, c)
  PROVE  LET g == VM!Kept(VM!Reclaimed(h, c), lists) IN
         /\ HeapIs(g) /\ g.made = h.made
         /\ \A l \in lists : Stays(h, g, l)
<1> DEFINE b == VM!BlobsRolledBack(h, c.blobs)
           r == VM!Reclaimed(h, c)
           g == VM!Kept(r, lists)
           mark == c.blobs
<1>0. /\ mark[1] \in VM!Slabs /\ mark[2] \in 0 .. SlabBytes /\ c.nodes \in Nat
      /\ mark[1] \in h.made /\ (mark[1] = 0 => mark[2] > 0)
      /\ SlabBytes \in Nat /\ NumBlobSlabs \in Nat /\ VM!Slabs \subseteq Nat /\ 0 \in VM!Slabs
      /\ VM!Nodes \subseteq Nat
  <2>1. c.blobs \in VM!Slabs \X (0 .. SlabBytes) /\ c.nodes \in Nat
    BY DEF Checkpoints
  <2> QED BY <2>1 DEF MarkIs, VM!TransactionAssumption, VM!Slabs, VM!Nodes
<1>1. /\ DOMAIN b = DOMAIN h /\ b.policy = h.policy /\ b.depth = h.depth
      /\ b.made = h.made /\ b.mapped = h.mapped /\ b.nodes = h.nodes
      /\ b.count = [s \in VM!Slabs |-> VM!CountAt(h, mark, s)]
      /\ b.header = [s \in VM!Slabs |-> IF s \in h.mapped /\ s >= mark[1]
                                         THEN VM!CountAt(h, mark, s) ELSE h.header[s]]
  BY DEF VM!BlobsRolledBack, HeapIs
<1>2. r = [b EXCEPT !.depth = b.depth - 1,
                    !.nodes = [n \in VM!Nodes |-> IF n > c.nodes THEN VM!Free ELSE b.nodes[n]]]
  BY DEF VM!Reclaimed
<1> HIDE DEF b
<1>3. /\ DOMAIN r = DOMAIN h /\ r.policy = h.policy /\ r.depth = h.depth - 1
      /\ r.made = h.made /\ r.mapped = h.mapped
      /\ r.count = b.count /\ r.header = b.header
      /\ r.nodes = [n \in VM!Nodes |-> IF n > c.nodes THEN VM!Free ELSE h.nodes[n]]
  BY <1>1, <1>2 DEF HeapIs
<1> HIDE DEF r
<1>4. /\ r.nodes \in [VM!Nodes -> {VM!Free} \cup ListNode \cup TextNode]
      /\ \A m \in VM!Nodes : m <= c.nodes => r.nodes[m] = h.nodes[m]
      /\ \A m \in VM!Nodes : r.nodes[m] = h.nodes[m] \/ r.nodes[m] = VM!Free
  <2>1. h.nodes \in [VM!Nodes -> {VM!Free} \cup ListNode \cup TextNode]
    BY DEF HeapIs
  <2>2. VM!Nodes \subseteq Nat /\ c.nodes \in Nat
    BY <1>0
  <2>3. \A m \in VM!Nodes : r.nodes[m] = IF m > c.nodes THEN VM!Free ELSE h.nodes[m]
    BY <1>3
  <2>4. \A m \in VM!Nodes : m <= c.nodes => ~(m > c.nodes)
    <3>1. \A m, k \in Nat : m <= k => ~(m > k)
      OBVIOUS
    <3> QED BY <2>2, <3>1, Zenon
  <2>5. r.nodes = [m \in VM!Nodes |-> r.nodes[m]]
    BY <1>3
  <2> HIDE DEF VM!Nodes
  <2>6. \A m \in VM!Nodes : r.nodes[m] \in {VM!Free} \cup ListNode \cup TextNode
    BY <2>1, <2>3
  <2> QED BY <2>3, <2>4, <2>5, <2>6, Zenon
<1>5. \A l \in lists : /\ r.nodes[l] = h.nodes[l] /\ VM!Items(r, l) = VM!Items(h, l)
                       /\ r.nodes[l] \in ListNode /\ VM!Items(h, l) \in Seq(VM!Nodes)
  <2>1. \A l \in lists : r.nodes[l] = h.nodes[l]
    BY <1>4 DEF Below
  <2> QED BY <2>1 DEF VM!Items, ListNode
<1>6. \A l \in lists : \A i \in DOMAIN VM!Items(h, l) :
        /\ r.nodes[VM!Items(h, l)[i]] = h.nodes[VM!Items(h, l)[i]]
        /\ Under(h.nodes[VM!Items(h, l)[i]], mark)
  BY <1>4, <1>5 DEF Below
<1>7. /\ DOMAIN g = DOMAIN r /\ g.policy = r.policy /\ g.depth = r.depth
      /\ g.made = r.made /\ g.mapped = r.mapped /\ g.count = r.count /\ g.header = r.header
      /\ g.nodes \in [VM!Nodes -> {VM!Free} \cup ListNode \cup TextNode]
      /\ \A m \in VM!Nodes : g.nodes[m] = r.nodes[m] \/ g.nodes[m] = VM!Free
      /\ \A l \in lists : g.nodes[l] = r.nodes[l]
      /\ \A l \in lists : \A i \in DOMAIN VM!Items(r, l) :
           g.nodes[VM!Items(r, l)[i]] = r.nodes[VM!Items(r, l)[i]]
      /\ \A m \in VM!Nodes : VM!IsText(g.nodes[m]) =>
           \E l \in lists : \E i \in DOMAIN VM!Items(r, l) : m = VM!Items(r, l)[i]
  <2>1. DOMAIN r = {"policy", "mapped", "made", "depth", "nodes", "count", "header"}
    BY <1>3 DEF HeapIs
  <2> QED BY <1>4, <1>5, <2>1, KeptNodesAre
<1> HIDE DEF g
<1>8. \A l \in lists : Stays(h, g, l)
  <2> SUFFICES ASSUME NEW l \in lists PROVE Stays(h, g, l)
    OBVIOUS
  <2>1. g.nodes[l] = h.nodes[l]
    BY <1>5, <1>7
  <2>2. \A i \in DOMAIN VM!Items(h, l) : g.nodes[VM!Items(h, l)[i]] = h.nodes[VM!Items(h, l)[i]]
    BY <1>5, <1>6, <1>7
  <2> QED BY <2>1, <2>2, Zenon DEF Stays
<1>9. \A m \in VM!Nodes : VM!IsText(g.nodes[m]) => g.nodes[m] = h.nodes[m] /\ Under(h.nodes[m], mark)
  <2> SUFFICES ASSUME NEW m \in VM!Nodes, VM!IsText(g.nodes[m])
               PROVE  g.nodes[m] = h.nodes[m] /\ Under(h.nodes[m], mark)
    OBVIOUS
  <2>1. PICK l \in lists : \E i \in DOMAIN VM!Items(r, l) : m = VM!Items(r, l)[i]
    BY <1>7
  <2>2. PICK i \in DOMAIN VM!Items(r, l) : m = VM!Items(r, l)[i]
    BY <2>1
  <2> QED BY <1>5, <1>6, <1>7, <2>2
<1>10. SlabsAre(h.made, h.mapped, h.policy, h.count, h.header)
  BY DEF HeapIs
<1>11. /\ g.count \in [VM!Slabs -> 0 .. SlabBytes]
       /\ \A s \in VM!Slabs : g.count[s] = VM!CountAt(h, mark, s)
  <2>1. \A s \in VM!Slabs : VM!CountAt(h, mark, s) \in 0 .. SlabBytes
    BY <1>0, <1>10 DEF VM!CountAt, SlabsAre
  <2> QED BY <1>1, <1>3, <1>7, <2>1
<1>12. SlabsAre(g.made, g.mapped, g.policy, g.count, g.header)
  <2>1. g.header \in [VM!Slabs -> 0 .. SlabBytes]
    BY <1>1, <1>3, <1>7, <1>10, <1>11 DEF SlabsAre
  <2>2. \A s \in h.mapped : g.header[s] = g.count[s]
    <3> SUFFICES ASSUME NEW s \in h.mapped PROVE g.header[s] = g.count[s]
      OBVIOUS
    <3>1. s \in VM!Slabs /\ h.header[s] = h.count[s] /\ g.count[s] = VM!CountAt(h, mark, s)
          /\ g.header[s] = IF s >= mark[1] THEN VM!CountAt(h, mark, s) ELSE h.header[s]
      BY <1>1, <1>3, <1>7, <1>10, <1>11 DEF SlabsAre
    <3> QED BY <1>0, <3>1 DEF VM!CountAt
  <2>3. \A s \in VM!Slabs \ h.made : g.count[s] = 0
    BY <1>0, <1>10, <1>11 DEF VM!CountAt, SlabsAre
  <2>4. g.count[0] > 0
    BY <1>0, <1>10, <1>11 DEF VM!CountAt, SlabsAre
  <2> QED BY <1>3, <1>7, <1>10, <1>11, <2>1, <2>2, <2>3, <2>4, Zenon DEF SlabsAre
<1>13. BytesAre(g.nodes, g.count)
  <2>1. BytesAre(h.nodes, h.count)
    BY DEF HeapIs
  <2>2. ASSUME NEW m \in VM!Nodes, VM!IsText(g.nodes[m]) PROVE Holds(g.count, g.nodes[m])
    <3> DEFINE x == h.nodes[m]
    <3>1. g.nodes[m] = x /\ Under(x, mark) /\ Holds(h.count, x) /\ x \in TextNode
      BY <1>9, <2>1, <2>2, Kinds DEF BytesAre, HeapIs
    <3>2. x.blob[1] \in VM!Slabs
      BY <3>1 DEF TextNode
    <3>3. g.count[x.blob[1]] = VM!CountAt(h, mark, x.blob[1])
      BY <1>11, <3>2
    <3>4. x.blob[1] \in Nat /\ mark[1] \in Nat
      BY <1>0, <3>2
    <3> HIDE DEF x
    <3> QED BY <3>1, <3>3, <3>4 DEF Holds, Under, VM!CountAt
  <2>3. ASSUME NEW m \in VM!Nodes, NEW k \in VM!Nodes, m # k, VM!IsText(g.nodes[m]), VM!IsText(g.nodes[k])
        PROVE  Apart(g.nodes[m], g.nodes[k])
    BY <1>9, <2>1, <2>3, Zenon DEF BytesAre
  <2> QED BY <2>2, <2>3, Zenon DEF BytesAre
<1>14. HeapIs(g)
  <2>1. g.depth \in Int /\ DOMAIN g = DOMAIN h
    BY <1>3, <1>7 DEF HeapIs
  <2> QED BY <1>7, <1>12, <1>13, <2>1, Zenon DEF HeapIs
<1> QED BY <1>3, <1>7, <1>8, <1>14 DEF g, r

---------------------------------------------------------------------------
(* The checkpoints and the VM after a collection or a rollback.            *)

(* The lists of checkpoints are lists.                                     *)
LEMMA ListsAre ==
  ASSUME NEW h, NEW l, NEW checkpoints, OpenIs(h, l, checkpoints)
  PROVE  /\ VM!ListsOf(checkpoints) \in SUBSET VM!Nodes
         /\ \A k \in VM!ListsOf(checkpoints) : h.nodes[k] \in ListNode
         /\ \A i \in DOMAIN checkpoints : checkpoints[i].list \in VM!ListsOf(checkpoints)
<1>1. \A i \in DOMAIN checkpoints : SaysIn(h, checkpoints[i].list, checkpoints[i].said)
  BY Zenon DEF OpenIs
<1>2. \A i \in DOMAIN checkpoints : /\ checkpoints[i].list \in VM!Nodes
                                    /\ h.nodes[checkpoints[i].list] \in ListNode
  BY <1>1 DEF SaysIn
<1> QED BY <1>2 DEF VM!ListsOf

(* After a collection.                                                     *)
LEMMA KeptSays ==
  ASSUME NEW h, HeapIs(h), NEW l, NEW texts, SaysIn(h, l, texts),
         NEW checkpoints, OpenIs(h, l, checkpoints)
  PROVE  LET g == VM!Kept(h, VM!ListsOf(checkpoints) \cup {l}) IN
         HeapIs(g) /\ SaysIn(g, l, texts) /\ OpenIs(g, l, checkpoints)
<1> DEFINE lists == VM!ListsOf(checkpoints) \cup {l}
           g == VM!Kept(h, lists)
<1>1. lists \in SUBSET VM!Nodes /\ \A k \in lists : h.nodes[k] \in ListNode
  BY ListsAre DEF SaysIn
<1>2. \A i \in DOMAIN checkpoints : checkpoints[i].list \in lists
  BY ListsAre
<1>3. l \in lists
  OBVIOUS
<1> HIDE DEF lists
<1>4. HeapIs(g) /\ g.made = h.made /\ \A k \in lists : Stays(h, g, k)
  BY <1>1, KeptKeeps
<1> HIDE DEF g
<1>5. SaysIn(g, l, texts)
  BY <1>3, <1>4, SameSays
<1>6. OpenIs(g, l, checkpoints)
  BY <1>2, <1>4, OpenStays
<1> QED BY <1>4, <1>5, <1>6 DEF g, lists

(* After the rollback of the innermost checkpoint.                         *)
LEMMA BackSays ==
  ASSUME VM!TransactionAssumption, NEW h, HeapIs(h), NEW l,
         NEW checkpoints, OpenIs(h, l, checkpoints), checkpoints # <<>>
  PROVE  LET c == VM!Last(checkpoints)
             g == VM!Kept(VM!Reclaimed(h, c), VM!ListsOf(VM!Front(checkpoints)) \cup {c.list})
         IN  HeapIs(g) /\ SaysIn(g, c.list, c.said) /\ OpenIs(g, c.list, VM!Front(checkpoints))
<1> DEFINE c == VM!Last(checkpoints)
           f == VM!Front(checkpoints)
           lists == VM!ListsOf(f) \cup {c.list}
           g == VM!Kept(VM!Reclaimed(h, c), lists)
<1>1. /\ c \in Checkpoints /\ MarkIs(h, c.blobs) /\ SaysIn(h, c.list, c.said)
      /\ Below(h, c.list, c)
      /\ OpenIs(h, c.list, f)
      /\ \A i \in DOMAIN f : Below(h, f[i].list, c)
  BY OuterIs, Zenon
<1> HIDE DEF c, f
<1>2. lists \in SUBSET VM!Nodes /\ \A k \in lists : h.nodes[k] \in ListNode
  BY <1>1, ListsAre DEF SaysIn
<1>3. \A i \in DOMAIN f : f[i].list \in lists
  BY <1>1, ListsAre
<1>4. c.list \in lists /\ \A k \in lists : Below(h, k, c)
  BY <1>1 DEF VM!ListsOf
<1> HIDE DEF lists
<1>5. HeapIs(g) /\ g.made = h.made /\ \A k \in lists : Stays(h, g, k)
  BY <1>1, <1>2, <1>4, BackKeeps
<1> HIDE DEF g
<1>6. SaysIn(g, c.list, c.said)
  BY <1>1, <1>4, <1>5, SameSays
<1>7. OpenIs(g, c.list, f)
  BY <1>1, <1>3, <1>5, OpenStays
<1> QED BY <1>5, <1>6, <1>7 DEF g, lists, c, f

---------------------------------------------------------------------------
(* A list without its last value.                                          *)

(* The list says one text less, and the checkpoints stay.                  *)
LEMMA PopSays ==
  ASSUME NEW h, HeapIs(h), NEW l, NEW texts \in Seq(Texts), texts # <<>>,
         SaysIn(h, l, texts), NEW checkpoints, OpenIs(h, l, checkpoints)
  PROVE  LET p == [h EXCEPT !.nodes[l].items = VM!Front(@)]
         IN  HeapIs(p) /\ SaysIn(p, l, VM!Front(texts)) /\ OpenIs(p, l, checkpoints)
<1> DEFINE p == [h EXCEPT !.nodes[l].items = VM!Front(@)]
           x == [h.nodes[l] EXCEPT !.items = VM!Front(h.nodes[l].items)]
           len == Len(texts)
<1>1. /\ l \in VM!Nodes /\ h.nodes[l] \in ListNode /\ h.nodes[l].items = VM!Items(h, l)
      /\ VM!Items(h, l) \in Seq(VM!Nodes) /\ len \in Nat \ {0}
      /\ DOMAIN texts = 1 .. len /\ Len(VM!Items(h, l)) = len
  BY DEF SaysIn, ListNode, VM!Items
<1>2. /\ VM!Front(VM!Items(h, l)) \in Seq(VM!Nodes) /\ Len(VM!Front(VM!Items(h, l))) = len - 1
      /\ \A i \in 1 .. len - 1 : VM!Front(VM!Items(h, l))[i] = VM!Items(h, l)[i] /\ VM!Items(h, l)[i] \in VM!Nodes
  BY <1>1 DEF VM!Front
<1>3. /\ VM!Front(texts) \in Seq(Texts) /\ Len(VM!Front(texts)) = len - 1
      /\ DOMAIN VM!Front(texts) = 1 .. len - 1
      /\ \A i \in 1 .. len - 1 : VM!Front(texts)[i] = texts[i]
  BY <1>1 DEF VM!Front
<1>4. x \in ListNode /\ x.items = VM!Front(VM!Items(h, l))
  BY <1>1, <1>2 DEF ListNode
<1>5. /\ DOMAIN p = DOMAIN h /\ p.policy = h.policy /\ p.depth = h.depth
      /\ p.made = h.made /\ p.mapped = h.mapped /\ p.count = h.count /\ p.header = h.header
      /\ p.nodes = [h.nodes EXCEPT ![l] = x]
  BY DEF HeapIs
<1> HIDE DEF p, x
<1>6. /\ p.nodes[l] = x /\ \A m \in VM!Nodes \ {l} : p.nodes[m] = h.nodes[m]
      /\ p.nodes \in [VM!Nodes -> {VM!Free} \cup ListNode \cup TextNode]
  BY <1>1, <1>4, <1>5 DEF HeapIs
<1>7. BytesAre(p.nodes, p.count)
  <2>1. \A m \in VM!Nodes : VM!IsText(p.nodes[m]) => p.nodes[m] = h.nodes[m]
    BY <1>4, <1>6, Kinds
  <2>2. BytesAre(h.nodes, p.count)
    BY <1>5 DEF HeapIs
  <2> QED BY <2>1, <2>2, FewerTexts
<1>8. HeapIs(p)
  BY <1>5, <1>6, <1>7, Zenon DEF HeapIs
<1>9. ~VM!IsText(h.nodes[l])
  BY <1>1, Kinds
<1>10. SaysIn(p, l, VM!Front(texts))
  <2>1. VM!Items(p, l) = VM!Front(VM!Items(h, l))
    BY <1>4, <1>6 DEF VM!Items
  <2>2. \A i \in 1 .. len : VM!IsText(h.nodes[VM!Items(h, l)[i]]) /\ h.nodes[VM!Items(h, l)[i]].text = texts[i]
    BY <1>1 DEF SaysIn
  <2>3. \A i \in 1 .. len - 1 : i \in 1 .. len
    BY <1>1
  <2>4. \A i \in 1 .. len - 1 : /\ VM!IsText(p.nodes[VM!Items(p, l)[i]])
                                /\ p.nodes[VM!Items(p, l)[i]].text = VM!Front(texts)[i]
    <3>1. \A i \in 1 .. len - 1 : VM!Items(p, l)[i] = VM!Items(h, l)[i] /\ VM!Items(h, l)[i] \in VM!Nodes
      BY <1>2, <2>1
    <3>2. \A i \in 1 .. len - 1 : VM!Items(h, l)[i] # l
      BY <1>9, <2>2, <2>3
    <3>3. \A i \in 1 .. len - 1 : p.nodes[VM!Items(p, l)[i]] = h.nodes[VM!Items(h, l)[i]]
      BY <1>6, <3>1, <3>2
    <3> QED BY <1>3, <2>2, <2>3, <3>3
  <2> QED BY <1>1, <1>2, <1>3, <1>4, <1>6, <2>1, <2>4 DEF SaysIn
<1>11. ASSUME NEW i \in DOMAIN checkpoints PROVE Stays(h, p, checkpoints[i].list)
  <2> DEFINE k == checkpoints[i].list
  <2>1. SaysIn(h, k, checkpoints[i].said) /\ k # l
    BY Zenon DEF OpenIs
  <2>2. checkpoints[i].said \in Seq(Texts)
    <3>1. checkpoints[i] \in Checkpoints
      BY DEF OpenIs
    <3> QED BY <3>1 DEF Checkpoints
  <2>3. k \in VM!Nodes /\ VM!Items(h, k) \in Seq(VM!Nodes) /\ DOMAIN VM!Items(h, k) = DOMAIN checkpoints[i].said
    BY <2>1, <2>2 DEF SaysIn, ListNode, VM!Items
  <2>4. \A j \in DOMAIN VM!Items(h, k) : VM!Items(h, k)[j] \in VM!Nodes /\ VM!Items(h, k)[j] # l
    BY <1>9, <2>1, <2>3 DEF SaysIn
  <2>5. p.nodes[k] = h.nodes[k]
    BY <1>6, <2>1, <2>3
  <2>6. \A j \in DOMAIN VM!Items(h, k) : p.nodes[VM!Items(h, k)[j]] = h.nodes[VM!Items(h, k)[j]]
    BY <1>6, <2>4, Zenon
  <2> QED BY <2>5, <2>6, Zenon DEF Stays
<1>12. OpenIs(p, l, checkpoints)
  BY <1>5, <1>11, OpenStays
<1> QED BY <1>8, <1>10, <1>12 DEF p

---------------------------------------------------------------------------
(* What lives when the allocators are marked lies below the marks.         *)

(* A count below the size of a slab fits an offset of 16 bits.             *)
LEMMA SmallRemainder ==
  ASSUME NEW n \in Nat, NEW k \in Nat, k < n
  PROVE  k % n = k
OBVIOUS

(* The marks lie above every node and every byte in use.                   *)
LEMMA MarkCovers ==
  ASSUME VM!TransactionAssumption, NEW h, HeapIs(h), h.count[VM!Max(h.made)] < SlabBytes
  PROVE  /\ VM!Watermark(h) \in VM!Slabs \X (0 .. SlabBytes) /\ MarkIs(h, VM!Watermark(h))
         /\ \A m \in VM!Nodes : h.nodes[m] # VM!Free => m <= VM!Max(VM!Live(h)) /\ VM!Max(VM!Live(h)) \in Nat
         /\ \A m \in VM!Nodes : VM!IsText(h.nodes[m]) => Under(h.nodes[m], VM!Watermark(h))
<1> DEFINE s == VM!Max(h.made)
<1>0. SlabBytes \in Nat /\ NumBlobSlabs \in Nat \ {0} /\ MaxNodes \in Nat
  BY DEF VM!TransactionAssumption
<1>1. SlabsAre(h.made, h.mapped, h.policy, h.count, h.header)
  BY DEF HeapIs
<1>2. s \in h.made /\ \A t \in h.made : s >= t
  <2>1. h.made \in SUBSET Nat /\ h.made # {} /\ \A t \in h.made : t <= NumBlobSlabs
    BY <1>0, <1>1 DEF SlabsAre, VM!Slabs
  <2> QED BY <1>0, <2>1, GreatestIsIn
<1> HIDE DEF s
<1>3. s \in VM!Slabs /\ s \in Nat /\ h.count[s] \in Nat /\ h.count[s] < SlabBytes
  BY <1>0, <1>1, <1>2 DEF SlabsAre, VM!Slabs, s
<1>4. h.count[s] % SlabBytes = h.count[s]
  BY <1>0, <1>3, SmallRemainder
<1>5. VM!Watermark(h) = <<s, h.count[s]>>
  BY <1>4 DEF VM!Watermark, s
<1> DEFINE mark == VM!Watermark(h)
<1> HIDE DEF mark
<1>6. mark[1] = s /\ mark[2] = h.count[s] /\ mark \in VM!Slabs \X (0 .. SlabBytes)
  BY <1>0, <1>3, <1>5 DEF mark
<1>7. MarkIs(h, mark)
  BY <1>1, <1>2, <1>6 DEF MarkIs, SlabsAre
<1>8. ASSUME NEW m \in VM!Nodes, h.nodes[m] # VM!Free PROVE m <= VM!Max(VM!Live(h)) /\ VM!Max(VM!Live(h)) \in Nat
  <2>1. /\ VM!Live(h) \in SUBSET Nat /\ VM!Live(h) # {} /\ m \in VM!Live(h) /\ m \in Nat
        /\ \A k \in VM!Live(h) : k <= MaxNodes
    BY <1>0, <1>8 DEF VM!Live, VM!Nodes
  <2>2. VM!Max(VM!Live(h)) \in VM!Live(h) /\ \A k \in VM!Live(h) : VM!Max(VM!Live(h)) >= k
    BY <1>0, <2>1, GreatestIsIn
  <2> QED BY <2>1, <2>2
<1>9. ASSUME NEW m \in VM!Nodes, VM!IsText(h.nodes[m]) PROVE Under(h.nodes[m], mark)
  <2> DEFINE x == h.nodes[m]
  <2>1. x \in TextNode /\ Holds(h.count, x)
    BY <1>9, Kinds DEF HeapIs, BytesAre
  <2>2. x.blob[1] \in VM!Slabs /\ x.blob[2] \in Nat /\ Length[x.text] \in Nat
    <3>1. x.blob \in VM!Slabs \X Nat /\ x.text \in Texts
      BY <2>1 DEF TextNode
    <3> QED BY <3>1 DEF VM!TransactionAssumption
  <2> SUFFICES Under(x, mark)
    OBVIOUS
  <2> HIDE DEF x
  <2>3. CASE Length[x.text] > 0
    <3>1. EndOf(x) <= h.count[x.blob[1]] /\ EndOf(x) > 0
      BY <2>1, <2>2, <2>3 DEF Holds, EndOf
    <3>2. x.blob[1] \in h.made
      BY <1>1, <2>2, <3>1 DEF SlabsAre, EndOf
    <3>3. x.blob[1] <= s /\ x.blob[1] \in Nat
      BY <1>2, <1>3, <2>2, <3>2 DEF VM!Slabs
    <3>4. x.blob[1] < s \/ x.blob[1] = s
      BY <1>3, <3>3
    <3> QED BY <1>6, <3>1, <3>4, Zenon DEF Under
  <2>4. CASE ~(Length[x.text] > 0)
    BY <2>4 DEF Under
  <2> QED BY <2>3, <2>4
<1> QED BY <1>6, <1>7, <1>8, <1>9 DEF mark

(* The new checkpoint lies below its own marks, and so do the others.      *)
LEMMA BeginSays ==
  ASSUME VM!TransactionAssumption, NEW h, HeapIs(h), NEW l, NEW texts \in Seq(Texts),
         SaysIn(h, l, texts), NEW checkpoints, OpenIs(h, l, checkpoints),
         VM!CopyFits(h, l), NEW b, b = VM!WithCopy(h, l), b.count[VM!Max(b.made)] < SlabBytes,
         NEW speculative \in BOOLEAN, NEW c,
         c = [list |-> VM!NewNode(h), nodes |-> VM!Max(VM!Live(b)), blobs |-> VM!Watermark(b),
              speculative |-> speculative, said |-> texts]
  PROVE  LET g == [b EXCEPT !.depth = @ + 1] IN
         HeapIs(g) /\ SaysIn(g, l, texts) /\ OpenIs(g, l, Append(checkpoints, c))
<1> DEFINE g == [b EXCEPT !.depth = @ + 1]
           to == VM!NewNode(h)
           n == Len(checkpoints)
<1>1. /\ HeapIs(b) /\ h.made \subseteq b.made
      /\ to \in VM!Nodes /\ h.nodes[to] = VM!Free /\ SaysIn(b, to, texts)
      /\ \A m \in VM!Nodes : h.nodes[m] # VM!Free => b.nodes[m] = h.nodes[m]
  <2>1. l \in VM!Nodes
    BY DEF SaysIn
  <2> QED BY <2>1, CopyKeeps
<1>2. /\ c.blobs \in VM!Slabs \X (0 .. SlabBytes) /\ MarkIs(b, c.blobs)
      /\ \A m \in VM!Nodes : b.nodes[m] # VM!Free => m <= c.nodes /\ c.nodes \in Nat
      /\ \A m \in VM!Nodes : VM!IsText(b.nodes[m]) => Under(b.nodes[m], c.blobs)
  BY <1>1, MarkCovers
<1> HIDE DEF to
<1>3. /\ DOMAIN g = DOMAIN b /\ g.policy = b.policy /\ g.depth \in Int
      /\ g.made = b.made /\ g.mapped = b.mapped /\ g.count = b.count /\ g.header = b.header
      /\ g.nodes = b.nodes
  BY <1>1 DEF HeapIs
<1> HIDE DEF g
<1>4. HeapIs(g)
  BY <1>1, <1>3, Zenon DEF HeapIs
<1>5. ASSUME NEW k, NEW some \in Seq(Texts), SaysIn(h, k, some)
      PROVE  Stays(h, g, k) /\ SaysIn(g, k, some)
  <2>1. k \in VM!Nodes /\ h.nodes[k] # VM!Free
    BY <1>5, Kinds DEF SaysIn
  <2>2. VM!Items(h, k) \in Seq(VM!Nodes) /\ DOMAIN VM!Items(h, k) = DOMAIN some
    BY <1>5 DEF SaysIn, ListNode, VM!Items
  <2>3. \A i \in DOMAIN some : VM!IsText(h.nodes[VM!Items(h, k)[i]]) /\ VM!Items(h, k)[i] \in VM!Nodes
    BY <1>5, <2>2 DEF SaysIn
  <2>4. \A i \in DOMAIN some : b.nodes[VM!Items(h, k)[i]] = h.nodes[VM!Items(h, k)[i]]
    BY <1>1, <2>3, Kinds
  <2>5. Stays(h, g, k)
    BY <1>1, <1>3, <2>1, <2>2, <2>4 DEF Stays
  <2> QED BY <1>5, <2>5, SameSays
<1>6. SaysIn(g, to, texts)
  <2>1. Stays(b, g, to)
    BY <1>3 DEF Stays
  <2> QED BY <1>1, <2>1, SameSays
<1>7. ASSUME NEW k, NEW some \in Seq(Texts), SaysIn(g, k, some)
      PROVE  Below(g, k, c)
  <2>1. k \in VM!Nodes /\ b.nodes[k] # VM!Free
    BY <1>3, <1>7, Kinds DEF SaysIn
  <2>2. VM!Items(g, k) \in Seq(VM!Nodes) /\ DOMAIN VM!Items(g, k) = DOMAIN some
    BY <1>7 DEF SaysIn, ListNode, VM!Items
  <2>3. \A i \in DOMAIN some : VM!IsText(b.nodes[VM!Items(g, k)[i]]) /\ VM!Items(g, k)[i] \in VM!Nodes
    BY <1>3, <1>7, <2>2 DEF SaysIn
  <2>4. \A i \in DOMAIN some : b.nodes[VM!Items(g, k)[i]] # VM!Free
    BY <2>3, Kinds
  <2> QED BY <1>2, <1>3, <2>1, <2>2, <2>3, <2>4 DEF Below
<1>8. c \in Checkpoints
  <2>1. c.nodes \in Nat
    <3>1. b.nodes[to] # VM!Free
      BY <1>1, Kinds DEF SaysIn
    <3> QED BY <1>1, <1>2, <3>1
  <2>2. c.list \in VM!Nodes
    BY <1>1 DEF to
  <2> QED BY <1>2, <2>1, <2>2 DEF Checkpoints
<1>9. /\ checkpoints \in Seq(Checkpoints) /\ n \in Nat /\ DOMAIN checkpoints = 1 .. n
  BY DEF OpenIs
<1> DEFINE more == Append(checkpoints, c)
<1>10. /\ more \in Seq(Checkpoints) /\ DOMAIN more = 1 .. n + 1 /\ more[n + 1] = c
       /\ \A i \in 1 .. n : more[i] = checkpoints[i]
  BY <1>8, <1>9
<1> HIDE DEF more
<1>11. \A i \in 1 .. n : /\ SaysIn(h, checkpoints[i].list, checkpoints[i].said)
                         /\ checkpoints[i].said \in Seq(Texts)
  <2>1. \A i \in 1 .. n : checkpoints[i] \in Checkpoints
    BY <1>9
  <2>2. \A i \in 1 .. n : checkpoints[i].said \in Seq(Texts)
    BY <2>1 DEF Checkpoints
  <2> QED BY <1>9, <2>2, Zenon DEF OpenIs
<1>12. OpenIs(g, l, checkpoints)
  <2>1. \A i \in DOMAIN checkpoints : Stays(h, g, checkpoints[i].list)
    BY <1>5, <1>9, <1>11
  <2> QED BY <1>1, <1>3, <2>1, OpenStays
<1>13. \A i \in 1 .. n : checkpoints[i].list # to
  <2>1. \A i \in 1 .. n : h.nodes[checkpoints[i].list] # VM!Free
    BY <1>11, Kinds DEF SaysIn
  <2> QED BY <1>1, <2>1
<1>14. to # l
  BY <1>1, Kinds DEF SaysIn
<1>15. MarkIs(g, c.blobs) /\ SaysIn(g, c.list, c.said) /\ c.list # l
  BY <1>2, <1>3, <1>6, <1>14 DEF MarkIs, to
<1>16. \A j \in 1 .. n + 1 : /\ Below(g, more[j].list, c)
                             /\ j < n + 1 => more[j].list # c.list
  <2>1. \A j \in 1 .. n : Below(g, checkpoints[j].list, c)
    BY <1>5, <1>7, <1>11
  <2>2. Below(g, c.list, c)
    BY <1>6, <1>7 DEF to
  <2>3. \A j \in 1 .. n + 1 : j = n + 1 \/ j \in 1 .. n
    BY <1>9
  <2> QED BY <1>9, <1>10, <1>13, <2>1, <2>2, <2>3 DEF to
<1>17. \A i \in 1 .. n :
         /\ MarkIs(g, checkpoints[i].blobs) /\ SaysIn(g, checkpoints[i].list, checkpoints[i].said)
         /\ checkpoints[i].list # l
         /\ \A j \in 1 .. i : /\ Below(g, checkpoints[j].list, checkpoints[i])
                              /\ j < i => checkpoints[j].list # checkpoints[i].list
  BY <1>9, <1>12, Zenon DEF OpenIs
<1>18. ASSUME NEW i \in 1 .. n + 1
       PROVE  LET d == more[i] IN
              /\ MarkIs(g, d.blobs) /\ SaysIn(g, d.list, d.said) /\ d.list # l
              /\ \A j \in 1 .. i : /\ Below(g, more[j].list, d)
                                   /\ j < i => more[j].list # d.list
  <2>1. CASE i = n + 1
    <3>1. more[i] = c
      BY <1>10, <2>1
    <3>2. \A j \in 1 .. i : /\ Below(g, more[j].list, c)
                            /\ j < i => more[j].list # c.list
      <4>1. \A j \in 1 .. i : j \in 1 .. n + 1 /\ (j < i => j < n + 1)
        BY <2>1
      <4> QED BY <1>16, <4>1, Zenon
    <3> QED BY <1>15, <3>1, <3>2, Zenon
  <2>2. CASE i # n + 1
    <3>1. i \in 1 .. n /\ \A j \in 1 .. i : j \in 1 .. n
      BY <1>9, <2>2
    <3> QED BY <1>10, <1>17, <3>1
  <2> QED BY <2>1, <2>2
<1>19. OpenIs(g, l, more)
  BY <1>10, <1>18, Zenon DEF OpenIs
<1> QED BY <1>4, <1>5, <1>19 DEF g, more

---------------------------------------------------------------------------
(* The actions.                                                            *)

(* The invariant at the start of a VM,                                     *)
LEMMA InitSays ==
  ASSUME VM!TransactionAssumption, VM!Init
  PROVE  VMInv
<1>0. 1 \in VM!Nodes /\ 0 \in VM!Slabs /\ SlabBytes \in Nat \ {0}
  BY DEF VM!TransactionAssumption, VM!Nodes, VM!Slabs
<1> DEFINE node == [items |-> <<>>]
<1>1. node \in ListNode /\ node.items = <<>>
  BY DEF ListNode
<1>2. /\ memory.policy = "heap" /\ memory.mapped = {} /\ memory.made = {0} /\ memory.depth = 0
      /\ memory.nodes = [n \in VM!Nodes |-> IF n = 1 THEN node ELSE VM!Free]
      /\ memory.count = [s \in VM!Slabs |-> IF s = 0 THEN 1 ELSE 0]
      /\ memory.header = [s \in VM!Slabs |-> 0]
      /\ DOMAIN memory = {"policy", "mapped", "made", "depth", "nodes", "count", "header"}
  BY DEF VM!Init
<1> HIDE DEF node
<1>3. SlabsAre(memory.made, memory.mapped, memory.policy, memory.count, memory.header)
  BY <1>0, <1>2 DEF SlabsAre
<1>4. \A n \in VM!Nodes : ~VM!IsText(memory.nodes[n])
  BY <1>1, <1>2, Kinds
<1>5. BytesAre(memory.nodes, memory.count)
  BY <1>4, Zenon DEF BytesAre
<1>6. memory.nodes \in [VM!Nodes -> {VM!Free} \cup ListNode \cup TextNode]
  BY <1>1, <1>2
<1>7. HeapIs(memory)
  BY <1>2, <1>3, <1>5, <1>6 DEF HeapIs
<1>8. memory.nodes[1] = node
  BY <1>0, <1>2
<1>9. frame = 1 /\ open = <<>> /\ said = <<>>
  BY DEF VM!Init
<1>10. SaysIn(memory, frame, said)
  BY <1>0, <1>1, <1>8, <1>9 DEF SaysIn, VM!Items
<1>11. OpenIs(memory, frame, open) /\ said \in Seq(Texts)
  BY <1>9 DEF OpenIs
<1> QED BY <1>7, <1>10, <1>11 DEF VMInv

(* after a push,                                                           *)
LEMMA PushSays ==
  ASSUME VM!TransactionAssumption, VMInv, NEW text \in Texts, VM!Push(text)
  PROVE  VMInv'
<1>1. /\ HeapIs(memory') /\ SaysIn(memory', frame, Append(said, text))
      /\ OpenIs(memory', frame, open)
  BY ValueSays DEF VMInv, VM!Push
<1>2. frame' = frame /\ open' = open /\ said' = Append(said, text)
  BY DEF VM!Push
<1>3. said' \in Seq(Texts)
  BY <1>2 DEF VMInv
<1> QED BY <1>1, <1>2, <1>3 DEF VMInv

(* after a pop,                                                            *)
LEMMA PopStep ==
  ASSUME VM!TransactionAssumption, VMInv, VM!Pop
  PROVE  VMInv'
<1> DEFINE p == [memory EXCEPT !.nodes[frame].items = VM!Front(@)]
<1>1. HeapIs(p) /\ SaysIn(p, frame, VM!Front(said)) /\ OpenIs(p, frame, open)
  BY PopSays DEF VMInv, VM!Pop
<1>2. /\ memory' = VM!Kept(p, VM!ListsOf(open) \cup {frame})
      /\ frame' = frame /\ open' = open /\ said' = VM!Front(said)
  BY DEF VM!Pop
<1> HIDE DEF p
<1>3. said \in Seq(Texts) /\ said # <<>>
  BY DEF VMInv, VM!Pop
<1>4. VM!Front(said) \in Seq(Texts)
  BY <1>3 DEF VM!Front
<1>5. HeapIs(memory') /\ SaysIn(memory', frame, VM!Front(said)) /\ OpenIs(memory', frame, open)
  BY <1>1, <1>2, <1>4, KeptSays
<1> QED BY <1>2, <1>4, <1>5 DEF VMInv

(* when a transaction begins,                                              *)
LEMMA BeginStep ==
  ASSUME VM!TransactionAssumption, ~Brimful, VMInv, NEW speculative \in BOOLEAN,
         VM!Begin(speculative)
  PROVE  VMInv'
<1> DEFINE b == VM!WithCopy(memory, frame)
           c == VM!Checkpoint(memory, b, speculative)
           g == [b EXCEPT !.depth = @ + 1]
<1>1. /\ VM!CopyFits(memory, frame) /\ b.count[VM!Max(b.made)] < SlabBytes
      /\ memory' = g /\ open' = Append(open, c)
      /\ frame' = frame /\ said' = said
  BY DEF VM!Begin
<1>2. c = [list |-> VM!NewNode(memory), nodes |-> VM!Max(VM!Live(b)), blobs |-> VM!Watermark(b),
           speculative |-> speculative, said |-> said]
  BY DEF VM!Checkpoint
<1>3. HeapIs(g) /\ SaysIn(g, frame, said) /\ OpenIs(g, frame, Append(open, c))
  <2>1. HeapIs(memory) /\ said \in Seq(Texts) /\ SaysIn(memory, frame, said) /\ OpenIs(memory, frame, open)
    BY DEF VMInv
  <2>2. \E x : x = b
    OBVIOUS
  <2>3. PICK x : x = b
    BY <2>2
  <2>4. PICK d : d = c
    OBVIOUS
  <2> HIDE DEF b, c
  <2>5. x.count[VM!Max(x.made)] < SlabBytes /\ x = VM!WithCopy(memory, frame)
    BY <1>1, <2>3 DEF b
  <2>6. d = [list |-> VM!NewNode(memory), nodes |-> VM!Max(VM!Live(x)), blobs |-> VM!Watermark(x),
             speculative |-> speculative, said |-> said]
    BY <1>2, <2>3, <2>4
  <2>7. LET y == [x EXCEPT !.depth = @ + 1] IN
        HeapIs(y) /\ SaysIn(y, frame, said) /\ OpenIs(y, frame, Append(open, d))
    BY <1>1, <2>1, <2>5, <2>6, BeginSays
  <2> QED BY <2>3, <2>4, <2>7
<1> HIDE DEF g, c
<1> QED BY <1>1, <1>3 DEF VMInv

(* when the innermost transaction is rolled back,                          *)
LEMMA RollbackStep ==
  ASSUME VM!TransactionAssumption, VMInv, open # <<>>, VM!Rollback(Len(open))
  PROVE  VMInv'
<1> DEFINE c == VM!Last(open)
           f == VM!Front(open)
           g == VM!Kept(VM!Reclaimed(memory, c), VM!ListsOf(f) \cup {c.list})
<1>1. HeapIs(g) /\ SaysIn(g, c.list, c.said) /\ OpenIs(g, c.list, f)
  BY BackSays DEF VMInv
<1>2. c \in Checkpoints /\ c = open[Len(open)]
  BY OuterIs DEF VMInv
<1>3. c.said \in Seq(Texts)
  BY <1>2 DEF Checkpoints
<1> HIDE DEF c, f
<1>4. memory' = g /\ open' = f /\ frame' = c.list /\ said' = c.said
  BY <1>2 DEF VM!Rollback, VM!Innermost, f
<1> HIDE DEF g
<1> QED BY <1>1, <1>3, <1>4 DEF VMInv

(* The depth of the checkpoints is not part of what is said.               *)
LEMMA DepthIs ==
  ASSUME NEW h, HeapIs(h), NEW depth \in Int, NEW l, NEW texts \in Seq(Texts),
         SaysIn(h, l, texts), NEW checkpoints, OpenIs(h, l, checkpoints)
  PROVE  LET g == [h EXCEPT !.depth = depth] IN
         HeapIs(g) /\ SaysIn(g, l, texts) /\ OpenIs(g, l, checkpoints)
<1> DEFINE g == [h EXCEPT !.depth = depth]
<1>1. /\ DOMAIN g = DOMAIN h /\ g.policy = h.policy /\ g.depth \in Int
      /\ g.made = h.made /\ g.mapped = h.mapped /\ g.count = h.count /\ g.header = h.header
      /\ g.nodes = h.nodes
  BY DEF HeapIs
<1> HIDE DEF g
<1>2. HeapIs(g)
  BY <1>1, Zenon DEF HeapIs
<1>3. \A k : Stays(h, g, k)
  BY <1>1 DEF Stays
<1>4. SaysIn(g, l, texts)
  BY <1>3, SameSays
<1>5. OpenIs(g, l, checkpoints)
  BY <1>1, <1>3, OpenStays
<1> QED BY <1>2, <1>4, <1>5 DEF g

(* when a transaction is committed,                                        *)
LEMMA CommitStep ==
  ASSUME VM!TransactionAssumption, VMInv, NEW i \in DOMAIN open, VM!Commit(i)
  PROVE  VMInv'
<1> DEFINE f == VM!Front(open)
           p == [memory EXCEPT !.depth = memory.depth - 1]
<1>1. open \in Seq(Checkpoints) /\ open # <<>>
  BY DEF VMInv, OpenIs
<1>2. HeapIs(memory) /\ said \in Seq(Texts) /\ SaysIn(memory, frame, said) /\ memory.depth - 1 \in Int
  BY DEF VMInv, HeapIs
<1>3. OpenIs(memory, frame, f)
  BY <1>1, OuterIs DEF VMInv
<1>4. /\ memory' = VM!Kept(p, VM!ListsOf(f) \cup {frame}) /\ open' = f
      /\ frame' = frame /\ said' = said
  BY DEF VM!Commit
<1> HIDE DEF f
<1>5. HeapIs(p) /\ SaysIn(p, frame, said) /\ OpenIs(p, frame, f)
  BY <1>2, <1>3, DepthIs
<1> HIDE DEF p
<1>6. HeapIs(memory') /\ SaysIn(memory', frame, said) /\ OpenIs(memory', frame, f)
  BY <1>4, <1>5, KeptSays
<1> QED BY <1>2, <1>4, <1>6 DEF VMInv

(* when a speculation ends,                                                *)
LEMMA SpeculationStep ==
  ASSUME VM!TransactionAssumption, VMInv, NEW kept \in BOOLEAN, VM!SpeculationEnds(kept)
  PROVE  VMInv'
<1> DEFINE c == VM!Last(open)
           f == VM!Front(open)
           back == VM!Kept(VM!Reclaimed(memory, c), VM!ListsOf(f) \cup {c.list})
           top == memory.nodes[VM!Last(VM!Items(memory, frame))]
<1>1. open # <<>> /\ frame' = c.list /\ open' = f
  BY DEF VM!SpeculationEnds
<1>2. HeapIs(back) /\ SaysIn(back, c.list, c.said) /\ OpenIs(back, c.list, f)
  BY <1>1, BackSays DEF VMInv
<1>3. c \in Checkpoints
  BY <1>1, OuterIs DEF VMInv
<1>4. c.said \in Seq(Texts)
  BY <1>3 DEF Checkpoints
<1>5. \/ memory' = back /\ said' = c.said
      \/ /\ said # <<>> /\ VM!HasRoom(back, top.text)
         /\ memory' = VM!WithValue(back, c.list, top.text) /\ said' = Append(c.said, VM!Last(said))
  BY DEF VM!SpeculationEnds
<1>6. said # <<>> => top.text = VM!Last(said) /\ VM!Last(said) \in Texts
  <2>1. /\ said \in Seq(Texts) /\ Len(VM!Items(memory, frame)) = Len(said)
        /\ \A i \in DOMAIN said : memory.nodes[VM!Items(memory, frame)[i]].text = said[i]
    BY DEF VMInv, SaysIn
  <2>2. ASSUME said # <<>> PROVE Len(said) \in DOMAIN said /\ said[Len(said)] \in Texts
    BY <2>1, <2>2
  <2> QED BY <2>1, <2>2 DEF VM!Last
<1> HIDE DEF c, f, back, top
<1>7. CASE memory' = back /\ said' = c.said
  BY <1>1, <1>2, <1>4, <1>7 DEF VMInv
<1>8. CASE /\ said # <<>> /\ VM!HasRoom(back, top.text)
           /\ memory' = VM!WithValue(back, c.list, top.text) /\ said' = Append(c.said, VM!Last(said))
  <2>1. /\ HeapIs(memory') /\ SaysIn(memory', c.list, Append(c.said, VM!Last(said)))
        /\ OpenIs(memory', c.list, f)
    BY <1>2, <1>4, <1>6, <1>8, ValueSays
  <2>2. said' \in Seq(Texts)
    BY <1>4, <1>6, <1>8
  <2> QED BY <1>1, <1>8, <2>1, <2>2 DEF VMInv
<1> QED BY <1>5, <1>7, <1>8

(* when the slabs are configured to live in files,                         *)
LEMMA ConfigureStep ==
  ASSUME VM!TransactionAssumption, VMInv, VM!Configure
  PROVE  VMInv'
<1>1. /\ open' = open /\ frame' = frame /\ said' = said /\ open = <<>> /\ memory.made = {0}
      /\ memory' = [memory EXCEPT !.policy = "file"]
  BY DEF VM!Configure
<1>2. /\ DOMAIN memory' = DOMAIN memory /\ memory'.policy = "file" /\ memory'.depth = memory.depth
      /\ memory'.made = memory.made /\ memory'.mapped = memory.mapped /\ memory'.count = memory.count
      /\ memory'.header = memory.header /\ memory'.nodes = memory.nodes
  BY <1>1 DEF VMInv, HeapIs
<1>3. SlabsAre(memory'.made, memory'.mapped, memory'.policy, memory'.count, memory'.header)
  BY <1>1, <1>2 DEF VMInv, HeapIs, SlabsAre
<1>4. HeapIs(memory')
  BY <1>2, <1>3 DEF VMInv, HeapIs
<1>5. Stays(memory, memory', frame)
  BY <1>2 DEF Stays
<1>6. SaysIn(memory', frame, said)
  BY <1>5, SameSays DEF VMInv
<1>7. OpenIs(memory', frame, open)
  BY <1>1 DEF OpenIs
<1> QED BY <1>1, <1>4, <1>6, <1>7 DEF VMInv

(* and when a new process takes the session over.                          *)
LEMMA RestartStep ==
  ASSUME VM!TransactionAssumption, VMInv, VM!Restart
  PROVE  VMInv'
<1>1. open' = open /\ frame' = frame /\ said' = said /\ open = <<>>
  BY DEF VM!Restart
<1>2. HeapIs(memory) /\ said \in Seq(Texts) /\ SaysIn(memory, frame, said)
  BY DEF VMInv
<1>3. CASE memory.policy = "file" /\ memory' = VM!SlabZeroRead(VM!Reattached(VM!Saved(memory)))
  <2>1. SlabsAre(memory.made, memory.mapped, "file", memory.count, memory.header) /\ 0 \in VM!Slabs
    BY <1>2, <1>3 DEF HeapIs, SlabsAre
  <2> DEFINE header == [s \in VM!Slabs |-> IF s = 0 /\ 0 \notin memory.mapped THEN memory.count[0]
                                           ELSE IF s \in memory.made THEN memory.header[s] ELSE 0]
             a == VM!Saved(memory)
             b == VM!Reattached(a)
  <2>2. /\ DOMAIN a = DOMAIN memory /\ a.policy = memory.policy /\ a.depth = memory.depth
        /\ a.made = memory.made /\ a.count = memory.count
        /\ a.header = header /\ a.nodes = memory.nodes
    BY <1>2 DEF HeapIs, VM!Saved
  <2>3. /\ DOMAIN b = DOMAIN memory /\ b.policy = memory.policy /\ b.depth = memory.depth
        /\ b.made = memory.made /\ b.mapped = memory.made /\ b.count = header
        /\ b.header = header /\ b.nodes = memory.nodes
    <3> HIDE DEF a, header
    <3> QED BY <1>2, <2>2 DEF HeapIs, VM!Reattached
  <2>4. /\ DOMAIN memory' = DOMAIN memory /\ memory'.policy = "file" /\ memory'.depth = memory.depth
        /\ memory'.made = memory.made /\ memory'.mapped = memory.made
        /\ memory'.count = [header EXCEPT ![0] = header[0]]
        /\ memory'.header = header /\ memory'.nodes = memory.nodes
    <3>1. memory' = [b EXCEPT !.count[0] = b.header[0]]
      BY <1>3 DEF VM!SlabZeroRead
    <3> HIDE DEF b, header
    <3> QED BY <1>2, <1>3, <2>3, <3>1 DEF HeapIs
  <2>5. header = memory.count
    <3>1. \A s \in VM!Slabs : header[s] = memory.count[s]
      BY <2>1 DEF SlabsAre
    <3> QED BY <2>1, <3>1 DEF SlabsAre
  <2> HIDE DEF header
  <2>6. memory'.count = memory.count
    BY <2>1, <2>4, <2>5 DEF SlabsAre
  <2>7. SlabsAre(memory'.made, memory'.mapped, memory'.policy, memory'.count, memory'.header)
    BY <2>1, <2>4, <2>5, <2>6 DEF SlabsAre
  <2>8. HeapIs(memory')
    BY <1>2, <2>4, <2>6, <2>7 DEF HeapIs
  <2>9. Stays(memory, memory', frame)
    BY <2>4 DEF Stays
  <2>10. SaysIn(memory', frame, said)
    BY <1>2, <2>9, SameSays
  <2> QED BY <1>1, <1>2, <2>8, <2>10 DEF VMInv, OpenIs
<1>4. CASE VM!LoadFits(memory) /\ memory' = VM!Reallocated(memory)
  <2>1. /\ HeapIs(memory')
        /\ \A m \in VM!Nodes : IF VM!IsText(memory.nodes[m])
                               THEN VM!IsText(memory'.nodes[m]) /\ memory'.nodes[m].text = memory.nodes[m].text
                               ELSE memory'.nodes[m] = memory.nodes[m]
    BY <1>2, <1>4, LoadKeeps
  <2>2. frame \in VM!Nodes /\ memory.nodes[frame] \in ListNode /\ VM!Items(memory, frame) \in Seq(VM!Nodes)
        /\ DOMAIN VM!Items(memory, frame) = DOMAIN said
    BY <1>2 DEF SaysIn, ListNode, VM!Items
  <2>3. memory'.nodes[frame] = memory.nodes[frame]
    BY <2>1, <2>2, Kinds
  <2>4. VM!Items(memory', frame) = VM!Items(memory, frame)
    BY <2>3 DEF VM!Items
  <2>5. \A i \in DOMAIN said : LET n == VM!Items(memory, frame)[i] IN
                               n \in VM!Nodes /\ VM!IsText(memory.nodes[n]) /\ memory.nodes[n].text = said[i]
    BY <1>2, <2>2 DEF SaysIn
  <2>6. \A i \in DOMAIN said : LET n == VM!Items(memory, frame)[i] IN
                               VM!IsText(memory'.nodes[n]) /\ memory'.nodes[n].text = said[i]
    BY <2>1, <2>5
  <2>7. SaysIn(memory', frame, said)
    BY <1>2, <2>2, <2>3, <2>4, <2>6 DEF SaysIn
  <2> QED BY <1>1, <1>2, <2>1, <2>7 DEF VMInv, OpenIs
<1> QED BY <1>3, <1>4 DEF VM!Restart

(* Every step keeps the invariant.                                         *)
LEMMA StepSays ==
  ASSUME VM!TransactionAssumption, InsideOut, ~Brimful, VMInv, [VM!Next]_VM!vars
  PROVE  VMInv'
<1>1. ASSUME NEW text \in Texts, VM!Push(text) PROVE VMInv'
  BY <1>1, PushSays
<1>2. CASE VM!Pop
  BY <1>2, PopStep
<1>3. ASSUME NEW speculative \in BOOLEAN, VM!Begin(speculative) PROVE VMInv'
  BY <1>3, BeginStep
<1>4. ASSUME NEW i \in VM!Tried, VM!Rollback(i) PROVE VMInv'
  <2>1. i = Len(open) /\ open # <<>>
    BY <1>4 DEF VM!Tried
  <2> QED BY <1>4, <2>1, RollbackStep
<1>5. ASSUME NEW i \in DOMAIN open, VM!Commit(i) PROVE VMInv'
  BY <1>5, CommitStep
<1>6. ASSUME NEW kept \in BOOLEAN, VM!SpeculationEnds(kept) PROVE VMInv'
  BY <1>6, SpeculationStep
<1>7. CASE VM!Configure
  BY <1>7, ConfigureStep
<1>8. CASE VM!Restart
  BY <1>8, RestartStep
<1>9. CASE UNCHANGED VM!vars
  <2>1. memory' = memory /\ frame' = frame /\ open' = open /\ said' = said
    BY <1>9 DEF VM!vars
  <2> QED BY <2>1 DEF VMInv
<1> QED BY <1>1, <1>2, <1>3, <1>4, <1>5, <1>6, <1>7, <1>8, <1>9 DEF VM!Next

(* The invariant says what a rollback promises.                            *)
LEMMA VMInvIsExact ==
  ASSUME VM!TransactionAssumption, VMInv
  PROVE  VM!RollbacksAreExact
<1>1. ASSUME NEW l, NEW texts, SaysIn(memory, l, texts) PROVE VM!Says(l, texts)
  <2>1. "items" \in DOMAIN memory.nodes[l]
    BY <1>1 DEF SaysIn, ListNode
  <2> QED BY <1>1, <2>1 DEF SaysIn, VM!Says
<1>2. VM!Says(frame, said)
  BY <1>1 DEF VMInv
<1>3. \A i \in DOMAIN open : VM!Says(open[i].list, open[i].said)
  BY <1>1 DEF VMInv, OpenIs
<1>4. \A n \in VM!TextNodes : memory.nodes[n] \in TextNode /\ n \in VM!Nodes /\ VM!IsText(memory.nodes[n])
  BY Kinds DEF VMInv, HeapIs, VM!TextNodes
<1>5. \A x \in TextNode : /\ x.blob = <<x.blob[1], x.blob[2]>>
                          /\ x.blob[1] \in VM!Slabs /\ x.blob[2] \in Nat /\ Length[x.text] \in Nat
  <2> SUFFICES ASSUME NEW x \in TextNode
      PROVE  /\ x.blob = <<x.blob[1], x.blob[2]>>
             /\ x.blob[1] \in VM!Slabs /\ x.blob[2] \in Nat /\ Length[x.text] \in Nat
    OBVIOUS
  <2>1. x.blob \in VM!Slabs \X Nat /\ x.text \in Texts
    BY DEF TextNode
  <2> QED BY <2>1 DEF VM!TransactionAssumption
<1>6. ASSUME NEW x \in TextNode, NEW b \in VM!BytesOf(x)
      PROVE  /\ b = <<x.blob[1], b[2]>> /\ b[1] = x.blob[1] /\ b[2] \in Nat
             /\ x.blob[2] <= b[2] /\ b[2] < EndOf(x) /\ Length[x.text] > 0
  <2>1. PICK a \in x.blob[2] .. (x.blob[2] + Length[x.text] - 1) : b = <<x.blob[1], a>>
    BY DEF VM!BytesOf
  <2>2. x.blob[2] \in Nat /\ Length[x.text] \in Nat
    BY <1>5
  <2>3. b[1] = x.blob[1] /\ b[2] = a
    BY <2>1
  <2> QED BY <2>1, <2>2, <2>3 DEF EndOf
<1>7. BytesAre(memory.nodes, memory.count) /\ memory.count \in [VM!Slabs -> 0 .. SlabBytes]
      /\ SlabBytes \in Nat
  BY DEF VMInv, HeapIs, SlabsAre, VM!TransactionAssumption
<1>8. ASSUME NEW n \in VM!TextNodes, NEW b \in VM!BytesOf(memory.nodes[n])
      PROVE  b # VM!NoBlob /\ b[2] < memory.count[b[1]]
  <2> DEFINE x == memory.nodes[n]
  <2>1. x \in TextNode /\ Holds(memory.count, x)
    BY <1>4, <1>7 DEF BytesAre
  <2>2. x.blob[1] \in VM!Slabs /\ x.blob[2] \in Nat /\ Length[x.text] \in Nat
    BY <1>5, <2>1
  <2>3. /\ b = <<x.blob[1], b[2]>> /\ b[1] = x.blob[1] /\ b[2] \in Nat
        /\ x.blob[2] <= b[2] /\ b[2] < EndOf(x) /\ Length[x.text] > 0
    BY <1>6, <2>1
  <2> HIDE DEF x
  <2>4. EndOf(x) <= memory.count[x.blob[1]] /\ (x.blob[1] = 0 => x.blob[2] > 0)
    BY <2>1, <2>3 DEF Holds
  <2>5. b[2] < memory.count[b[1]]
    BY <1>7, <2>2, <2>3, <2>4 DEF EndOf
  <2>6. x.blob[1] = 0 => b[2] > 0
    BY <2>2, <2>3, <2>4
  <2>7. b # VM!NoBlob
    BY <2>3, <2>6 DEF VM!NoBlob
  <2> QED BY <2>5, <2>7
<1>9. ASSUME NEW n \in VM!TextNodes, NEW m \in VM!TextNodes \ {n},
             NEW b \in VM!BytesOf(memory.nodes[n]), b \in VM!BytesOf(memory.nodes[m])
      PROVE  FALSE
  <2> DEFINE x == memory.nodes[n]
             y == memory.nodes[m]
  <2>1. x \in TextNode /\ y \in TextNode /\ Apart(x, y)
    BY <1>4, <1>7 DEF BytesAre
  <2>2. /\ b[1] = x.blob[1] /\ b[2] \in Nat
        /\ x.blob[2] <= b[2] /\ b[2] < EndOf(x) /\ Length[x.text] > 0
    BY <1>6, <2>1
  <2>3. /\ b[1] = y.blob[1]
        /\ y.blob[2] <= b[2] /\ b[2] < EndOf(y) /\ Length[y.text] > 0
    BY <1>6, <1>9, <2>1
  <2>4. /\ x.blob[2] \in Nat /\ Length[x.text] \in Nat
        /\ y.blob[2] \in Nat /\ Length[y.text] \in Nat
    BY <1>5, <2>1
  <2> HIDE DEF x, y
  <2>5. EndOf(x) <= y.blob[2] \/ EndOf(y) <= x.blob[2]
    BY <2>1, <2>2, <2>3 DEF Apart
  <2> QED BY <2>2, <2>3, <2>4, <2>5 DEF EndOf
<1>10. VM!OwnBytes
  BY <1>8, <1>9, Zenon DEF VM!OwnBytes
<1> QED BY <1>2, <1>3, <1>10 DEF VM!RollbacksAreExact

(* RollbacksAreExact: of beginTransaction, rollbackTransaction,            *)
(* commitTransaction and speculate, over BlobAllocator.  Whatever the      *)
(* texts, their lengths and the slabs are, and through a restart: the      *)
(* stack says what the calls not rolled back left on it, the copy of each  *)
(* open checkpoint what the stack said when it was taken, and no two texts *)
(* share a byte.  The host ends transactions from the inside out, and none *)
(* begins when the last slab has no byte left.                             *)
THEOREM RollbacksStayExact ==
  ASSUME VM!TransactionAssumption, InsideOut, ~Brimful
  PROVE  VM!Spec => []RollbacksAreExact
<1>1. VM!Init => VMInv
  BY InitSays
<1>2. VMInv /\ [VM!Next]_VM!vars => VMInv'
  BY StepSays
<1>3. VMInv => RollbacksAreExact
  BY VMInvIsExact DEF RollbacksAreExact
<1> QED BY <1>1, <1>2, <1>3, PTL DEF VM!Spec

---------------------------------------------------------------------------
(* Speculation (EdictVM).                                                  *)

(* The callers of the outermost speculation are the same in d as in c.     *)
CallersOf(c, b) == SubSeq(c, Len(c) - b + 1, Len(c))
KeepsCallers(c, d, b) == Len(d) >= b /\ CallersOf(d, b) = CallersOf(c, b)

(* At most the newest activation is replaced.                              *)
OnTop(c, d) ==
  \/ d = c
  \/ d = Tail(c)
  \/ \E T : \E x \in Seq(T) : d = x \o c \/ d = x \o Tail(c)

Nested(cps) ==
  /\ \A i \in DOMAIN cps : cps[i].base \in Nat \ {0}
  /\ \A i, j \in DOMAIN cps : i < j => cps[j].base < cps[i].base

(* Each speculation has its callers below it, and the nested ones start    *)
(* above the activations of the outer.                                     *)
NestingInv ==
  /\ \E S : code \in Seq(S)
  /\ \E S : spec \in Seq(S)
  /\ Nested(spec)
  /\ spec # <<>> => spec[1].base <= Len(code)
  /\ ~host.running => spec = <<>>

LEMMA TailKeeps ==
  ASSUME NEW S, NEW c \in Seq(S), NEW b \in Nat, b < Len(c)
  PROVE  Tail(c) \in Seq(S) /\ Len(Tail(c)) = Len(c) - 1 /\ KeepsCallers(c, Tail(c), b)
<1>1. c # <<>>
  OBVIOUS
<1>2. /\ Tail(c) \in Seq(S) /\ Len(Tail(c)) = Len(c) - 1
      /\ \A i \in 1 .. Len(Tail(c)) : Tail(c)[i] = c[i + 1]
  BY <1>1, HeadTailProperties
<1> DEFINE d == Tail(c)
<1>3. CallersOf(c, b) = [i \in 1 .. b |-> c[i + Len(c) - b]]
  BY DEF CallersOf
<1>4. CallersOf(d, b) = [i \in 1 .. b |-> d[i + Len(d) - b]]
  BY <1>2 DEF CallersOf
<1> HIDE DEF d
<1>5. \A i \in 1 .. b : d[i + Len(d) - b] = c[i + Len(c) - b]
  BY <1>2 DEF d
<1> QED BY <1>2, <1>3, <1>4, <1>5 DEF KeepsCallers, d

LEMMA ConcatKeeps ==
  ASSUME NEW S, NEW c \in Seq(S), NEW T, NEW x \in Seq(T), NEW b \in Nat, b <= Len(c)
  PROVE  /\ x \o c \in Seq(S \cup T) /\ Len(x \o c) = Len(x) + Len(c)
         /\ KeepsCallers(c, x \o c, b)
<1>1. x \in Seq(S \cup T) /\ c \in Seq(S \cup T)
  OBVIOUS
<1>2. /\ x \o c \in Seq(S \cup T) /\ Len(x \o c) = Len(x) + Len(c)
      /\ \A i \in 1 .. Len(x) + Len(c) : (x \o c)[i] = IF i <= Len(x) THEN x[i] ELSE c[i - Len(x)]
  BY <1>1, ConcatProperties
<1> DEFINE d == x \o c
<1>3. CallersOf(c, b) = [i \in 1 .. b |-> c[i + Len(c) - b]]
  BY DEF CallersOf
<1> HIDE DEF d
<1>4. CallersOf(d, b) = [i \in 1 .. b |-> d[i + Len(d) - b]]
  BY <1>2 DEF CallersOf, d
<1>5. ASSUME NEW i \in 1 .. b PROVE d[i + Len(d) - b] = c[i + Len(c) - b]
  <2>1. Len(x) \in Nat /\ Len(c) \in Nat
    OBVIOUS
  <2>2. /\ i + Len(d) - b \in 1 .. Len(x) + Len(c) /\ ~(i + Len(d) - b <= Len(x))
        /\ i + Len(d) - b - Len(x) = i + Len(c) - b
    BY <1>2, <2>1 DEF d
  <2> QED BY <1>2, <2>2 DEF d
<1>6. CallersOf(d, b) = CallersOf(c, b)
  BY <1>3, <1>4, <1>5
<1> QED BY <1>2, <1>6 DEF KeepsCallers, d

LEMMA CallersKeep ==
  ASSUME NEW S, NEW c \in Seq(S), NEW k \in Nat, k <= Len(c), NEW b \in Nat, b <= k
  PROVE  /\ CallersOf(c, k) \in Seq(S) /\ Len(CallersOf(c, k)) = k
         /\ KeepsCallers(c, CallersOf(c, k), b)
<1> DEFINE d == CallersOf(c, k)
<1>1. d = [i \in 1 .. k |-> c[i + Len(c) - k]]
  BY DEF CallersOf
<1>2. \A i \in 1 .. k : i + Len(c) - k \in 1 .. Len(c)
  OBVIOUS
<1>3. \A i \in 1 .. k : c[i + Len(c) - k] \in S
  BY <1>2
<1> HIDE DEF d
<1>4. d \in Seq(S) /\ Len(d) = k
  BY <1>1, <1>3
<1>5. CallersOf(c, b) = [i \in 1 .. b |-> c[i + Len(c) - b]]
  BY DEF CallersOf
<1>6. CallersOf(d, b) = [i \in 1 .. b |-> d[i + k - b]]
  BY <1>4 DEF CallersOf
<1>7. ASSUME NEW i \in 1 .. b PROVE d[i + k - b] = c[i + Len(c) - b]
  <2>1. i + k - b \in 1 .. k /\ i + k - b + Len(c) - k = i + Len(c) - b
    OBVIOUS
  <2> QED BY <1>1, <2>1
<1>8. CallersOf(d, b) = CallersOf(c, b)
  BY <1>5, <1>6, <1>7
<1> QED BY <1>4, <1>8 DEF KeepsCallers, d

(* A step of the machine on top of the callers.                            *)
LEMMA TopKeeps ==
  ASSUME NEW S, NEW c \in Seq(S), NEW d, OnTop(c, d), NEW b \in Nat, b < Len(c)
  PROVE  (\E T : d \in Seq(T)) /\ KeepsCallers(c, d, b)
<1>0. Len(c) \in Nat /\ b <= Len(c)
  OBVIOUS
<1>1. CASE d = c
  <2>1. KeepsCallers(c, d, b)
    BY <1>0, <1>1 DEF KeepsCallers
  <2> QED BY <1>1, <2>1, Zenon
<1>2. CASE d = Tail(c)
  BY <1>2, TailKeeps, Zenon
<1>3. ASSUME NEW T, NEW x \in Seq(T), d = x \o c
      PROVE  (\E U : d \in Seq(U)) /\ KeepsCallers(c, d, b)
  <2>1. x \o c \in Seq(S \cup T) /\ KeepsCallers(c, x \o c, b)
    BY <1>0, ConcatKeeps, Zenon
  <2> QED BY <1>3, <2>1, Zenon
<1>4. ASSUME NEW T, NEW x \in Seq(T), d = x \o Tail(c)
      PROVE  (\E U : d \in Seq(U)) /\ KeepsCallers(c, d, b)
  <2>1. Tail(c) \in Seq(S) /\ Len(Tail(c)) = Len(c) - 1 /\ KeepsCallers(c, Tail(c), b)
    BY TailKeeps, Zenon
  <2>2. b <= Len(Tail(c))
    BY <1>0, <2>1
  <2>3. d \in Seq(S \cup T) /\ KeepsCallers(Tail(c), d, b)
    BY <1>4, <2>1, <2>2, ConcatKeeps, Zenon
  <2>4. KeepsCallers(c, d, b)
    BY <2>1, <2>3, Zenon DEF KeepsCallers
  <2> QED BY <2>3, <2>4, Zenon
<1> QED BY <1>1, <1>2, <1>3, <1>4, Zenon DEF OnTop

(* The bases of the speculations: of the innermost, spec[1], and the       *)
(* outermost.                                                              *)
LEMMA BasesAre ==
  ASSUME NestingInv, spec # <<>>
  PROVE  /\ spec[1].base \in Nat \ {0} /\ spec[Len(spec)].base \in Nat \ {0}
         /\ spec[Len(spec)].base <= spec[1].base /\ spec[1].base <= Len(code)
         /\ Len(spec) \in Nat \ {0} /\ DOMAIN spec = 1 .. Len(spec) /\ Len(code) \in Nat
<1>1. PICK S : spec \in Seq(S)
  BY Zenon DEF NestingInv
<1>2. Len(spec) \in Nat \ {0} /\ DOMAIN spec = 1 .. Len(spec)
  BY <1>1
<1>3. PICK U : code \in Seq(U)
  BY Zenon DEF NestingInv
<1>4. Len(code) \in Nat
  BY <1>3
<1>5. 1 \in DOMAIN spec /\ Len(spec) \in DOMAIN spec
  BY <1>2
<1>6. spec[1].base \in Nat \ {0} /\ spec[Len(spec)].base \in Nat \ {0}
  BY <1>5, Zenon DEF NestingInv, Nested
<1>7. 1 < Len(spec) => spec[Len(spec)].base < spec[1].base
  BY <1>5, Zenon DEF NestingInv, Nested
<1>8. spec[Len(spec)].base <= spec[1].base
  BY <1>2, <1>6, <1>7
<1> QED BY <1>2, <1>4, <1>6, <1>8 DEF NestingInv

(* What a step keeps.                                                      *)
Keeps == spec # <<>> => KeepsCallers(code, code', spec[Len(spec)].base)

LEMMA TopStep ==
  ASSUME NestingInv, Edict!Looping, OnTop(code, code'), spec' = spec, host' = host
  PROVE  NestingInv' /\ Keeps
<1>1. PICK S : code \in Seq(S)
  BY Zenon DEF NestingInv
<1>2. Edict!Base \in Nat /\ Edict!Base < Len(code) /\ (spec # <<>> => Edict!Base = spec[1].base)
  BY <1>1, BasesAre DEF Edict!Looping, Edict!Base
<1>3. (\E T : code' \in Seq(T)) /\ KeepsCallers(code, code', Edict!Base)
  BY <1>1, <1>2, TopKeeps
<1>4. NestingInv'
  BY <1>2, <1>3 DEF NestingInv, KeepsCallers
<1>5. ASSUME spec # <<>> PROVE KeepsCallers(code, code', spec[Len(spec)].base)
  <2>1. spec[Len(spec)].base \in Nat /\ spec[Len(spec)].base < Len(code)
    BY <1>2, <1>5, BasesAre
  <2> QED BY <1>1, <2>1, TopKeeps
<1> QED BY <1>4, <1>5 DEF Keeps

(* The instructions that leave the code stack alone.                       *)
Steady == Edict!Looping /\ code' = code /\ spec' = spec /\ host' = host

LEMMA SettleKeeps ==
  ASSUME NEW d
  PROVE  /\ Edict!Settle(d) => code' = code
         /\ Edict!Fails(d) => code' = code /\ spec' = spec /\ host' = host
  BY Zenon DEF Edict!Settle, Edict!Fails, Edict!Advance, Edict!KeepRest

LEMMA KeepRestKeeps ==
  /\ Edict!KeepRest => spec' = spec /\ host' = host
  /\ Edict!OnlyData => spec' = spec /\ host' = host
  /\ Edict!OnlyScan => spec' = spec /\ host' = host
  BY Zenon DEF Edict!KeepRest, Edict!OnlyData, Edict!OnlyScan

LEMMA InstructionsAreSteady ==
  /\ Edict!PushExt \/ Edict!Dup \/ Edict!PopTop \/ Edict!Swap \/ Edict!ListAdd => Steady
  /\ Edict!Ref \/ Edict!Assign \/ Edict!RemoveBinding => Steady
  /\ Edict!Lookup \/ Edict!Unsafe \/ Edict!EvalNothing \/ Edict!EvalFunction => Steady
  /\ Edict!FunPush \/ Edict!FunPop \/ Edict!CtxPush \/ Edict!CtxPop => Steady
  /\ Edict!Fail \/ Edict!Test \/ Edict!Throws \/ Edict!Catch \/ Edict!Yield \/ Edict!Await => Steady
  /\ Edict!RewriteDefine \/ Edict!RewriteRemove \/ Edict!RewriteApply \/ Edict!RewriteMode => Steady
<1>1. Edict!PushExt => Steady
  BY SettleKeeps, KeepRestKeeps DEF Edict!PushExt, Steady, Edict!Dispatch, Edict!Fetch, Edict!Advance
<1>2. Edict!Dup => Steady
  BY SettleKeeps, KeepRestKeeps DEF Edict!Dup, Steady, Edict!Dispatch, Edict!Fetch, Edict!Advance
<1>3. Edict!PopTop => Steady
  BY SettleKeeps, KeepRestKeeps DEF Edict!PopTop, Steady, Edict!Dispatch, Edict!Fetch, Edict!Advance
<1>4. Edict!Swap => Steady
  BY SettleKeeps, KeepRestKeeps DEF Edict!Swap, Steady, Edict!Dispatch, Edict!Fetch, Edict!Advance
<1>5. Edict!ListAdd => Steady
  BY SettleKeeps, KeepRestKeeps DEF Edict!ListAdd, Steady, Edict!Dispatch, Edict!Fetch, Edict!Advance
<1>6. Edict!Ref => Steady
  BY SettleKeeps, KeepRestKeeps DEF Edict!Ref, Steady, Edict!Dispatch, Edict!Fetch, Edict!Advance
<1>7. Edict!Assign => Steady
  BY SettleKeeps, KeepRestKeeps DEF Edict!Assign, Steady, Edict!Dispatch, Edict!Fetch, Edict!Advance
<1>8. Edict!RemoveBinding => Steady
  BY SettleKeeps, KeepRestKeeps DEF Edict!RemoveBinding, Steady, Edict!Dispatch, Edict!Fetch, Edict!Advance
<1>9. Edict!Lookup => Steady
  BY SettleKeeps, KeepRestKeeps DEF Edict!Lookup, Steady, Edict!Dispatch, Edict!Fetch, Edict!Advance
<1>10. Edict!Unsafe => Steady
  BY SettleKeeps, KeepRestKeeps DEF Edict!Unsafe, Steady, Edict!Dispatch, Edict!Fetch, Edict!Advance
<1>11. Edict!EvalNothing => Steady
  BY SettleKeeps, KeepRestKeeps DEF Edict!EvalNothing, Steady, Edict!Dispatch, Edict!Fetch, Edict!Advance
<1>12. Edict!EvalFunction => Steady
  BY SettleKeeps, KeepRestKeeps DEF Edict!EvalFunction, Steady, Edict!Dispatch, Edict!Fetch, Edict!Advance
<1>13. Edict!FunPush => Steady
  BY SettleKeeps, KeepRestKeeps DEF Edict!FunPush, Steady, Edict!Dispatch, Edict!Fetch, Edict!Advance
<1>14. Edict!FunPop => Steady
  BY SettleKeeps, KeepRestKeeps DEF Edict!FunPop, Steady, Edict!Dispatch, Edict!Fetch, Edict!Advance
<1>15. Edict!CtxPush => Steady
  BY SettleKeeps, KeepRestKeeps DEF Edict!CtxPush, Steady, Edict!Dispatch, Edict!Fetch, Edict!Advance
<1>16. Edict!CtxPop => Steady
  BY SettleKeeps, KeepRestKeeps DEF Edict!CtxPop, Steady, Edict!Dispatch, Edict!Fetch, Edict!Advance
<1>17. Edict!Fail => Steady
  BY SettleKeeps, KeepRestKeeps DEF Edict!Fail, Steady, Edict!Dispatch, Edict!Fetch, Edict!Advance
<1>18. Edict!Test => Steady
  BY SettleKeeps, KeepRestKeeps DEF Edict!Test, Steady, Edict!Dispatch, Edict!Fetch, Edict!Advance
<1>19. Edict!Throws => Steady
  BY SettleKeeps, KeepRestKeeps DEF Edict!Throws, Steady, Edict!Dispatch, Edict!Fetch, Edict!Advance
<1>20. Edict!Catch => Steady
  BY SettleKeeps, KeepRestKeeps DEF Edict!Catch, Steady, Edict!Dispatch, Edict!Fetch, Edict!Advance
<1>21. Edict!Yield => Steady
  BY SettleKeeps, KeepRestKeeps DEF Edict!Yield, Steady, Edict!Dispatch, Edict!Fetch, Edict!Advance
<1>22. Edict!Await => Steady
  BY SettleKeeps, KeepRestKeeps DEF Edict!Await, Steady, Edict!Dispatch, Edict!Fetch, Edict!Advance
<1>23. Edict!RewriteDefine => Steady
  BY SettleKeeps, KeepRestKeeps DEF Edict!RewriteDefine, Steady, Edict!Dispatch, Edict!Fetch, Edict!Advance
<1>24. Edict!RewriteRemove => Steady
  BY SettleKeeps, KeepRestKeeps DEF Edict!RewriteRemove, Steady, Edict!Dispatch, Edict!Fetch, Edict!Advance
<1>25. Edict!RewriteApply => Steady
  BY SettleKeeps, KeepRestKeeps DEF Edict!RewriteApply, Steady, Edict!Dispatch, Edict!Fetch, Edict!Advance
<1>26. Edict!RewriteMode => Steady
  BY SettleKeeps, KeepRestKeeps DEF Edict!RewriteMode, Steady, Edict!Dispatch, Edict!Fetch, Edict!Advance
<1> QED BY <1>1, <1>2, <1>3, <1>4, <1>5, <1>6, <1>7, <1>8, <1>9, <1>10, <1>11, <1>12,
     <1>13, <1>14, <1>15, <1>16, <1>17, <1>18, <1>19, <1>20, <1>21, <1>22, <1>23, <1>24,
     <1>25, <1>26, Zenon

LEMMA SkipIsSteady == Edict!Skip \/ Edict!SkipEnds => Steady
<1>1. Edict!Skip => Steady
  BY KeepRestKeeps DEF Edict!Skip, Edict!SkipAdvance, Steady, Edict!Fetch, Edict!Advance
<1>2. Edict!SkipEnds => Steady
  BY KeepRestKeeps DEF Edict!SkipEnds, Steady, Edict!Fetch, Edict!Advance
<1> QED BY <1>1, <1>2, Zenon

LEMMA SteadyStep ==
  ASSUME NestingInv, Steady
  PROVE  NestingInv' /\ Keeps
  BY TopStep, Zenon DEF Steady, OnTop

(* The steps that push an activation.                                      *)
LEMMA OneOnTop ==
  ASSUME NEW c, NEW d, NEW a, d = <<a>> \o c \/ d = <<a>> \o Tail(c)
  PROVE  OnTop(c, d)
<1>1. <<a>> \in Seq({a})
  OBVIOUS
<1> QED BY <1>1, Zenon DEF OnTop

LEMMA EnterOnTop ==
  ASSUME NEW ins, NEW shared, Edict!Enter(ins, shared)
  PROVE  OnTop(code, code')
<1>1. CASE Edict!TailEval
  <2>1. code' = <<[ins |-> ins, shared |-> shared]>> \o Tail(code)
    BY <1>1, Zenon DEF Edict!Enter
  <2> QED BY <2>1, OneOnTop
<1>2. CASE ~Edict!TailEval
  <2>1. code' = <<[ins |-> ins, shared |-> shared]>> \o code
    BY <1>2, Zenon DEF Edict!Enter
  <2> QED BY <2>1, OneOnTop
<1> QED BY <1>1, <1>2, Zenon

LEMMA EvalThunkStep ==
  ASSUME NestingInv, Edict!EvalThunk
  PROVE  NestingInv' /\ Keeps
<1>1. Edict!Looping /\ Edict!Enter(<<Thunks[Edict!Peek(1)]>>, Edict!Peek(1)) /\ spec' = spec /\ host' = host
  BY KeepRestKeeps, Zenon DEF Edict!EvalThunk, Edict!Dispatch, Edict!Fetch
<1> QED BY <1>1, EnterOnTop, TopStep, Zenon

LEMMA EvalSourceStep ==
  ASSUME NestingInv, Edict!EvalSource
  PROVE  NestingInv' /\ Keeps
<1> DEFINE out == IF Edict!Peek(1) = Blob THEN <<>> ELSE Edict!Compile(Edict!Peek(1))
<1>1. Edict!Looping /\ (Edict!Fails(Edict!Pop(1)) \/ (Edict!Enter(out, NoValue) /\ Edict!OnlyData))
  BY Zenon DEF Edict!EvalSource, Edict!Dispatch, Edict!Fetch
<1> HIDE DEF out
<1>2. CASE Edict!Fails(Edict!Pop(1))
  BY <1>1, <1>2, SettleKeeps, SteadyStep, Zenon DEF Steady
<1>3. CASE Edict!Enter(out, NoValue) /\ Edict!OnlyData
  BY <1>1, <1>3, KeepRestKeeps, EnterOnTop, TopStep, Zenon
<1> QED BY <1>1, <1>2, <1>3, Zenon

LEMMA FunEvalStep ==
  ASSUME NestingInv, Edict!FunEval
  PROVE  NestingInv' /\ Keeps
<1> DEFINE Internal(op) == [ins |-> <<Edict!Op(op)>>, shared |-> NoValue]
           pushed == IF func = <<>> THEN <<Internal("FUN_POP")>>
                     ELSE <<Internal("EVAL"), Internal("FUN_POP")>>
<1>1. Edict!Looping /\ code' = pushed \o code /\ spec' = spec /\ host' = host
  BY KeepRestKeeps, Zenon DEF Edict!FunEval, Edict!Dispatch, Edict!Fetch
<1> HIDE DEF Internal
<1>2. \E T : pushed \in Seq(T)
  <2>1. \A e, f : <<e>> \in Seq({e, f}) /\ <<e, f>> \in Seq({e, f})
    OBVIOUS
  <2>2. CASE func = <<>>
    BY <2>1, <2>2, Zenon
  <2>3. CASE func # <<>>
    BY <2>1, <2>3, Zenon
  <2> QED BY <2>2, <2>3, Zenon
<1> HIDE DEF pushed
<1>3. OnTop(code, code')
  BY <1>1, <1>2, Zenon DEF OnTop
<1> QED BY <1>1, <1>3, TopStep, Zenon

LEMMA FrameEndsStep ==
  ASSUME NestingInv, Edict!FrameEnds
  PROVE  NestingInv' /\ Keeps
<1>1. Edict!Looping /\ code' = Tail(code) /\ spec' = spec /\ host' = host
  BY KeepRestKeeps, Zenon DEF Edict!FrameEnds
<1> QED BY <1>1, TopStep, Zenon DEF OnTop

LEMMA SpeculateStep ==
  ASSUME NestingInv, Edict!Speculate
  PROVE  NestingInv' /\ Keeps
<1> DEFINE source == Edict!Peek(1)
           out == IF Edict!IsText(source) /\ source # <<>> THEN Edict!Compile(source) ELSE Uncompilable
           cp == [base |-> Len(code), data |-> Edict!Pop(1), dict |-> dict, func |-> func,
                  state |-> state, rules |-> modes.rules, ip |-> Edict!Ip]
           new == [ins |-> out, shared |-> NoValue]
<1>1. /\ Edict!Looping
      /\ \/ Edict!Advance /\ Edict!OnlyData
         \/ spec' = <<cp>> \o spec /\ code' = <<new>> \o code /\ host' = host
  <2>1. Edict!Looping
    BY Zenon DEF Edict!Speculate, Edict!Dispatch, Edict!Fetch
  <2>2. CASE out = Uncompilable
    BY <2>1, <2>2, Zenon DEF Edict!Speculate
  <2>3. CASE out # Uncompilable
    BY <2>1, <2>3, Zenon DEF Edict!Speculate
  <2> QED BY <2>2, <2>3, Zenon
<1>2. cp.base = Len(code)
  OBVIOUS
<1> HIDE DEF cp, new, out, source
<1>3. CASE Edict!Advance /\ Edict!OnlyData
  BY <1>1, <1>3, KeepRestKeeps, SteadyStep, Zenon DEF Steady, Edict!Advance
<1>4. CASE spec' = <<cp>> \o spec /\ code' = <<new>> \o code /\ host' = host
  <2>1. PICK S, U : code \in Seq(S) /\ spec \in Seq(U)
    BY Zenon DEF NestingInv
  <2>2. Edict!Base \in Nat /\ Edict!Base < Len(code) /\ (spec # <<>> => Edict!Base = spec[1].base)
    BY <1>1, <2>1, BasesAre DEF Edict!Looping, Edict!Base
  <2>3. Len(code) \in Nat \ {0} /\ Len(code) <= Len(code)
    BY <2>1, <2>2
  <2>4. <<new>> \in Seq({new}) /\ Len(<<new>>) = 1 /\ <<cp>> \in Seq({cp}) /\ Len(<<cp>>) = 1
    OBVIOUS
  <2>5. code' \in Seq(S \cup {new}) /\ Len(code') = 1 + Len(code)
    BY <1>4, <2>1, <2>3, <2>4, ConcatKeeps
  <2>6. /\ spec' \in Seq(U \cup {cp}) /\ DOMAIN spec' = 1 .. 1 + Len(spec)
        /\ spec'[1] = cp
        /\ \A i \in 2 .. 1 + Len(spec) : spec'[i] = spec[i - 1] /\ i - 1 \in DOMAIN spec
    BY <1>4, <2>1
  <2>7. \A i \in DOMAIN spec : spec[i].base \in Nat \ {0} /\ spec[i].base < Len(code)
    <3> SUFFICES ASSUME NEW i \in DOMAIN spec
                 PROVE  spec[i].base \in Nat \ {0} /\ spec[i].base < Len(code)
      OBVIOUS
    <3>1. spec # <<>> /\ 1 \in DOMAIN spec /\ i \in Nat /\ (i = 1 \/ 1 < i)
      BY <2>1
    <3>2. spec[i].base \in Nat \ {0} /\ (1 < i => spec[i].base < spec[1].base)
      BY <3>1, Zenon DEF NestingInv, Nested
    <3> QED BY <2>2, <2>3, <3>1, <3>2
  <2>8. Nested(spec')
    <3>1. \A i \in DOMAIN spec' : i = 1 \/ i \in 2 .. 1 + Len(spec)
      BY <2>1, <2>6
    <3>2. \A i \in DOMAIN spec' : spec'[i].base \in Nat \ {0}
      BY <1>2, <2>3, <2>6, <2>7, <3>1, Zenon
    <3>3. ASSUME NEW i \in DOMAIN spec', NEW j \in DOMAIN spec', i < j
          PROVE  spec'[j].base < spec'[i].base
      <4>1. j \in 2 .. 1 + Len(spec) /\ spec'[j] = spec[j - 1] /\ j - 1 \in DOMAIN spec
        BY <2>1, <2>6, <3>3
      <4>2. CASE i = 1
        BY <1>2, <2>6, <2>7, <4>1, <4>2
      <4>3. CASE i \in 2 .. 1 + Len(spec)
        <5>1. spec'[i] = spec[i - 1] /\ i - 1 \in DOMAIN spec
          BY <2>6, <4>3
        <5>2. i - 1 < j - 1
          BY <2>1, <3>3, <4>1, <4>3
        <5>3. spec[j - 1].base < spec[i - 1].base
          BY <4>1, <5>1, <5>2, Zenon DEF NestingInv, Nested
        <5> QED BY <4>1, <5>1, <5>3, Zenon
      <4> QED BY <3>1, <4>2, <4>3, Zenon
    <3> QED BY <3>2, <3>3, Zenon DEF Nested
  <2>9. host.running
    BY <1>1, Zenon DEF Edict!Looping
  <2>10. spec'[1].base <= Len(code')
    BY <1>2, <2>3, <2>5, <2>6
  <2>11. NestingInv'
    BY <1>4, <2>5, <2>6, <2>8, <2>9, <2>10, Zenon DEF NestingInv
  <2>12. OnTop(code, code')
    BY <1>4, OneOnTop, Zenon
  <2>13. ASSUME spec # <<>> PROVE KeepsCallers(code, code', spec[Len(spec)].base)
    <3>1. spec[Len(spec)].base \in Nat /\ spec[Len(spec)].base < Len(code)
      BY <2>1, <2>2, <2>13, BasesAre
    <3> QED BY <2>1, <2>12, <3>1, TopKeeps, Zenon
  <2> QED BY <2>11, <2>13, Zenon DEF Keeps
<1> QED BY <1>1, <1>3, <1>4, Zenon

LEMMA NestedReturnStep ==
  ASSUME NestingInv, Edict!NestedReturn
  PROVE  NestingInv' /\ Keeps
<1>1. /\ host.running /\ host' = host /\ spec # <<>> /\ spec' = Tail(spec)
      /\ code' = CallersOf(code, spec[1].base)
  BY Zenon DEF Edict!NestedReturn, CallersOf
<1>2. PICK S, U : code \in Seq(S) /\ spec \in Seq(U)
  BY Zenon DEF NestingInv
<1> DEFINE k == spec[1].base
           b == spec[Len(spec)].base
<1>3. k \in Nat \ {0} /\ b \in Nat \ {0} /\ b <= k /\ k <= Len(code)
  BY <1>1, BasesAre, Zenon
<1> HIDE DEF k, b
<1>4. code' = CallersOf(code, k)
  BY <1>1, Zenon DEF k
<1>5. code' \in Seq(S) /\ Len(code') = k /\ KeepsCallers(code, code', b)
  <2>1. k \in Nat /\ b \in Nat
    BY <1>3
  <2> QED BY <1>2, <1>3, <1>4, <2>1, CallersKeep, Zenon
<1>6. /\ spec' \in Seq(U)
      /\ \A i \in DOMAIN spec' : /\ spec'[i] = spec[i + 1] /\ i \in Nat \ {0}
                                /\ i + 1 \in DOMAIN spec /\ 1 \in DOMAIN spec
  BY <1>1, <1>2
<1>7. Nested(spec')
  <2>1. \A i \in DOMAIN spec' : spec'[i].base \in Nat \ {0}
    BY <1>6, Zenon DEF NestingInv, Nested
  <2>2. ASSUME NEW i \in DOMAIN spec', NEW j \in DOMAIN spec', i < j
        PROVE  spec'[j].base < spec'[i].base
    <3>1. i + 1 < j + 1
      BY <1>6, <2>2
    <3> QED BY <1>6, <3>1, Zenon DEF NestingInv, Nested
  <2> QED BY <2>1, <2>2, Zenon DEF Nested
<1>8. spec' # <<>> => spec'[1].base <= Len(code')
  <2>1. SUFFICES ASSUME spec' # <<>> PROVE spec'[1].base <= Len(code')
    OBVIOUS
  <2>2. 1 \in DOMAIN spec'
    BY <1>6, <2>1
  <2>3. spec'[1] = spec[2] /\ 2 \in DOMAIN spec /\ 1 \in DOMAIN spec /\ 1 < 2
    BY <1>6, <2>2
  <2>4. spec[2].base < spec[1].base /\ spec[2].base \in Nat \ {0}
    BY <2>3, Zenon DEF NestingInv, Nested
  <2> QED BY <1>3, <1>5, <2>3, <2>4 DEF k
<1>9. NestingInv'
  BY <1>1, <1>5, <1>6, <1>7, <1>8, Zenon DEF NestingInv
<1> QED BY <1>5, <1>9, Zenon DEF Keeps, b

(* The host's steps run between speculations.                              *)
LEMMA HostStep ==
  ASSUME NestingInv,
         \/ Edict!Return \/ Edict!Resume \/ Edict!Clear
         \/ \E line \in Lines \cup Followups : Edict!Execute(line)
  PROVE  NestingInv' /\ Keeps
<1>1. spec = <<>> /\ spec' = spec
  BY Zenon DEF NestingInv, Edict!Return, Edict!Resume, Edict!Clear, Edict!Execute
<1>2. \E S : code' \in Seq(S)
  <2>1. CASE code' = code
    BY <2>1, Zenon DEF NestingInv
  <2>2. CASE code' = <<>>
    BY <2>2
  <2>3. ASSUME NEW a, code' = <<a>> PROVE \E S : code' \in Seq(S)
    <3>1. <<a>> \in Seq({a})
      OBVIOUS
    <3> QED BY <2>3, <3>1, Zenon
  <2> QED BY <2>1, <2>2, <2>3, Zenon DEF Edict!Return, Edict!Resume, Edict!Clear, Edict!Execute
<1>3. NestingInv'
  BY <1>1, <1>2, Zenon DEF NestingInv
<1> QED BY <1>1, <1>3, Zenon DEF Keeps

LEMMA NestingStep ==
  ASSUME NestingInv, [Edict!Next]_Edict!vars
  PROVE  NestingInv' /\ Keeps
<1>1. CASE Edict!Instruction
  BY <1>1, InstructionsAreSteady, SteadyStep, EvalThunkStep, EvalSourceStep, FunEvalStep,
     SpeculateStep, Zenon DEF Edict!Instruction
<1>2. CASE Edict!Skip \/ Edict!SkipEnds
  BY <1>2, SkipIsSteady, SteadyStep, Zenon
<1>3. CASE Edict!FrameEnds
  BY <1>3, FrameEndsStep, Zenon
<1>4. CASE Edict!NestedReturn
  BY <1>4, NestedReturnStep, Zenon
<1>5. CASE \/ Edict!Return \/ Edict!Resume \/ Edict!Clear
           \/ \E line \in Lines \cup Followups : Edict!Execute(line)
  BY <1>5, HostStep, Zenon
<1>6. CASE UNCHANGED Edict!vars
  <2>1. code' = code /\ spec' = spec /\ host' = host
    BY <1>6 DEF Edict!vars
  <2>2. NestingInv'
    BY <2>1, Zenon DEF NestingInv
  <2>3. ASSUME spec # <<>> PROVE KeepsCallers(code, code', spec[Len(spec)].base)
    BY <2>1, <2>3, BasesAre DEF KeepsCallers
  <2> QED BY <2>2, <2>3, Zenon DEF Keeps
<1> QED BY <1>1, <1>2, <1>3, <1>4, <1>5, <1>6, Zenon DEF Edict!Next, Edict!Machine

LEMMA NestingInit == Edict!Init => NestingInv
<1>1. \E S : <<>> \in Seq(S)
  OBVIOUS
<1>2. Nested(<<>>)
  BY DEF Nested
<1> QED BY <1>1, <1>2, Zenon DEF Edict!Init, NestingInv

(* No step taken while a speculation is under way, of the machine or of    *)
(* op_SPECULATE's while loop and its return, removes or changes an         *)
(* activation below the base of the outermost speculation: when it         *)
(* returns, the line that asked for it goes on where it was.               *)
THEOREM CallersStayPut == Edict!Spec => SpeculationKeepsCallers
<1>1. Edict!Init => NestingInv
  BY NestingInit
<1>2. NestingInv /\ [Edict!Next]_Edict!vars => NestingInv'
  BY NestingStep
<1>3. NestingInv /\ [Edict!Next]_Edict!vars =>
        [spec # <<>> => /\ Len(code') >= spec[Len(spec)].base
                        /\ Edict!Callers(code') = Edict!Callers(code)]_Edict!vars
  <2>1. SUFFICES ASSUME NestingInv, [Edict!Next]_Edict!vars, spec # <<>>
                 PROVE  /\ Len(code') >= spec[Len(spec)].base
                        /\ Edict!Callers(code') = Edict!Callers(code)
    OBVIOUS
  <2>2. KeepsCallers(code, code', spec[Len(spec)].base)
    BY <2>1, NestingStep, Zenon DEF Keeps
  <2> QED BY <2>2, Zenon DEF KeepsCallers, CallersOf, Edict!Callers
<1> QED BY <1>1, <1>2, <1>3, PTL DEF Edict!Spec, SpeculationKeepsCallers,
     Edict!SpeculationKeepsCallers

---------------------------------------------------------------------------
(* Foreign calls (ForeignCalls).                                           *)

(* Numbers up to n, reached one after the other.                           *)
LEMMA StepByStep ==
  ASSUME NEW n \in Nat, NEW G, 0 \in G, \A k \in 0 .. n - 1 : k \in G => k + 1 \in G
  PROVE  \A k \in 0 .. n : k \in G
<1> DEFINE T == {k \in 0 .. n : k \notin G}
<1>1. SUFFICES ASSUME T # {} PROVE FALSE
  BY Zenon
<1>2. T \in SUBSET Nat
  OBVIOUS
<1>3. PICK m \in T : \A k \in T : m <= k
  <2> HIDE DEF T
  <2> QED BY <1>1, <1>2, LeastNumber, Zenon
<1>4. m \in 0 .. n /\ m # 0 /\ m \notin G
  OBVIOUS
<1>5. m - 1 \in 0 .. n - 1 /\ m - 1 \in 0 .. n /\ ~(m <= m - 1) /\ (m - 1) + 1 = m
  BY <1>4
<1>6. m - 1 \in G
  BY <1>3, <1>5
<1> QED BY <1>4, <1>5, <1>6

(* A function that goes from each value to the next exists.                *)
Steps(n, V) == [1 .. n -> [V -> V]]
AreStages(f, n, V, v, F) ==
  f \in [0 .. n -> V] /\ f[0] = v /\ \A i \in 1 .. n : f[i] = F[i][f[i - 1]]

LEMMA StagesExist ==
  ASSUME NEW n \in Nat, NEW V, NEW v \in V, NEW F, F \in Steps(n, V)
  PROVE  \E f : AreStages(f, n, V, v, F)
<1>0. F \in [1 .. n -> [V -> V]]
  BY DEF Steps
<1> DEFINE Stages(m, f) == /\ f \in [0 .. m -> V] /\ f[0] = v
                           /\ \A i \in 1 .. m : f[i] = F[i][f[i - 1]]
           G == {m \in 0 .. n : \E f : Stages(m, f)}
<1>1. 0 \in G
  <2>1. Stages(0, [i \in 0 .. 0 |-> v])
    OBVIOUS
  <2> HIDE DEF Stages
  <2> QED BY <2>1
<1>2. ASSUME NEW m \in 0 .. n - 1, m \in G PROVE m + 1 \in G
  <2>1. PICK f : Stages(m, f)
    BY <1>2
  <2> DEFINE g == [i \in 0 .. m + 1 |-> IF i = m + 1 THEN F[m + 1][f[m]] ELSE f[i]]
  <2>2. f[m] \in V /\ m + 1 \in 1 .. n /\ m + 1 \in 0 .. n
    BY <2>1
  <2>3. F[m + 1][f[m]] \in V
    BY <1>0, <2>2
  <2>4. g \in [0 .. m + 1 -> V] /\ g[0] = v
    BY <2>1, <2>3
  <2>5. ASSUME NEW i \in 1 .. m + 1 PROVE g[i] = F[i][g[i - 1]]
    <3>1. i - 1 \in 0 .. m /\ g[i - 1] = f[i - 1]
      OBVIOUS
    <3>2. CASE i = m + 1
      BY <3>1, <3>2
    <3>3. CASE i # m + 1
      <4>1. i \in 1 .. m /\ g[i] = f[i]
        BY <3>3
      <4> HIDE DEF g
      <4> QED BY <2>1, <3>1, <4>1
    <3> QED BY <3>2, <3>3
  <2>6. Stages(m + 1, g)
    <3> HIDE DEF g
    <3> QED BY <2>4, <2>5
  <2> HIDE DEF Stages, g
  <2> QED BY <2>2, <2>6
<1> HIDE DEF G
<1>3. n \in G
  <2>1. \A k \in 0 .. n : k \in G
    BY <1>1, <1>2, StepByStep
  <2> QED BY <2>1
<1>4. PICK f : Stages(n, f)
  BY <1>3 DEF G
<1> QED BY <1>4 DEF AreStages

(* The powers, and the sums of bytes, are what their recursions say.       *)
LEMMA PowersAre ==
  ASSUME Radix \in Nat \ {0, 1}
  PROVE  C!Power[0] = 1 /\ \A k \in 1 .. 8 : C!Power[k] = Radix * C!Power[k - 1]
<1> DEFINE F == [i \in 1 .. 8 |-> [x \in Int |-> Radix * x]]
           Up(f) == [k \in 0 .. 8 |-> IF k = 0 THEN 1 ELSE Radix * f[k - 1]]
<1>1. F \in Steps(8, Int)
  BY DEF Steps
<1>2. \A i \in 1 .. 8, x \in Int : F[i][x] = Radix * x
  OBVIOUS
<1> HIDE DEF F
<1>3. PICK f : f \in [0 .. 8 -> Int] /\ f[0] = 1 /\ \A i \in 1 .. 8 : f[i] = F[i][f[i - 1]]
  <2>1. 8 \in Nat /\ 1 \in Int
    OBVIOUS
  <2>2. \E f : AreStages(f, 8, Int, 1, F)
    BY <1>1, <2>1, StagesExist, Zenon
  <2> QED BY <2>2, Zenon DEF AreStages
<1>4. ASSUME NEW i \in 0 .. 8 PROVE f[i] = Up(f)[i]
  <2>1. CASE i = 0
    BY <1>3, <2>1
  <2>2. CASE i # 0
    <3>1. i \in 1 .. 8 /\ i - 1 \in 0 .. 8
      BY <2>2
    <3>2. f[i] = F[i][f[i - 1]]
      BY <1>3, <3>1
    <3>3. f[i - 1] \in Int
      BY <1>3, <3>1
    <3> QED BY <1>2, <2>2, <3>1, <3>2, <3>3
  <2> QED BY <2>1, <2>2
<1>5. f = Up(f)
  <2>1. f = [i \in 0 .. 8 |-> f[i]]
    BY <1>3
  <2>2. Up(f) = [i \in 0 .. 8 |-> Up(f)[i]]
    OBVIOUS
  <2> QED BY <1>4, <2>1, <2>2
<1>6. C!Power = CHOOSE g : g = Up(g)
  BY Zenon DEF C!Power
<1> HIDE DEF Up
<1>7. C!Power = Up(C!Power)
  BY <1>5, <1>6
<1> QED BY <1>7 DEF Up

LEMMA PowersGrow ==
  ASSUME Radix \in Nat \ {0, 1}
  PROVE  /\ \A k \in 0 .. 8 : C!Power[k] \in Nat \ {0}
         /\ \A k, m \in 0 .. 8 : k <= m => C!Power[k] <= C!Power[m]
<1>1. C!Power[0] = 1 /\ \A k \in 1 .. 8 : C!Power[k] = Radix * C!Power[k - 1]
  BY PowersAre
<1> DEFINE G == {k \in 0 .. 8 : C!Power[k] \in Nat \ {0} /\ \A m \in 0 .. k : C!Power[m] <= C!Power[k]}
<1>2. 0 \in G
  BY <1>1
<1>3. ASSUME NEW k \in 0 .. 8 - 1, k \in G PROVE k + 1 \in G
  <2>1. k + 1 \in 1 .. 8 /\ k + 1 \in 0 .. 8 /\ (k + 1) - 1 = k
    OBVIOUS
  <2>2. C!Power[k + 1] = Radix * C!Power[k]
    BY <1>1, <2>1
  <2>3. C!Power[k] \in Nat \ {0} /\ \A m \in 0 .. k : C!Power[m] <= C!Power[k]
    BY <1>3
  <2>4. \A p \in Nat \ {0} : Radix * p \in Nat \ {0} /\ p <= Radix * p
    OBVIOUS
  <2>5. C!Power[k + 1] \in Nat \ {0} /\ C!Power[k] <= C!Power[k + 1]
    BY <2>2, <2>3, <2>4
  <2>6. ASSUME NEW m \in 0 .. k + 1 PROVE C!Power[m] <= C!Power[k + 1]
    <3>1. CASE m = k + 1
      BY <2>5, <3>1
    <3>2. CASE m # k + 1
      <4>1. m \in 0 .. k /\ m \in 0 .. 8
        BY <3>2
      <4>2. \A x, y, z \in Int : x <= y /\ y <= z => x <= z
        OBVIOUS
      <4>3. C!Power[m] \in Int
        BY <1>1, <2>3, <4>1
      <4> QED BY <2>3, <2>5, <4>1, <4>2, <4>3
    <3> QED BY <3>1, <3>2
  <2> QED BY <2>1, <2>5, <2>6
<1> HIDE DEF G
<1>4. \A k \in 0 .. 8 : k \in G
  BY <1>2, <1>3, StepByStep
<1>5. \A k, m \in 0 .. 8 : k <= m => k \in 0 .. m
  OBVIOUS
<1> QED BY <1>4, <1>5 DEF G

IsBytes(b, s) == b \in [1 .. s -> 0 .. Radix - 1]

LEMMA SumsAre ==
  ASSUME Radix \in Nat \ {0, 1}, NEW s \in 0 .. 8, NEW b, IsBytes(b, s)
  PROVE  /\ Len(b) = s /\ C!Sums(b)[0] = 0
         /\ \A i \in 1 .. s : C!Sums(b)[i] = C!Sums(b)[i - 1] + b[i] * C!Power[i - 1]
<1>0. b \in [1 .. s -> 0 .. Radix - 1] /\ Len(b) = s /\ s \in Nat
  BY DEF IsBytes
<1> DEFINE F == [i \in 1 .. s |-> [x \in Int |-> x + b[i] * C!Power[i - 1]]]
           Up(f) == [i \in 0 .. s |-> IF i = 0 THEN 0 ELSE f[i - 1] + b[i] * C!Power[i - 1]]
           chosen == CHOOSE f : f = [i \in 0 .. Len(b) |-> IF i = 0 THEN 0 ELSE f[i - 1] + b[i] * C!Power[i - 1]]
<1>1. F \in Steps(s, Int)
  <2>1. \A i \in 1 .. s : b[i] \in Int /\ C!Power[i - 1] \in Int
    <3>1. \A i \in 1 .. s : i - 1 \in 0 .. 8
      OBVIOUS
    <3>2. \A i \in 1 .. s : C!Power[i - 1] \in Nat \ {0}
      BY <3>1, PowersGrow
    <3> QED BY <1>0, <3>2
  <2>2. \A i \in 1 .. s, x \in Int : x + b[i] * C!Power[i - 1] \in Int
    BY <2>1
  <2> QED BY <2>2 DEF Steps
<1>2. \A i \in 1 .. s, x \in Int : F[i][x] = x + b[i] * C!Power[i - 1]
  OBVIOUS
<1> HIDE DEF F
<1>3. PICK f : f \in [0 .. s -> Int] /\ f[0] = 0 /\ \A i \in 1 .. s : f[i] = F[i][f[i - 1]]
  <2>1. 0 \in Int
    OBVIOUS
  <2>2. \E f : AreStages(f, s, Int, 0, F)
    BY <1>0, <1>1, <2>1, StagesExist, Zenon
  <2> QED BY <2>2, Zenon DEF AreStages
<1>4. ASSUME NEW i \in 0 .. s PROVE f[i] = Up(f)[i]
  <2>1. CASE i = 0
    BY <1>3, <2>1
  <2>2. CASE i # 0
    <3>1. i \in 1 .. s /\ i - 1 \in 0 .. s
      BY <2>2
    <3>2. f[i] = F[i][f[i - 1]] /\ f[i - 1] \in Int
      BY <1>3, <3>1
    <3> QED BY <1>2, <2>2, <3>1, <3>2
  <2> QED BY <2>1, <2>2
<1>5. f = Up(f)
  <2>1. f = [i \in 0 .. s |-> f[i]]
    BY <1>3
  <2>2. Up(f) = [i \in 0 .. s |-> Up(f)[i]]
    OBVIOUS
  <2> HIDE DEF Up
  <2> QED BY <1>4, <2>1, <2>2
<1>6. C!Sums(b) = chosen
  BY Zenon DEF C!Sums
<1>7. chosen = Up(chosen)
  <2>1. chosen = CHOOSE g : g = Up(g)
    BY <1>0, Zenon
  <2> HIDE DEF Up, chosen
  <2> QED BY <1>5, <2>1
<1> HIDE DEF chosen
<1> QED BY <1>0, <1>6, <1>7

LEMMA SumsInRange ==
  ASSUME Radix \in Nat \ {0, 1}, NEW s \in 0 .. 8, NEW b, IsBytes(b, s)
  PROVE  \A k \in 0 .. s : C!Sums(b)[k] \in 0 .. C!Power[k] - 1
<1> DEFINE G == {k \in 0 .. s : C!Sums(b)[k] \in 0 .. C!Power[k] - 1}
<1>1. /\ C!Sums(b)[0] = 0
      /\ \A i \in 1 .. s : C!Sums(b)[i] = C!Sums(b)[i - 1] + b[i] * C!Power[i - 1]
  BY SumsAre
<1>2. C!Power[0] = 1 /\ \A k \in 1 .. 8 : C!Power[k] = Radix * C!Power[k - 1]
  BY PowersAre
<1>3. 0 \in G
  BY <1>1, <1>2
<1>4. ASSUME NEW k \in 0 .. s - 1, k \in G PROVE k + 1 \in G
  <2>1. k + 1 \in 1 .. s /\ k + 1 \in 1 .. 8 /\ (k + 1) - 1 = k /\ k + 1 \in 0 .. s
    OBVIOUS
  <2>2. C!Sums(b)[k + 1] = C!Sums(b)[k] + b[k + 1] * C!Power[k] /\ C!Power[k + 1] = Radix * C!Power[k]
    BY <1>1, <1>2, <2>1
  <2>3. C!Power[k] \in Nat \ {0} /\ b[k + 1] \in 0 .. Radix - 1
    <3>1. k \in 0 .. 8
      OBVIOUS
    <3>2. C!Power[k] \in Nat \ {0}
      BY <3>1, PowersGrow
    <3> QED BY <2>1, <3>2 DEF IsBytes
  <2>4. \A p \in Nat \ {0} : \A v \in 0 .. p - 1, d \in 0 .. Radix - 1 : v + d * p \in 0 .. Radix * p - 1
    <3> SUFFICES ASSUME NEW p \in Nat \ {0}, NEW v \in 0 .. p - 1, NEW d \in 0 .. Radix - 1
                 PROVE  v + d * p \in 0 .. Radix * p - 1
      OBVIOUS
    <3>1. d * p \in Nat /\ d * p <= (Radix - 1) * p
      OBVIOUS
    <3>2. (Radix - 1) * p + p = Radix * p
      OBVIOUS
    <3> QED BY <3>1, <3>2
  <2>5. C!Sums(b)[k] \in 0 .. C!Power[k] - 1
    BY <1>4
  <2>6. C!Sums(b)[k + 1] \in 0 .. C!Power[k + 1] - 1
    BY <2>2, <2>3, <2>4, <2>5
  <2> QED BY <2>1, <2>6
<1> HIDE DEF G
<1>5. \A k \in 0 .. s : k \in G
  BY <1>3, <1>4, StepByStep
<1> QED BY <1>5 DEF G

(* Digits.                                                                 *)
LEMMA Divide ==
  ASSUME NEW r \in Nat \ {0}, NEW n \in Int
  PROVE  n % r \in 0 .. r - 1 /\ n \div r \in Int /\ n = (n % r) + r * (n \div r)
  OBVIOUS

LEMMA DivideUnique ==
  ASSUME NEW r \in Nat \ {0}, NEW v \in 0 .. r - 1, NEW q \in Int
  PROVE  (v + r * q) \div r = q /\ (v + r * q) % r = v
  OBVIOUS

LEMMA DivideTwice ==
  ASSUME NEW r \in Nat \ {0}, NEW p \in Nat \ {0}, NEW n \in Int
  PROVE  n \div (r * p) = (n \div p) \div r
<1> DEFINE q == n \div p
           v == n % p
           t == q \div r
           d == q % r
<1>1. v \in 0 .. p - 1 /\ q \in Int /\ n = v + p * q
  BY Divide
<1> HIDE DEF q, v
<1>2. d \in 0 .. r - 1 /\ t \in Int /\ q = d + r * t
  BY <1>1, Divide
<1> HIDE DEF d, t
<1>3. n = (v + p * d) + (r * p) * t
  <2>1. p * (d + r * t) = p * d + (r * p) * t
    BY <1>2
  <2> QED BY <1>1, <1>2, <2>1
<1>4. r * p \in Nat \ {0} /\ v + p * d \in 0 .. r * p - 1
  <2>1. p * d \in Nat /\ p * d <= p * (r - 1)
    BY <1>2
  <2>2. p * (r - 1) = r * p - p
    OBVIOUS
  <2>3. r * p \in Nat \ {0}
    OBVIOUS
  <2> HIDE DEF v, d
  <2> QED BY <1>1, <2>1, <2>2, <2>3
<1>5. n \div (r * p) = t
  <2> DEFINE w == r * p
             u == v + p * d
  <2>1. w \in Nat \ {0} /\ u \in 0 .. w - 1 /\ n = u + w * t
    BY <1>3, <1>4
  <2> HIDE DEF w, u
  <2>2. n \div w = t
    BY <1>2, <2>1, DivideUnique
  <2> QED BY <2>2 DEF w
<1> QED BY <1>5 DEF t, q

LEMMA DigitsAre ==
  ASSUME Radix \in Nat \ {0, 1}, NEW s \in 0 .. 8, NEW n \in Int
  PROVE  /\ IsBytes(C!ToBytes(n, s), s)
         /\ \A i \in 1 .. s : C!ToBytes(n, s)[i] = (n \div C!Power[i - 1]) % Radix
<1>1. \A i \in 1 .. s : C!Power[i - 1] \in Nat \ {0}
  <2>1. \A i \in 1 .. s : i - 1 \in 0 .. 8
    OBVIOUS
  <2> QED BY <2>1, PowersGrow
<1>2. ASSUME NEW i \in 1 .. s PROVE (n \div C!Power[i - 1]) % Radix \in 0 .. Radix - 1
  <2> DEFINE p == C!Power[i - 1]
  <2>1. p \in Nat \ {0}
    BY <1>1
  <2> HIDE DEF p
  <2>2. n \div p \in Int
    BY <2>1, Divide
  <2>3. (n \div p) % Radix \in 0 .. Radix - 1
    BY <2>2, Divide
  <2> QED BY <2>3 DEF p
<1> QED BY <1>2 DEF C!ToBytes, IsBytes

LEMMA SumOfDigits ==
  ASSUME Radix \in Nat \ {0, 1}, NEW s \in 0 .. 8, NEW n \in Int
  PROVE  \A k \in 0 .. s : n = C!Sums(C!ToBytes(n, s))[k] + C!Power[k] * (n \div C!Power[k])
<1> DEFINE b == C!ToBytes(n, s)
           G == {k \in 0 .. s : n = C!Sums(b)[k] + C!Power[k] * (n \div C!Power[k])}
<1>1. IsBytes(b, s) /\ \A i \in 1 .. s : b[i] = (n \div C!Power[i - 1]) % Radix
  BY DigitsAre
<1> HIDE DEF b
<1>2. /\ C!Sums(b)[0] = 0
      /\ \A i \in 1 .. s : C!Sums(b)[i] = C!Sums(b)[i - 1] + b[i] * C!Power[i - 1]
  BY <1>1, SumsAre
<1>3. C!Power[0] = 1 /\ \A k \in 1 .. 8 : C!Power[k] = Radix * C!Power[k - 1]
  BY PowersAre
<1>4. 0 \in G
  BY <1>2, <1>3
<1>5. ASSUME NEW k \in 0 .. s - 1, k \in G PROVE k + 1 \in G
  <2>1. k + 1 \in 1 .. s /\ k + 1 \in 1 .. 8 /\ (k + 1) - 1 = k /\ k + 1 \in 0 .. s /\ k \in 0 .. 8 /\ k \in 0 .. s
    OBVIOUS
  <2> DEFINE p == C!Power[k]
             q == n \div p
             v == C!Sums(b)[k]
  <2>2. C!Sums(b)[k + 1] = v + (q % Radix) * p /\ C!Power[k + 1] = Radix * p
    BY <1>1, <1>2, <1>3, <2>1
  <2>3. p \in Nat \ {0}
    BY <2>1, PowersGrow
  <2>4. n = v + p * q
    BY <1>5
  <2>5. v \in Int
    BY <1>1, <2>1, <2>3, SumsInRange
  <2> HIDE DEF p, v
  <2>6. n \div (Radix * p) = q \div Radix /\ q \in Int
    BY <2>3, DivideTwice, Divide
  <2> HIDE DEF q
  <2>7. q % Radix \in Int /\ q \div Radix \in Int /\ q = (q % Radix) + Radix * (q \div Radix)
    BY <2>6
  <2>8. \A d, t \in Int : p * (d + Radix * t) = d * p + (Radix * p) * t
    BY <2>3
  <2>9. n = (v + (q % Radix) * p) + (Radix * p) * (q \div Radix)
    BY <2>3, <2>4, <2>5, <2>7, <2>8
  <2>10. n = C!Sums(b)[k + 1] + C!Power[k + 1] * (n \div C!Power[k + 1])
    BY <2>2, <2>6, <2>9
  <2> QED BY <2>1, <2>10
<1> HIDE DEF G
<1>6. \A k \in 0 .. s : k \in G
  BY <1>4, <1>5, StepByStep
<1> QED BY <1>6 DEF G, b

(* What has been written as bytes is read again, if it is in the range.    *)
RangeOf(s, unsigned) ==
  IF unsigned THEN 0 .. C!Power[s] - 1 ELSE - (C!Power[s] \div 2) .. (C!Power[s] \div 2) - 1

LEMMA ReadAgain ==
  ASSUME Radix \in Nat \ {0, 1}, NEW s \in 0 .. 8, NEW u, NEW n \in RangeOf(s, u)
  PROVE  n \in Int /\ C!FromBytes(C!ToBytes(n, s), u) = n
<1> DEFINE b == C!ToBytes(n, s)
           p == C!Power[s]
           v == C!Sums(b)[s]
           q == n \div p
<1>1. p \in Nat \ {0}
  BY PowersGrow
<1>2. n \in Int /\ (u => n \in 0 .. p - 1) /\ (~u => n \in - (p \div 2) .. (p \div 2) - 1)
  BY <1>1 DEF RangeOf
<1>3. IsBytes(b, s)
  BY <1>2, DigitsAre
<1>4. Len(b) = s
  BY <1>3, SumsAre
<1>5. n = v + p * q
  <2>1. s \in 0 .. s
    OBVIOUS
  <2> QED BY <1>2, <2>1, SumOfDigits
<1>6. v \in 0 .. p - 1
  <2>1. s \in 0 .. s
    OBVIOUS
  <2> HIDE DEF b
  <2> QED BY <1>3, <2>1, SumsInRange
<1>7. q \in Int
  <2> HIDE DEF p
  <2> QED BY <1>1, <1>2, Divide
<1>8. C!FromBytes(b, u) = IF u \/ 2 * v < p THEN v ELSE v - p
  <2> HIDE DEF b
  <2> QED BY <1>4, Zenon DEF C!FromBytes
<1> HIDE DEF b, p, v, q
<1>9. CASE n \in 0 .. p - 1
  <2>1. q = 0
    BY <1>1, <1>5, <1>6, <1>7, <1>9
  <2>2. v = n
    BY <1>1, <1>5, <1>6, <2>1
  <2>3. ~u => 2 * v < p
    BY <1>1, <1>2, <2>2
  <2> QED BY <1>2, <1>8, <2>2, <2>3 DEF b
<1>10. CASE n \notin 0 .. p - 1
  <2>1. ~u /\ n \in - (p \div 2) .. -1
    BY <1>1, <1>2, <1>10
  <2>2. n \in - p .. -1
    BY <1>1, <2>1
  <2>3. q = -1
    BY <1>1, <1>5, <1>6, <1>7, <2>2
  <2>4. v = n + p
    BY <1>1, <1>5, <1>6, <2>3
  <2>5. ~(2 * v < p)
    BY <1>1, <2>1, <2>4
  <2>6. v - p = n
    BY <1>1, <1>2, <2>4
  <2> QED BY <1>2, <1>8, <2>1, <2>5, <2>6 DEF b
<1> QED BY <1>9, <1>10

(* Bytes that have been read as a number are those of the number.          *)
LEMMA WrittenAgain ==
  ASSUME Radix \in Nat \ {0, 1}, NEW s \in 0 .. 8, NEW u, NEW b, IsBytes(b, s)
  PROVE  C!FromBytes(b, u) \in Int /\ C!ToBytes(C!FromBytes(b, u), s) = b
<1> DEFINE m == C!FromBytes(b, u)
           Rest(k) == \E t \in Int : m = C!Sums(b)[k] + C!Power[k] * t
           G == {j \in 0 .. s : Rest(s - j)}
<1>1. /\ Len(b) = s /\ C!Sums(b)[0] = 0
      /\ \A i \in 1 .. s : C!Sums(b)[i] = C!Sums(b)[i - 1] + b[i] * C!Power[i - 1]
  BY SumsAre
<1>2. C!Power[0] = 1 /\ \A k \in 1 .. 8 : C!Power[k] = Radix * C!Power[k - 1]
  BY PowersAre
<1>3. \A k \in 0 .. s : C!Sums(b)[k] \in 0 .. C!Power[k] - 1 /\ C!Power[k] \in Nat \ {0} /\ C!Sums(b)[k] \in Int
  <2>1. \A k \in 0 .. s : k \in 0 .. 8
    OBVIOUS
  <2>2. \A k \in 0 .. s : C!Power[k] \in Nat \ {0}
    BY <2>1, PowersGrow
  <2>3. \A k \in 0 .. s : C!Sums(b)[k] \in 0 .. C!Power[k] - 1
    BY SumsInRange
  <2> QED BY <2>2, <2>3
<1>4. s \in Nat /\ s \in 0 .. s
  OBVIOUS
<1>5. \E e \in Int : m = C!Sums(b)[s] + C!Power[s] * e
  <2>1. m = C!Sums(b)[s] \/ m = C!Sums(b)[s] - C!Power[s]
    BY <1>1, Zenon DEF C!FromBytes
  <2>2. CASE m = C!Sums(b)[s]
    <3>1. m = C!Sums(b)[s] + C!Power[s] * 0
      BY <1>3, <1>4, <2>2
    <3> QED BY <3>1
  <2>3. CASE m = C!Sums(b)[s] - C!Power[s]
    <3>1. m = C!Sums(b)[s] + C!Power[s] * (-1)
      BY <1>3, <1>4, <2>3
    <3> QED BY <3>1
  <2> QED BY <2>1, <2>2, <2>3
<1>6. m \in Int
  BY <1>3, <1>4, <1>5
<1> HIDE DEF m
(* The number less the digits up to k + 1 is a multiple.                   *)
<1>7. ASSUME NEW k \in 0 .. s - 1, Rest(k + 1)
      PROVE  Rest(k) /\ (m \div C!Power[k]) % Radix = b[k + 1]
  <2>1. k + 1 \in 1 .. s /\ k + 1 \in 1 .. 8 /\ (k + 1) - 1 = k /\ k \in 0 .. s
    OBVIOUS
  <2>2. PICK t \in Int : m = C!Sums(b)[k + 1] + C!Power[k + 1] * t
    BY <1>7
  <2> DEFINE p == C!Power[k]
             v == C!Sums(b)[k]
             d == b[k + 1]
  <2>3. C!Sums(b)[k + 1] = v + d * p /\ C!Power[k + 1] = Radix * p
    BY <1>1, <1>2, <2>1
  <2>4. p \in Nat \ {0} /\ v \in 0 .. p - 1 /\ v \in Int /\ d \in 0 .. Radix - 1
    BY <1>3, <2>1 DEF IsBytes
  <2> HIDE DEF p, v, d
  <2>5. m = v + p * (d + Radix * t) /\ d + Radix * t \in Int
    <3>1. p * (d + Radix * t) = d * p + (Radix * p) * t
      BY <2>4
    <3> QED BY <2>2, <2>3, <2>4, <3>1
  <2> DEFINE w == d + Radix * t
  <2> HIDE DEF w
  <2>6. m = v + p * w /\ w \in Int
    BY <2>5 DEF w
  <2>7. m \div p = w
    BY <2>4, <2>6, DivideUnique
  <2>8. w % Radix = d
    BY <2>4, DivideUnique DEF w
  <2> QED BY <2>6, <2>7, <2>8 DEF p, v, d
<1> HIDE DEF Rest
<1>8. 0 \in G
  <2>1. Rest(s)
    BY <1>5, Zenon DEF Rest
  <2>2. s - 0 = s /\ 0 \in 0 .. s
    BY <1>4
  <2> QED BY <2>1, <2>2
<1>9. ASSUME NEW j \in 0 .. s - 1, j \in G PROVE j + 1 \in G
  <2>1. s - (j + 1) \in 0 .. s - 1 /\ (s - (j + 1)) + 1 = s - j /\ j + 1 \in 0 .. s
    BY <1>4
  <2>2. Rest(s - j)
    BY <1>9
  <2>3. Rest(s - (j + 1))
    BY <1>7, <2>1, <2>2
  <2> QED BY <2>1, <2>3
<1>10. \A j \in 0 .. s : j \in G
  <2> HIDE DEF G
  <2> QED BY <1>4, <1>8, <1>9, StepByStep
<1>11. ASSUME NEW i \in 1 .. s PROVE C!ToBytes(m, s)[i] = b[i]
  <2>1. s - i \in 0 .. s /\ s - (s - i) = i /\ i - 1 \in 0 .. s - 1 /\ (i - 1) + 1 = i
    BY <1>4
  <2>2. Rest(i)
    BY <1>10, <2>1
  <2>3. (m \div C!Power[i - 1]) % Radix = b[i]
    BY <1>7, <2>1, <2>2
  <2>4. C!ToBytes(m, s)[i] = (m \div C!Power[i - 1]) % Radix
    BY <1>6, DigitsAre
  <2> QED BY <2>3, <2>4
<1>12. C!ToBytes(m, s) = b
  <2>1. IsBytes(C!ToBytes(m, s), s)
    BY <1>6, DigitsAre
  <2> DEFINE c == C!ToBytes(m, s)
  <2> HIDE DEF c
  <2>2. IsBytes(c, s) /\ \A i \in 1 .. s : c[i] = b[i]
    BY <1>11, <2>1 DEF c
  <2>3. c = b
    BY <2>2 DEF IsBytes
  <2> QED BY <2>3 DEF c
<1> QED BY <1>6, <1>12 DEF m

LEMMA ZeroIsRead ==
  ASSUME Radix \in Nat \ {0, 1}, NEW s \in 0 .. 8, NEW u
  PROVE  C!FromBytes(C!ToBytes(0, s), u) = 0
<1> DEFINE b == C!ToBytes(0, s)
           p == C!Power[s]
           v == C!Sums(b)[s]
<1>1. p \in Nat \ {0} /\ s \in 0 .. s /\ 0 \in Int
  BY PowersGrow
<1>2. IsBytes(b, s)
  BY <1>1, DigitsAre
<1>3. 0 = v + p * (0 \div p)
  BY <1>1, SumOfDigits
<1> HIDE DEF b
<1>4. v \in 0 .. p - 1 /\ Len(b) = s
  BY <1>1, <1>2, SumsInRange, SumsAre
<1>5. C!FromBytes(b, u) = IF u \/ 2 * v < p THEN v ELSE v - p
  BY <1>4, Zenon DEF C!FromBytes
<1> HIDE DEF v, p
<1>6. 0 \div p = 0
  BY <1>1
<1>7. v = 0
  BY <1>1, <1>3, <1>4, <1>6
<1> QED BY <1>1, <1>5, <1>7 DEF b

LEMMA ShorterIsPrefix ==
  ASSUME NEW s \in 0 .. 8, NEW n
  PROVE  SubSeq(C!ToBytes(n, 8), 1, s) = C!ToBytes(n, s)
<1>1. \A i \in 1 .. s : i \in 1 .. 8
  OBVIOUS
<1>2. C!ToBytes(n, 8) = [i \in 1 .. 8 |-> (n \div C!Power[i - 1]) % Radix]
  BY DEF C!ToBytes
<1> DEFINE b == C!ToBytes(n, 8)
<1>3. \A i \in 1 .. s : b[i] = (n \div C!Power[i - 1]) % Radix
  BY <1>1, <1>2
<1> HIDE DEF b
<1>4. SubSeq(b, 1, s) = [i \in 1 .. s |-> b[i]]
  OBVIOUS
<1>5. SubSeq(b, 1, s) = [i \in 1 .. s |-> (n \div C!Power[i - 1]) % Radix]
  BY <1>3, <1>4
<1> QED BY <1>5 DEF b, C!ToBytes

---------------------------------------------------------------------------
(* Bytes in a buffer.                                                      *)
LEMMA PartOf ==
  ASSUME NEW n \in Nat, NEW b, IsBytes(b, n), NEW a \in Nat, NEW j \in Nat
  PROVE  SubSeq(b, a + 1, a + j) = [i \in 1 .. j |-> b[a + i]]
<1>1. (a + j) - (a + 1) + 1 = j
  OBVIOUS
<1>2. \A i \in 1 .. j : i + (a + 1) - 1 = a + i
  OBVIOUS
<1>3. SubSeq(b, a + 1, a + j) = [i \in 1 .. (a + j) - (a + 1) + 1 |-> b[i + (a + 1) - 1]]
  OBVIOUS
<1> QED BY <1>1, <1>2, <1>3

IsStored(w, b, n, at, k, p) ==
  /\ IsBytes(w, n)
  /\ SubSeq(w, at + 1, at + k) = p
  /\ \A a, j \in Nat : a + j <= n /\ (a + j <= at \/ at + k <= a) =>
       SubSeq(w, a + 1, a + j) = SubSeq(b, a + 1, a + j)

LEMMA WrittenIsStored ==
  ASSUME NEW n \in Nat, NEW b, IsBytes(b, n), NEW at \in Nat, NEW k \in Nat, at + k <= n,
         NEW p, IsBytes(p, k)
  PROVE  IsStored(C!Written(b, at, p), b, n, at, k, p)
<1> DEFINE w == C!Written(b, at, p)
<1>1. DOMAIN b = 1 .. n /\ Len(p) = k /\ p = [i \in 1 .. k |-> p[i]]
  BY DEF IsBytes
<1>2. w = [i \in 1 .. n |-> IF at < i /\ i <= at + k THEN p[i - at] ELSE b[i]]
  BY <1>1 DEF C!Written
<1>3. ASSUME NEW i \in 1 .. n PROVE w[i] \in 0 .. Radix - 1
  <2>1. CASE at < i /\ i <= at + k
    <3>1. i - at \in 1 .. k
      BY <2>1
    <3> QED BY <1>2, <2>1, <3>1 DEF IsBytes
  <2>2. CASE ~(at < i /\ i <= at + k)
    BY <1>2, <2>2 DEF IsBytes
  <2> QED BY <2>1, <2>2
<1>4. IsBytes(w, n)
  <2>1. DOMAIN w = 1 .. n /\ w = [i \in 1 .. n |-> w[i]]
    BY <1>2
  <2> HIDE DEF w
  <2> QED BY <1>3, <2>1 DEF IsBytes
<1>5. \A i \in 1 .. k : w[at + i] = p[i]
  <2>1. \A i \in 1 .. k : at + i \in 1 .. n /\ at < at + i /\ at + i <= at + k /\ (at + i) - at = i
    OBVIOUS
  <2> QED BY <1>2, <2>1
<1>6. \A i \in 1 .. n : i <= at \/ at + k < i => w[i] = b[i]
  <2>1. \A i \in 1 .. n : i <= at \/ at + k < i => ~(at < i /\ i <= at + k)
    OBVIOUS
  <2> QED BY <1>2, <2>1
<1> HIDE DEF w
<1>7. SubSeq(w, at + 1, at + k) = p
  <2>1. SubSeq(w, at + 1, at + k) = [i \in 1 .. k |-> w[at + i]]
    BY <1>4, PartOf
  <2> QED BY <1>1, <1>5, <2>1
<1>8. ASSUME NEW a \in Nat, NEW j \in Nat, a + j <= n, a + j <= at \/ at + k <= a
      PROVE  SubSeq(w, a + 1, a + j) = SubSeq(b, a + 1, a + j)
  <2>1. /\ SubSeq(w, a + 1, a + j) = [i \in 1 .. j |-> w[a + i]]
        /\ SubSeq(b, a + 1, a + j) = [i \in 1 .. j |-> b[a + i]]
    BY <1>4, PartOf
  <2>2. \A i \in 1 .. j : a + i \in 1 .. n /\ (a + i <= at \/ at + k < a + i)
    BY <1>8
  <2>3. \A i \in 1 .. j : w[a + i] = b[a + i]
    BY <1>6, <2>2
  <2> QED BY <2>1, <2>3
<1> QED BY <1>4, <1>7, <1>8, Zenon DEF w, IsStored

---------------------------------------------------------------------------
(* Scalars.                                                                *)
LEMMA SizesAre ==
  ASSUME NEW t
  PROVE  /\ C!ScalarSize(t) \in 0 .. 8 /\ C!CSize(t) \in 0 .. 8
         /\ t = "pointer" => C!ScalarSize(t) = 8 /\ C!CSize(t) = 8 /\ C!CUnsigned(t) /\ C!Unsigned(t)
<1>1. C!ScalarSize(t) \in {0, 1, 2, 4, 8}
  BY DEF C!ScalarSize
<1>2. C!CSize(t) \in {0, 1, 2, 4, 8}
  BY <1>1 DEF C!CSize
<1>3. t = "pointer" => C!ScalarSize(t) = 8 /\ C!CSize(t) = 8 /\ C!CUnsigned(t) /\ C!Unsigned(t)
  BY DEF C!ScalarSize, C!CSize, C!CUnsigned, C!Unsigned, C!Canonical
<1> QED BY <1>1, <1>2, <1>3

(* What a scalar is packed as is what a C programmer expects of it.        *)
LEMMA ScalarIsMeant ==
  ASSUME C!ForeignAssumption, NEW t, C!ScalarSize(t) = C!CSize(t), NEW v \in C!Values \cup {C!Nothing}
  PROVE  /\ IsBytes(C!PackScalar(t, v), C!CSize(t))
         /\ C!PackScalar(t, v) = C!ToBytes(C!Meant(t, v), C!CSize(t))
         /\ C!FromBytes(C!ToBytes(C!Meant(t, v), C!CSize(t)), C!CUnsigned(t)) = C!Meant(t, v)
<1> DEFINE s == C!CSize(t)
           b == C!PackScalar(t, v)
           m == C!Meant(t, v)
<1>1. Radix \in Nat \ {0, 1} /\ s \in 0 .. 8 /\ 0 \in Int /\ 8 \in 0 .. 8 /\ 1 \in Int
  BY SizesAre DEF C!ForeignAssumption
<1>2. \/ v.kind = "text" /\ v.number \in Int
      \/ v.kind = "bytes" /\ v.bytes = C!ToBytes(1, 8)
      \/ v.kind = "none"
  <2>1. CASE v = C!Nothing
    BY <2>1 DEF C!Nothing
  <2>2. CASE v = C!Bytes(C!ToBytes(1, 8))
    BY <2>2 DEF C!Bytes
  <2>3. ASSUME NEW n \in Numbers, v = C!Text(n) PROVE v.kind = "text" /\ v.number \in Int
    BY <2>3 DEF C!Text, C!ForeignAssumption
  <2> QED BY <2>1, <2>2, <2>3 DEF C!Values
<1>3. ASSUME NEW n \in Int, b = C!ToBytes(n, s), m = C!FromBytes(b, C!CUnsigned(t))
      PROVE  IsBytes(b, s) /\ b = C!ToBytes(m, s) /\ C!FromBytes(C!ToBytes(m, s), C!CUnsigned(t)) = m
  <2>1. IsBytes(b, s)
    BY <1>1, <1>3, DigitsAre
  <2>2. C!ToBytes(C!FromBytes(b, C!CUnsigned(t)), s) = b
    BY <1>1, <2>1, WrittenAgain
  <2> QED BY <1>3, <2>1, <2>2
<1>4. CASE t = "pointer"
  <2>1. s = 8 /\ C!CUnsigned(t)
    BY <1>4, SizesAre
  <2>2. m = C!FromBytes(b, TRUE)
    BY <1>4, Zenon DEF C!Meant
  <2>3. b = C!ToBytes(1, 8) \/ b = C!ToBytes(0, 8)
    BY <1>2, <1>4, Zenon DEF C!PackScalar
  <2>4. \E n \in Int : b = C!ToBytes(n, s)
    BY <1>1, <2>1, <2>3, Zenon
  <2>5. C!CUnsigned(t) = TRUE
    BY <2>1 DEF C!CUnsigned, C!Unsigned
  <2> HIDE DEF b, m, s
  <2> QED BY <1>3, <2>2, <2>4, <2>5, Zenon DEF b, m, s
<1>5. CASE t # "pointer" /\ v.kind = "text"
  <2>1. b = C!ToBytes(v.number, s) /\ v.number \in Int
    BY <1>2, <1>5 DEF C!PackScalar
  <2>2. m = C!FromBytes(C!ToBytes(v.number, s), C!CUnsigned(t))
    BY <1>5, Zenon DEF C!Meant
  <2> HIDE DEF b, m, s
  <2> QED BY <1>3, <2>1, <2>2, Zenon DEF b, m, s
<1>6. CASE t # "pointer" /\ v.kind # "text"
  <2>1. b = C!ToBytes(0, s) /\ m = 0
    BY <1>6, Zenon DEF C!PackScalar, C!Meant
  <2>2. C!FromBytes(C!ToBytes(0, s), C!CUnsigned(t)) = 0 /\ IsBytes(C!ToBytes(0, s), s)
    BY <1>1, ZeroIsRead, DigitsAre
  <2> HIDE DEF b, m, s
  <2> QED BY <2>1, <2>2, Zenon DEF b, m, s
<1> QED BY <1>4, <1>5, <1>6, Zenon

---------------------------------------------------------------------------
(* Structures.                                                             *)
LEMMA LeavesAre ==
  ASSUME C!ForeignAssumption, NEW s \in DOMAIN Structs
  PROVE  /\ Structs[s].size \in Nat /\ Len(C!Leaves[s]) \in Nat
         /\ \A i \in 1 .. Len(C!Leaves[s]) : C!Leaves[s][i] \in C!LeavesIn(s)
         /\ \A l \in C!LeavesIn(s) :
              /\ \E i \in 1 .. Len(C!Leaves[s]) : l = C!Leaves[s][i]
              /\ l.at \in Nat /\ l.at + C!CSize(l.type) <= Structs[s].size
              /\ C!ScalarSize(l.type) = C!CSize(l.type)
         /\ \A l, m \in C!LeavesIn(s) : l = m \/ l.at + C!CSize(l.type) <= m.at \/ m.at + C!CSize(m.type) <= l.at
<1> DEFINE Leaf == [path : Seq(Nat), type : STRING, at : Nat]
<1>1. C!Leaves[s] \in Seq(Leaf)
  BY DEF C!ForeignAssumption
<1>2. C!LeavesIn(s) = {C!Leaves[s][i] : i \in DOMAIN C!Leaves[s]}
  BY Zenon DEF C!LeavesIn, C!ToSet
<1> HIDE DEF Leaf
<1>3. DOMAIN C!Leaves[s] = 1 .. Len(C!Leaves[s]) /\ Len(C!Leaves[s]) \in Nat
  BY <1>1
<1>4. \A i \in 1 .. Len(C!Leaves[s]) : C!Leaves[s][i] \in Leaf
  BY <1>1
<1>5. \A l \in C!LeavesIn(s) : l.at \in Nat
  BY <1>2, <1>3, <1>4 DEF Leaf
<1>6. Structs[s].size \in Nat
  BY DEF C!ForeignAssumption
<1>7. \A l \in C!LeavesIn(s) : l.at + C!ScalarSize(l.type) <= Structs[s].size /\ C!ScalarSize(l.type) = C!CSize(l.type)
  BY Zenon DEF C!ForeignAssumption
<1>8. \A l, m \in C!LeavesIn(s) : l = m \/ l.at + C!ScalarSize(l.type) <= m.at \/ m.at + C!ScalarSize(m.type) <= l.at
  BY Zenon DEF C!ForeignAssumption
<1>9. \A l, m \in C!LeavesIn(s) : l = m \/ l.at + C!CSize(l.type) <= m.at \/ m.at + C!CSize(m.type) <= l.at
  BY <1>7, <1>8, Zenon
<1>10. \A l \in C!LeavesIn(s) : l.at + C!CSize(l.type) <= Structs[s].size
  BY <1>7, Zenon
<1>11. \A l \in C!LeavesIn(s) : \E i \in 1 .. Len(C!Leaves[s]) : l = C!Leaves[s][i]
  BY <1>2, <1>3, Zenon
<1>12. \A i \in 1 .. Len(C!Leaves[s]) : C!Leaves[s][i] \in C!LeavesIn(s)
  BY <1>2, <1>3, Zenon
<1> QED BY <1>3, <1>5, <1>6, <1>7, <1>9, <1>10, <1>11, <1>12, Zenon

LEMMA PiecesAre ==
  ASSUME C!ForeignAssumption, NEW s \in DOMAIN Structs,
         NEW source \in [C!LeavesIn(s) -> C!Values \cup {C!Nothing}], NEW l \in C!LeavesIn(s)
  PROVE  IsBytes(C!PackScalar(l.type, source[l]), C!CSize(l.type))
<1>1. C!ScalarSize(l.type) = C!CSize(l.type)
  BY LeavesAre
<1>2. source[l] \in C!Values \cup {C!Nothing}
  BY Zenon
<1> QED BY <1>1, <1>2, ScalarIsMeant, Zenon

IsKept(w, b, s, l, p) ==
  /\ IsBytes(w, Structs[s].size)
  /\ C!Stored(w, l, C!CSize(l.type)) = p
  /\ \A m \in C!LeavesIn(s) : m # l => C!Stored(w, m, C!CSize(m.type)) = C!Stored(b, m, C!CSize(m.type))

LEMMA PieceIsStored ==
  ASSUME C!ForeignAssumption, NEW s \in DOMAIN Structs, NEW l \in C!LeavesIn(s),
         NEW b, IsBytes(b, Structs[s].size), NEW p, IsBytes(p, C!CSize(l.type))
  PROVE  IsKept(C!Written(b, l.at, p), b, s, l, p)
<1> DEFINE n == Structs[s].size
           w == C!Written(b, l.at, p)
<1>1. n \in Nat /\ l.at \in Nat /\ l.at + C!CSize(l.type) <= n
  BY LeavesAre
<1>2. \A m \in C!LeavesIn(s) : C!CSize(m.type) \in Nat
  <2>1. \A m \in C!LeavesIn(s) : C!CSize(m.type) \in 0 .. 8
    BY SizesAre
  <2> QED BY <2>1
<1>3. \A m \in C!LeavesIn(s) :
        /\ m.at \in Nat /\ m.at + C!CSize(m.type) <= n
        /\ m # l => m.at + C!CSize(m.type) <= l.at \/ l.at + C!CSize(l.type) <= m.at
  BY LeavesAre
<1> HIDE DEF n
<1>4. IsBytes(b, n) /\ C!CSize(l.type) \in Nat
  BY <1>2 DEF n
<1> HIDE DEF w
<1>5. /\ IsBytes(w, n)
      /\ SubSeq(w, l.at + 1, l.at + C!CSize(l.type)) = p
      /\ \A a, j \in Nat : a + j <= n /\ (a + j <= l.at \/ l.at + C!CSize(l.type) <= a) =>
           SubSeq(w, a + 1, a + j) = SubSeq(b, a + 1, a + j)
  <2> DEFINE at == l.at
             k == C!CSize(l.type)
  <2>1. at \in Nat /\ k \in Nat /\ at + k <= n /\ IsBytes(p, k) /\ w = C!Written(b, at, p)
    BY <1>1, <1>4 DEF w
  <2> HIDE DEF at, k
  <2>2. n \in Nat /\ IsBytes(b, n)
    BY <1>1, <1>4
  <2>3. IsStored(C!Written(b, at, p), b, n, at, k, p)
    BY <2>1, <2>2, WrittenIsStored
  <2> QED BY <2>1, <2>3, Zenon DEF at, k, IsStored
<1>6. ASSUME NEW m \in C!LeavesIn(s), m # l
      PROVE  SubSeq(w, m.at + 1, m.at + C!CSize(m.type)) = SubSeq(b, m.at + 1, m.at + C!CSize(m.type))
  <2>1. /\ C!CSize(m.type) \in Nat /\ m.at \in Nat /\ m.at + C!CSize(m.type) <= n
        /\ m.at + C!CSize(m.type) <= l.at \/ l.at + C!CSize(l.type) <= m.at
    BY <1>2, <1>3, <1>6
  <2> QED BY <1>5, <2>1, Zenon
<1> QED BY <1>5, <1>6, Zenon DEF C!Stored, n, w, IsKept

LEMMA PackingIs ==
  ASSUME C!ForeignAssumption, NEW s \in DOMAIN Structs,
         NEW source \in [C!LeavesIn(s) -> C!Values \cup {C!Nothing}]
  PROVE  /\ C!Packing(s, source)[0] = C!Zeros(Structs[s].size)
         /\ \A i \in 1 .. Len(C!Leaves[s]) :
              C!Packing(s, source)[i] =
                C!Written(C!Packing(s, source)[i - 1], C!Leaves[s][i].at,
                        C!PackScalar(C!Leaves[s][i].type, source[C!Leaves[s][i]]))
<1> DEFINE n == Len(C!Leaves[s])
           size == Structs[s].size
           Piece(i) == C!PackScalar(C!Leaves[s][i].type, source[C!Leaves[s][i]])
           V == [1 .. size -> 0 .. Radix - 1]
           F == [i \in 1 .. n |-> [x \in V |-> C!Written(x, C!Leaves[s][i].at, Piece(i))]]
           Up(f) == [i \in 0 .. n |-> IF i = 0 THEN C!Zeros(size)
                                     ELSE C!Written(f[i - 1], C!Leaves[s][i].at, Piece(i))]
<1>1. n \in Nat /\ size \in Nat
  BY LeavesAre
<1>2. ASSUME NEW i \in 1 .. n, NEW x \in V PROVE C!Written(x, C!Leaves[s][i].at, Piece(i)) \in V
  <2>1. C!Leaves[s][i] \in C!LeavesIn(s)
    BY LeavesAre
  <2> DEFINE l == C!Leaves[s][i]
             p == Piece(i)
  <2>2. IsBytes(p, C!CSize(l.type))
    BY <2>1, PiecesAre
  <2>3. IsBytes(x, Structs[s].size)
    BY DEF IsBytes
  <2> HIDE DEF p
  <2>4. IsBytes(C!Written(x, l.at, p), Structs[s].size)
    <3> HIDE DEF l
    <3>1. l \in C!LeavesIn(s)
      BY <2>1 DEF l
    <3>2. IsKept(C!Written(x, l.at, p), x, s, l, p)
      BY <2>2, <2>3, <3>1, PieceIsStored
    <3> QED BY <3>2 DEF IsKept
  <2> QED BY <2>4 DEF IsBytes, p
<1>3. F \in Steps(n, V)
  <2> HIDE DEF V, Piece, n
  <2> QED BY <1>2 DEF Steps
<1>4. \A i \in 1 .. n, x \in V : F[i][x] = C!Written(x, C!Leaves[s][i].at, Piece(i))
  <2> HIDE DEF V, Piece, n
  <2> QED OBVIOUS
<1>5. C!Zeros(size) \in V
  BY <1>1 DEF C!Zeros, C!ForeignAssumption
<1> HIDE DEF F, V
<1>6. PICK f : f \in [0 .. n -> V] /\ f[0] = C!Zeros(size) /\ \A i \in 1 .. n : f[i] = F[i][f[i - 1]]
  <2> HIDE DEF n, size
  <2>1. \E f : AreStages(f, n, V, C!Zeros(size), F)
    BY <1>1, <1>3, <1>5, StagesExist, Zenon
  <2> QED BY <2>1, Zenon DEF AreStages
<1> HIDE DEF n, Piece
<1>7. ASSUME NEW i \in 0 .. n PROVE f[i] = Up(f)[i]
  <2>1. CASE i = 0
    BY <1>6, <2>1
  <2>2. CASE i # 0
    <3>1. i \in 1 .. n /\ i - 1 \in 0 .. n
      BY <1>1, <2>2
    <3>2. f[i] = F[i][f[i - 1]] /\ f[i - 1] \in V
      BY <1>6, <3>1
    <3>3. f[i] = C!Written(f[i - 1], C!Leaves[s][i].at, Piece(i))
      BY <1>4, <3>1, <3>2, Zenon
    <3>4. Up(f)[i] = C!Written(f[i - 1], C!Leaves[s][i].at, Piece(i))
      BY <2>2
    <3> QED BY <3>3, <3>4
  <2> QED BY <2>1, <2>2
<1>8. f = Up(f)
  <2>1. f = [i \in 0 .. n |-> f[i]]
    BY <1>6
  <2>2. Up(f) = [i \in 0 .. n |-> Up(f)[i]]
    OBVIOUS
  <2> HIDE DEF Up
  <2> QED BY <1>7, <2>1, <2>2
<1> DEFINE chosen == CHOOSE g : g = Up(g)
<1>9. C!Packing(s, source) = chosen
  BY Zenon DEF C!Packing, n, Piece
<1>10. chosen = Up(chosen)
  <2> HIDE DEF Up
  <2> QED BY <1>8
<1> HIDE DEF chosen
<1>11. chosen[0] = C!Zeros(size)
  BY <1>1, <1>10
<1>12. \A i \in 1 .. n : chosen[i] = C!Written(chosen[i - 1], C!Leaves[s][i].at, Piece(i))
  <2>1. \A i \in 1 .. n : i \in 0 .. n /\ i # 0
    BY <1>1
  <2>2. \A i \in 0 .. n : chosen[i] = Up(chosen)[i]
    BY <1>10, Zenon
  <2> QED BY <2>1, <2>2
<1> QED BY <1>9, <1>11, <1>12 DEF n, Piece

LEMMA PackedIs ==
  ASSUME C!ForeignAssumption, NEW s \in DOMAIN Structs,
         NEW source \in [C!LeavesIn(s) -> C!Values \cup {C!Nothing}]
  PROVE  /\ IsBytes(C!Packed(s, source), Structs[s].size)
         /\ \A l \in C!LeavesIn(s) :
              C!Stored(C!Packed(s, source), l, C!CSize(l.type)) = C!PackScalar(l.type, source[l])
<1> DEFINE n == Len(C!Leaves[s])
           leaf == C!Leaves[s]
           P == C!Packing(s, source)
           Done(k) == /\ IsBytes(P[k], Structs[s].size)
                      /\ \A i \in 1 .. k : C!Stored(P[k], leaf[i], C!CSize(leaf[i].type)) =
                                            C!PackScalar(leaf[i].type, source[leaf[i]])
           G == {k \in 0 .. n : Done(k)}
<1>1. n \in Nat /\ Structs[s].size \in Nat /\ \A i \in 1 .. n : leaf[i] \in C!LeavesIn(s)
  BY LeavesAre
<1>2. /\ P[0] = C!Zeros(Structs[s].size)
      /\ \A i \in 1 .. n : P[i] = C!Written(P[i - 1], leaf[i].at, C!PackScalar(leaf[i].type, source[leaf[i]]))
  BY PackingIs
<1> HIDE DEF P, n, leaf
<1>3. 0 \in G
  <2>1. IsBytes(C!Zeros(Structs[s].size), Structs[s].size)
    BY <1>1 DEF C!Zeros, IsBytes, C!ForeignAssumption
  <2> QED BY <1>1, <1>2, <2>1
<1>4. ASSUME NEW k \in 0 .. n - 1, k \in G PROVE k + 1 \in G
  <2>1. k + 1 \in 1 .. n /\ k + 1 \in 0 .. n /\ (k + 1) - 1 = k /\ k \in 0 .. n
    BY <1>1
  <2> DEFINE l == leaf[k + 1]
             p == C!PackScalar(l.type, source[l])
  <2>2. l \in C!LeavesIn(s) /\ P[k + 1] = C!Written(P[k], l.at, p)
    BY <1>1, <1>2, <2>1
  <2>3. IsBytes(p, C!CSize(l.type))
    BY <2>2, PiecesAre
  <2>4. Done(k)
    BY <1>4
  <2> HIDE DEF l
  <2>5. /\ IsBytes(P[k + 1], Structs[s].size)
        /\ C!Stored(P[k + 1], l, C!CSize(l.type)) = p
        /\ \A m \in C!LeavesIn(s) : m # l =>
             C!Stored(P[k + 1], m, C!CSize(m.type)) = C!Stored(P[k], m, C!CSize(m.type))
    <3> DEFINE x == P[k]
    <3>1. IsBytes(x, Structs[s].size)
      BY <2>4
    <3> HIDE DEF x, p
    <3>2. IsKept(C!Written(x, l.at, p), x, s, l, p)
      <4>1. l \in C!LeavesIn(s)
        BY <2>2
      <4> QED BY <2>3, <3>1, <4>1, PieceIsStored
    <3>3. P[k + 1] = C!Written(x, l.at, p)
      BY <2>2 DEF x
    <3> QED BY <3>2, <3>3, Zenon DEF x, IsKept
  <2>6. ASSUME NEW i \in 1 .. k + 1
        PROVE  C!Stored(P[k + 1], leaf[i], C!CSize(leaf[i].type)) = C!PackScalar(leaf[i].type, source[leaf[i]])
    <3>1. CASE leaf[i] = l
      BY <2>5, <3>1
    <3>2. CASE leaf[i] # l
      <4>1. i \in 1 .. k /\ i \in 1 .. n
        BY <1>1, <3>2 DEF l
      <4>2. leaf[i] \in C!LeavesIn(s)
        BY <1>1, <4>1
      <4>3. C!Stored(P[k + 1], leaf[i], C!CSize(leaf[i].type)) = C!Stored(P[k], leaf[i], C!CSize(leaf[i].type))
        BY <2>5, <3>2, <4>2
      <4> QED BY <2>4, <4>1, <4>3
    <3> QED BY <3>1, <3>2
  <2> QED BY <2>1, <2>5, <2>6
<1>5. Done(n)
  <2> HIDE DEF G
  <2>1. \A k \in 0 .. n : k \in G
    BY <1>1, <1>3, <1>4, StepByStep
  <2>2. n \in 0 .. n
    BY <1>1
  <2> QED BY <2>1, <2>2 DEF G
<1>6. C!Packed(s, source) = P[n]
  BY Zenon DEF C!Packed, P, n
<1>7. \A l \in C!LeavesIn(s) : \E i \in 1 .. n : l = leaf[i]
  BY LeavesAre DEF n, leaf
<1> QED BY <1>5, <1>6, <1>7

---------------------------------------------------------------------------
(* The box: each field holds the bytes of the number it means.             *)
HoldsIn(b, l, n) == /\ C!FromBytes(C!ToBytes(n, C!CSize(l.type)), C!CUnsigned(l.type)) = n
                    /\ C!Stored(b, l, C!CSize(l.type)) = C!ToBytes(n, C!CSize(l.type))

BoxIs(b) ==
  /\ b.type \in DOMAIN Structs
  /\ b = [type |-> b.type, bytes |-> b.bytes, meant |-> b.meant]
  /\ IsBytes(b.bytes, Structs[b.type].size)
  /\ b.meant = [l \in C!LeavesIn(b.type) |-> b.meant[l]]
  /\ \A l \in C!LeavesIn(b.type) : HoldsIn(b.bytes, l, b.meant[l])

BoxInv == box = C!NoBox \/ BoxIs(box)

LEMMA BoxIsRead ==
  ASSUME C!ForeignAssumption, BoxInv
  PROVE  C!FieldsAreKept
<1> SUFFICES ASSUME box.type # "none", NEW l \in C!LeavesIn(box.type)
    PROVE  /\ C!FromBytes(C!Stored(box.bytes, l, C!CSize(l.type)), C!CUnsigned(l.type)) = box.meant[l]
           /\ C!Unpacked(box.type, box.bytes, l) =
                IF l.type = "pointer" THEN C!Bytes(C!ToBytes(box.meant[l], 8))
                ELSE IF C!Unsigned(l.type) = C!CUnsigned(l.type) THEN C!Text(box.meant[l])
                ELSE C!Text(C!FromBytes(C!ToBytes(box.meant[l], 8), FALSE))
  BY Zenon DEF C!FieldsAreKept
<1> DEFINE t == l.type
           m == box.meant[l]
           b == C!Stored(box.bytes, l, C!CSize(t))
<1>1. BoxIs(box)
  BY DEF BoxInv, C!NoBox
<1>2. C!FromBytes(C!ToBytes(m, C!CSize(t)), C!CUnsigned(t)) = m /\ b = C!ToBytes(m, C!CSize(t))
  BY <1>1, Zenon DEF BoxIs, HoldsIn
<1>3. box.type \in DOMAIN Structs
  BY <1>1 DEF BoxIs
<1>4. C!ScalarSize(t) = C!CSize(t)
  BY <1>3, LeavesAre, Zenon
<1>5. C!Unpacked(box.type, box.bytes, l) = C!UnpackScalar(t, b)
  BY <1>4, Zenon DEF C!Unpacked
<1> HIDE DEF t, m, b
<1>6. CASE t = "pointer"
  <2>1. C!UnpackScalar(t, b) = C!Bytes(C!ToBytes(m, 8))
    <3>1. C!CSize(t) = 8
      BY <1>6, SizesAre
    <3> QED BY <1>2, <1>6, <3>1, Zenon DEF C!UnpackScalar
  <2> QED BY <1>2, <1>5, <1>6, <2>1, Zenon DEF t, m, b
<1>7. CASE t # "pointer" /\ (C!Unsigned(t) \/ t \notin {"size_t", "__uid_t", "uint32_t"})
  <2>1. C!Unsigned(t) = C!CUnsigned(t)
    <3>1. CASE C!Unsigned(t)
      <4>1. C!Unsigned(t) = TRUE /\ C!CUnsigned(t) = TRUE
        BY <3>1 DEF C!Unsigned, C!CUnsigned
      <4> QED BY <4>1
    <3>2. CASE ~C!Unsigned(t)
      <4> DEFINE c == C!Canonical(t)
                 S == {"unsigned char", "unsigned short", "unsigned int", "unsigned long", "pointer"}
      <4>1. C!Unsigned(t) = (c \in S)
        BY Zenon DEF C!Unsigned
      <4>2. c \notin S
        BY <3>2, Zenon DEF C!Unsigned
      <4> HIDE DEF c, S
      <4>3. (c \in S) = FALSE
        BY <4>2
      <4>4. C!CUnsigned(t) = FALSE
        BY <1>7, <3>2, Zenon DEF C!CUnsigned
      <4> QED BY <4>1, <4>3, <4>4, Zenon
    <3> QED BY <3>1, <3>2
  <2>2. C!UnpackScalar(t, b) = C!Text(m)
    BY <1>2, <1>7, <2>1, Zenon DEF C!UnpackScalar
  <2> QED BY <1>2, <1>5, <1>7, <2>1, <2>2, Zenon DEF t, m, b
<1>8. CASE t # "pointer" /\ ~C!Unsigned(t) /\ t \in {"size_t", "__uid_t", "uint32_t"}
  <2>1. t # "__uid_t"
    <3>1. ASSUME t = "__uid_t" PROVE C!ScalarSize(t) = 8 /\ C!CSize(t) = 4
      BY <3>1 DEF C!CSize, C!ScalarSize, C!Canonical
    <3> QED BY <1>4, <3>1
  <2>2. t # "uint32_t"
    <3>1. ASSUME t = "uint32_t" PROVE C!Unsigned(t)
      BY <3>1 DEF C!Unsigned, C!Canonical
    <3> QED BY <1>8, <3>1
  <2>3. t = "size_t"
    BY <1>8, <2>1, <2>2
  <2>4. C!CSize(t) = 8 /\ C!Unsigned(t) = FALSE /\ C!CUnsigned(t) = TRUE
    BY <2>3 DEF C!CSize, C!ScalarSize, C!Unsigned, C!CUnsigned, C!Canonical
  <2>5. C!UnpackScalar(t, b) = C!Text(C!FromBytes(C!ToBytes(m, 8), FALSE))
    BY <1>2, <1>8, <2>4, Zenon DEF C!UnpackScalar
  <2> QED BY <1>2, <1>5, <1>8, <2>4, <2>5, Zenon DEF t, m, b
<1> QED BY <1>6, <1>7, <1>8, Zenon

LEMMA BoxingIsExact ==
  ASSUME C!ForeignAssumption, NEW s \in DOMAIN Structs, C!Box(s)
  PROVE  box' = box \/ BoxIs(box')
<1>1. PICK source \in [C!LeavesIn(s) -> C!Values \cup {C!Nothing}] :
        \/ UNCHANGED box
        \/ box' = [type |-> s, bytes |-> C!Packed(s, source),
                   meant |-> [l \in C!LeavesIn(s) |-> C!Meant(l.type, source[l])]]
  BY Zenon DEF C!Box
<1>2. CASE box' = [type |-> s, bytes |-> C!Packed(s, source),
                   meant |-> [l \in C!LeavesIn(s) |-> C!Meant(l.type, source[l])]]
  <2> DEFINE b == C!Packed(s, source)
             M == [l \in C!LeavesIn(s) |-> C!Meant(l.type, source[l])]
  <2>1. /\ IsBytes(b, Structs[s].size)
        /\ \A l \in C!LeavesIn(s) : C!Stored(b, l, C!CSize(l.type)) = C!PackScalar(l.type, source[l])
    BY PackedIs, Zenon
  <2>2. ASSUME NEW l \in C!LeavesIn(s) PROVE HoldsIn(b, l, M[l])
    <3>1. C!ScalarSize(l.type) = C!CSize(l.type)
      BY LeavesAre, Zenon
    <3>2. source[l] \in C!Values \cup {C!Nothing}
      BY Zenon
    <3> DEFINE t == l.type
               v == source[l]
    <3> HIDE DEF t, v
    <3>3. /\ C!PackScalar(t, v) = C!ToBytes(C!Meant(t, v), C!CSize(t))
          /\ C!FromBytes(C!ToBytes(C!Meant(t, v), C!CSize(t)), C!CUnsigned(t)) = C!Meant(t, v)
      <4>1. v \in C!Values \cup {C!Nothing} /\ C!ScalarSize(t) = C!CSize(t)
        BY <3>1, <3>2, Zenon DEF t, v
      <4> QED BY <4>1, ScalarIsMeant, Zenon
    <3>4. M[l] = C!Meant(t, v)
      BY Zenon DEF t, v
    <3> HIDE DEF b, M
    <3> QED BY <2>1, <3>3, <3>4, Zenon DEF HoldsIn, t, v
  <2>3. box'.type = s /\ box'.bytes = b /\ box'.meant = M
    BY <1>2
  <2>4. box' = [type |-> s, bytes |-> b, meant |-> M]
    BY <1>2, Zenon
  <2>5. M = [l \in C!LeavesIn(s) |-> M[l]]
    BY Zenon
  <2> HIDE DEF b, M
  <2> QED BY <2>1, <2>2, <2>3, <2>4, <2>5, Zenon DEF BoxIs
<1> QED BY <1>1, <1>2

LEMMA StoringIsExact ==
  ASSUME C!ForeignAssumption, BoxInv, C!CStores
  PROVE  BoxIs(box')
<1> DEFINE s == box.type
<1>1. box.type # "none"
  BY DEF C!CStores
<1>2. BoxIs(box)
  BY <1>1 DEF BoxInv, C!NoBox
<1>a. PICK l \in C!LeavesIn(s) : \E n \in Numbers \cap C!CRange(l.type) :
        box' = [box EXCEPT !.bytes = C!Written(@, l.at, C!ToBytes(n, C!CSize(l.type))),
                           !.meant[l] = n]
  BY Zenon DEF C!CStores
<1>3. PICK n \in Numbers \cap C!CRange(l.type) :
        box' = [box EXCEPT !.bytes = C!Written(@, l.at, C!ToBytes(n, C!CSize(l.type))),
                           !.meant[l] = n]
  BY <1>a, Zenon
<1> DEFINE k == C!CSize(l.type)
           p == C!ToBytes(n, k)
           b == box.bytes
           w == C!Written(b, l.at, p)
           M == box.meant
           M1 == [M EXCEPT ![l] = n]
<1>4. s \in DOMAIN Structs /\ IsBytes(b, Structs[s].size) /\ M = [m \in C!LeavesIn(s) |-> M[m]]
  BY <1>2, Zenon DEF BoxIs
<1>5. box'.type = s /\ box'.bytes = w /\ box'.meant = M1 /\ box' = [type |-> s, bytes |-> w, meant |-> M1]
  <2>1. box = [type |-> s, bytes |-> b, meant |-> M]
    BY <1>2, Zenon DEF BoxIs
  <2> HIDE DEF s, b, M, p
  <2>2. box' = [type |-> s, bytes |-> w, meant |-> M1]
    BY <1>3, <2>1 DEF p
  <2> QED BY <2>2
<1>6. n \in Int /\ k \in 0 .. 8 /\ Radix \in Nat \ {0, 1}
  BY SizesAre DEF C!ForeignAssumption
<1>7. IsBytes(p, k)
  BY <1>6, DigitsAre
<1>8. C!FromBytes(p, C!CUnsigned(l.type)) = n
  <2>1. n \in RangeOf(k, C!CUnsigned(l.type))
    BY Zenon DEF C!CRange, RangeOf
  <2> HIDE DEF k
  <2> QED BY <1>6, <2>1, ReadAgain
<1>9. IsKept(w, b, s, l, p)
  <2> HIDE DEF s, b, p
  <2> QED BY <1>4, <1>7, PieceIsStored
<1>10. ASSUME NEW m \in C!LeavesIn(s) PROVE HoldsIn(w, m, M1[m])
  <2>1. HoldsIn(b, m, M[m])
    BY <1>2, Zenon DEF BoxIs
  <2>2. CASE m = l
    <3>1. M1[m] = n
      <4> HIDE DEF s, M
      <4> QED BY <1>4, <2>2
    <3> HIDE DEF s, w, M1, b
    <3> QED BY <1>8, <1>9, <2>2, <3>1, Zenon DEF HoldsIn, IsKept
  <2>3. CASE m # l
    <3>1. M1[m] = M[m]
      <4> HIDE DEF s, M
      <4> QED BY <1>4, <2>3
    <3> HIDE DEF s, w, M1, b, M
    <3> QED BY <1>9, <2>1, <2>3, <3>1, Zenon DEF HoldsIn, IsKept
  <2> QED BY <2>2, <2>3
<1>11. IsBytes(w, Structs[s].size)
  BY <1>9, Zenon DEF IsKept
<1>12. M1 = [m \in C!LeavesIn(s) |-> M1[m]]
  <2> HIDE DEF s, M
  <2> QED BY <1>4
<1> HIDE DEF s, w, M1
<1> QED BY <1>4, <1>5, <1>10, <1>11, <1>12, Zenon DEF BoxIs

---------------------------------------------------------------------------
(* Numbers in registers.                                                   *)
LEMMA KnownTypes ==
  ASSUME Radix \in Nat \ {0, 1}, NEW t \in C!Known
  PROVE  /\ C!FfiType(t) = t /\ C!CSize(t) = C!ScalarSize(t)
         /\ C!CRange(t) = RangeOf(C!CSize(t), C!Unsigned(t)) /\ C!CRange(t) \subseteq C!Readable(t)
<1>1. C!FfiType(t) = t
  BY DEF C!FfiType
<1>2. t \notin {"size_t", "__uid_t", "uint32_t"}
  BY DEF C!Known
<1>3. C!CSize(t) = C!ScalarSize(t)
  BY <1>2, Zenon DEF C!CSize
<1>4. C!CUnsigned(t) <=> C!Unsigned(t)
  BY <1>2, Zenon DEF C!CUnsigned
<1>5. C!CRange(t) = RangeOf(C!CSize(t), C!Unsigned(t))
  <2>1. CASE C!Unsigned(t)
    BY <1>4, <2>1, Zenon DEF C!CRange, RangeOf
  <2>2. CASE ~C!Unsigned(t)
    BY <1>4, <2>2, Zenon DEF C!CRange, RangeOf
  <2> QED BY <2>1, <2>2
<1>6. C!ScalarSize(t) \in {0, 1, 2, 4, 8}
  BY DEF C!ScalarSize
<1>7. C!CRange(t) \subseteq C!Readable(t)
  <2> DEFINE s == C!ScalarSize(t)
             top == IF s = 8 THEN 8 ELSE 4
  <2>1. s \in 0 .. 8 /\ top \in 0 .. 8 /\ s <= top /\ 8 \in 0 .. 8 /\ s <= 8
    BY <1>6
  <2> HIDE DEF s
  <2>2. /\ C!Power[s] \in Nat \ {0} /\ C!Power[top] \in Nat \ {0} /\ C!Power[8] \in Nat \ {0}
        /\ C!Power[s] <= C!Power[top] /\ C!Power[s] <= C!Power[8]
    <3> HIDE DEF top
    <3> QED BY <2>1, PowersGrow
  <2>3. CASE C!Unsigned(t)
    <3>1. C!CRange(t) = 0 .. C!Power[s] - 1
      BY <1>3, <1>5, <2>3, Zenon DEF RangeOf, s
    <3>2. C!Readable(t) = (1 - C!Power[8]) .. (C!Power[8] - 1)
      BY <2>3, Zenon DEF C!Readable
    <3> QED BY <2>2, <3>1, <3>2
  <2>4. CASE ~C!Unsigned(t)
    <3>1. C!CRange(t) = - (C!Power[s] \div 2) .. (C!Power[s] \div 2) - 1
      BY <1>3, <1>5, <2>4, Zenon DEF RangeOf, s
    <3>2. C!Readable(t) = - (C!Power[top] \div 2) .. (C!Power[top] \div 2) - 1
      BY <2>4, Zenon DEF C!Readable, s
    <3>3. C!Power[s] \div 2 <= C!Power[top] \div 2 /\ C!Power[s] \div 2 \in Int /\ C!Power[top] \div 2 \in Int
      BY <2>2
    <3> QED BY <3>1, <3>2, <3>3
  <2> QED BY <2>3, <2>4
<1> QED BY <1>1, <1>3, <1>5, <1>7, Zenon

(* The sign a type is read with is the same on both sides.                 *)
LEMMA SameReading ==
  ASSUME Radix \in Nat \ {0, 1}, NEW t \in C!Known, NEW b
  PROVE  C!FromBytes(b, C!CUnsigned(t)) = C!FromBytes(b, C!Unsigned(t))
<1>1. C!CUnsigned(t) <=> C!Unsigned(t)
  BY DEF C!Known, C!CUnsigned
<1>2. CASE C!Unsigned(t)
  BY <1>1, <1>2, Zenon DEF C!FromBytes
<1>3. CASE ~C!Unsigned(t)
  BY <1>1, <1>3, Zenon DEF C!FromBytes
<1> QED BY <1>2, <1>3

LEMMA RegisterIsRead ==
  ASSUME Radix \in Nat \ {0, 1}, NEW t \in C!Known, NEW n \in C!CRange(t)
  PROVE  LET b == SubSeq(C!Register(C!ToBytes(n, C!CSize(t)), C!Unsigned(t)), 1, C!CSize(t)) IN
         b = C!ToBytes(n, C!CSize(t)) /\ C!FromBytes(b, C!Unsigned(t)) = n
<1> DEFINE s == C!CSize(t)
           u == C!Unsigned(t)
<1>1. s \in 0 .. 8 /\ n \in RangeOf(s, u)
  BY SizesAre, KnownTypes, Zenon
<1> HIDE DEF s, u
<1>2. C!FromBytes(C!ToBytes(n, s), u) = n
  BY <1>1, ReadAgain
<1>3. C!Register(C!ToBytes(n, s), u) = C!ToBytes(n, 8)
  BY <1>2, Zenon DEF C!Register
<1>4. SubSeq(C!ToBytes(n, 8), 1, s) = C!ToBytes(n, s)
  BY <1>1, ShorterIsPrefix
<1> QED BY <1>2, <1>3, <1>4, Zenon DEF s, u

LEMMA NumberIsPassed ==
  ASSUME Radix \in Nat \ {0, 1}, NEW t \in C!Known, t # "pointer",
         NEW v, v.kind = "text", v.number \in C!CRange(t)
  PROVE  C!Read(C!Register(C!ConvertValue(C!FfiType(t), v), C!Unsigned(C!FfiType(t))), t) = v.number
<1> DEFINE n == v.number
<1>1. /\ C!FfiType(t) = t /\ C!CSize(t) = C!ScalarSize(t)
      /\ C!CRange(t) \subseteq C!Readable(t)
  BY KnownTypes, Zenon
<1>2. C!ConvertValue(t, v) = C!ToBytes(n, C!CSize(t))
  <2>1. v.kind # "bytes" /\ n \in C!Readable(t)
    BY <1>1
  <2> QED BY <1>1, <2>1, Zenon DEF C!ConvertValue
<1> HIDE DEF n
<1>3. n \in C!CRange(t)
  BY DEF n
<1> DEFINE b == SubSeq(C!Register(C!ToBytes(n, C!CSize(t)), C!Unsigned(t)), 1, C!CSize(t))
<1>4. C!FromBytes(b, C!Unsigned(t)) = n
  BY <1>3, RegisterIsRead, Zenon
<1>5. C!FromBytes(b, C!CUnsigned(t)) = n
  <2> HIDE DEF b
  <2> QED BY <1>4, SameReading, Zenon
<1> QED BY <1>1, <1>2, <1>5, Zenon DEF C!Read, n

LEMMA NumberIsGivenBack ==
  ASSUME Radix \in Nat \ {0, 1}, NEW t \in C!Known, t # "pointer", NEW n \in C!CRange(t)
  PROVE  C!ConvertReturn(C!FfiType(t), C!ByC(t, n)) = C!Text(n)
<1>1. C!FfiType(t) = t /\ C!CSize(t) = C!ScalarSize(t)
  BY KnownTypes, Zenon
<1>2. C!ByC(t, n) = C!Register(C!ToBytes(n, C!CSize(t)), C!Unsigned(t))
  BY SameReading, Zenon DEF C!ByC, C!Register
<1>3. C!FromBytes(SubSeq(C!ByC(t, n), 1, C!CSize(t)), C!Unsigned(t)) = n
  BY <1>2, RegisterIsRead, Zenon
<1> QED BY <1>1, <1>3, Zenon DEF C!ConvertReturn

LEMMA TypeIsKnown ==
  ASSUME NEW f, C!InOrder(f), NEW i \in C!Positions(f)
  PROVE  C!ArgumentTypes(f)[i] = C!FfiType(CFunctions[f].parameters[i].type)
  BY Zenon DEF C!InOrder

LEMMA InvokeArrives ==
  ASSUME C!ForeignAssumption, NEW f \in DOMAIN CFunctions, C!Invoke(f)
  PROVE  C!NumbersArrive'
<1> DEFINE types == C!ArgumentTypes(f)
           Type(i) == CFunctions[f].parameters[i].type
<1>0. Radix \in Nat \ {0, 1}
  BY DEF C!ForeignAssumption
<1>1. PICK args \in [C!Positions(f) -> C!Values], n \in Numbers \cap C!CRange(C!Returns(f)) :
        crossing' = [way |-> "call", function |-> f, given |-> args,
                     taken |-> [i \in C!Positions(f) |->
                                  C!Read(C!Register(C!ConvertValue(types[i], args[i]), C!Unsigned(types[i])), Type(i))],
                     back |-> C!ConvertReturn(C!FfiType(C!Returns(f)), C!ByC(C!Returns(f), n)),
                     answer |-> n]
  BY Zenon DEF C!Invoke
<1> HIDE DEF types
<1>2. /\ crossing'.way = "call" /\ crossing'.function = f /\ crossing'.given = args
      /\ \A i \in C!Positions(f) :
           crossing'.taken[i] = C!Read(C!Register(C!ConvertValue(types[i], args[i]), C!Unsigned(types[i])), Type(i))
      /\ crossing'.back = C!ConvertReturn(C!FfiType(C!Returns(f)), C!ByC(C!Returns(f), n))
      /\ crossing'.answer = n
  BY <1>1
<1>3. ASSUME C!InOrder(f), NEW i \in C!Positions(f), Type(i) \in C!Known, Type(i) # "pointer",
             args[i].kind = "text", args[i].number \in C!CRange(Type(i))
      PROVE  crossing'.taken[i] = args[i].number
  <2> DEFINE t == Type(i)
             v == args[i]
  <2>1. types[i] = C!FfiType(t)
    BY <1>3, TypeIsKnown, Zenon DEF types
  <2>2. crossing'.taken[i] = C!Read(C!Register(C!ConvertValue(C!FfiType(t), v), C!Unsigned(C!FfiType(t))), t)
    BY <1>2, <2>1, Zenon
  <2>3. C!Read(C!Register(C!ConvertValue(C!FfiType(t), v), C!Unsigned(C!FfiType(t))), t) = v.number
    BY <1>0, <1>3, NumberIsPassed, Zenon
  <2> QED BY <2>2, <2>3, Zenon
<1>4. ASSUME C!Returns(f) \in C!Known \ {"pointer"}
      PROVE  crossing'.back = C!Text(crossing'.answer)
  <2>1. C!Returns(f) \in C!Known /\ C!Returns(f) # "pointer" /\ n \in C!CRange(C!Returns(f))
    BY <1>4
  <2> QED BY <1>0, <1>2, <2>1, NumberIsGivenBack, Zenon
<1> QED BY <1>2, <1>3, <1>4, Zenon DEF C!NumbersArrive

LEMMA CallBackArrives ==
  ASSUME C!ForeignAssumption, NEW f \in DOMAIN CFunctions, C!CallBack(f)
  PROVE  C!NumbersArrive'
<1> DEFINE types == C!SignatureTypes(f)
           Type(i) == CFunctions[f].parameters[i].type
<1>0. Radix \in Nat \ {0, 1}
  BY DEF C!ForeignAssumption
<1>1. PICK args \in [C!Positions(f) -> Numbers], v \in C!Values \cup {C!Nothing} :
        /\ \A i \in C!Positions(f) : args[i] \in C!CRange(Type(i))
        /\ \E n \in C!Answered(C!Returns(f), v) :
             crossing' = [way |-> "callback", function |-> f, given |-> args,
                          taken |-> [i \in C!Positions(f) |-> C!ConvertReturn(types[i], C!ByC(Type(i), args[i]))],
                          back |-> v, answer |-> n]
  BY Zenon DEF C!CallBack
<1> HIDE DEF types
<1>2. PICK n \in C!Answered(C!Returns(f), v) :
        crossing' = [way |-> "callback", function |-> f, given |-> args,
                     taken |-> [i \in C!Positions(f) |-> C!ConvertReturn(types[i], C!ByC(Type(i), args[i]))],
                     back |-> v, answer |-> n]
  BY <1>1, Zenon
<1>3. /\ crossing'.way = "callback" /\ crossing'.function = f /\ crossing'.given = args
      /\ \A i \in C!Positions(f) : crossing'.taken[i] = C!ConvertReturn(types[i], C!ByC(Type(i), args[i]))
      /\ crossing'.back = v /\ crossing'.answer = n
  BY <1>2
<1>4. ASSUME C!InOrder(f), NEW i \in C!Positions(f), Type(i) \in C!Known, Type(i) # "pointer"
      PROVE  crossing'.taken[i] = C!Text(args[i])
  <2> DEFINE t == Type(i)
  <2>1. types[i] = C!FfiType(t)
    BY <1>4, TypeIsKnown, Zenon DEF types, C!SignatureTypes
  <2>2. crossing'.taken[i] = C!ConvertReturn(C!FfiType(t), C!ByC(t, args[i]))
    BY <1>3, <2>1, Zenon
  <2>3. args[i] \in C!CRange(t)
    BY <1>1, Zenon
  <2>4. C!ConvertReturn(C!FfiType(t), C!ByC(t, args[i])) = C!Text(args[i])
    BY <1>0, <1>4, <2>3, NumberIsGivenBack, Zenon
  <2> QED BY <2>2, <2>4, Zenon
<1>5. ASSUME C!Returns(f) \in C!Known \ {"pointer"}, v.kind = "text", v.number \in C!CRange(C!Returns(f))
      PROVE  crossing'.answer = v.number
  <2> DEFINE t == C!Returns(f)
  <2>1. t \in C!Known /\ t # "pointer"
    BY <1>5
  <2>2. v # C!Nothing
    BY <1>5 DEF C!Nothing
  <2>3. n = C!Read(C!Register(C!ConvertValue(C!FfiType(t), v), C!Unsigned(C!FfiType(t))), t)
    BY <1>2, <2>2, Zenon DEF C!Answered
  <2>4. C!Read(C!Register(C!ConvertValue(C!FfiType(t), v), C!Unsigned(C!FfiType(t))), t) = v.number
    BY <1>0, <1>5, <2>1, NumberIsPassed, Zenon
  <2> QED BY <1>3, <2>3, <2>4, Zenon
<1> QED BY <1>3, <1>4, <1>5, Zenon DEF C!NumbersArrive

(* Data that cross between Edict and C are kept: what a program or C put   *)
(* into a field of a box is what both find there, whatever else has been   *)
(* stored since, and a number that fits its type arrives, in a call and in *)
(* a callback, whatever the structures, the functions and the numbers.     *)
THEOREM ForeignDataStay ==
  ASSUME C!ForeignAssumption
  PROVE  C!Spec => []ForeignDataIsKept
<1> DEFINE Inv == BoxInv /\ C!NumbersArrive
<1>1. C!Init => Inv
  BY DEF C!Init, BoxInv, C!NumbersArrive, C!NoCrossing
<1>2. ASSUME Inv, [C!Next]_C!foreignVars PROVE Inv'
  <2>1. ASSUME crossing' \in {crossing, C!NoCrossing} PROVE C!NumbersArrive'
    <3>1. CASE crossing' = crossing
      BY <1>2, <3>1 DEF C!NumbersArrive, C!InOrder, C!ArgumentTypes, C!Positions, C!Returns
    <3>2. CASE crossing' = C!NoCrossing
      <4>1. crossing'.way = "none"
        BY <3>2 DEF C!NoCrossing
      <4> QED BY <4>1 DEF C!NumbersArrive
    <3> QED BY <2>1, <3>1, <3>2
  <2>2. ASSUME box' \in {box, C!NoBox} PROVE BoxInv'
    <3>1. CASE box' = box
      BY <1>2, <3>1, Zenon DEF BoxInv
    <3>2. CASE box' = C!NoBox
      BY <3>2, Zenon DEF BoxInv
    <3> QED BY <2>2, <3>1, <3>2
  <2>3. ASSUME BoxIs(box') PROVE BoxInv'
    BY <2>3, Zenon DEF BoxInv
  <2>4. CASE UNCHANGED C!foreignVars
    BY <2>1, <2>2, <2>4 DEF C!foreignVars
  <2>5. ASSUME NEW s \in DOMAIN Structs, C!Box(s) PROVE Inv'
    <3>1. box' = box \/ BoxIs(box')
      BY <2>5, BoxingIsExact
    <3>2. crossing' = crossing
      BY <2>5 DEF C!Box
    <3> QED BY <2>1, <2>2, <2>3, <3>1, <3>2
  <2>6. CASE C!CStores
    <3>1. BoxIs(box')
      BY <1>2, <2>6, StoringIsExact
    <3>2. crossing' = crossing
      BY <2>6 DEF C!CStores
    <3> QED BY <2>1, <2>3, <3>1, <3>2
  <2>7. CASE C!FreeBox \/ C!DropBox
    BY <2>1, <2>2, <2>7 DEF C!FreeBox, C!DropBox
  <2>8. ASSUME NEW f \in DOMAIN CFunctions, C!Invoke(f), UNCHANGED box PROVE Inv'
    BY <2>2, <2>8, InvokeArrives
  <2>9. ASSUME NEW f \in DOMAIN CFunctions, C!CallBack(f), UNCHANGED box PROVE Inv'
    BY <2>2, <2>9, CallBackArrives
  <2>10. ASSUME C!Refuse, UNCHANGED box PROVE Inv'
    <3>1. crossing'.way = "refused"
      BY <2>10 DEF C!Refuse, C!NoCrossing
    <3>2. C!NumbersArrive'
      BY <3>1 DEF C!NumbersArrive
    <3> QED BY <2>2, <2>10, <3>2
  <2>11. ASSUME C!GoOn, UNCHANGED box PROVE Inv'
    BY <2>1, <2>2, <2>11 DEF C!GoOn
  <2> HIDE DEF Inv
  <2> QED BY <1>2, <2>4, <2>5, <2>6, <2>7, <2>8, <2>9, <2>10, <2>11, Zenon DEF C!Next, C!foreignVars
<1>3. Inv => ForeignDataIsKept
  BY BoxIsRead DEF ForeignDataIsKept, C!ForeignDataIsKept
<1> HIDE DEF Inv
<1> QED BY <1>1, <1>2, <1>3, PTL DEF C!Spec
=============================================================================
