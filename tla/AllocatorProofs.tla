----------------------------- MODULE AllocatorProofs -----------------------------
(***************************************************************************)
(* Proofs about Allocator, for any number and size of slabs, any depth of  *)
(* checkpoints and any number of restarts: a slab's count covers its live  *)
(* slots, no slot goes that was not given up, rollbacks are exact, and the *)
(* session root survives the process.                                      *)
(***************************************************************************)
EXTENDS Allocator, FiniteSetTheorems, SequenceTheorems, WellFoundedInduction, TLAPS

Half == CountWidth \div 2

(* A slab's count covers what lives in it and is in the lower half. *)
Counts ==
  \A s \in Slabs \ reattached :
    /\ Cardinality(Live \cap SlotsOf(s)) <= count[s]
    /\ count[s] <= Half
    /\ slab[s] = "none" => count[s] = 0

StepTypes ==
  /\ slab \in [Slabs -> {"none", "heap", "mapped"}]
  /\ count \in [Slabs -> 0 .. (CountWidth - 1)]
  /\ refs \in [Slots -> 0 .. MaxRefs]
  /\ \A n \in Live : slab[SlabOf(n)] # "none"
  /\ protected \subseteq Slots
  /\ backing \in {"heap", "file"}
  /\ hasFile \subseteq Slabs
  /\ disk \in [Slots -> 0 .. MaxRefs]
  /\ root \in Slots
  /\ rootHeld \in BOOLEAN
  /\ restarts \in 0 .. MaxRestarts
  /\ reattached \subseteq hasFile

(* What the log and the checkpoints say of each other and of the slots. *)
LoggedSince(i) == {log[k] : k \in (stack[i].start + 1) .. Len(log)}
AppendOnly(i)  == stack[i].append /\ ~stack[i].careless

MarkTypes ==
  /\ log \in Seq(Slots)
  /\ stack \in Seq(Checkpoints)
  /\ \A i \in 1..Len(stack) :
       /\ stack[i].start <= Len(log)
       /\ \A j \in 1..Len(stack) : i < j =>
            /\ stack[i].start <= stack[j].start
            /\ stack[j].careless => stack[i].careless
            /\ AppendOnly(i) => stack[i].mark <= stack[j].mark

Bases ==
  \A i \in 1..Len(stack) :
    /\ \A n \in stack[i].base : n <= stack[i].mark /\ (Sound(n) => n \in Live)
    /\ \A n \in LoggedSince(i) : Sound(n) => n \notin stack[i].base
    /\ ~stack[i].careless =>
         \A n \in Live : Sound(n) => n \in stack[i].base \cup LoggedSince(i)
    /\ AppendOnly(i) =>
         /\ stack[i].mark \in Live \cup {Null}
         /\ \A n \in LoggedSince(i) : n > stack[i].mark

(* A held root lives where a later process finds it. *)
Rooted ==
  /\ backing = "file" => \A s \in Slabs : slab[s] = "heap" => s = 0
  /\ \A s \in Slabs : slab[s] = "mapped" => s \in hasFile
  /\ rootHeld /\ Sound(root) =>
       /\ backing = "file"
       /\ root \in Live
       /\ slab[SlabOf(root)] = "heap" => 0 \in hasFile /\ disk[root] > 0

AllocInv == StepTypes /\ Counts /\ MarkTypes /\ Bases /\ Rooted

(* A save is for a live slot; once it is past slab 0, that slab's file     *)
(* holds what memory does.                                                 *)
Rests == {<<"slab", "anchor", "bootstrap">>, <<"anchor", "bootstrap">>, <<"bootstrap">>, <<>>}

Underway ==
  /\ saving \in [todo : Rests, opened : BOOLEAN, of : Slots]
  /\ complete \in BOOLEAN
  /\ saving.todo = <<>> => saving = AtRest
  /\ Saving => backing = "file" /\ saving.of \in Live
  /\ saving.opened /\ saving.todo = SaveOrder => 0 \in hasFile
  /\ Saving /\ saving.todo # SaveOrder /\ slab[0] = "heap" =>
       0 \in hasFile /\ \A k \in Slots : SlabOf(k) = 0 => disk[k] = refs[k]

SlabInv == AllocInv /\ Underway

-----------------------------------------------------------------------------
(* Slots, slabs and their numbers. *)
LEMMA SlabsApart ==
  ASSUME NEW a \in Nat, NEW b \in Nat, a < b
  PROVE  a * SlabSize + SlabSize <= b * SlabSize /\ a * SlabSize \in Nat /\ b * SlabSize \in Nat
<1>1. PICK d \in Nat : b = a + 1 + d
  <2>1. b - a - 1 \in Nat /\ b = a + 1 + (b - a - 1)
    OBVIOUS
  <2> QED BY <2>1
<1>2. b * SlabSize = a * SlabSize + SlabSize + d * SlabSize
  BY <1>1, AllocatorAssumption
<1>3. d * SlabSize \in Nat /\ a * SlabSize \in Nat
  BY AllocatorAssumption
<1> QED BY <1>2, <1>3, AllocatorAssumption

LEMMA SlabBounds ==
  ASSUME NEW n \in Nat
  PROVE  /\ SlabOf(n) \in Nat /\ SlabOf(n) * SlabSize \in Nat
         /\ SlabOf(n) * SlabSize <= n /\ n < SlabOf(n) * SlabSize + SlabSize
<1>1. SlabOf(n) \in Nat /\ SlabOf(n) * SlabSize <= n /\ n < SlabOf(n) * SlabSize + SlabSize
  BY AllocatorAssumption DEF SlabOf
<1> QED BY <1>1, AllocatorAssumption

LEMMA SlabsInOrder ==
  ASSUME NEW n \in Nat, NEW m \in Nat, n <= m
  PROVE  SlabOf(n) <= SlabOf(m)
<1> SUFFICES ASSUME SlabOf(m) < SlabOf(n)  PROVE FALSE
  BY SlabBounds
<1>1. SlabOf(m) * SlabSize + SlabSize <= SlabOf(n) * SlabSize
      /\ SlabOf(m) * SlabSize \in Nat /\ SlabOf(n) * SlabSize \in Nat
  BY SlabsApart, SlabBounds
<1>2. SlabOf(n) * SlabSize <= n /\ m < SlabOf(m) * SlabSize + SlabSize
  BY SlabBounds
<1> QED BY <1>1, <1>2, AllocatorAssumption

LEMMA SlotNumbers ==
  /\ Slots \subseteq Nat /\ Null \in Slots /\ IsFiniteSet(Slots)
  /\ \A n \in Slots : SlabOf(n) \in Slabs
<1>1. NumSlabs * SlabSize \in Nat /\ NumSlabs * SlabSize > 0
  BY AllocatorAssumption
<1>2. Slots \subseteq Nat /\ Null \in Slots
  BY <1>1 DEF Slots, Null
<1>3. IsFiniteSet(Slots)
  BY <1>1, FS_Interval DEF Slots
<1>4. ASSUME NEW n \in Slots  PROVE SlabOf(n) \in Slabs
  <2> DEFINE q == SlabOf(n)
  <2>1. q \in Nat /\ q * SlabSize <= n /\ n < NumSlabs * SlabSize /\ n \in Nat
    BY <1>1, <1>2, SlabBounds DEF Slots
  <2> HIDE DEF q
  <2>2. CASE NumSlabs < q
    <3>1. NumSlabs * SlabSize + SlabSize <= q * SlabSize /\ q * SlabSize \in Nat
      BY <2>1, <2>2, SlabsApart, AllocatorAssumption
    <3> QED BY <1>1, <2>1, <3>1, AllocatorAssumption
  <2>3. CASE NumSlabs = q
    BY <1>1, <2>1, <2>3, AllocatorAssumption
  <2>4. CASE q < NumSlabs
    BY <2>1, <2>4, AllocatorAssumption DEF q, Slabs
  <2> QED BY <2>1, <2>2, <2>3, <2>4, AllocatorAssumption
<1> QED BY <1>2, <1>3, <1>4

LEMMA FirstSlot ==
  ASSUME NEW s \in Slabs
  PROVE  /\ s * SlabSize \in Slots /\ SlabOf(s * SlabSize) = s
         /\ \A n \in SlotsOf(s) : s * SlabSize <= n /\ n < s * SlabSize + SlabSize
<1>1. s \in Nat /\ s < NumSlabs
  BY AllocatorAssumption DEF Slabs
<1>2. s * SlabSize + SlabSize <= NumSlabs * SlabSize /\ s * SlabSize \in Nat
      /\ NumSlabs * SlabSize \in Nat
  BY <1>1, SlabsApart, AllocatorAssumption
<1>3. s * SlabSize \in Slots
  BY <1>2, AllocatorAssumption DEF Slots
<1>4. SlabOf(s * SlabSize) = s
  BY <1>1, AllocatorAssumption DEF SlabOf
<1>5. \A n \in SlotsOf(s) : s * SlabSize <= n /\ n < s * SlabSize + SlabSize
  BY SlotNumbers, SlabBounds DEF SlotsOf
<1> QED BY <1>3, <1>4, <1>5

(* Sets of slots are finite, and those of one slab no larger than it. *)
LEMMA SlotSets ==
  ASSUME NEW S \in SUBSET Slots
  PROVE  IsFiniteSet(S) /\ Cardinality(S) \in Nat
BY SlotNumbers, FS_Subset, FS_CardinalityType

LEMMA UpTo ==
  ASSUME NEW s \in Slabs, NEW S \in SUBSET SlotsOf(s), NEW m \in Nat,
         s * SlabSize <= m, \A n \in S : n <= m
  PROVE  /\ Cardinality(S) <= m - s * SlabSize + 1
         /\ Cardinality(S) <= SlabSize
<1> DEFINE b == s * SlabSize
<1>1. b \in Nat /\ \A n \in SlotsOf(s) : b <= n /\ n < b + SlabSize /\ n \in Nat
  BY FirstSlot, SlotNumbers DEF SlotsOf
<1> HIDE DEF b
<1>2. S \subseteq b..m /\ S \subseteq b..(b + SlabSize - 1)
  BY <1>1, AllocatorAssumption
<1>3. /\ IsFiniteSet(b..m) /\ Cardinality(b..m) = IF b > m THEN 0 ELSE m - b + 1
      /\ IsFiniteSet(b..(b + SlabSize - 1))
      /\ Cardinality(b..(b + SlabSize - 1)) = SlabSize
  <2>1. b \in Int /\ m \in Int /\ b + SlabSize - 1 \in Int /\ ~(b > b + SlabSize - 1)
    BY <1>1, AllocatorAssumption
  <2>2. /\ IsFiniteSet(b..m) /\ Cardinality(b..m) = IF b > m THEN 0 ELSE m - b + 1
    BY <2>1, FS_Interval
  <2>3. /\ IsFiniteSet(b..(b + SlabSize - 1))
        /\ Cardinality(b..(b + SlabSize - 1)) = (b + SlabSize - 1) - b + 1
    BY <2>1, FS_Interval
  <2> QED BY <1>1, <2>2, <2>3, AllocatorAssumption
<1>4. Cardinality(S) <= Cardinality(b..m) /\ Cardinality(S) <= Cardinality(b..(b + SlabSize - 1))
  BY <1>2, <1>3, FS_Subset
<1>5. ~(b > m)
  BY <1>1 DEF b
<1> QED BY <1>3, <1>4, <1>5 DEF b

-----------------------------------------------------------------------------
LEMMA LeastNatural ==
  ASSUME NEW T \in SUBSET Nat, T # {}
  PROVE  \E x \in T : \A y \in T : x <= y
<1> DEFINE R == OpToRel(<, Nat)
<1>1. IsWellFoundedOn(R, Nat)
  BY NatLessThanWellFounded, Zenon
<1>2. \A x, y \in Nat : x < y => <<x, y>> \in R
  BY Zenon DEF OpToRel
<1> HIDE DEF R
<1>3. PICK x \in T : \A y \in T : <<y, x>> \notin R
  BY <1>1, WFMin, Zenon
<1>4. \A y \in T : ~ (y < x)
  BY <1>2, <1>3, Zenon
<1> QED BY <1>3, <1>4, SMT

LEMMA FirstOf ==
  ASSUME NEW S \in SUBSET Slots, S # {}
  PROVE  Min(S) \in S /\ \A n \in S : Min(S) <= n
<1>1. S \in SUBSET Nat
  BY SlotNumbers
<1>2. \E x \in S : \A y \in S : x <= y
  BY <1>1, LeastNatural
<1> QED BY <1>2 DEF Min

LEMMA LastOf ==
  ASSUME NEW S \in SUBSET Slots, S # {}
  PROVE  Max(S) \in S /\ \A n \in S : n <= Max(S)
<1> DEFINE M == NumSlabs * SlabSize
           T == {M - n : n \in S}
<1>1. M \in Nat /\ \A n \in S : n \in Nat /\ n < M
  BY AllocatorAssumption DEF Slots
<1> HIDE DEF M
<1>2. T \in SUBSET Nat /\ T # {}
  BY <1>1
<1>3. PICK x \in T : \A y \in T : x <= y
  <2> HIDE DEF T
  <2> QED BY <1>2, LeastNatural
<1>4. PICK m \in S : x = M - m
  BY <1>3
<1>5. \A n \in S : M - m <= M - n
  BY <1>3, <1>4
<1>6. \A n \in S : m >= n
  BY <1>1, <1>5
<1>7. Max(S) \in S /\ \A n \in S : Max(S) >= n
  BY <1>6 DEF Max
<1> QED BY <1>1, <1>7

LEMMA AtWatermark ==
  /\ Watermark \in Slots /\ Watermark \in Live \cup {Null}
  /\ \A n \in Live : n <= Watermark
<1>1. Live \cup {Null} \in SUBSET Slots /\ Live \cup {Null} # {}
  BY SlotNumbers DEF Live
<1> QED BY <1>1, LastOf DEF Watermark

-----------------------------------------------------------------------------
(* size_t: what is counted up in the lower half or down to no less than 0  *)
(* does not wrap.                                                          *)
LEMMA NoWrap ==
  /\ Half \in Nat /\ SlabSize <= Half /\ Half < CountWidth /\ CountWidth \in Nat \ {0}
  /\ \A c \in 0..(CountWidth - 1) : (c + 1) % CountWidth \in 0..(CountWidth - 1)
  /\ \A c \in 0..Half : c # Half => (c + 1) % CountWidth = c + 1
  /\ \A c \in 0..(CountWidth - 1), d \in Nat :
       /\ (c + CountWidth - d) % CountWidth \in 0..(CountWidth - 1)
       /\ d <= c => (c + CountWidth - d) % CountWidth = c - d
<1>1. /\ Half \in Nat /\ SlabSize <= Half /\ Half < CountWidth /\ CountWidth \in Nat \ {0}
  BY AllocatorAssumption DEF Half
<1>2. \A c \in 0..(CountWidth - 1) : (c + 1) % CountWidth \in 0..(CountWidth - 1)
  BY <1>1
<1>3. \A c \in 0..Half : c # Half => (c + 1) % CountWidth = c + 1
  BY <1>1
<1>4. \A c \in 0..(CountWidth - 1), d \in Nat :
        /\ (c + CountWidth - d) % CountWidth \in 0..(CountWidth - 1)
        /\ d <= c => (c + CountWidth - d) % CountWidth = c - d
  BY <1>1
<1> QED BY <1>1, <1>2, <1>3, <1>4

(* What is live and what is counted of a slab fall by the same number.     *)
LEMMA BothFall ==
  ASSUME NEW l \in Nat, NEW k \in Nat, NEW f \in Nat, NEW h \in Nat, l <= k, k <= h,
         NEW l2, l2 = l - f, NEW k2, k2 = k - f
  PROVE  l2 <= k2 /\ k2 <= h
OBVIOUS

(* A slab that is deleted is empty: what is live in a slab that was not    *)
(* reattached goes only if it is given up.                                 *)
LEMMA DeletedIsEmpty ==
  ASSUME StepTypes, Counts, NEW F \in SUBSET Live, NEW s \in Slabs \ reattached
  PROVE  /\ s \in Emptied(F) => Live \cap SlotsOf(s) = F \cap SlotsOf(s)
         /\ s \notin Emptied(F) => Cardinality(F \cap SlotsOf(s)) <= count[s]
         /\ Cardinality((Live \ F) \cap SlotsOf(s))
              = Cardinality(Live \cap SlotsOf(s)) - Cardinality(F \cap SlotsOf(s))
<1> DEFINE L == Live \cap SlotsOf(s)
           G == F \cap SlotsOf(s)
<1>1. L \in SUBSET Slots /\ G \in SUBSET L /\ (Live \ F) \cap SlotsOf(s) = L \ G
  BY DEF Live
<1>2. Cardinality(L) <= count[s] /\ count[s] \in Nat
  BY NoWrap DEF Counts, StepTypes
<1>3. s \in Emptied(F) <=> 1 <= count[s] /\ count[s] <= Cardinality(G)
  BY DEF Emptied
<1> HIDE DEF L, G
<1>4. IsFiniteSet(L) /\ Cardinality(L) \in Nat /\ IsFiniteSet(G) /\ Cardinality(G) \in Nat
  BY <1>1, SlotSets
<1>5. Cardinality(G) <= Cardinality(L) /\ (Cardinality(L) = Cardinality(G) => L = G)
  BY <1>1, <1>4, FS_Subset
<1>6. L \cap G = G
  BY <1>1
<1>7. Cardinality(L \ G) = Cardinality(L) - Cardinality(G)
  BY <1>4, <1>6, FS_Difference
<1>8. s \in Emptied(F) => L = G
  BY <1>2, <1>3, <1>4, <1>5
<1>9. Cardinality(G) <= count[s]
  BY <1>2, <1>4, <1>5
<1> QED BY <1>1, <1>7, <1>8, <1>9 DEF L, G

LEMMA GivenUp ==
  ASSUME StepTypes, Counts, NEW F \in SUBSET Live, Deallocated(F), UNCHANGED reattached
  PROVE  /\ Live' \in SUBSET (Live \ F)
         /\ \A n \in Live \ F : Sound(n) => /\ n \in Live' /\ refs'[n] = refs[n]
                                           /\ disk'[n] = disk[n]
                                           /\ slab'[SlabOf(n)] = slab[SlabOf(n)]
         /\ Counts'
         /\ slab' \in [Slabs -> {"none", "heap", "mapped"}]
         /\ \A s \in Slabs : slab'[s] \in {slab[s], "none"}
         /\ count' \in [Slabs -> 0 .. (CountWidth - 1)]
         /\ refs' \in [Slots -> 0 .. MaxRefs]
         /\ disk' \in [Slots -> 0 .. MaxRefs]
         /\ \A n \in Live' : slab'[SlabOf(n)] # "none"
<1>0. /\ refs \in [Slots -> 0 .. MaxRefs] /\ disk \in [Slots -> 0 .. MaxRefs] /\ MaxRefs \in Nat \ {0}
      /\ slab \in [Slabs -> {"none", "heap", "mapped"}]
      /\ count \in [Slabs -> 0 .. (CountWidth - 1)]
      /\ \A n \in Slots : SlabOf(n) \in Slabs
  BY SlotNumbers, AllocatorAssumption DEF StepTypes
<1>1. /\ \A n \in Slots : refs'[n] = IF SlabOf(n) \in Emptied(F) \/ n \in F THEN 0 ELSE refs[n]
      /\ refs' \in [Slots -> 0 .. MaxRefs]
  BY <1>0 DEF Deallocated, Without
<1>2. /\ \A n \in Slots : SlabOf(n) \notin Emptied(F) => disk'[n] = disk[n]
      /\ disk' \in [Slots -> 0 .. MaxRefs]
  BY <1>0 DEF Deallocated, Without
<1>3. /\ \A s \in Slabs : slab'[s] = IF s \in Emptied(F) THEN "none" ELSE slab[s]
      /\ slab' \in [Slabs -> {"none", "heap", "mapped"}]
  BY <1>0 DEF Deallocated
<1>4. /\ \A s \in Slabs : Cardinality(F \cap SlotsOf(s)) \in Nat
      /\ \A s \in Slabs : Cardinality(Live \cap SlotsOf(s)) \in Nat
  <2>1. \A s \in Slabs : F \cap SlotsOf(s) \in SUBSET Slots /\ Live \cap SlotsOf(s) \in SUBSET Slots
    BY DEF Live
  <2> QED BY <2>1, SlotSets
<1>5. /\ \A s \in Slabs : count'[s] = IF s \in Emptied(F) THEN 0
                ELSE (count[s] + CountWidth - Cardinality(F \cap SlotsOf(s))) % CountWidth
      /\ count' \in [Slabs -> 0 .. (CountWidth - 1)]
  <2>1. count' = [s \in Slabs |-> IF s \in Emptied(F) THEN 0
                ELSE (count[s] + CountWidth - Cardinality(F \cap SlotsOf(s))) % CountWidth]
    BY DEF Deallocated
  <2>2. \A s \in Slabs : (count[s] + CountWidth - Cardinality(F \cap SlotsOf(s))) % CountWidth
                           \in 0 .. (CountWidth - 1)
    BY <1>0, <1>4, NoWrap
  <2>3. 0 \in 0 .. (CountWidth - 1)
    BY NoWrap
  <2> QED BY <2>1, <2>2, <2>3
<1>6. Live' = {n \in Live \ F : SlabOf(n) \notin Emptied(F)}
  BY <1>0, <1>1 DEF Live
<1>7. \A n \in Live \ F : Sound(n) => SlabOf(n) \notin Emptied(F)
  <2> SUFFICES ASSUME NEW n \in Live \ F, Sound(n), SlabOf(n) \in Emptied(F)  PROVE FALSE
    OBVIOUS
  <2>1. n \in Slots /\ SlabOf(n) \in Slabs \ reattached /\ n \in Live \cap SlotsOf(SlabOf(n))
    BY <1>0 DEF Live, Sound, SlotsOf
  <2>2. Live \cap SlotsOf(SlabOf(n)) = F \cap SlotsOf(SlabOf(n))
    BY <2>1, DeletedIsEmpty
  <2> QED BY <2>1, <2>2
<1>8. Counts'
  <2> SUFFICES ASSUME NEW s \in Slabs \ reattached
               PROVE  /\ Cardinality(Live' \cap SlotsOf(s)) <= count'[s]
                      /\ count'[s] <= Half
                      /\ slab'[s] = "none" => count'[s] = 0
    BY DEF Counts
  <2>1. /\ Cardinality(Live \cap SlotsOf(s)) <= count[s] /\ count[s] <= Half
        /\ slab[s] = "none" => count[s] = 0
        /\ count[s] \in 0 .. (CountWidth - 1)
    BY <1>0 DEF Counts
  <2>2. CASE s \in Emptied(F)
    <3>1. Live' \cap SlotsOf(s) = {}
      BY <1>6, <2>2 DEF SlotsOf
    <3>2. Cardinality({}) = 0
      BY FS_EmptySet
    <3>3. count'[s] = 0 /\ Half \in Nat
      BY <1>5, <2>2, NoWrap
    <3>4. Cardinality(Live' \cap SlotsOf(s)) = 0
      BY <3>1, <3>2, Zenon
    <3> QED BY <3>3, <3>4, SMT
  <2>3. CASE s \notin Emptied(F)
    <3>1. Live' \cap SlotsOf(s) = (Live \ F) \cap SlotsOf(s)
      BY <1>6, <2>3 DEF SlotsOf
    <3>2. /\ Cardinality(F \cap SlotsOf(s)) <= count[s]
          /\ Cardinality((Live \ F) \cap SlotsOf(s))
               = Cardinality(Live \cap SlotsOf(s)) - Cardinality(F \cap SlotsOf(s))
      BY <2>3, DeletedIsEmpty
    <3>3. count'[s] = count[s] - Cardinality(F \cap SlotsOf(s))
      BY <1>4, <1>5, <2>1, <2>3, <3>2, NoWrap
    <3>4. Cardinality(F \cap SlotsOf(s)) \in Nat /\ Cardinality(Live \cap SlotsOf(s)) \in Nat
          /\ count[s] \in Nat /\ Half \in Nat
      <4>1. s \in Slabs
        OBVIOUS
      <4>2. \A c \in 0 .. (CountWidth - 1) : c \in Nat
        BY NoWrap
      <4> QED BY <1>4, <2>1, <4>1, <4>2, NoWrap, Zenon
    <3>5. Cardinality(Live' \cap SlotsOf(s)) <= count'[s] /\ count'[s] <= Half
      <4>1. Cardinality(Live' \cap SlotsOf(s))
              = Cardinality(Live \cap SlotsOf(s)) - Cardinality(F \cap SlotsOf(s))
        BY <3>1, <3>2, Zenon
      <4> QED BY <2>1, <3>3, <3>4, <4>1, BothFall
    <3>6. slab'[s] = "none" => count'[s] = 0
      BY <1>3, <2>1, <2>3, <3>2, <3>3, <3>4
    <3> QED BY <3>5, <3>6
  <2> QED BY <2>2, <2>3
<1>9. \A n \in Live' : slab'[SlabOf(n)] # "none"
  <2>1. \A n \in Live : slab[SlabOf(n)] # "none" /\ SlabOf(n) \in Slabs
    BY <1>0 DEF StepTypes, Live
  <2> QED BY <1>3, <1>6, <2>1
<1>10. \A n \in Live \ F : Sound(n) => /\ n \in Live' /\ refs'[n] = refs[n]
                                      /\ disk'[n] = disk[n]
                                      /\ slab'[SlabOf(n)] = slab[SlabOf(n)]
  <2>1. \A n \in Live : n \in Slots
    BY DEF Live
  <2> QED BY <1>0, <1>1, <1>2, <1>3, <1>6, <1>7, <2>1
<1> QED BY <1>1, <1>2, <1>3, <1>5, <1>6, <1>8, <1>9, <1>10
-----------------------------------------------------------------------------
(* The checkpoints and the log. *)
LEMMA Prefix ==
  ASSUME NEW S, NEW st \in Seq(S), NEW m \in Nat, m <= Len(st)
  PROVE  /\ SubSeq(st, 1, m) \in Seq(S) /\ Len(SubSeq(st, 1, m)) = m
         /\ \A i \in 1..m : SubSeq(st, 1, m)[i] = st[i]
<1>1. \A i \in 1..m : st[i] \in S
  BY LenProperties, ElementOfSeq
<1> DEFINE p == SubSeq(st, 1, m)
<1>2. /\ p \in Seq(S) /\ Len(p) = IF 1 <= m THEN m - 1 + 1 ELSE 0
      /\ \A i \in 1..(m - 1 + 1) : p[i] = st[1 + i - 1]
  BY <1>1, SubSeqProperties
<1> HIDE DEF p
<1>3. Len(p) = m
  BY <1>2
<1>4. \A i \in 1..m : i \in 1..(m - 1 + 1) /\ 1 + i - 1 = i
  OBVIOUS
<1>5. \A i \in 1..m : p[i] = st[i]
  BY <1>2, <1>4
<1> QED BY <1>2, <1>3, <1>5 DEF p

Informed(st, F, a, c) == [i \in DOMAIN st |-> Gone(st[i], F, a, c)]

LEMMA Told ==
  ASSUME NEW st \in Seq(Checkpoints), NEW F, NEW a, NEW c, a \in BOOLEAN, c \in BOOLEAN
  PROVE  /\ Informed(st, F, a, c) \in Seq(Checkpoints)
         /\ Len(Informed(st, F, a, c)) = Len(st) /\ Len(st) \in Nat
         /\ \A i \in 1..Len(st) :
              /\ Informed(st, F, a, c)[i].start = st[i].start
              /\ Informed(st, F, a, c)[i].mark = st[i].mark
              /\ Informed(st, F, a, c)[i].append <=> st[i].append /\ a
              /\ Informed(st, F, a, c)[i].base = st[i].base \ F
              /\ Informed(st, F, a, c)[i].careless <=> st[i].careless \/ c
<1> DEFINE st2 == Informed(st, F, a, c)
<1>1. Len(st) \in Nat /\ DOMAIN st = 1..Len(st) /\ \A i \in 1..Len(st) : st[i] \in Checkpoints
  BY LenProperties, ElementOfSeq
<1>2. \A i \in 1..Len(st) : Gone(st[i], F, a, c) \in Checkpoints
  BY <1>1 DEF Gone, Checkpoints
<1>3. st2 = [i \in 1..Len(st) |-> Gone(st[i], F, a, c)]
  BY <1>1 DEF Informed
<1> HIDE DEF st2
<1>4. st2 \in Seq(Checkpoints) /\ Len(st2) = Len(st)
  BY <1>1, <1>2, <1>3
<1>5. \A i \in 1..Len(st) : st2[i] = Gone(st[i], F, a, c)
  BY <1>3
<1>6. ASSUME NEW i \in 1..Len(st)
      PROVE  /\ st2[i].start = st[i].start /\ st2[i].mark = st[i].mark
             /\ st2[i].append <=> st[i].append /\ a
             /\ st2[i].base = st[i].base \ F
             /\ st2[i].careless <=> st[i].careless \/ c
  <2> DEFINE x == st[i].append /\ a
             y == st[i].careless \/ c
  <2>1. st2[i] = [start |-> st[i].start, mark |-> st[i].mark, append |-> x,
                  base |-> st[i].base \ F, careless |-> y]
    BY <1>5 DEF Gone
  <2> HIDE DEF x, y
  <2>2. st2[i].start = st[i].start /\ st2[i].mark = st[i].mark /\ st2[i].base = st[i].base \ F
        /\ st2[i].append = x /\ st2[i].careless = y
    BY <2>1
  <2>3. (st2[i].append <=> x) /\ (st2[i].careless <=> y)
    BY <2>2, Zenon
  <2> QED BY <2>2, <2>3 DEF x, y
<1> QED BY <1>1, <1>4, <1>6 DEF st2

LEMMA AfterPop ==
  ASSUME MarkTypes, Inside
  PROVE  /\ Len(stack) \in Nat \ {0} /\ Top \in Checkpoints /\ Top = stack[Len(stack)]
         /\ Popped \in Seq(Checkpoints) /\ Len(Popped) = Len(stack) - 1
         /\ \A i \in 1..Len(Popped) : Popped[i] = stack[i] /\ i \in 1..Len(stack) /\ i < Len(stack)
         /\ Popped = <<>> <=> Len(stack) = 1
         /\ Top.start \in Nat /\ Top.start <= Len(log) /\ Len(log) \in Nat
         /\ LogLeft \in Seq(Slots)
         /\ Popped # <<>> => /\ Len(LogLeft) = Top.start
                             /\ \A k \in 1..Top.start : LogLeft[k] = log[k]
<1>1. /\ stack \in Seq(Checkpoints) /\ log \in Seq(Slots) /\ stack # <<>>
  BY DEF MarkTypes, Inside
<1>2. Len(stack) \in Nat \ {0} /\ Len(log) \in Nat
  BY <1>1, EmptySeq, LenProperties
<1>3. \A i \in 1..Len(stack) : stack[i] \in Checkpoints
  BY <1>1, ElementOfSeq
<1>4. Top = stack[Len(stack)] /\ Top \in Checkpoints
  BY <1>2, <1>3 DEF Top
<1>5. Top.start \in Nat /\ Top.start <= Len(log)
  BY <1>2, <1>4 DEF Checkpoints, MarkTypes
<1>6. /\ Popped \in Seq(Checkpoints) /\ Len(Popped) = Len(stack) - 1
      /\ \A i \in 1..Len(Popped) : Popped[i] = stack[i] /\ i \in 1..Len(stack) /\ i < Len(stack)
  <2> DEFINE m == Len(stack)
  <2>1. m \in Nat \ {0} /\ Popped = SubSeq(stack, 1, m - 1)
    BY <1>2 DEF Popped
  <2>2. m - 1 \in Nat /\ m - 1 <= Len(stack)
    BY <1>2
  <2> HIDE DEF m
  <2>3. /\ Popped \in Seq(Checkpoints) /\ Len(Popped) = m - 1
        /\ \A i \in 1..(m - 1) : Popped[i] = stack[i]
    BY <1>1, <2>1, <2>2, Prefix
  <2>4. \A i \in 1..(m - 1) : i \in 1..m /\ i < m
    BY <2>1
  <2> QED BY <2>3, <2>4 DEF m
<1>7. Popped = <<>> <=> Len(stack) = 1
  BY <1>2, <1>6, EmptySeq
<1>8. LogLeft \in Seq(Slots)
      /\ (Popped # <<>> => Len(LogLeft) = Top.start /\ \A k \in 1..Top.start : LogLeft[k] = log[k])
  <2> DEFINE L == SubSeq(log, 1, Top.start)
  <2>2. L \in Seq(Slots) /\ Len(L) = Top.start /\ \A k \in 1..Top.start : L[k] = log[k]
    BY <1>1, <1>5, Prefix
  <2>3. <<>> \in Seq(Slots)
    BY EmptySeq
  <2>4. LogLeft = IF Popped = <<>> THEN <<>> ELSE L
    BY DEF LogLeft
  <2> HIDE DEF L
  <2> QED BY <1>5, <2>2, <2>3, <2>4
<1> QED BY <1>2, <1>4, <1>5, <1>6, <1>7, <1>8

(* A rollback: the checkpoints below the last one stay, and so does what   *)
(* they logged but for what was logged since the last one.                 *)
LEMMA AfterRollback ==
  ASSUME MarkTypes, Inside, NEW F \in SUBSET Slots, NEW a \in BOOLEAN,
         stack' = [i \in DOMAIN Popped |-> Gone(Popped[i], F, a, FALSE)],
         log' = LogLeft
  PROVE  /\ MarkTypes'
         /\ \A i \in 1..Len(stack') :
              /\ i \in 1..Len(stack) /\ i < Len(stack)
              /\ stack'[i].mark = stack[i].mark
              /\ stack'[i].base = stack[i].base \ F
              /\ stack'[i].careless <=> stack[i].careless
              /\ stack'[i].append <=> stack[i].append /\ a
              /\ LoggedSince(i)' \subseteq LoggedSince(i)
              /\ LoggedSince(i) \subseteq LoggedSince(i)' \cup LoggedSince(Len(stack))
<1>1. /\ Popped \in Seq(Checkpoints) /\ Len(Popped) = Len(stack) - 1 /\ Len(stack) \in Nat \ {0}
      /\ \A i \in 1..Len(Popped) : Popped[i] = stack[i] /\ i \in 1..Len(stack) /\ i < Len(stack)
  BY AfterPop
<1>2. /\ stack' \in Seq(Checkpoints) /\ Len(stack') = Len(Popped) /\ Len(Popped) \in Nat
      /\ \A i \in 1..Len(Popped) :
           /\ stack'[i].start = Popped[i].start /\ stack'[i].mark = Popped[i].mark
           /\ stack'[i].append <=> Popped[i].append /\ a
           /\ stack'[i].base = Popped[i].base \ F
           /\ stack'[i].careless <=> Popped[i].careless
  <2> DEFINE c == FALSE
  <2>1. stack' = Informed(Popped, F, a, c) /\ c \in BOOLEAN
    BY DEF Informed
  <2>2. Popped \in Seq(Checkpoints) /\ ~c
    BY <1>1
  <2> HIDE DEF c
  <2>3. /\ Informed(Popped, F, a, c) \in Seq(Checkpoints)
        /\ Len(Informed(Popped, F, a, c)) = Len(Popped) /\ Len(Popped) \in Nat
        /\ \A i \in 1..Len(Popped) :
             /\ Informed(Popped, F, a, c)[i].start = Popped[i].start
             /\ Informed(Popped, F, a, c)[i].mark = Popped[i].mark
             /\ Informed(Popped, F, a, c)[i].append <=> Popped[i].append /\ a
             /\ Informed(Popped, F, a, c)[i].base = Popped[i].base \ F
             /\ Informed(Popped, F, a, c)[i].careless <=> Popped[i].careless \/ c
    BY <2>1, <2>2, Told
  <2> QED BY <2>1, <2>2, <2>3
<1>3. \A i \in 1..Len(stack) : stack[i] \in Checkpoints /\ stack[i].start \in Nat
  <2>1. stack \in Seq(Checkpoints)
    BY DEF MarkTypes
  <2>2. \A i \in 1..Len(stack) : stack[i] \in Checkpoints
    BY <2>1, ElementOfSeq
  <2> QED BY <2>2 DEF Checkpoints
<1>4. \A i \in 1..Len(stack') :
           /\ i \in 1..Len(stack) /\ i < Len(stack)
           /\ stack'[i].start = stack[i].start /\ stack'[i].mark = stack[i].mark
           /\ stack'[i].append <=> stack[i].append /\ a
           /\ stack'[i].base = stack[i].base \ F
           /\ stack'[i].careless <=> stack[i].careless
  <2>1. ASSUME NEW i \in 1..Len(stack')  PROVE stack'[i].careless <=> stack[i].careless
    <3>1. i \in 1..Len(Popped)
      BY <1>2
    <3>2. Popped[i] = stack[i]
      BY <1>1, <3>1
    <3>3. stack'[i].careless <=> Popped[i].careless
      BY <1>2, <3>1
    <3> QED BY <3>2, <3>3
  <2> QED BY <1>1, <1>2, <2>1
<1>5. \A i \in 1..Len(stack') : /\ Len(log') = Top.start /\ log' \in Seq(Slots)
                               /\ \A k \in 1..Top.start : log'[k] = log[k]
  <2> SUFFICES ASSUME NEW i \in 1..Len(stack')
               PROVE  /\ Len(log') = Top.start /\ log' \in Seq(Slots)
                      /\ \A k \in 1..Top.start : log'[k] = log[k]
    OBVIOUS
  <2>1. Popped # <<>>
    BY <1>1, <1>2, AfterPop
  <2> QED BY <2>1, AfterPop
<1>6. log' \in Seq(Slots)
  BY AfterPop
<1>7. /\ Top = stack[Len(stack)] /\ Top.start \in Nat /\ Top.start <= Len(log) /\ Len(log) \in Nat
      /\ \A i \in 1..Len(stack) : i < Len(stack) => stack[i].start <= Top.start
  <2>1. /\ Top = stack[Len(stack)] /\ Top.start \in Nat /\ Top.start <= Len(log) /\ Len(log) \in Nat
        /\ Len(stack) \in 1..Len(stack)
    BY AfterPop
  <2> QED BY <2>1 DEF MarkTypes
<1>8. MarkTypes'
  <2> SUFFICES ASSUME NEW i \in 1..Len(stack')
               PROVE  /\ stack'[i].start <= Len(log')
                      /\ \A j \in 1..Len(stack') : i < j =>
                           /\ stack'[i].start <= stack'[j].start
                           /\ stack'[j].careless => stack'[i].careless
                           /\ AppendOnly(i)' => stack'[i].mark <= stack'[j].mark
    BY <1>2, <1>6 DEF MarkTypes
  <2>1. stack'[i].start <= Len(log')
    BY <1>4, <1>5, <1>7
  <2>2. ASSUME NEW j \in 1..Len(stack'), i < j
        PROVE  /\ stack'[i].start <= stack'[j].start
               /\ stack'[j].careless => stack'[i].careless
               /\ AppendOnly(i)' => stack'[i].mark <= stack'[j].mark
    <3>1. AppendOnly(i)' => AppendOnly(i)
      BY <1>4 DEF AppendOnly
    <3>2. /\ stack[i].start <= stack[j].start
          /\ stack[j].careless => stack[i].careless
          /\ AppendOnly(i) => stack[i].mark <= stack[j].mark
      BY <1>4, <2>2 DEF MarkTypes
    <3> QED BY <1>4, <3>1, <3>2
  <2> QED BY <2>1, <2>2
<1>9. ASSUME NEW i \in 1..Len(stack')
      PROVE  /\ LoggedSince(i)' \subseteq LoggedSince(i)
             /\ LoggedSince(i) \subseteq LoggedSince(i)' \cup LoggedSince(Len(stack))
  <2> DEFINE b == stack[i].start
  <2>1. b \in Nat /\ LoggedSince(i) = {log[k] : k \in (b + 1) .. Len(log)}
    BY <1>3, <1>4 DEF LoggedSince
  <2>2. LoggedSince(i)' = {log'[k] : k \in (b + 1) .. Top.start}
    BY <1>4, <1>5 DEF LoggedSince
  <2>3. LoggedSince(Len(stack)) = {log[k] : k \in (Top.start + 1) .. Len(log)}
    BY <1>7 DEF LoggedSince
  <2>4. \A k \in (b + 1) .. Top.start : log'[k] = log[k]
    <3>1. \A k \in 1..Top.start : log'[k] = log[k]
      BY <1>5
    <3>2. \A k \in (b + 1) .. Top.start : k \in 1..Top.start
      BY <1>7, <2>1
    <3> QED BY <3>1, <3>2
  <2> HIDE DEF b
  <2>5. LoggedSince(i)' = {log[k] : k \in (b + 1) .. Top.start}
    BY <2>2, <2>4
  <2>6. /\ (b + 1) .. Top.start \subseteq (b + 1) .. Len(log)
        /\ \A k \in (b + 1) .. Len(log) :
             k \in (b + 1) .. Top.start \/ k \in (Top.start + 1) .. Len(log)
    BY <1>7, <2>1
  <2> QED BY <2>1, <2>3, <2>5, <2>6
<1> QED BY <1>4, <1>8, <1>9

(* Slots of checkpoints are given up, the log stays. *)
LEMMA AfterLoss ==
  ASSUME MarkTypes, NEW F, NEW a, NEW c, a \in BOOLEAN, c \in BOOLEAN,
         stack' = Informed(stack, F, a, c), log' = log
  PROVE  /\ MarkTypes' /\ Len(stack') = Len(stack)
         /\ \A i \in 1..Len(stack) :
              /\ stack'[i].start = stack[i].start /\ stack'[i].mark = stack[i].mark
              /\ stack'[i].append <=> stack[i].append /\ a
              /\ stack'[i].base = stack[i].base \ F
              /\ stack'[i].careless <=> stack[i].careless \/ c
              /\ LoggedSince(i)' = LoggedSince(i)
<1>1. stack \in Seq(Checkpoints)
  BY DEF MarkTypes
<1>2. /\ Informed(stack, F, a, c) \in Seq(Checkpoints)
      /\ Len(Informed(stack, F, a, c)) = Len(stack) /\ Len(stack) \in Nat
      /\ \A i \in 1..Len(stack) :
           /\ Informed(stack, F, a, c)[i].start = stack[i].start
           /\ Informed(stack, F, a, c)[i].mark = stack[i].mark
           /\ Informed(stack, F, a, c)[i].append <=> stack[i].append /\ a
           /\ Informed(stack, F, a, c)[i].base = stack[i].base \ F
           /\ Informed(stack, F, a, c)[i].careless <=> stack[i].careless \/ c
  BY <1>1, Told
<1>3. /\ stack' \in Seq(Checkpoints) /\ Len(stack') = Len(stack)
      /\ \A i \in 1..Len(stack) :
           /\ stack'[i].start = stack[i].start /\ stack'[i].mark = stack[i].mark
           /\ stack'[i].append <=> stack[i].append /\ a
           /\ stack'[i].base = stack[i].base \ F
           /\ stack'[i].careless <=> stack[i].careless \/ c
  BY <1>2
<1>4. MarkTypes'
  <2> SUFFICES ASSUME NEW i \in 1..Len(stack), NEW j \in 1..Len(stack), i < j
               PROVE  /\ stack'[i].start <= stack'[j].start
                      /\ stack'[j].careless => stack'[i].careless
                      /\ AppendOnly(i)' => stack'[i].mark <= stack'[j].mark
    <3>1. \A i \in 1..Len(stack) : stack'[i].start <= Len(log')
      BY <1>3 DEF MarkTypes
    <3>2. log' \in Seq(Slots)
      BY DEF MarkTypes
    <3> QED BY <1>3, <3>1, <3>2 DEF MarkTypes
  <2>1. AppendOnly(i)' => AppendOnly(i)
    BY <1>3 DEF AppendOnly
  <2>2. /\ stack[i].start <= stack[j].start
        /\ stack[j].careless => stack[i].careless
        /\ AppendOnly(i) => stack[i].mark <= stack[j].mark
    BY DEF MarkTypes
  <2> QED BY <1>3, <2>1, <2>2
<1>5. \A i \in 1..Len(stack) : LoggedSince(i)' = LoggedSince(i)
  BY <1>3 DEF LoggedSince
<1> QED BY <1>3, <1>4, <1>5

-----------------------------------------------------------------------------
(* An allocation: at most one slot of slab s, which was free, is taken,    *)
(* and the slabs of S are new.                                             *)
Filled(N) == [k \in Slots |-> IF k \in N THEN 1 ELSE refs[k]]

LEMMA Allocated ==
  ASSUME StepTypes, Counts, NEW s \in Slabs, NEW x \in SlotsOf(s), NEW N \in {{}, {x}},
         x \notin Live, NEW S \in SUBSET Slabs, \A t \in S : slab[t] = "none",
         Created(S), slab[s] # "none" \/ s \in S,
         refs' = Filled(N), Counted(s), s \notin reattached => count[s] # Half,
         UNCHANGED <<protected, session, rootHeld>>
  PROVE  /\ StepTypes' /\ Counts' /\ Live' = Live \cup N
         /\ \A n \in Live : refs'[n] = refs[n]
         /\ Rooted => Rooted'
<1>0. /\ refs \in [Slots -> 0 .. MaxRefs] /\ disk \in [Slots -> 0 .. MaxRefs] /\ MaxRefs \in Nat \ {0}
      /\ slab \in [Slabs -> {"none", "heap", "mapped"}]
      /\ count \in [Slabs -> 0 .. (CountWidth - 1)]
      /\ \A n \in Slots : SlabOf(n) \in Slabs
      /\ x \in Slots /\ N \subseteq SlotsOf(s) /\ N \subseteq Slots
  BY SlotNumbers, AllocatorAssumption DEF StepTypes, SlotsOf
<1>1. /\ \A n \in Slots : refs'[n] = IF n \in N THEN 1 ELSE refs[n]
      /\ refs' \in [Slots -> 0 .. MaxRefs]
  BY <1>0 DEF Filled
<1>2. Live' = Live \cup N
  BY <1>0, <1>1 DEF Live
<1>3. \A n \in Live : refs'[n] = refs[n]
  BY <1>0, <1>1 DEF Live
<1>4. /\ \A t \in Slabs : slab'[t] = IF t \notin S THEN slab[t]
                                     ELSE IF backing = "file" THEN "mapped" ELSE "heap"
      /\ slab' \in [Slabs -> {"none", "heap", "mapped"}]
      /\ disk' = disk /\ hasFile \subseteq hasFile' /\ hasFile' \subseteq Slabs
      /\ backing = "file" => S \subseteq hasFile'
  BY <1>0 DEF Created, StepTypes
<1>5. /\ count' \in [Slabs -> 0 .. (CountWidth - 1)]
      /\ \A t \in Slabs : t # s => count'[t] = count[t]
      /\ count'[s] = (count[s] + 1) % CountWidth
  <2>1. count' = [count EXCEPT ![s] = (@ + 1) % CountWidth]
    BY DEF Counted
  <2>2. (count[s] + 1) % CountWidth \in 0 .. (CountWidth - 1)
    BY <1>0, NoWrap
  <2> QED BY <1>0, <2>1, <2>2
<1>6. \A n \in Live' : slab'[SlabOf(n)] # "none"
  <2>1. \A n \in Live : slab[SlabOf(n)] # "none" /\ SlabOf(n) \in Slabs
    BY <1>0 DEF StepTypes, Live
  <2>2. \A n \in N : SlabOf(n) = s
    BY <1>0 DEF SlotsOf
  <2> QED BY <1>2, <1>4, <2>1, <2>2
<1>7. StepTypes'
  BY <1>1, <1>4, <1>5, <1>6, <1>0 DEF StepTypes, session
<1>8. Counts'
  <2> SUFFICES ASSUME NEW t \in Slabs \ reattached
               PROVE  /\ Cardinality(Live' \cap SlotsOf(t)) <= count'[t]
                      /\ count'[t] <= Half
                      /\ slab'[t] = "none" => count'[t] = 0
    BY DEF Counts, session
  <2>1. /\ Cardinality(Live \cap SlotsOf(t)) <= count[t] /\ count[t] <= Half
        /\ slab[t] = "none" => count[t] = 0
        /\ count[t] \in 0 .. (CountWidth - 1)
    BY <1>0 DEF Counts
  <2>2. CASE t # s
    <3>1. Live' \cap SlotsOf(t) = Live \cap SlotsOf(t)
      BY <1>0, <1>2, <2>2 DEF SlotsOf
    <3>2. slab'[t] = "none" => slab[t] = "none"
      BY <1>4
    <3> QED BY <1>5, <2>1, <2>2, <3>1, <3>2
  <2>3. CASE t = s
    <3> DEFINE L == Live \cap SlotsOf(s)
    <3>1. Live' \cap SlotsOf(s) = L \/ Live' \cap SlotsOf(s) = L \cup {x}
      BY <1>0, <1>2
    <3>2. L \in SUBSET Slots /\ x \notin L
      BY DEF Live
    <3> HIDE DEF L
    <3>3. IsFiniteSet(L) /\ Cardinality(L) \in Nat
      BY <3>2, SlotSets
    <3>4. Cardinality(L \cup {x}) = Cardinality(L) + 1
      BY <3>2, <3>3, FS_AddElement
    <3> DEFINE M == Live' \cap SlotsOf(s)
    <3>5. M = L \/ M = L \cup {x}
      BY <3>1
    <3> HIDE DEF M
    <3>6. Cardinality(M) = Cardinality(L) \/ Cardinality(M) = Cardinality(L) + 1
      BY <3>4, <3>5
    <3>7. /\ count[s] \in Nat /\ count[s] <= Half /\ count[s] # Half /\ Cardinality(L) <= count[s]
          /\ Half \in Nat
      BY <2>1, <2>3, NoWrap DEF L
    <3>8. count'[s] = count[s] + 1
      <4>1. count[s] \in 0 .. Half /\ count[s] # Half
        BY <3>7
      <4> QED BY <1>5, <4>1, NoWrap, Zenon
    <3>9. slab'[s] # "none"
      <4>1. slab'[s] = IF s \notin S THEN slab[s] ELSE IF backing = "file" THEN "mapped" ELSE "heap"
        BY <1>4, Zenon
      <4> QED BY <4>1
    <3>10. Cardinality(M) <= count'[s] /\ count'[s] <= Half
      BY <3>3, <3>6, <3>7, <3>8
    <3> QED BY <2>3, <3>9, <3>10 DEF M
  <2> QED BY <2>2, <2>3
<1>9. ASSUME Rooted  PROVE Rooted'
  <2>1. UNCHANGED <<backing, root, rootHeld, reattached>>
    BY DEF session
  <2>2. backing' = "file" => \A t \in Slabs : slab'[t] = "heap" => t = 0
    BY <1>4, <1>9, <2>1 DEF Rooted
  <2>3. \A t \in Slabs : slab'[t] = "mapped" => t \in hasFile'
    BY <1>4, <1>9 DEF Rooted
  <2>4. ASSUME rootHeld, Sound(root)
        PROVE  /\ backing = "file" /\ root \in Live'
               /\ slab'[SlabOf(root)] = "heap" => 0 \in hasFile' /\ disk'[root] > 0
    <3>1. /\ backing = "file" /\ root \in Live
          /\ slab[SlabOf(root)] = "heap" => 0 \in hasFile /\ disk[root] > 0
      BY <1>9, <2>4 DEF Rooted
    <3>2. slab[SlabOf(root)] # "none" /\ SlabOf(root) \in Slabs
      BY <1>0, <3>1 DEF StepTypes, Live
    <3>3. slab'[SlabOf(root)] = slab[SlabOf(root)]
      BY <1>4, <3>2
    <3> QED BY <1>2, <1>4, <3>1, <3>3
  <2> QED BY <2>1, <2>2, <2>3, <2>4 DEF Rooted, Sound
<1> QED BY <1>2, <1>3, <1>7, <1>8, <1>9

LEMMA MarksStay ==
  ASSUME MarkTypes, UNCHANGED <<log, stack>>
  PROVE  MarkTypes' /\ \A i \in 1..Len(stack) : LoggedSince(i)' = LoggedSince(i)
<1>1. \A i \in 1..Len(stack) : AppendOnly(i)' <=> AppendOnly(i)
  BY DEF AppendOnly
<1>2. MarkTypes'
  BY <1>1 DEF MarkTypes
<1>3. \A i \in 1..Len(stack) : LoggedSince(i)' = LoggedSince(i)
  BY DEF LoggedSince
<1> QED BY <1>2, <1>3

LEMMA PlainKeeps ==
  ASSUME AllocInv, AllocPlain
  PROVE  AllocInv' /\ Live \subseteq Live'
<1>1. StepTypes /\ Counts /\ MarkTypes /\ Bases /\ Rooted
  BY DEF AllocInv
<1>2. PICK s \in Slabs :
        /\ Accepts(s)
        /\ \/ /\ slab[s] # "none"
              /\ refs' = [refs EXCEPT ![Min(FreeIn(s))] = 1]
              /\ UNCHANGED <<slab, files>>
           \/ /\ slab[s] = "none" /\ CanCreate(s)
              /\ Created({s})
              /\ refs' = IF Overruns(s) THEN refs ELSE [refs EXCEPT ![s * SlabSize] = 1]
        /\ Counted(s)
  BY DEF AllocPlain
<1>3. UNCHANGED <<protected, session, rootHeld, log, stack>> /\ stack = <<>>
  BY DEF AllocPlain, marks, Inside
<1>4. /\ refs \in [Slots -> 0 .. MaxRefs] /\ slab \in [Slabs -> {"none", "heap", "mapped"}]
      /\ count[s] \in Nat /\ Half \in Nat /\ SlabSize <= Half /\ SlabSize \in Nat \ {0}
      /\ s \notin reattached /\ slab[s] = "none" => count[s] = 0
      /\ \A n \in Live : slab[SlabOf(n)] # "none"
  <2>1. /\ refs \in [Slots -> 0 .. MaxRefs] /\ slab \in [Slabs -> {"none", "heap", "mapped"}]
        /\ count \in [Slabs -> 0 .. (CountWidth - 1)]
        /\ \A n \in Live : slab[SlabOf(n)] # "none"
    BY <1>1 DEF StepTypes
  <2>2. s \notin reattached /\ slab[s] = "none" => count[s] = 0
    BY <1>1 DEF Counts
  <2>3. Half \in Nat /\ SlabSize <= Half /\ SlabSize \in Nat \ {0} /\ CountWidth \in Nat
    BY NoWrap, AllocatorAssumption
  <2> QED BY <2>1, <2>2, <2>3
<1>5. StepTypes' /\ Counts' /\ Rooted' /\ Live \subseteq Live'
  <2>1. CASE slab[s] # "none"
    <3> DEFINE x == Min(FreeIn(s))
    <3>1. /\ count[s] < SlabSize /\ FreeIn(s) # {} /\ FreeIn(s) \in SUBSET Slots
      BY <1>2, <2>1 DEF Accepts, HasRoom, FreeIn, SlotsOf
    <3>2. x \in FreeIn(s)
      BY <3>1, FirstOf
    <3>3. refs' = [refs EXCEPT ![x] = 1] /\ UNCHANGED <<slab, files>>
      BY <1>2, <2>1
    <3> HIDE DEF x
    <3>4. x \in SlotsOf(s) /\ x \notin Live
      BY <3>2 DEF FreeIn, IsFree, Live
    <3>5. refs' = Filled({x})
      BY <1>4, <3>3 DEF Filled
    <3>6. Created({})
      BY <1>4, <3>3 DEF Created, files
    <3>7. count[s] # Half
      BY <1>4, <3>1
    <3>8. {x} \in {{}, {x}} /\ {} \in SUBSET Slabs /\ \A t \in {} : slab[t] = "none"
      OBVIOUS
    <3>9. StepTypes' /\ Counts' /\ Live' = Live \cup {x} /\ (Rooted => Rooted')
      BY <1>1, <1>2, <1>3, <2>1, <3>4, <3>5, <3>6, <3>7, <3>8, Allocated
    <3> QED BY <1>1, <3>9
  <2>2. CASE slab[s] = "none"
    <3> DEFINE x == s * SlabSize
               N == IF Overruns(s) THEN {} ELSE {x}
    <3>1. x \in SlotsOf(s) /\ SlabOf(x) = s
      BY FirstSlot DEF SlotsOf
    <3>2. Created({s}) /\ refs' = IF Overruns(s) THEN refs ELSE [refs EXCEPT ![x] = 1]
      BY <1>2, <2>2
    <3>3. N \in {{}, {x}}
      OBVIOUS
    <3> HIDE DEF x
    <3>4. x \notin Live
      BY <1>4, <2>2, <3>1
    <3>5. refs' = Filled(N)
      BY <1>4, <3>2 DEF Filled
    <3> HIDE DEF N
    <3>6. s \notin reattached => count[s] # Half
      BY <1>4, <2>2
    <3>7. {s} \in SUBSET Slabs /\ (\A t \in {s} : slab[t] = "none") /\ s \in {s}
      BY <2>2
    <3>8. StepTypes' /\ Counts' /\ Live' = Live \cup N /\ (Rooted => Rooted')
      BY <1>1, <1>2, <1>3, <3>1, <3>2, <3>3, <3>4, <3>5, <3>6, <3>7, Allocated
    <3> QED BY <1>1, <3>8
  <2> QED BY <2>1, <2>2
<1>6. MarkTypes'
  BY <1>1, <1>3, MarksStay
<1>7. Bases'
  BY <1>3 DEF Bases
<1> QED BY <1>5, <1>6, <1>7 DEF AllocInv

(* What append-only allocation takes is above every watermark. *)
LEMMA AppendKeeps ==
  ASSUME AllocInv, AllocAppend
  PROVE  AllocInv' /\ Live \subseteq Live'
<1>1. StepTypes /\ Counts /\ MarkTypes /\ Bases /\ Rooted
  BY DEF AllocInv
<1> DEFINE n == Min(Above(Watermark))
           s == SlabOf(n)
           S == Missing(SlabOf(Watermark), s)
<1>2. /\ Created(S) /\ count[s] # Half /\ Counted(s)
      /\ refs' = [refs EXCEPT ![n] = 1] /\ log' = Append(log, n)
      /\ UNCHANGED <<stack, protected, session, rootHeld>>
  BY DEF AllocAppend, Half
<1>3. n \in Above(Watermark)
  <2>1. Above(Watermark) # {} /\ Above(Watermark) \in SUBSET Slots
    BY DEF AllocAppend, Above
  <2> QED BY <2>1, FirstOf
<1>4. S \in SUBSET Slabs /\ \A t \in S : slab[t] = "none"
  BY DEF Missing
<1>5. n \in Slots /\ n > Watermark /\ n \notin Live
  BY <1>3 DEF Above, IsFree, Live
<1>6. s \in Slabs /\ n \in SlotsOf(s)
  BY <1>5, SlotNumbers DEF SlotsOf
<1>7. slab[s] # "none" \/ s \in S
  <2> HIDE DEF n, S
  <2>1. n \in Nat /\ Watermark \in Nat /\ Watermark <= n
    BY <1>5, AtWatermark, SlotNumbers
  <2>2. SlabOf(Watermark) <= s
    BY <2>1, SlabsInOrder
  <2>3. s <= s
    BY <2>1, SlabBounds
  <2> HIDE DEF s
  <2> QED BY <1>6, <2>2, <2>3 DEF Missing, S
<1> HIDE DEF n, S, s
<1>8. refs' = Filled({n})
  BY <1>1, <1>2, <1>5 DEF Filled, StepTypes
<1>9. StepTypes' /\ Counts' /\ Live' = Live \cup {n} /\ Rooted'
  <2>1. {n} \in {{}, {n}}
    OBVIOUS
  <2> QED BY <1>1, <1>2, <1>4, <1>5, <1>6, <1>7, <1>8, <2>1, Allocated
<1>10. /\ log \in Seq(Slots) /\ stack \in Seq(Checkpoints) /\ Len(log) \in Nat
       /\ log' \in Seq(Slots) /\ Len(log') = Len(log) + 1 /\ log'[Len(log) + 1] = n
       /\ \A k \in 1..Len(log) : log'[k] = log[k]
  <2>1. log \in Seq(Slots) /\ stack \in Seq(Checkpoints)
    BY <1>1 DEF MarkTypes
  <2> QED BY <1>2, <1>5, <2>1, LenProperties
<1>11. \A i \in 1..Len(stack) : stack[i].start \in Nat /\ stack[i].start <= Len(log)
                                /\ stack[i].mark \in Slots
  <2>1. \A i \in 1..Len(stack) : stack[i] \in Checkpoints
    BY <1>10, ElementOfSeq
  <2>2. \A i \in 1..Len(stack) : stack[i].start <= Len(log)
    BY <1>1 DEF MarkTypes
  <2> QED BY <2>1, <2>2 DEF Checkpoints
<1>12. \A i \in 1..Len(stack) : AppendOnly(i)' <=> AppendOnly(i)
  BY <1>2 DEF AppendOnly
<1>13. MarkTypes'
  <2>1. \A i \in 1..Len(stack) : stack'[i].start <= Len(log')
    <3> SUFFICES ASSUME NEW i \in 1..Len(stack) PROVE stack'[i].start <= Len(log')
      OBVIOUS
    <3>1. stack'[i].start = stack[i].start
      BY <1>2
    <3> DEFINE a == stack[i].start
               k == Len(log)
    <3>2. a \in Nat /\ k \in Nat /\ a <= k
      BY <1>10, <1>11
    <3> HIDE DEF a, k
    <3>3. a <= k + 1
      BY <3>2
    <3> QED BY <1>10, <3>1, <3>3, Zenon DEF a, k
  <2> QED BY <1>1, <1>2, <1>10, <1>12, <2>1 DEF MarkTypes
<1>14. ASSUME NEW i \in 1..Len(stack)  PROVE LoggedSince(i)' = LoggedSince(i) \cup {n}
  <2> DEFINE b == stack[i].start
             l == Len(log)
  <2>1. b \in Nat /\ b <= l /\ l \in Nat
    BY <1>10, <1>11
  <2>2. LoggedSince(i) = {log[k] : k \in (b + 1) .. l}
        /\ LoggedSince(i)' = {log'[k] : k \in (b + 1) .. (l + 1)}
    BY <1>2, <1>10 DEF LoggedSince
  <2>3. log'[l + 1] = n /\ \A k \in 1..l : log'[k] = log[k]
    BY <1>10
  <2> HIDE DEF b, l
  <2>4. /\ l + 1 \in (b + 1) .. (l + 1)
        /\ \A k \in (b + 1) .. (l + 1) : k = l + 1 \/ k \in (b + 1) .. l
        /\ \A k \in (b + 1) .. l : k \in 1..l /\ k \in (b + 1) .. (l + 1)
    BY <2>1
  <2>5. \A k \in (b + 1) .. l : log'[k] = log[k]
    BY <2>3, <2>4
  <2> QED BY <2>2, <2>3, <2>4, <2>5
<1>15. Bases'
  <2> SUFFICES ASSUME NEW i \in 1..Len(stack)
               PROVE  /\ \A k \in stack[i].base : k <= stack[i].mark /\ (Sound(k) => k \in Live')
                      /\ \A k \in LoggedSince(i)' : Sound(k) => k \notin stack[i].base
                      /\ ~stack[i].careless =>
                           \A k \in Live' : Sound(k) => k \in stack[i].base \cup LoggedSince(i)'
                      /\ AppendOnly(i)' =>
                           /\ stack[i].mark \in Live' \cup {Null}
                           /\ \A k \in LoggedSince(i)' : k > stack[i].mark
    BY <1>2 DEF Bases, Sound, session
  <2>1. /\ \A k \in stack[i].base : k <= stack[i].mark /\ (Sound(k) => k \in Live)
        /\ \A k \in LoggedSince(i) : Sound(k) => k \notin stack[i].base
        /\ ~stack[i].careless =>
             \A k \in Live : Sound(k) => k \in stack[i].base \cup LoggedSince(i)
        /\ AppendOnly(i) =>
             /\ stack[i].mark \in Live \cup {Null}
             /\ \A k \in LoggedSince(i) : k > stack[i].mark
    BY <1>1 DEF Bases
  <2>2. LoggedSince(i)' = LoggedSince(i) \cup {n}
    BY <1>14
  <2>3. Sound(n) => n \notin stack[i].base
    BY <1>5, <2>1
  <2>4. AppendOnly(i) => n > stack[i].mark
    <3>1. AppendOnly(i) => stack[i].mark <= Watermark
      <4>1. \A k \in Live \cup {Null} : k <= Watermark
        BY AtWatermark, SlotNumbers DEF Null
      <4> QED BY <2>1, <4>1
    <3>2. n \in Nat /\ stack[i].mark \in Nat /\ Watermark \in Nat /\ n > Watermark
      BY <1>5, <1>11, AtWatermark, SlotNumbers
    <3> QED BY <3>1, <3>2
  <2> QED BY <1>9, <1>12, <2>1, <2>2, <2>3, <2>4
<1> QED BY <1>9, <1>13, <1>15 DEF AllocInv

-----------------------------------------------------------------------------
(* References come and go. *)
LEMMA BasesAfterLoss ==
  ASSUME MarkTypes, Bases, NEW F, NEW a, NEW c, a \in BOOLEAN, c \in BOOLEAN, ~a \/ c,
         stack' = Informed(stack, F, a, c), UNCHANGED <<log, reattached>>,
         Live' \subseteq Live \ F, \A n \in Live \ F : Sound(n) => n \in Live'
  PROVE  MarkTypes' /\ Bases'
<1>1. /\ MarkTypes' /\ Len(stack') = Len(stack)
      /\ \A i \in 1..Len(stack) :
           /\ stack'[i].start = stack[i].start /\ stack'[i].mark = stack[i].mark
           /\ stack'[i].append <=> stack[i].append /\ a
           /\ stack'[i].base = stack[i].base \ F
           /\ stack'[i].careless <=> stack[i].careless \/ c
           /\ LoggedSince(i)' = LoggedSince(i)
  BY AfterLoss
<1>2. \A i \in 1..Len(stack) : ~AppendOnly(i)'
  BY <1>1 DEF AppendOnly
<1>3. ASSUME NEW i \in 1..Len(stack)
      PROVE  /\ \A n \in stack[i].base \ F : n <= stack[i].mark /\ (Sound(n) => n \in Live')
             /\ \A n \in LoggedSince(i) : Sound(n) => n \notin stack[i].base \ F
             /\ ~stack[i].careless =>
                  \A n \in Live' : Sound(n) => n \in (stack[i].base \ F) \cup LoggedSince(i)
  <2>1. /\ \A n \in stack[i].base : n <= stack[i].mark /\ (Sound(n) => n \in Live)
        /\ \A n \in LoggedSince(i) : Sound(n) => n \notin stack[i].base
        /\ ~stack[i].careless =>
             \A n \in Live : Sound(n) => n \in stack[i].base \cup LoggedSince(i)
    BY DEF Bases
  <2> QED BY <2>1
<1>4. Bases'
  <2> SUFFICES ASSUME NEW i \in 1..Len(stack)
               PROVE  /\ \A n \in stack'[i].base : n <= stack'[i].mark /\ (Sound(n)' => n \in Live')
                      /\ \A n \in LoggedSince(i)' : Sound(n)' => n \notin stack'[i].base
                      /\ ~stack'[i].careless =>
                           \A n \in Live' : Sound(n)' => n \in stack'[i].base \cup LoggedSince(i)'
                      /\ ~AppendOnly(i)'
    BY <1>1 DEF Bases
  <2>1. \A n : Sound(n)' <=> Sound(n)
    BY DEF Sound
  <2> QED BY <1>1, <1>2, <1>3, <2>1
<1> QED BY <1>1, <1>4

LEMMA BasesStay ==
  ASSUME Bases, Live' = Live, UNCHANGED <<log, stack, reattached>>
  PROVE  Bases'
<1>1. \A i \in 1..Len(stack) : AppendOnly(i)' = AppendOnly(i) /\ LoggedSince(i)' = LoggedSince(i)
  BY DEF AppendOnly, LoggedSince
<1>2. \A n : Sound(n)' <=> Sound(n)
  BY DEF Sound
<1> QED BY <1>1, <1>2 DEF Bases

(* What is not given up and not in a reattached slab stays. *)
OnlyGoes(n) == \A k \in Live : Sound(k) /\ k \notin Live' => k = n /\ refs[k] = 1

LEMMA RetainKeeps ==
  ASSUME AllocInv, NEW n \in UserSlots, Retain(n)
  PROVE  AllocInv' /\ Live \subseteq Live'
<1>1. StepTypes /\ Counts /\ MarkTypes /\ Bases /\ Rooted
  BY DEF AllocInv
<1>2. /\ refs[n] < MaxRefs /\ refs' = [refs EXCEPT ![n] = @ + 1]
      /\ UNCHANGED <<slab, count, log, stack, protected, backing, root, restarts, reattached,
                     hasFile, disk, rootHeld>>
  BY DEF Retain, marks, session, files
<1>3. /\ refs \in [Slots -> 0 .. MaxRefs] /\ MaxRefs \in Nat \ {0}
      /\ n \in Slots /\ refs[n] > 0
  BY <1>1, AllocatorAssumption DEF StepTypes, UserSlots, Live
<1>4. refs' \in [Slots -> 0 .. MaxRefs] /\ \A k \in Slots : refs'[k] > 0 <=> refs[k] > 0
  BY <1>2, <1>3
<1>5. Live' = Live
  BY <1>4 DEF Live
<1>6. StepTypes'
  BY <1>1, <1>2, <1>4, <1>5 DEF StepTypes
<1>7. Counts' /\ Rooted'
  BY <1>1, <1>2, <1>5 DEF Counts, Rooted, Sound
<1>8. MarkTypes' /\ Bases'
  BY <1>1, <1>2, <1>5, MarksStay, BasesStay
<1> QED BY <1>5, <1>6, <1>7, <1>8 DEF AllocInv

(* The root stays where it is unless it is given up. *)
LEMMA RootedAfterLoss ==
  ASSUME StepTypes, Counts, Rooted, NEW F \in SUBSET Live, Deallocated(F), GivesUp(F), UNCHANGED session
  PROVE  Rooted'
<1>1. UNCHANGED <<backing, root, restarts, reattached, hasFile>>
  BY DEF session, Deallocated
<1>2. /\ \A k \in Live \ F : Sound(k) => /\ k \in Live' /\ disk'[k] = disk[k]
                                         /\ slab'[SlabOf(k)] = slab[SlabOf(k)]
      /\ \A s \in Slabs : slab'[s] \in {slab[s], "none"}
  BY <1>1, GivenUp
<1>3. /\ backing' = "file" => \A s \in Slabs : slab'[s] = "heap" => s = 0
      /\ \A s \in Slabs : slab'[s] = "mapped" => s \in hasFile'
  BY <1>1, <1>2 DEF Rooted
<1>4. ASSUME rootHeld', Sound(root)
      PROVE  /\ backing = "file" /\ root \in Live'
             /\ slab'[SlabOf(root)] = "heap" => 0 \in hasFile /\ disk'[root] > 0
  <2>1. rootHeld /\ root \notin F
    BY <1>4 DEF GivesUp
  <2>2. /\ backing = "file" /\ root \in Live
        /\ slab[SlabOf(root)] = "heap" => 0 \in hasFile /\ disk[root] > 0
    BY <1>4, <2>1 DEF Rooted
  <2> QED BY <1>2, <1>4, <2>1, <2>2
<1> QED BY <1>1, <1>3, <1>4 DEF Rooted, Sound

LEMMA ReleaseKeeps ==
  ASSUME AllocInv, NEW n \in UserSlots, Release(n)
  PROVE  AllocInv' /\ OnlyGoes(n)
<1>1. StepTypes /\ Counts /\ MarkTypes /\ Bases /\ Rooted
  BY DEF AllocInv
<1>2. /\ refs \in [Slots -> 0 .. MaxRefs] /\ MaxRefs \in Nat \ {0}
      /\ n \in Slots /\ n \in Live /\ refs[n] > 0
  BY <1>1, AllocatorAssumption DEF StepTypes, UserSlots, Live
<1>3. CASE refs[n] > 1
  <2>1. /\ refs' = [refs EXCEPT ![n] = @ - 1]
        /\ UNCHANGED <<slab, count, log, stack, protected, backing, root, restarts, reattached,
                       hasFile, disk, rootHeld>>
    BY <1>3 DEF Release, marks, session, files
  <2>2. refs' \in [Slots -> 0 .. MaxRefs] /\ \A k \in Slots : refs'[k] > 0 <=> refs[k] > 0
    BY <1>2, <1>3, <2>1
  <2>3. Live' = Live
    BY <2>2 DEF Live
  <2>4. StepTypes'
    BY <1>1, <2>1, <2>2, <2>3 DEF StepTypes
  <2>5. Counts' /\ Rooted'
    BY <1>1, <2>1, <2>3 DEF Counts, Rooted, Sound
  <2>6. MarkTypes' /\ Bases'
    BY <1>1, <2>1, <2>3, MarksStay, BasesStay
  <2> QED BY <2>3, <2>4, <2>5, <2>6 DEF AllocInv, OnlyGoes
<1>4. CASE ~(refs[n] > 1)
  <2> DEFINE f == FALSE
  <2>1. /\ Deallocated({n}) /\ GivesUp({n}) /\ stack' = Informed(stack, {n}, f, f)
        /\ protected' = IF Inside THEN protected \cup {n} ELSE protected
        /\ UNCHANGED <<log, session>>
    BY <1>4 DEF Release, Informed
  <2>2. f \in BOOLEAN /\ ~f
    OBVIOUS
  <2> HIDE DEF f
  <2>3. {n} \in SUBSET Live /\ UNCHANGED <<backing, root, restarts, reattached, hasFile>>
    BY <1>2, <2>1 DEF session, Deallocated
  <2>4. /\ Live' \in SUBSET (Live \ {n})
        /\ \A k \in Live \ {n} : Sound(k) => k \in Live'
        /\ Counts'
        /\ slab' \in [Slabs -> {"none", "heap", "mapped"}]
        /\ count' \in [Slabs -> 0 .. (CountWidth - 1)]
        /\ refs' \in [Slots -> 0 .. MaxRefs]
        /\ disk' \in [Slots -> 0 .. MaxRefs]
        /\ \A k \in Live' : slab'[SlabOf(k)] # "none"
    BY <1>1, <2>1, <2>3, GivenUp
  <2>5. StepTypes'
    <3>1. rootHeld' \in BOOLEAN
      BY <2>1 DEF GivesUp
    <3>2. protected' \subseteq Slots
      BY <1>1, <1>2, <2>1 DEF StepTypes
    <3> QED BY <1>1, <2>3, <2>4, <3>1, <3>2 DEF StepTypes
  <2>6. Rooted'
    BY <1>1, <2>1, <2>3, RootedAfterLoss
  <2>7. MarkTypes' /\ Bases'
    <3>1. Live' \subseteq Live \ {n}
      BY <2>4
    <3> QED BY <1>1, <2>1, <2>2, <2>3, <2>4, <3>1, BasesAfterLoss
  <2>8. OnlyGoes(n)
    BY <1>2, <1>4, <2>4 DEF OnlyGoes
  <2> QED BY <2>4, <2>5, <2>6, <2>7, <2>8 DEF AllocInv
<1> QED BY <1>3, <1>4

(* Copy assignment leaves the count of the slab it takes a slot from. *)
LEMMA AssignKeeps ==
  ASSUME AllocInv, NEW n \in UserSlots, NEW m \in Live, Assign(n, m)
  PROVE  AllocInv' /\ OnlyGoes(n)
<1>1. StepTypes /\ Counts /\ MarkTypes /\ Bases /\ Rooted
  BY DEF AllocInv
<1>2. /\ refs \in [Slots -> 0 .. MaxRefs] /\ MaxRefs \in Nat \ {0}
      /\ n \in Slots /\ n \in Live /\ refs[n] > 0
      /\ m \in Slots /\ refs[m] > 0
  BY <1>1, AllocatorAssumption DEF StepTypes, UserSlots, Live
<1>3. /\ n # m /\ m # Null => refs[m] < MaxRefs
      /\ \A k \in Slots : refs'[k] = IF k = n THEN refs[k] - 1
                              ELSE IF k = m /\ m # Null THEN refs[k] + 1 ELSE refs[k]
      /\ UNCHANGED <<slab, count, log, protected, backing, root, restarts, reattached, hasFile, disk>>
  BY DEF Assign, session, files
<1>4. refs' \in [Slots -> 0 .. MaxRefs]
  <2>1. \A k \in Slots : (IF k = n THEN refs[k] - 1
                          ELSE IF k = m /\ m # Null THEN refs[k] + 1 ELSE refs[k]) \in 0 .. MaxRefs
    BY <1>2, <1>3
  <2> QED BY <2>1 DEF Assign
<1>5. \A k \in Slots : /\ k # n => (refs'[k] > 0 <=> refs[k] > 0)
                       /\ k = n => (refs'[k] > 0 <=> refs[n] > 1)
  BY <1>2, <1>3
<1>6. Live' \subseteq Live /\ \A k \in Live \ {n} : k \in Live'
  BY <1>2, <1>5 DEF Live
<1>7. StepTypes'
  <2>1. rootHeld' \in BOOLEAN
    BY <1>1 DEF Assign, GivesUp, StepTypes
  <2> QED BY <1>1, <1>3, <1>4, <1>6, <2>1 DEF StepTypes
<1>8. Counts'
  <2> SUFFICES ASSUME NEW s \in Slabs \ reattached
               PROVE  Cardinality(Live' \cap SlotsOf(s)) <= count[s]
    BY <1>1, <1>3 DEF Counts
  <2> DEFINE L == Live \cap SlotsOf(s)
             M == Live' \cap SlotsOf(s)
  <2>1. L \in SUBSET Slots /\ M \in SUBSET L /\ M \in SUBSET Slots
    BY <1>6 DEF Live
  <2>2. Cardinality(L) <= count[s] /\ count[s] \in Nat
    BY <1>1, NoWrap DEF Counts, StepTypes
  <2> HIDE DEF L, M
  <2>3. IsFiniteSet(L) /\ Cardinality(L) \in Nat /\ Cardinality(M) \in Nat
    BY <2>1, SlotSets
  <2>4. Cardinality(M) <= Cardinality(L)
    BY <2>1, <2>3, FS_Subset
  <2>5. Cardinality(M) <= count[s]
    BY <2>2, <2>3, <2>4
  <2> QED BY <2>5 DEF M
<1>9. CASE refs[n] > 1
  <2>1. UNCHANGED <<stack, rootHeld>>
    BY <1>9 DEF Assign
  <2>2. Live' = Live
    <3>1. refs'[n] > 0
      BY <1>2, <1>5, <1>9
    <3>2. n \in Live'
      BY <1>2, <3>1 DEF Live
    <3> QED BY <1>6, <3>2
  <2>3. Rooted'
    BY <1>1, <1>3, <2>1, <2>2 DEF Rooted, Sound
  <2>4. MarkTypes' /\ Bases'
    BY <1>1, <1>3, <2>1, <2>2, MarksStay, BasesStay
  <2> QED BY <1>7, <1>8, <2>2, <2>3, <2>4 DEF AllocInv, OnlyGoes
<1>10. CASE ~(refs[n] > 1)
  <2> DEFINE f == TRUE
  <2>1. GivesUp({n}) /\ stack' = Informed(stack, {n}, f, f)
    BY <1>10 DEF Assign, Informed
  <2>2. f \in BOOLEAN /\ f
    OBVIOUS
  <2> HIDE DEF f
  <2>3. Live' \subseteq Live \ {n}
    <3>1. ~(refs'[n] > 0)
      BY <1>2, <1>5, <1>10
    <3>2. n \notin Live'
      BY <3>1 DEF Live
    <3> QED BY <1>6, <3>2
  <2>4. MarkTypes' /\ Bases'
    BY <1>1, <1>3, <1>6, <2>1, <2>2, <2>3, BasesAfterLoss
  <2>5. Rooted'
    BY <1>1, <1>3, <1>6, <2>1 DEF Rooted, Sound, GivesUp
  <2>6. OnlyGoes(n)
    BY <1>2, <1>6, <1>10 DEF OnlyGoes
  <2> QED BY <1>7, <1>8, <2>4, <2>5, <2>6 DEF AllocInv
<1> QED BY <1>9, <1>10

-----------------------------------------------------------------------------
(* Checkpoints. *)
LEMMA CheckpointKeeps ==
  ASSUME AllocInv, Checkpoint
  PROVE  AllocInv' /\ Live' = Live
<1>1. StepTypes /\ Counts /\ MarkTypes /\ Bases /\ Rooted
  BY DEF AllocInv
<1> DEFINE c == [start |-> Len(log), mark |-> Watermark, append |-> TRUE,
                 base |-> Live, careless |-> FALSE]
           d == Len(stack) + 1
<1>2. /\ stack' = Append(stack, c)
      /\ UNCHANGED <<slab, count, refs, log, protected, backing, root, restarts, reattached,
                     hasFile, disk, rootHeld>>
  BY DEF Checkpoint, memory, session, files
<1>3. log \in Seq(Slots) /\ stack \in Seq(Checkpoints) /\ Len(log) \in Nat /\ Len(stack) \in Nat
  BY <1>1, LenProperties DEF MarkTypes
<1>4. /\ c \in Checkpoints /\ c.start = Len(log) /\ c.mark = Watermark /\ c.append /\ ~c.careless
      /\ c.base = Live
  <2>1. Watermark \in Slots /\ Live \in SUBSET Slots
    BY AtWatermark DEF Live
  <2> QED BY <1>3, <2>1 DEF Checkpoints
<1> HIDE DEF c
<1>5. /\ stack' \in Seq(Checkpoints) /\ Len(stack') = d /\ stack'[d] = c
      /\ \A i \in 1..Len(stack) : stack'[i] = stack[i]
  BY <1>2, <1>3, <1>4
<1>6. d \in Nat /\ \A i \in 1..d : i = d \/ (i \in 1..Len(stack) /\ i < d)
  BY <1>3
<1> HIDE DEF d
<1>7. Live' = Live /\ \A n : Sound(n)' <=> Sound(n)
  BY <1>2 DEF Live, Sound
<1>8. StepTypes' /\ Counts' /\ Rooted'
  BY <1>1, <1>2, <1>7 DEF StepTypes, Counts, Rooted
<1>9. ASSUME NEW i \in 1..Len(stack)
      PROVE  /\ stack'[i] = stack[i] /\ (AppendOnly(i)' <=> AppendOnly(i))
             /\ LoggedSince(i)' = LoggedSince(i)
  BY <1>2, <1>5 DEF AppendOnly, LoggedSince
<1>10. \A i \in 1..Len(stack) : AppendOnly(i) => stack[i].mark <= Watermark
  <2>1. \A n \in Live \cup {Null} : n <= Watermark
    BY AtWatermark, SlotNumbers DEF Null
  <2> QED BY <1>1, <2>1 DEF Bases
<1>11. MarkTypes'
  <2> SUFFICES ASSUME NEW i \in 1..d
               PROVE  /\ stack'[i].start <= Len(log)
                      /\ \A j \in 1..d : i < j =>
                           /\ stack'[i].start <= stack'[j].start
                           /\ stack'[j].careless => stack'[i].careless
                           /\ AppendOnly(i)' => stack'[i].mark <= stack'[j].mark
    BY <1>2, <1>3, <1>5 DEF MarkTypes
  <2>1. CASE i = d
    <3>1. \A j \in 1..d : ~(i < j)
      BY <1>6, <2>1
    <3>2. stack'[i].start = Len(log)
      BY <1>4, <1>5, <2>1
    <3> QED BY <1>3, <3>1, <3>2
  <2>2. CASE i # d
    <3>1. i \in 1..Len(stack) /\ stack'[i] = stack[i] /\ stack[i].start <= Len(log)
          /\ (AppendOnly(i)' <=> AppendOnly(i))
      BY <1>1, <1>6, <1>9, <2>2 DEF MarkTypes
    <3>2. ASSUME NEW j \in 1..d, i < j
          PROVE  /\ stack'[i].start <= stack'[j].start
                 /\ stack'[j].careless => stack'[i].careless
                 /\ AppendOnly(i)' => stack'[i].mark <= stack'[j].mark
      <4>1. CASE j = d
        BY <1>4, <1>5, <1>10, <3>1, <4>1
      <4>2. CASE j # d
        <5>1. j \in 1..Len(stack) /\ stack'[j] = stack[j]
          BY <1>5, <1>6, <4>2
        <5>2. /\ stack[i].start <= stack[j].start
              /\ stack[j].careless => stack[i].careless
              /\ AppendOnly(i) => stack[i].mark <= stack[j].mark
          BY <1>1, <3>1, <3>2, <5>1 DEF MarkTypes
        <5> QED BY <3>1, <5>1, <5>2
      <4> QED BY <4>1, <4>2
    <3> QED BY <3>1, <3>2
  <2> QED BY <2>1, <2>2
<1>12. Bases'
  <2> SUFFICES ASSUME NEW i \in 1..d
               PROVE  /\ \A n \in stack'[i].base : n <= stack'[i].mark /\ (Sound(n) => n \in Live)
                      /\ \A n \in LoggedSince(i)' : Sound(n) => n \notin stack'[i].base
                      /\ ~stack'[i].careless =>
                           \A n \in Live : Sound(n) => n \in stack'[i].base \cup LoggedSince(i)'
                      /\ AppendOnly(i)' =>
                           /\ stack'[i].mark \in Live \cup {Null}
                           /\ \A n \in LoggedSince(i)' : n > stack'[i].mark
    BY <1>5, <1>7 DEF Bases
  <2>1. CASE i = d
    <3>1. LoggedSince(i)' = {}
      <4>1. LoggedSince(i)' = {log'[k] : k \in (stack'[i].start + 1) .. Len(log')}
        BY DEF LoggedSince
      <4>2. stack'[i].start = Len(log)
        BY <1>4, <1>5, <2>1
      <4>3. (Len(log) + 1) .. Len(log) = {}
        BY <1>3
      <4> QED BY <1>2, <4>1, <4>2, <4>3
    <3> QED BY <1>4, <1>5, <2>1, <3>1, AtWatermark
  <2>2. CASE i # d
    <3>1. i \in 1..Len(stack)
      BY <1>6, <2>2
    <3> QED BY <1>1, <1>9, <3>1 DEF Bases
  <2> QED BY <2>1, <2>2
<1> QED BY <1>7, <1>8, <1>11, <1>12 DEF AllocInv

LEMMA CommitKeeps ==
  ASSUME AllocInv, Commit
  PROVE  AllocInv' /\ Live' = Live
<1>1. StepTypes /\ Counts /\ MarkTypes /\ Bases /\ Rooted
  BY DEF AllocInv
<1>2. /\ Inside /\ stack' = Popped
      /\ log' = IF Popped = <<>> THEN <<>> ELSE log
      /\ protected' = IF Popped = <<>> THEN {} ELSE protected
      /\ UNCHANGED <<slab, count, refs, backing, root, restarts, reattached, hasFile, disk, rootHeld>>
  BY DEF Commit, memory, session, files
<1>3. /\ stack' \in Seq(Checkpoints) /\ Len(stack') \in Nat
      /\ \A i \in 1..Len(stack') : stack'[i] = stack[i] /\ i \in 1..Len(stack)
  BY <1>1, <1>2, AfterPop, LenProperties
<1>4. \A i \in 1..Len(stack') : log' = log
  <2> SUFFICES ASSUME NEW i \in 1..Len(stack')  PROVE Popped # <<>>
    BY <1>2
  <2> QED BY <1>2, <1>3, EmptySeq
<1>5. Live' = Live /\ \A n : Sound(n)' <=> Sound(n)
  BY <1>2 DEF Live, Sound
<1>6. StepTypes' /\ Counts' /\ Rooted'
  <2>1. protected' \subseteq Slots
    BY <1>1, <1>2 DEF StepTypes
  <2> QED BY <1>1, <1>2, <1>5, <2>1 DEF StepTypes, Counts, Rooted
<1>7. \A i \in 1..Len(stack') : /\ AppendOnly(i)' <=> AppendOnly(i)
                               /\ LoggedSince(i)' = LoggedSince(i)
  BY <1>3, <1>4 DEF AppendOnly, LoggedSince
<1>8. log' \in Seq(Slots)
  BY <1>1, <1>2, EmptySeq DEF MarkTypes
<1>9. MarkTypes'
  <2> SUFFICES ASSUME NEW i \in 1..Len(stack')
               PROVE  /\ stack'[i].start <= Len(log')
                      /\ \A j \in 1..Len(stack') : i < j =>
                           /\ stack'[i].start <= stack'[j].start
                           /\ stack'[j].careless => stack'[i].careless
                           /\ AppendOnly(i)' => stack'[i].mark <= stack'[j].mark
    BY <1>3, <1>8 DEF MarkTypes
  <2> QED BY <1>1, <1>3, <1>4, <1>7 DEF MarkTypes
<1>10. Bases'
  <2> SUFFICES ASSUME NEW i \in 1..Len(stack')
               PROVE  /\ \A n \in stack'[i].base : n <= stack'[i].mark /\ (Sound(n) => n \in Live)
                      /\ \A n \in LoggedSince(i)' : Sound(n) => n \notin stack'[i].base
                      /\ ~stack'[i].careless =>
                           \A n \in Live : Sound(n) => n \in stack'[i].base \cup LoggedSince(i)'
                      /\ AppendOnly(i)' =>
                           /\ stack'[i].mark \in Live \cup {Null}
                           /\ \A n \in LoggedSince(i)' : n > stack'[i].mark
    BY <1>5 DEF Bases
  <2> QED BY <1>1, <1>3, <1>7 DEF Bases
<1> QED BY <1>5, <1>6, <1>9, <1>10 DEF AllocInv

(* What a rollback brings back. *)
Exact ==
  \A n \in Slots : Sound(n) =>
     /\ n \in Top.base => n \in Live'
     /\ n \in Live' => n \in Top.base \/ Top.careless

(* A rollback to the last checkpoint that gives up what was logged since   *)
(* is exact, for it and for the checkpoints below it.                      *)
LEMMA RollbackLoses ==
  ASSUME MarkTypes, Bases, Inside, NEW F \in SUBSET Live, NEW a, a \in BOOLEAN,
         stack' = [i \in DOMAIN Popped |-> Gone(Popped[i], F, a, FALSE)],
         log' = LogLeft, reattached' = reattached,
         Live' \subseteq Live \ F, \A n \in Live \ F : Sound(n) => n \in Live',
         \A n \in F : Sound(n) => n \notin Top.base,
         ~Top.careless => \A n \in LoggedSince(Len(stack)) : Sound(n) => n \notin Live \ F,
         a => \A i \in 1..Len(stack) : i < Len(stack) /\ AppendOnly(i) =>
                                          stack[i].mark \in Live' \cup {Null}
  PROVE  MarkTypes' /\ Bases' /\ Exact
<1>0. F \in SUBSET Slots
  BY DEF Live
<1>1. /\ MarkTypes'
      /\ \A i \in 1..Len(stack') :
           /\ i \in 1..Len(stack) /\ i < Len(stack)
           /\ stack'[i].mark = stack[i].mark
           /\ stack'[i].base = stack[i].base \ F
           /\ stack'[i].careless <=> stack[i].careless
           /\ stack'[i].append <=> stack[i].append /\ a
           /\ LoggedSince(i)' \subseteq LoggedSince(i)
           /\ LoggedSince(i) \subseteq LoggedSince(i)' \cup LoggedSince(Len(stack))
  BY <1>0, AfterRollback
<1>2. Len(stack) \in Nat \ {0} /\ Top = stack[Len(stack)] /\ Len(stack) \in 1..Len(stack)
  BY AfterPop
<1>3. \A n : Sound(n)' <=> Sound(n)
  BY DEF Sound
<1>4. Exact
  <2>1. /\ \A n \in Top.base : Sound(n) => n \in Live
        /\ ~Top.careless =>
             \A n \in Live : Sound(n) => n \in Top.base \cup LoggedSince(Len(stack))
    BY <1>2 DEF Bases
  <2> QED BY <2>1 DEF Exact
<1>5. Bases'
  <2> SUFFICES ASSUME NEW i \in 1..Len(stack')
               PROVE  /\ \A n \in stack'[i].base : n <= stack'[i].mark /\ (Sound(n) => n \in Live')
                      /\ \A n \in LoggedSince(i)' : Sound(n) => n \notin stack'[i].base
                      /\ ~stack'[i].careless =>
                           \A n \in Live' : Sound(n) => n \in stack'[i].base \cup LoggedSince(i)'
                      /\ AppendOnly(i)' =>
                           /\ stack'[i].mark \in Live' \cup {Null}
                           /\ \A n \in LoggedSince(i)' : n > stack'[i].mark
    BY <1>3 DEF Bases
  <2>0. /\ i \in 1..Len(stack) /\ i < Len(stack)
        /\ stack'[i].mark = stack[i].mark
        /\ stack'[i].base = stack[i].base \ F
        /\ stack'[i].careless <=> stack[i].careless
        /\ stack'[i].append <=> stack[i].append /\ a
        /\ LoggedSince(i)' \subseteq LoggedSince(i)
        /\ LoggedSince(i) \subseteq LoggedSince(i)' \cup LoggedSince(Len(stack))
    BY <1>1
  <2>1. /\ \A n \in stack[i].base : n <= stack[i].mark /\ (Sound(n) => n \in Live)
        /\ \A n \in LoggedSince(i) : Sound(n) => n \notin stack[i].base
        /\ ~stack[i].careless =>
             \A n \in Live : Sound(n) => n \in stack[i].base \cup LoggedSince(i)
        /\ AppendOnly(i) =>
             /\ stack[i].mark \in Live \cup {Null}
             /\ \A n \in LoggedSince(i) : n > stack[i].mark
    BY <2>0 DEF Bases
  <2>2. Top.careless => stack[i].careless
    BY <1>2, <2>0 DEF MarkTypes
  <2>3. AppendOnly(i)' => AppendOnly(i) /\ a
    BY <2>0 DEF AppendOnly
  <2>4. \A n \in stack'[i].base : n <= stack'[i].mark /\ (Sound(n) => n \in Live')
    BY <2>0, <2>1
  <2>5. \A n \in LoggedSince(i)' : Sound(n) => n \notin stack'[i].base
    BY <2>0, <2>1
  <2>6. ~stack'[i].careless =>
           \A n \in Live' : Sound(n) => n \in stack'[i].base \cup LoggedSince(i)'
    BY <2>0, <2>1, <2>2
  <2>7. AppendOnly(i)' =>
           /\ stack'[i].mark \in Live' \cup {Null}
           /\ \A n \in LoggedSince(i)' : n > stack'[i].mark
    BY <2>0, <2>1, <2>3
  <2> QED BY <2>4, <2>5, <2>6, <2>7
<1> QED BY <1>1, <1>4, <1>5

LEMMA StrictCounts ==
  ASSUME StepTypes, Counts, NEW mark \in Slots,
         count' = [s \in Slabs |-> ResetCount(s, mark)],
         Live' = {n \in Live : n <= mark}, UNCHANGED <<slab, reattached>>
  PROVE  Counts' /\ count' \in [Slabs -> 0 .. (CountWidth - 1)]
<1>1. /\ count \in [Slabs -> 0 .. (CountWidth - 1)] /\ mark \in Nat
      /\ Half \in Nat /\ SlabSize <= Half /\ Half < CountWidth /\ SlabSize \in Nat \ {0, 1}
      /\ CountWidth \in Nat
  BY SlotNumbers, NoWrap, AllocatorAssumption DEF StepTypes
<1>2. ASSUME NEW s \in Slabs, slab[s] = "none" \/ s < SlabOf(mark)  PROVE count'[s] = count[s]
  BY <1>2 DEF ResetCount
<1>3. ASSUME NEW s \in Slabs, slab[s] # "none", s > SlabOf(mark)
      PROVE  count'[s] = 0 /\ Live' \cap SlotsOf(s) = {}
  <2>1. ~(s < SlabOf(mark)) /\ s \in Nat /\ SlabOf(mark) \in Nat
    <3>1. s \in Nat /\ SlabOf(mark) \in Nat
      BY <1>1, SlabBounds, AllocatorAssumption DEF Slabs
    <3> QED BY <1>3, <3>1
  <2>2. count'[s] = 0
    BY <1>3, <2>1 DEF ResetCount
  <2>3. ASSUME NEW n \in SlotsOf(s), n <= mark  PROVE FALSE
    <3>1. n \in Nat /\ SlabOf(n) = s
      BY SlotNumbers DEF SlotsOf
    <3>2. SlabOf(n) <= SlabOf(mark)
      BY <1>1, <2>3, <3>1, SlabsInOrder
    <3> QED BY <1>3, <2>1, <3>1, <3>2
  <2> QED BY <2>2, <2>3
<1>4. ASSUME NEW s \in Slabs, slab[s] # "none", s = SlabOf(mark)
      PROVE  /\ count'[s] \in Nat /\ count'[s] <= SlabSize
             /\ Cardinality(Live' \cap SlotsOf(s)) <= count'[s]
  <2> DEFINE b == s * SlabSize
             L == Live' \cap SlotsOf(s)
  <2>1. b \in Nat /\ b <= mark /\ mark < b + SlabSize
    BY <1>1, <1>4, SlabBounds
  <2>2. ~(s < SlabOf(mark)) /\ ~(s > SlabOf(mark))
    BY <1>1, <1>4, SlabBounds
  <2>3. L \in SUBSET SlotsOf(s) /\ \A n \in L : n <= mark
    OBVIOUS
  <2>4. CASE mark # Null
    <3>1. count'[s] = mark - b + 1
      BY <1>4, <2>2, <2>4 DEF ResetCount
    <3>2. Cardinality(L) <= mark - b + 1
      BY <1>1, <2>1, <2>3, UpTo
    <3> QED BY <1>1, <2>1, <3>1, <3>2
  <2>5. CASE mark = Null
    <3>1. count'[s] = IF refs[Null] > 0 THEN 1 ELSE 0
      BY <1>4, <2>2, <2>5 DEF ResetCount
    <3>2. L \subseteq {Null} /\ (L # {} => refs[Null] > 0)
      <4>1. \A n \in L : n = Null
        <5>1. \A n \in SlotsOf(s) : n \in Nat
          BY SlotNumbers DEF SlotsOf
        <5>2. \A n \in L : n \in Nat /\ n <= 0
          BY <2>3, <2>5, <5>1 DEF Null
        <5> HIDE DEF L
        <5> QED BY <5>2 DEF Null
      <4>2. \A n \in L : refs[n] > 0
        <5>1. \A n \in L : n \in Live
          OBVIOUS
        <5> HIDE DEF L
        <5> QED BY <5>1 DEF Live
      <4> QED BY <4>1, <4>2
    <3> HIDE DEF L
    <3>3. L = {} \/ L = {Null}
      BY <3>2
    <3>4. Cardinality({}) = 0 /\ Cardinality({Null}) = 1
      BY FS_EmptySet, FS_Singleton
    <3>5. Cardinality(L) <= count'[s]
      <4>1. CASE L = {}
        BY <3>1, <3>4, <4>1
      <4>2. CASE L = {Null}
        <5>1. count'[s] = 1
          BY <3>1, <3>2, <4>2
        <5>2. Cardinality(L) = 1
          BY <3>4, <4>2
        <5> QED BY <5>1, <5>2
      <4> QED BY <3>3, <4>1, <4>2
    <3> QED BY <1>1, <3>1, <3>5 DEF L
  <2> QED BY <2>4, <2>5
<1>5. ASSUME NEW s \in Slabs, slab[s] = "none" \/ s < SlabOf(mark)
      PROVE  Live' \cap SlotsOf(s) = Live \cap SlotsOf(s)
  <2>1. CASE slab[s] = "none"
    BY <2>1 DEF StepTypes, SlotsOf
  <2>2. CASE s < SlabOf(mark)
    <3> SUFFICES ASSUME NEW n \in SlotsOf(s), ~(n <= mark)  PROVE FALSE
      OBVIOUS
    <3>1. n \in Nat /\ SlabOf(n) = s /\ mark <= n
      BY <1>1, SlotNumbers DEF SlotsOf
    <3>2. SlabOf(mark) <= s
      BY <1>1, <3>1, SlabsInOrder
    <3> QED BY <1>1, <2>2, <3>1, <3>2, SlabBounds
  <2> QED BY <1>5, <2>1, <2>2
<1>6. ASSUME NEW s \in Slabs
      PROVE  slab[s] = "none" \/ s < SlabOf(mark) \/ s > SlabOf(mark) \/ s = SlabOf(mark)
  <2>1. s \in Nat /\ SlabOf(mark) \in Nat
    BY <1>1, SlabBounds, AllocatorAssumption DEF Slabs
  <2> QED BY <2>1
<1>7. count' \in [Slabs -> 0 .. (CountWidth - 1)]
  <2>1. ASSUME NEW s \in Slabs  PROVE count'[s] \in 0 .. (CountWidth - 1)
    <3>1. CASE slab[s] = "none" \/ s < SlabOf(mark)
      BY <1>1, <1>2, <3>1
    <3>2. CASE slab[s] # "none" /\ s > SlabOf(mark)
      BY <1>1, <1>3, <3>2
    <3>3. CASE slab[s] # "none" /\ s = SlabOf(mark)
      <4>1. count'[s] \in Nat /\ count'[s] <= SlabSize
        BY <1>4, <3>3
      <4> QED BY <1>1, <4>1
    <3> QED BY <1>6, <3>1, <3>2, <3>3
  <2> QED BY <2>1
<1>8. ASSUME NEW s \in Slabs \ reattached
      PROVE  /\ Cardinality(Live' \cap SlotsOf(s)) <= count'[s]
             /\ count'[s] <= Half
             /\ slab[s] = "none" => count'[s] = 0
  <2>1. CASE slab[s] = "none" \/ s < SlabOf(mark)
    BY <1>2, <1>5, <2>1 DEF Counts
  <2>2. CASE slab[s] # "none" /\ s > SlabOf(mark)
    <3>1. count'[s] = 0 /\ Live' \cap SlotsOf(s) = {}
      BY <1>3, <2>2
    <3>2. Cardinality({}) = 0
      BY FS_EmptySet
    <3>3. Cardinality(Live' \cap SlotsOf(s)) = 0
      BY <3>1, <3>2, Zenon
    <3> QED BY <1>1, <3>1, <3>3
  <2>3. CASE slab[s] # "none" /\ s = SlabOf(mark)
    <3>1. /\ count'[s] \in Nat /\ count'[s] <= SlabSize
          /\ Cardinality(Live' \cap SlotsOf(s)) <= count'[s]
      BY <1>4, <2>3
    <3> QED BY <1>1, <2>3, <3>1
  <2> QED BY <1>6, <2>1, <2>2, <2>3
<1>9. Counts'
  BY <1>8 DEF Counts
<1> QED BY <1>7, <1>9

LEMMA StrictKeeps ==
  ASSUME AllocInv, RollbackStrict
  PROVE  AllocInv' /\ Exact
<1>1. StepTypes /\ Counts /\ MarkTypes /\ Bases /\ Rooted
  BY DEF AllocInv
<1> DEFINE mark == Top.mark
           F == {n \in Live : n > mark}
           a == TRUE
<1>2. /\ Inside /\ Top.append
      /\ count' = [s \in Slabs |-> ResetCount(s, mark)]
      /\ refs' = Without(F)
      /\ stack' = [i \in DOMAIN Popped |-> Gone(Popped[i], F, a, FALSE)]
      /\ log' = LogLeft
      /\ protected' = IF Popped = <<>> THEN {} ELSE protected
      /\ GivesUp(F)
      /\ UNCHANGED <<slab, backing, root, restarts, reattached, hasFile, disk>>
  BY DEF RollbackStrict, session, files
<1>3. /\ Top \in Checkpoints /\ Top = stack[Len(stack)] /\ Len(stack) \in 1..Len(stack)
      /\ Len(stack) \in Nat
  BY <1>1, <1>2, AfterPop
<1>4. mark \in Slots /\ mark \in Nat
  BY <1>3, SlotNumbers DEF Checkpoints
<1> HIDE DEF mark, a
<1>5. \A n \in Live : n \in Nat /\ n \in Slots
  BY SlotNumbers DEF Live
<1>6. /\ refs \in [Slots -> 0 .. MaxRefs] /\ MaxRefs \in Nat \ {0}
  BY <1>1, AllocatorAssumption DEF StepTypes
<1>7. /\ \A n \in Slots : refs'[n] = IF n \in F THEN 0 ELSE refs[n]
      /\ refs' \in [Slots -> 0 .. MaxRefs]
  BY <1>2, <1>6 DEF Without
<1>8. Live' = Live \ F
  BY <1>6, <1>7 DEF Live
<1>9. Live' = {n \in Live : n <= mark}
  BY <1>4, <1>5, <1>8
<1>10. Counts' /\ count' \in [Slabs -> 0 .. (CountWidth - 1)]
  BY <1>1, <1>2, <1>4, <1>9, StrictCounts
<1>11. MarkTypes' /\ Bases' /\ Exact
  <2>1. \A n \in F : Sound(n) => n \notin Top.base
    <3>1. \A n \in Top.base : n <= mark
      BY <1>1, <1>3 DEF Bases, mark
    <3> QED BY <1>4, <1>5, <3>1
  <2>2. ~Top.careless => \A n \in LoggedSince(Len(stack)) : Sound(n) => n \notin Live \ F
    <3>1. ~Top.careless => \A n \in LoggedSince(Len(stack)) : n > mark
      BY <1>1, <1>2, <1>3 DEF Bases, AppendOnly, mark
    <3> QED BY <3>1
  <2>3. \A i \in 1..Len(stack) : i < Len(stack) /\ AppendOnly(i) => stack[i].mark \in Live' \cup {Null}
    <3> SUFFICES ASSUME NEW i \in 1..Len(stack), i < Len(stack), AppendOnly(i)
                 PROVE  stack[i].mark \in Live' \cup {Null}
      OBVIOUS
    <3>1. stack[i].mark <= mark
      BY <1>1, <1>3 DEF MarkTypes, mark
    <3>2. stack[i].mark \in Live \cup {Null}
      BY <1>1 DEF Bases
    <3> QED BY <1>9, <3>1, <3>2
  <2>4. F \in SUBSET Live /\ Live' \subseteq Live \ F /\ (\A n \in Live \ F : Sound(n) => n \in Live')
    BY <1>8
  <2>5. a \in BOOLEAN
    BY DEF a
  <2> HIDE DEF F
  <2> QED BY <1>1, <1>2, <2>1, <2>2, <2>3, <2>4, <2>5, RollbackLoses
<1>12. StepTypes'
  <2>1. protected' \subseteq Slots /\ rootHeld' \in BOOLEAN
    BY <1>1, <1>2 DEF StepTypes, GivesUp
  <2>2. \A n \in Live' : slab'[SlabOf(n)] # "none"
    BY <1>1, <1>2, <1>8 DEF StepTypes
  <2> QED BY <1>1, <1>2, <1>7, <1>10, <2>1, <2>2 DEF StepTypes
<1>13. Rooted'
  BY <1>1, <1>2, <1>8 DEF Rooted, Sound, GivesUp
<1> QED BY <1>10, <1>11, <1>12, <1>13 DEF AllocInv

LEMMA LoggedKeeps ==
  ASSUME AllocInv, RollbackLogged
  PROVE  AllocInv' /\ Exact
<1>1. StepTypes /\ Counts /\ MarkTypes /\ Bases /\ Rooted
  BY DEF AllocInv
<1> DEFINE F == Logged \cap Live
           a == F = {}
<1>2. /\ Inside /\ Deallocated(F)
      /\ stack' = [i \in DOMAIN Popped |-> Gone(Popped[i], F, a, FALSE)]
      /\ log' = LogLeft
      /\ protected' = IF Popped = <<>> THEN {} ELSE protected \cup F
      /\ GivesUp(F)
      /\ UNCHANGED session
  BY DEF RollbackLogged
<1>3. UNCHANGED <<backing, root, restarts, reattached, hasFile>>
  BY <1>2 DEF session, Deallocated
<1>4. Top = stack[Len(stack)] /\ Len(stack) \in 1..Len(stack)
  BY <1>1, <1>2, AfterPop
<1>5. Logged = LoggedSince(Len(stack))
  BY <1>4 DEF Logged, LoggedSince
<1>6. a \in BOOLEAN /\ F \in SUBSET Live /\ F \in SUBSET Slots
  BY DEF Live
<1>7. a => F = {}
  OBVIOUS
<1>8. \A n \in F : n \in LoggedSince(Len(stack))
  BY <1>5
<1>9. \A n \in LoggedSince(Len(stack)) : n \notin Live \ F
  BY <1>5
<1> HIDE DEF F, a
<1>10. /\ Live' \in SUBSET (Live \ F)
       /\ \A n \in Live \ F : Sound(n) => n \in Live'
       /\ Counts'
       /\ slab' \in [Slabs -> {"none", "heap", "mapped"}]
       /\ count' \in [Slabs -> 0 .. (CountWidth - 1)]
       /\ refs' \in [Slots -> 0 .. MaxRefs]
       /\ disk' \in [Slots -> 0 .. MaxRefs]
       /\ \A n \in Live' : slab'[SlabOf(n)] # "none"
  BY <1>1, <1>2, <1>3, <1>6, GivenUp
<1>11. ASSUME F = {}  PROVE Live' = Live
  <2>1. \A s \in Slabs : s \notin Emptied({})
    <3>1. ASSUME NEW s \in Slabs  PROVE Cardinality({} \cap SlotsOf(s)) = 0
      <4>1. {} \cap SlotsOf(s) = {}
        OBVIOUS
      <4> QED BY <4>1, FS_EmptySet
    <3>2. count \in [Slabs -> 0 .. (CountWidth - 1)] /\ CountWidth \in Nat
      BY <1>1, AllocatorAssumption DEF StepTypes
    <3>3. \A s \in Slabs : ~(1 <= count[s] /\ count[s] <= 0)
      BY <3>2
    <3> QED BY <3>1, <3>3 DEF Emptied
  <2>2. \A n \in Slots : refs'[n] = refs[n]
    <3>1. refs' = [n \in Slots |-> IF SlabOf(n) \in Emptied({}) THEN 0 ELSE Without({})[n]]
      BY <1>2, <1>11 DEF Deallocated
    <3> QED BY <2>1, <3>1, SlotNumbers DEF Without
  <2> QED BY <2>2 DEF Live
<1>12. MarkTypes' /\ Bases' /\ Exact
  <2>1. \A n \in F : Sound(n) => n \notin Top.base
    BY <1>1, <1>4, <1>8 DEF Bases
  <2>2. a => \A i \in 1..Len(stack) : i < Len(stack) /\ AppendOnly(i) =>
                                        stack[i].mark \in Live' \cup {Null}
    BY <1>1, <1>7, <1>11 DEF Bases
  <2>3. Live' \subseteq Live \ F
    BY <1>10
  <2> QED BY <1>1, <1>2, <1>3, <1>6, <1>9, <1>10, <2>1, <2>2, <2>3, RollbackLoses
<1>13. StepTypes'
  <2>1. protected' \subseteq Slots /\ rootHeld' \in BOOLEAN
    BY <1>1, <1>2, <1>6 DEF StepTypes, GivesUp
  <2> QED BY <1>1, <1>3, <1>10, <2>1 DEF StepTypes
<1>14. Rooted'
  BY <1>1, <1>2, <1>6, RootedAfterLoss
<1> QED BY <1>10, <1>12, <1>13, <1>14 DEF AllocInv

-----------------------------------------------------------------------------
(* Saves and restarts. *)
LEMMA SaveSteps ==
  /\ SaveOrder \in Rests /\ SaveOrder # <<>> /\ AtRest.todo = <<>>
  /\ Head(SaveOrder) = "slab" /\ Tail(SaveOrder) = <<"anchor", "bootstrap">>
  /\ \A t \in Rests \ {<<>>} :
       /\ Tail(t) \in Rests /\ Tail(t) # SaveOrder
       /\ Len(t) = 1 <=> Tail(t) = <<>>
       /\ Head(t) = "slab" <=> t = SaveOrder
  /\ Rests = {SaveOrder, Tail(SaveOrder), Tail(Tail(SaveOrder)), <<>>}
<1>1. /\ Tail(<<"slab", "anchor", "bootstrap">>) = <<"anchor", "bootstrap">>
      /\ Tail(<<"anchor", "bootstrap">>) = <<"bootstrap">>
      /\ Tail(<<"bootstrap">>) = <<>>
  OBVIOUS
<1>2. /\ Len(<<"slab", "anchor", "bootstrap">>) = 3 /\ Len(<<"anchor", "bootstrap">>) = 2
      /\ Len(<<"bootstrap">>) = 1 /\ Len(<<>>) = 0
  OBVIOUS
<1>3. /\ Head(<<"slab", "anchor", "bootstrap">>) = "slab"
      /\ Head(<<"anchor", "bootstrap">>) = "anchor" /\ Head(<<"bootstrap">>) = "bootstrap"
  OBVIOUS
<1>4. /\ <<"slab", "anchor", "bootstrap">> # <<"anchor", "bootstrap">>
      /\ <<"slab", "anchor", "bootstrap">> # <<"bootstrap">>
      /\ <<"slab", "anchor", "bootstrap">> # <<>>
      /\ <<"anchor", "bootstrap">> # <<>> /\ <<"bootstrap">> # <<>>
  BY <1>2
<1>5. SaveOrder = <<"slab", "anchor", "bootstrap">>
  BY DEF SaveOrder
<1>6. SaveOrder \in Rests /\ SaveOrder # <<>> /\ AtRest.todo = <<>>
  BY <1>4, <1>5 DEF Rests, AtRest
<1>7. Head(SaveOrder) = "slab" /\ Tail(SaveOrder) = <<"anchor", "bootstrap">>
  BY <1>1, <1>3, <1>5
<1>8. ASSUME NEW t \in Rests \ {<<>>}
      PROVE  /\ Tail(t) \in Rests /\ Tail(t) # SaveOrder
             /\ Len(t) = 1 <=> Tail(t) = <<>>
             /\ Head(t) = "slab" <=> t = SaveOrder
  <2>1. CASE t = <<"slab", "anchor", "bootstrap">>
    <3>1. Tail(t) = <<"anchor", "bootstrap">> /\ Len(t) = 3 /\ Head(t) = "slab"
      BY <1>1, <1>2, <1>3, <2>1
    <3> QED BY <1>4, <1>5, <2>1, <3>1 DEF Rests
  <2>2. CASE t = <<"anchor", "bootstrap">>
    <3>1. Tail(t) = <<"bootstrap">> /\ Len(t) = 2 /\ Head(t) = "anchor"
      BY <1>1, <1>2, <1>3, <2>2
    <3> QED BY <1>4, <1>5, <2>2, <3>1 DEF Rests
  <2>3. CASE t = <<"bootstrap">>
    <3>1. Tail(t) = <<>> /\ Len(t) = 1 /\ Head(t) = "bootstrap"
      BY <1>1, <1>2, <1>3, <2>3
    <3> QED BY <1>4, <1>5, <2>3, <3>1 DEF Rests
  <2> QED BY <2>1, <2>2, <2>3 DEF Rests
<1>9. Rests = {SaveOrder, Tail(SaveOrder), Tail(Tail(SaveOrder)), <<>>}
  BY <1>1, <1>5, <1>7 DEF Rests
<1> QED BY <1>6, <1>7, <1>8, <1>9

(* What the steps of a save leave alone. *)
LEMMA FilesKeep ==
  ASSUME AllocInv, UNCHANGED <<slab, count, refs, log, stack, protected, backing, restarts, reattached>>,
         hasFile \subseteq hasFile', hasFile' \subseteq Slabs, disk' \in [Slots -> 0 .. MaxRefs],
         root' \in Slots, rootHeld' \in BOOLEAN,
         rootHeld' /\ Sound(root)' =>
           /\ backing = "file" /\ root' \in Live
           /\ slab[SlabOf(root')] = "heap" => 0 \in hasFile' /\ disk'[root'] > 0
  PROVE  AllocInv' /\ Live' = Live
<1>1. StepTypes /\ Counts /\ MarkTypes /\ Bases /\ Rooted
  BY DEF AllocInv
<1>2. Live' = Live
  BY DEF Live
<1>3. StepTypes' /\ Counts'
  BY <1>1, <1>2 DEF StepTypes, Counts
<1>4. MarkTypes' /\ Bases'
  BY <1>1, <1>2, MarksStay, BasesStay
<1>5. Rooted'
  BY <1>1, <1>2 DEF Rooted
<1> QED BY <1>2, <1>3, <1>4, <1>5 DEF AllocInv

LEMMA SaveBeginsKeeps ==
  ASSUME SlabInv, ~Saving, NEW n \in UserSlots, SaveBegins(n)
  PROVE  SlabInv' /\ Live' = Live
<1>1. /\ UNCHANGED <<slab, count, refs, log, stack, protected, backing, root, restarts, reattached,
                     hasFile, disk, rootHeld, complete>>
      /\ backing = "file" /\ saving' = [todo |-> SaveOrder, opened |-> FALSE, of |-> n]
  BY DEF SaveBegins, memory, marks, files
<1>2. AllocInv' /\ Live' = Live
  <2>1. AllocInv /\ StepTypes /\ Rooted /\ (Sound(root)' => Sound(root))
    BY <1>1 DEF SlabInv, AllocInv, Sound
  <2>2. hasFile \subseteq hasFile' /\ hasFile' \subseteq Slabs /\ root' \in Slots
        /\ disk' \in [Slots -> 0 .. MaxRefs] /\ rootHeld' \in BOOLEAN
    BY <1>1, <2>1 DEF StepTypes
  <2>3. rootHeld' /\ Sound(root)' =>
           /\ backing = "file" /\ root' \in Live
           /\ slab[SlabOf(root')] = "heap" => 0 \in hasFile' /\ disk'[root'] > 0
    BY <1>1, <2>1 DEF Rooted
  <2> QED BY <1>1, <2>1, <2>2, <2>3, FilesKeep
<1>3. n \in Slots /\ n \in Live
  BY DEF UserSlots, Live
<1>4. Underway'
  BY <1>1, <1>2, <1>3, SaveSteps DEF SlabInv, Underway, Saving
<1> QED BY <1>2, <1>4 DEF SlabInv

LEMMA OpenKeeps ==
  ASSUME SlabInv, OpenFile
  PROVE  SlabInv' /\ Live' = Live
<1>1. /\ UNCHANGED <<slab, count, refs, log, stack, protected, backing, root, restarts, reattached,
                     disk, rootHeld, complete>>
      /\ Saving /\ ~saving.opened
      /\ hasFile' = hasFile \/ hasFile' = hasFile \cup {0}
  BY DEF OpenFile, memory, marks
<1>2. /\ AllocInv /\ StepTypes /\ Rooted /\ Underway /\ (Sound(root)' => Sound(root))
      /\ 0 \in Slabs
  BY <1>1, AllocatorAssumption DEF SlabInv, AllocInv, Sound, Slabs
<1>3. hasFile \subseteq hasFile' /\ hasFile' \subseteq Slabs
  BY <1>1, <1>2 DEF StepTypes
<1>4. AllocInv' /\ Live' = Live
  <2>1. root' \in Slots /\ disk' \in [Slots -> 0 .. MaxRefs] /\ rootHeld' \in BOOLEAN
    BY <1>1, <1>2 DEF StepTypes
  <2>2. rootHeld' /\ Sound(root)' =>
           /\ backing = "file" /\ root' \in Live
           /\ slab[SlabOf(root')] = "heap" => 0 \in hasFile' /\ disk'[root'] > 0
    BY <1>1, <1>2, <1>3 DEF Rooted
  <2> QED BY <1>1, <1>2, <1>3, <2>1, <2>2, FilesKeep
<1>5. saving.todo \in Rests \ {<<>>}
  BY <1>1, <1>2 DEF Underway, Saving
<1>6. Underway'
  <2>1. CASE Head(saving.todo) = "slab" /\ ~WritesSlab
    <3>1. saving' = [saving EXCEPT !.todo = Tail(@)] /\ saving.todo = SaveOrder /\ slab[0] # "heap"
      BY <1>5, <2>1, SaveSteps DEF OpenFile, WritesSlab
    <3>2. saving'.todo = <<"anchor", "bootstrap">> /\ saving'.of = saving.of
          /\ saving' \in [todo : Rests, opened : BOOLEAN, of : Slots]
      BY <1>2, <3>1, SaveSteps DEF Underway, Rests
    <3>3. saving'.todo # <<>>
      BY <3>2
    <3> QED BY <1>1, <1>2, <1>4, <3>1, <3>2, <3>3 DEF Underway
  <2>2. CASE ~(Head(saving.todo) = "slab" /\ ~WritesSlab)
    <3>1. saving' = [saving EXCEPT !.opened = TRUE]
      BY <2>2 DEF OpenFile
    <3>2. /\ saving'.todo = saving.todo /\ saving'.of = saving.of
          /\ saving' \in [todo : Rests, opened : BOOLEAN, of : Slots]
      BY <1>2, <3>1 DEF Underway
    <3>3. saving.todo = SaveOrder => 0 \in hasFile'
      BY <1>5, <2>2, SaveSteps DEF OpenFile
    <3> QED BY <1>1, <1>2, <1>3, <1>4, <1>5, <3>2, <3>3 DEF Underway
  <2> QED BY <2>1, <2>2
<1> QED BY <1>4, <1>6 DEF SlabInv

LEMMA WriteKeeps ==
  ASSUME SlabInv, WriteFile
  PROVE  SlabInv' /\ Live' = Live
<1> DEFINE file == Head(saving.todo)
<1>1. /\ UNCHANGED <<slab, count, refs, log, stack, protected, backing, restarts, reattached, hasFile>>
      /\ saving.opened /\ Written(file)
      /\ saving' = IF Len(saving.todo) = 1 THEN AtRest
                   ELSE [saving EXCEPT !.todo = Tail(@), !.opened = FALSE]
  BY DEF WriteFile, memory, marks
<1>2. /\ AllocInv /\ StepTypes /\ Rooted /\ Underway /\ 0 \in Slabs
  BY AllocatorAssumption DEF SlabInv, AllocInv, Slabs
<1>3. Saving /\ saving.todo \in Rests \ {<<>>} /\ backing = "file" /\ saving.of \in Live /\ saving.of \in Slots
  BY <1>1, <1>2 DEF Underway, Saving, AtRest
<1>4. disk' \in [Slots -> 0 .. MaxRefs]
      /\ \A k \in Slots : disk'[k] = IF file = "slab" /\ SlabOf(k) = 0 THEN refs[k] ELSE disk[k]
  BY <1>1, <1>2 DEF Written, StepTypes
<1>5. file # "slab" /\ slab[0] = "heap" =>
        0 \in hasFile /\ \A k \in Slots : SlabOf(k) = 0 => disk'[k] = refs[k]
  BY <1>2, <1>3, <1>4, SaveSteps DEF Underway
<1>6. \A k \in Live : SlabOf(k) \in Slabs /\ k \in Slots /\ refs[k] > 0
  BY SlotNumbers DEF Live
<1>7. AllocInv' /\ Live' = Live
  <2>1. root' \in Slots /\ rootHeld' \in BOOLEAN
    BY <1>1, <1>2, <1>3 DEF Written, StepTypes
  <2>2. ASSUME rootHeld', Sound(root)'
        PROVE  /\ backing = "file" /\ root' \in Live
               /\ slab[SlabOf(root')] = "heap" => 0 \in hasFile' /\ disk'[root'] > 0
    <3>1. \A k \in Live : slab[SlabOf(k)] = "heap" => SlabOf(k) = 0
      BY <1>2, <1>3, <1>6 DEF Rooted
    <3>2. CASE file = "anchor"
      <4>1. root' = saving.of
        BY <1>1, <3>2 DEF Written
      <4> QED BY <1>1, <1>3, <1>5, <1>6, <3>1, <3>2, <4>1
    <3>3. CASE file # "anchor"
      <4>1. root' = root /\ rootHeld
        BY <1>1, <2>2, <3>3 DEF Written
      <4>2. Sound(root)
        BY <1>1, <2>2, <4>1 DEF Sound
      <4>3. root \in Live /\ (slab[SlabOf(root)] = "heap" => 0 \in hasFile /\ disk[root] > 0)
        BY <1>2, <4>1, <4>2 DEF Rooted
      <4> QED BY <1>1, <1>3, <1>4, <1>6, <4>1, <4>3
    <3> QED BY <3>2, <3>3
  <2> QED BY <1>1, <1>2, <1>4, <2>1, <2>2, FilesKeep DEF StepTypes
<1>8. Underway'
  <2>1. complete' \in BOOLEAN
    BY <1>1, <1>2 DEF Written, Underway
  <2>2. CASE Len(saving.todo) = 1
    <3>1. saving' = AtRest /\ Null \in Slots
      BY <1>1, <2>2, SlotNumbers
    <3>2. saving' \in [todo : Rests, opened : BOOLEAN, of : Slots]
      BY <3>1 DEF AtRest, Rests
    <3> QED BY <2>1, <3>1, <3>2, SaveSteps DEF Underway, Saving
  <2>3. CASE Len(saving.todo) # 1
    <3>1. saving' = [saving EXCEPT !.todo = Tail(@), !.opened = FALSE]
      BY <1>1, <2>3
    <3>2. /\ saving'.todo = Tail(saving.todo) /\ saving'.of = saving.of
          /\ saving'.todo \in Rests \ {<<>>} /\ saving'.todo # SaveOrder
          /\ saving' \in [todo : Rests, opened : BOOLEAN, of : Slots]
      BY <1>2, <1>3, <2>3, <3>1, SaveSteps DEF Underway
    <3>3. slab[0] = "heap" => 0 \in hasFile /\ \A k \in Slots : SlabOf(k) = 0 => disk'[k] = refs[k]
      <4>1. CASE file # "slab"
        BY <1>5, <4>1
      <4>2. CASE file = "slab"
        <5>1. 0 \in hasFile
          BY <1>1, <1>2, <1>3, <4>2, SaveSteps DEF Underway
        <5> QED BY <1>4, <4>2, <5>1
      <4> QED BY <4>1, <4>2
    <3> QED BY <1>1, <1>3, <1>7, <2>1, <3>2, <3>3 DEF Underway
  <2> QED BY <2>2, <2>3
<1> QED BY <1>7, <1>8 DEF SlabInv

(* The root is in a file that is mapped, or was written out with slab 0. *)
LEMMA RootOnDisk ==
  ASSUME StepTypes, Rooted, rootHeld, Sound(root), Spared, NEW end
  PROVE  OnDisk(root, end) > 0
<1>1. /\ root \in Live /\ root \in Slots /\ SlabOf(root) \in Slabs /\ refs[root] > 0
      /\ slab[SlabOf(root)] = "heap" => 0 \in hasFile /\ disk[root] > 0
      /\ backing = "file" /\ (slab[SlabOf(root)] = "heap" => SlabOf(root) = 0)
      /\ slab[SlabOf(root)] = "mapped" => SlabOf(root) \in hasFile
  BY SlotNumbers DEF Rooted, Live
<1>2. slab[SlabOf(root)] \in {"heap", "mapped"}
  BY <1>1 DEF StepTypes
<1> QED BY <1>1, <1>2 DEF OnDisk, Spared

LEMMA RestartKeeps ==
  ASSUME SlabInv, Restart
  PROVE  SlabInv' /\ (rootHeld /\ Sound(root) /\ Spared => refs'[root] > 0)
<1> DEFINE Kept == IF Torn("slab") THEN hasFile ELSE hasFile \ {0}
<1>1. StepTypes /\ Counts /\ MarkTypes /\ Bases /\ Rooted
  BY DEF SlabInv, AllocInv
<1>2. /\ restarts < MaxRestarts /\ restarts' = restarts + 1
      /\ slab' = [s \in Slabs |-> IF s \in hasFile THEN "mapped" ELSE "none"]
      /\ count' = [s \in Slabs |-> IF s = 0 THEN Rebuilt ELSE 0]
      /\ log' = <<>> /\ stack' = <<>> /\ protected' = {}
      /\ disk' = [n \in Slots |-> 0]
      /\ reattached' = Kept /\ saving' = AtRest
      /\ rootHeld' = (rootHeld /\ Sound(root) /\ Spared)
      /\ UNCHANGED <<backing, hasFile, root, complete>>
  BY DEF Restart
<1>0. PICK end \in 0 .. SlabSize :
         /\ ~Torn("slab") => end = SlabSize
         /\ refs' = [n \in Slots |-> OnDisk(n, end)]
  BY DEF Restart
<1> DEFINE Back(n) == OnDisk(n, end)
<1>3. /\ refs \in [Slots -> 0 .. MaxRefs] /\ disk \in [Slots -> 0 .. MaxRefs]
      /\ MaxRefs \in Nat \ {0} /\ root \in Slots /\ hasFile \subseteq Slabs
      /\ Half \in Nat /\ SlabSize <= Half /\ Half < CountWidth /\ SlabSize \in Nat \ {0, 1}
      /\ CountWidth \in Nat /\ 0 \in Slabs /\ \A n \in Slots : SlabOf(n) \in Slabs
      /\ reattached \subseteq hasFile
  BY <1>1, NoWrap, SlotNumbers, AllocatorAssumption DEF StepTypes, Slabs
<1>4. \A n \in Slots : Back(n) \in 0 .. MaxRefs /\ (SlabOf(n) \notin hasFile => Back(n) = 0)
  BY <1>3, <1>0 DEF OnDisk
<1>5. refs' \in [Slots -> 0 .. MaxRefs] /\ Live' = {n \in Slots : Back(n) > 0}
  BY <1>0, <1>4 DEF Live
<1>6. /\ Rebuilt \in Nat /\ Rebuilt <= SlabSize
      /\ ~Torn("slab") => Rebuilt = Cardinality(Live' \cap SlotsOf(0))
  <2> DEFINE L == Live' \cap SlotsOf(0)
  <2>1. CASE ~Torn("slab")
    <3>1. {n \in SlotsOf(0) : OnDisk(n, SlabSize) > 0} = L
      BY <1>0, <1>5, <2>1 DEF SlotsOf
    <3>2. Rebuilt = Cardinality(L)
      BY <2>1, <3>1 DEF Rebuilt
    <3>3. L \in SUBSET Slots /\ L \in SUBSET SlotsOf(0)
      BY <1>5
    <3>4. \A n \in L : n \in Nat /\ n <= 0 * SlabSize + SlabSize
      <4>1. \A n \in SlotsOf(0) : n < 0 * SlabSize + SlabSize /\ n \in Nat
        BY <1>3, FirstSlot, SlotNumbers DEF SlotsOf
      <4> QED BY <1>3, <3>3, <4>1
    <3> HIDE DEF L
    <3>5. Cardinality(L) \in Nat
      BY <3>3, SlotSets
    <3>6. Cardinality(L) <= SlabSize
      <4>1. 0 * SlabSize + SlabSize \in Nat /\ 0 * SlabSize <= 0 * SlabSize + SlabSize
        BY <1>3
      <4> QED BY <1>3, <3>3, <3>4, <4>1, UpTo
    <3> QED BY <3>2, <3>5, <3>6 DEF L
  <2>2. CASE Torn("slab")
    BY <1>3, <2>2 DEF Rebuilt
  <2> QED BY <2>1, <2>2
<1>7. /\ slab' \in [Slabs -> {"none", "heap", "mapped"}]
      /\ \A s \in Slabs : slab'[s] = IF s \in hasFile THEN "mapped" ELSE "none"
      /\ disk' \in [Slots -> 0 .. MaxRefs]
  BY <1>2, <1>3
<1>8. /\ count' \in [Slabs -> 0 .. (CountWidth - 1)]
      /\ \A s \in Slabs : count'[s] = IF s = 0 THEN Rebuilt ELSE 0
  <2>1. Rebuilt \in 0 .. (CountWidth - 1) /\ 0 \in 0 .. (CountWidth - 1)
    BY <1>3, <1>6
  <2> QED BY <1>2, <2>1
<1>9. \A n \in Live' : SlabOf(n) \in hasFile
  BY <1>3, <1>4, <1>5
<1>10. StepTypes'
  <2>1. restarts' \in 0 .. MaxRestarts
    BY <1>1, <1>2, AllocatorAssumption DEF StepTypes
  <2>2. \A n \in Live' : slab'[SlabOf(n)] # "none"
    BY <1>3, <1>7, <1>9
  <2>3. protected' \subseteq Slots /\ reattached' \subseteq hasFile'
    BY <1>2
  <2> QED BY <1>1, <1>2, <1>5, <1>7, <1>8, <2>1, <2>2, <2>3 DEF StepTypes
<1>11. Counts'
  <2> SUFFICES ASSUME NEW s \in Slabs, s \notin hasFile \/ (s = 0 /\ ~Torn("slab"))
               PROVE  /\ Cardinality(Live' \cap SlotsOf(s)) <= count'[s]
                      /\ count'[s] <= Half
                      /\ slab'[s] = "none" => count'[s] = 0
    BY <1>2 DEF Counts
  <2>1. CASE s = 0 /\ 0 \in hasFile
    <3>1. count'[s] = Rebuilt /\ slab'[s] = "mapped"
      BY <1>7, <1>8, <2>1
    <3>2. Cardinality(Live' \cap SlotsOf(s)) = Rebuilt
      BY <1>6, <2>1
    <3> QED BY <1>3, <1>6, <3>1, <3>2
  <2>2. CASE s \notin hasFile
    <3>1. Live' \cap SlotsOf(s) = {}
      BY <1>9, <2>2 DEF SlotsOf
    <3>2. Cardinality({}) = 0
      BY FS_EmptySet
    <3>3. Cardinality(Live' \cap SlotsOf(s)) = 0
      BY <3>1, <3>2, Zenon
    <3>4. count'[s] = 0
      <4>1. s = 0 => Torn("slab") \/ Rebuilt = 0
        BY <1>6, <3>3
      <4>2. Torn("slab") => Rebuilt = 0
        BY DEF Rebuilt
      <4> QED BY <1>8, <4>1, <4>2
    <3> QED BY <1>3, <3>3, <3>4
  <2> QED BY <2>1, <2>2
<1>12. MarkTypes' /\ Bases'
  <2>1. log' \in Seq(Slots) /\ stack' \in Seq(Checkpoints) /\ Len(stack') = 0
    BY <1>2, EmptySeq
  <2> QED BY <2>1 DEF MarkTypes, Bases
<1>13. ASSUME rootHeld, Sound(root), Spared  PROVE refs'[root] > 0
  BY <1>0, <1>1, <1>3, <1>13, RootOnDisk
<1>14. Rooted'
  <2>1. \A s \in Slabs : slab'[s] # "heap" /\ (slab'[s] = "mapped" => s \in hasFile')
    BY <1>2, <1>7
  <2>2. ASSUME rootHeld'
        PROVE  backing = "file" /\ root \in Live' /\ slab'[SlabOf(root)] # "heap"
    <3>1. rootHeld /\ Sound(root) /\ Spared
      BY <1>2, <2>2
    <3>2. backing = "file"
      BY <1>1, <3>1 DEF Rooted
    <3>3. root \in Live'
      BY <1>3, <1>13, <3>1 DEF Live
    <3> QED BY <1>3, <2>1, <3>2, <3>3
  <2> QED BY <1>2, <2>1, <2>2 DEF Rooted
<1>15. AllocInv'
  BY <1>10, <1>11, <1>12, <1>14 DEF AllocInv
<1>16. Underway'
  <2>1. Null \in Slots /\ saving' = AtRest /\ complete' \in BOOLEAN
    BY <1>2, SlotNumbers DEF SlabInv, Underway
  <2>2. saving' \in [todo : Rests, opened : BOOLEAN, of : Slots]
    BY <2>1 DEF AtRest, Rests
  <2> QED BY <2>1, <2>2, SaveSteps DEF Underway, Saving
<1> QED BY <1>13, <1>15, <1>16 DEF SlabInv

-----------------------------------------------------------------------------
LEMMA AllocInit == Init => SlabInv
<1> SUFFICES ASSUME Init  PROVE SlabInv
  OBVIOUS
<1>1. /\ 0 \in Slabs /\ Null \in Slots /\ SlabOf(Null) = 0 /\ SlabOf(0) = 0
      /\ Half \in Nat /\ SlabSize <= Half /\ Half < CountWidth /\ SlabSize \in Nat \ {0, 1}
      /\ CountWidth \in Nat /\ MaxRefs \in Nat \ {0} /\ MaxRestarts \in Nat
      /\ Backings \subseteq {"heap", "file"}
  BY NoWrap, SlotNumbers, AllocatorAssumption DEF Slabs, SlabOf, Null
<1>2. refs \in [Slots -> 0 .. MaxRefs] /\ Live = {Null}
  <2>1. refs \in [Slots -> 0 .. MaxRefs] /\ \A n \in Slots : refs[n] > 0 <=> n = Null
    BY <1>1 DEF Init
  <2> QED BY <1>1, <2>1 DEF Live
<1>3. /\ slab \in [Slabs -> {"none", "heap", "mapped"}] /\ slab[0] = "heap"
      /\ \A s \in Slabs : slab[s] # "mapped" /\ (slab[s] = "heap" => s = 0)
      /\ count \in [Slabs -> 0 .. (CountWidth - 1)] /\ count[0] = 1
      /\ \A s \in Slabs : s # 0 => count[s] = 0
      /\ disk \in [Slots -> 0 .. MaxRefs]
  BY <1>1 DEF Init
<1>4. StepTypes
  <2>1. \A n \in Live : slab[SlabOf(n)] # "none"
    BY <1>1, <1>2, <1>3
  <2>2. /\ protected = {} /\ hasFile = {} /\ reattached = {} /\ root = Null /\ rootHeld = FALSE
        /\ backing \in {"heap", "file"} /\ restarts = 0
    BY <1>1 DEF Init
  <2>3. restarts \in 0 .. MaxRestarts
    BY <1>1, <2>2
  <2> QED BY <1>1, <1>2, <1>3, <2>1, <2>2, <2>3 DEF StepTypes
<1>5. Counts
  <2> SUFFICES ASSUME NEW s \in Slabs
               PROVE  /\ Cardinality(Live \cap SlotsOf(s)) <= count[s]
                      /\ count[s] <= Half
                      /\ slab[s] = "none" => count[s] = 0
    BY DEF Counts
  <2>1. Cardinality({}) = 0 /\ Cardinality({Null}) = 1
    BY FS_EmptySet, FS_Singleton
  <2>2. CASE s = 0
    <3>1. Live \cap SlotsOf(s) = {Null}
      BY <1>1, <1>2, <2>2 DEF SlotsOf
    <3>2. Cardinality(Live \cap SlotsOf(s)) = 1
      BY <2>1, <3>1, Zenon
    <3> QED BY <1>1, <1>3, <2>2, <3>2
  <2>3. CASE s # 0
    <3>1. Live \cap SlotsOf(s) = {}
      BY <1>1, <1>2, <2>3 DEF SlotsOf
    <3>2. Cardinality(Live \cap SlotsOf(s)) = 0
      BY <2>1, <3>1, Zenon
    <3> QED BY <1>1, <1>3, <2>3, <3>2
  <2> QED BY <2>2, <2>3
<1>6. MarkTypes /\ Bases
  <2>1. log \in Seq(Slots) /\ stack \in Seq(Checkpoints) /\ Len(stack) = 0
    BY EmptySeq DEF Init
  <2> QED BY <2>1 DEF MarkTypes, Bases
<1>7. Rooted
  BY <1>3 DEF Init, Rooted
<1>8. Underway
  <2>1. saving = AtRest /\ complete = FALSE
    BY DEF Init
  <2>2. saving \in [todo : Rests, opened : BOOLEAN, of : Slots]
    BY <1>1, <2>1 DEF AtRest, Rests
  <2> QED BY <2>1, <2>2, SaveSteps DEF Underway, Saving
<1> QED BY <1>4, <1>5, <1>6, <1>7, <1>8 DEF AllocInv, SlabInv

LEMMA StutterKeeps ==
  ASSUME SlabInv, UNCHANGED vars
  PROVE  SlabInv' /\ Live' = Live
<1>1. StepTypes /\ Counts /\ MarkTypes /\ Bases /\ Rooted
  BY DEF SlabInv, AllocInv
<1>2. UNCHANGED <<slab, count, refs, log, stack, protected, backing, root, restarts, reattached,
                  hasFile, disk, rootHeld, saving, complete>>
  BY DEF vars, memory, marks, session, files
<1>3. Live' = Live
  BY <1>2 DEF Live
<1>4. StepTypes' /\ Counts' /\ Rooted'
  BY <1>1, <1>2, <1>3 DEF StepTypes, Counts, Rooted, Sound
<1>5. MarkTypes' /\ Bases'
  BY <1>1, <1>2, <1>3, MarksStay, BasesStay
<1>6. Underway'
  BY <1>2, <1>3 DEF SlabInv, Underway, Saving
<1> QED BY <1>3, <1>4, <1>5, <1>6 DEF SlabInv, AllocInv

(* What is done between two saves leaves them alone. *)
LEMMA RestsOn ==
  ASSUME Underway, ~Saving, UNCHANGED <<saving, complete>>
  PROVE  Underway'
<1>1. saving = AtRest /\ saving' = AtRest
  BY DEF Saving
<1>2. saving.todo # SaveOrder
  BY <1>1, SaveSteps
<1> QED BY <1>1, <1>2 DEF Underway, Saving

LEMMA WorksKeep ==
  ASSUME SlabInv, ~Saving, Works
  PROVE  SlabInv'
<1>1. AllocInv /\ Underway
  BY DEF SlabInv
<1>2. CASE AllocPlain
  BY <1>1, <1>2, PlainKeeps, RestsOn DEF SlabInv, AllocPlain, session
<1>3. CASE AllocAppend
  BY <1>1, <1>3, AppendKeeps, RestsOn DEF SlabInv, AllocAppend, session
<1>4. ASSUME NEW n \in UserSlots, Retain(n)  PROVE SlabInv'
  BY <1>1, <1>4, RetainKeeps, RestsOn DEF SlabInv, Retain, session
<1>5. ASSUME NEW n \in UserSlots, Release(n)  PROVE SlabInv'
  BY <1>1, <1>5, ReleaseKeeps, RestsOn DEF SlabInv, Release, session
<1>6. ASSUME NEW n \in UserSlots, SaveBegins(n)  PROVE SlabInv'
  BY <1>6, SaveBeginsKeeps
<1>7. ASSUME NEW n \in UserSlots, NEW m \in Live, Assign(n, m)  PROVE SlabInv'
  BY <1>1, <1>7, AssignKeeps, RestsOn DEF SlabInv, Assign, session
<1>8. CASE Checkpoint
  BY <1>1, <1>8, CheckpointKeeps, RestsOn DEF SlabInv, Checkpoint, session
<1>9. CASE Commit
  BY <1>1, <1>9, CommitKeeps, RestsOn DEF SlabInv, Commit, session
<1>10. CASE RollbackStrict
  BY <1>1, <1>10, StrictKeeps, RestsOn DEF SlabInv, RollbackStrict, session
<1>11. CASE RollbackLogged
  BY <1>1, <1>11, LoggedKeeps, RestsOn DEF SlabInv, RollbackLogged, session
<1> QED BY <1>2, <1>3, <1>4, <1>5, <1>6, <1>7, <1>8, <1>9, <1>10, <1>11 DEF Works

LEMMA AllocStep == SlabInv /\ [Next]_vars => SlabInv'
<1> SUFFICES ASSUME SlabInv, [Next]_vars  PROVE SlabInv'
  OBVIOUS
<1>1. CASE ~Saving /\ Works
  BY <1>1, WorksKeep
<1>2. CASE OpenFile
  BY <1>2, OpenKeeps
<1>3. CASE WriteFile
  BY <1>3, WriteKeeps
<1>4. CASE Restart
  BY <1>4, RestartKeeps
<1>5. CASE UNCHANGED vars
  BY <1>5, StutterKeeps
<1> QED BY <1>1, <1>2, <1>3, <1>4, <1>5 DEF Next

(* SlabInv is an inductive invariant. *)
THEOREM AllocInvariant == Spec => []SlabInv
BY AllocInit, AllocStep, PTL DEF Spec

(* However the slabs fill, empty and are deleted, over rollbacks and        *)
(* restarts, the count of a slab whose count the process knows is never    *)
(* below the number of slots that live in it: deallocate, which deletes a  *)
(* slab when its count comes to 0, never deletes one that holds something. *)
THEOREM CountsCover == Spec => []CountCoversLive
<1>1. SlabInv => CountCoversLive
  <2> SUFFICES ASSUME SlabInv  PROVE CountCoversLive
    OBVIOUS
  <2>1. StepTypes /\ Counts /\ MarkTypes /\ Underway
    BY DEF SlabInv, AllocInv
  <2>2. DOMAIN stack = 1..Len(stack)
    BY <2>1, LenProperties DEF MarkTypes
  <2>3. TypeOK
    <3>1. saving \in [todo : {SaveOrder, Tail(SaveOrder), Tail(Tail(SaveOrder)), <<>>},
                      opened : BOOLEAN, of : Slots]
      BY <2>1, SaveSteps DEF Underway
    <3> QED BY <2>1, <2>2, <3>1 DEF StepTypes, MarkTypes, Underway, TypeOK
  <2> QED BY <2>1, <2>3 DEF Counts, CountCoversLive
<1> QED BY <1>1, AllocInvariant, PTL

LEMMA LostAlone ==
  ASSUME StepTypes, NEW n \in Live, OnlyGoes(n)
  PROVE  /\ Cardinality({k \in Lost : Sound(k)}) <= 1
         /\ \A k \in Lost : Sound(k) => refs[k] = 1
<1>1. \A k \in Lost : k \in Live /\ k \notin Live'
  BY DEF Lost, Live
<1>2. {k \in Lost : Sound(k)} \in SUBSET {n}
  BY <1>1 DEF OnlyGoes
<1> DEFINE S == {k \in Lost : Sound(k)}
<1>3. S = {} \/ S = {n}
  BY <1>2
<1>4. \A k \in Lost : Sound(k) => refs[k] = 1
  BY <1>1 DEF OnlyGoes
<1> HIDE DEF S
<1>5. Cardinality({}) = 0 /\ Cardinality({n}) = 1
  BY FS_EmptySet, FS_Singleton
<1>6. Cardinality(S) = 0 \/ Cardinality(S) = 1
  BY <1>3, <1>5
<1> QED BY <1>4, <1>6 DEF S

LEMMA NoneLost ==
  ASSUME Live \subseteq Live'
  PROVE  /\ Cardinality({k \in Lost : Sound(k)}) <= 1
         /\ \A k \in Lost : Sound(k) => refs[k] = 1
<1>1. Lost = {}
  BY DEF Lost, Live
<1>2. {k \in Lost : Sound(k)} = {}
  BY <1>1
<1>3. Cardinality({k \in Lost : Sound(k)}) = 0
  BY <1>2, FS_EmptySet
<1> QED BY <1>1, <1>3

(* deallocate deletes a slab when its count comes to 0, allocRaw reuses    *)
(* slots and slabs, modrefs drops slots uncounted: outside rollbacks and   *)
(* restarts no step loses a slot but the one whose last reference it gives *)
(* up, in slabs whose counts the process knows.                            *)
THEOREM SlotsKept == Spec => LiveSlotsKept
<1> DEFINE Kept == /\ Cardinality({n \in Lost : Sound(n)}) <= 1
                   /\ \A n \in Lost : Sound(n) => refs[n] = 1
<1>1. SlabInv /\ [Next]_vars => [~Undone => Kept]_vars
  <2> SUFFICES ASSUME SlabInv, Next, ~Undone  PROVE Kept
    OBVIOUS
  <2>0. AllocInv /\ StepTypes
    BY DEF SlabInv, AllocInv
  <2>1. CASE AllocPlain
    BY <2>0, <2>1, PlainKeeps, NoneLost
  <2>2. CASE AllocAppend
    BY <2>0, <2>2, AppendKeeps, NoneLost
  <2>3. ASSUME NEW n \in UserSlots, Retain(n)  PROVE Kept
    BY <2>0, <2>3, RetainKeeps, NoneLost
  <2>4. ASSUME NEW n \in UserSlots, Release(n)  PROVE Kept
    BY <2>0, <2>4, ReleaseKeeps, LostAlone DEF UserSlots
  <2>5. ASSUME ~Saving, NEW n \in UserSlots, SaveBegins(n)  PROVE Kept
    BY <2>5, SaveBeginsKeeps, NoneLost
  <2>6. ASSUME NEW n \in UserSlots, NEW m \in Live, Assign(n, m)  PROVE Kept
    BY <2>0, <2>6, AssignKeeps, LostAlone DEF UserSlots
  <2>7. CASE Checkpoint
    BY <2>0, <2>7, CheckpointKeeps, NoneLost
  <2>8. CASE Commit
    BY <2>0, <2>8, CommitKeeps, NoneLost
  <2>9. CASE OpenFile
    BY <2>9, OpenKeeps, NoneLost
  <2>10. CASE WriteFile
    BY <2>10, WriteKeeps, NoneLost
  <2> HIDE DEF Kept
  <2> QED BY <2>1, <2>2, <2>3, <2>4, <2>5, <2>6, <2>7, <2>8, <2>9, <2>10 DEF Next, Works, Undone
<1> QED BY <1>1, AllocInvariant, PTL DEF Spec, LiveSlotsKept, Kept

(* A rollback, from the watermark or from the log, brings back exactly the *)
(* slots of its checkpoint that were not given up since; a slot more only  *)
(* where copy assignment gave one up without telling the allocator.        *)
THEOREM RollbacksExact == Spec => RollbackExact
<1> DEFINE E == \A n \in Slots : Sound(n) =>
                  /\ n \in Top.base => refs'[n] > 0
                  /\ refs'[n] > 0 => n \in Top.base \/ Top.careless
<1>1. SlabInv /\ [Next]_vars => [RollbackStrict \/ RollbackLogged => E]_vars
  <2> SUFFICES ASSUME AllocInv, RollbackStrict \/ RollbackLogged  PROVE E
    BY DEF SlabInv
  <2>1. Exact
    BY StrictKeeps, LoggedKeeps
  <2>2. \A n \in Slots : n \in Live' <=> refs'[n] > 0
    BY DEF Live
  <2> QED BY <2>1, <2>2 DEF Exact
<1> QED BY <1>1, AllocInvariant, PTL DEF Spec, RollbackExact, E

(* Wherever the process ends once a file-backed save went through, between *)
(* two files of a later save or inside one, loadRootFileBacked finds the   *)
(* slot that roots.bin names alive, if it was not given up since; unless   *)
(* it is in slab 0 and the process ended inside the rewriting of that      *)
(* slab's file.                                                            *)
THEOREM RootsSurvive == Spec => RootSurvives
<1>1. SlabInv /\ [Next]_vars
        => [restarts' > restarts /\ rootHeld /\ Sound(root) /\ Spared => refs'[root] > 0]_vars
  <2> SUFFICES ASSUME SlabInv, Next, restarts' > restarts, rootHeld, Sound(root), Spared
               PROVE  refs'[root] > 0
    OBVIOUS
  <2>1. ASSUME restarts' = restarts  PROVE FALSE
    <3>1. restarts \in Nat
      BY AllocatorAssumption DEF SlabInv, AllocInv, StepTypes
    <3> QED BY <2>1, <3>1
  <2>2. CASE Restart
    BY <2>2, RestartKeeps
  <2>3. CASE ~Restart
    <3>1. restarts' = restarts
      BY <2>3 DEF Next, Works, AllocPlain, AllocAppend, Retain, Release, SaveBegins, OpenFile,
                  WriteFile, Assign, Checkpoint, Commit, RollbackStrict, RollbackLogged, session
    <3> QED BY <2>1, <3>1
  <2> QED BY <2>2, <2>3
<1> QED BY <1>1, AllocInvariant, PTL DEF Spec, RootSurvives
=============================================================================
