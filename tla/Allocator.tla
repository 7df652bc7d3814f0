-------------------------------- MODULE Allocator --------------------------------
(***************************************************************************)
(* Allocator<T> of core/alloc.h, the slab allocator under every Listree    *)
(* type: reference-counted slots in slabs, a stack of checkpoints that     *)
(* allocate append-only and roll back to a watermark, and slabs that live  *)
(* in mapped files, saved and loaded by the file-backed paths of           *)
(* cpp-agent/runtime/persistence/session_state_store.cpp.                  *)
(*                                                                         *)
(* A slot is numbered slab * SLAB_SIZE + offset, so the order of SlabIds   *)
(* is the order of numbers and 0 is the null id.  T is one of the types    *)
(* the VM and the session store checkpoint, all of them strictEligible.    *)
(* What a slot holds is left out: the references one object holds to       *)
(* others appear as releases of their own.  Calls that fail without an     *)
(* effect are left out too.                                                *)
(***************************************************************************)
EXTENDS Integers, Sequences, FiniteSets, FiniteSetsExt

CONSTANTS
  NumSlabs,     \* NUM_SLABS
  SlabSize,     \* SLAB_SIZE
  CountWidth,   \* values of size_t, the type of a slab's count; bound: no
                \* append counts past half of it, the rest is for counts below 0
  Backings,     \* backing policies to start with: "heap", "file"
  MaxRefs,      \* bound: references to one slot
  MaxDepth,     \* bound: nested checkpoints
  MaxLog,       \* bound: allocations under a checkpoint
  MaxRestarts,  \* bound: restarts of the process, and no save after the last
  SaveDepth,    \* bound: checkpoints open when a save begins
  TornDepth     \* bound: nested checkpoints after a load of a torn slab 0

ASSUME AllocatorAssumption ==
  /\ NumSlabs \in Nat \ {0} /\ SlabSize \in Nat \ {0, 1}
  /\ CountWidth \in Nat /\ CountWidth > 2 * SlabSize
  /\ Backings \subseteq {"heap", "file"}
  /\ MaxRefs \in Nat \ {0} /\ MaxDepth \in Nat /\ MaxLog \in Nat /\ MaxRestarts \in Nat
  /\ SaveDepth \in Nat /\ TornDepth \in Nat

VARIABLES
  slab,        \* slabs[]: no slab, one on the heap, or one mapped from its file
  count,       \* the count of each slab
  refs,        \* inUse[] of each slot, 0 where there is no slab
  log,         \* allocationLog
  stack,       \* the checkpoints, with what the properties say of them
  protected,   \* rollbackProtectedFreeSlots
  backing,     \* backingPolicy_
  hasFile,     \* slabs with a file in the session directory
  disk,        \* inUse[] in the file of a slab that is not mapped
  root,        \* the "session" anchor of roots.bin, Null before a save
  rootHeld,    \* history: the anchored slot has not been given up, nor was one
               \* that a restart may have lost
  reattached,  \* history: slabs mapped from an earlier process, count not rebuilt
  restarts,
  saving,      \* the files a save has still to write, whether the first of them
               \* has been opened, and the slot to be anchored
  complete     \* there is a bootstrap.json: a save went through

memory  == <<slab, count, refs>>
marks   == <<log, stack, protected>>
session == <<backing, root, restarts, reattached, saving, complete>>
files   == <<hasFile, disk>>
vars    == <<memory, marks, session, files, rootHeld>>

Slots      == 0 .. (NumSlabs * SlabSize - 1)
Slabs      == 0 .. (NumSlabs - 1)
Null       == 0
SlabOf(n)  == n \div SlabSize
SlotsOf(s) == {n \in Slots : SlabOf(n) = s}
Live       == {n \in Slots : refs[n] > 0}
UserSlots  == Live \ {Null}

(* The anchor written before the slab it points into. *)
AnchorFirst == <<"anchor", "slab", "bootstrap">>

(* The files of a save, in the order saveRootFileBacked writes them: slab  *)
(* 0, roots.bin, bootstrap.json.                                           *)
SaveOrder == <<"slab", "anchor", "bootstrap">>
AtRest    == [todo |-> <<>>, opened |-> FALSE, of |-> Null]
Saving    == saving # AtRest

(* A file opened is a file truncated, whole again when it is written.      *)
Torn(file) == saving.opened /\ saving.todo # <<>> /\ Head(saving.todo) = file

Checkpoints == [start : Nat, mark : Slots, append : BOOLEAN,
                base : SUBSET Slots, careless : BOOLEAN]

TypeOK ==
  /\ slab \in [Slabs -> {"none", "heap", "mapped"}]
  /\ count \in [Slabs -> 0 .. (CountWidth - 1)]
  /\ refs \in [Slots -> 0 .. MaxRefs]
  /\ \A n \in Live : slab[SlabOf(n)] # "none"
  /\ log \in Seq(Slots)
  /\ stack \in Seq(Checkpoints)
  /\ \A i \in DOMAIN stack : stack[i].start <= Len(log)
  /\ protected \subseteq Slots
  /\ backing \in {"heap", "file"}
  /\ hasFile \subseteq Slabs
  /\ disk \in [Slots -> 0 .. MaxRefs]
  /\ root \in Slots
  /\ rootHeld \in BOOLEAN
  /\ reattached \subseteq Slabs
  /\ restarts \in 0 .. MaxRestarts
  /\ saving \in [todo : {SaveOrder, Tail(SaveOrder), Tail(Tail(SaveOrder)), <<>>},
                 opened : BOOLEAN, of : Slots]
  /\ complete \in BOOLEAN

(* getAllocator: the sentinel takes the null id, in a slab on the heap,    *)
(* before any backing file is configured.                                  *)
Init ==
  /\ slab = [s \in Slabs |-> IF s = 0 THEN "heap" ELSE "none"]
  /\ count = [s \in Slabs |-> IF s = 0 THEN 1 ELSE 0]
  /\ refs = [n \in Slots |-> IF n = Null THEN 1 ELSE 0]
  /\ log = <<>> /\ stack = <<>> /\ protected = {}
  /\ backing \in Backings
  /\ hasFile = {} /\ disk = [n \in Slots |-> 0]
  /\ root = Null /\ rootHeld = FALSE
  /\ reattached = {} /\ restarts = 0
  /\ saving = AtRest /\ complete = FALSE
-----------------------------------------------------------------------------
Inside == stack # <<>>

(* currentHighWatermark *)
Watermark == Max(Live \cup {Null})

IsFree(n) == refs[n] = 0 /\ n \notin protected

(* createOwnedSlab opens the file of a new slab with O_EXCL and throws     *)
(* when there is one.                                                      *)
CanCreate(s) == backing = "heap" \/ s \notin hasFile

Created(S) ==
  /\ slab' = [s \in Slabs |-> IF s \notin S THEN slab[s]
                              ELSE IF backing = "file" THEN "mapped" ELSE "heap"]
  /\ hasFile' = IF backing = "file" THEN hasFile \cup S ELSE hasFile
  /\ UNCHANGED disk

(* The slab gets one slot more; its count is a size_t. *)
Counted(s) == count' = [count EXCEPT ![s] = (@ + 1) % CountWidth]

(* allocRaw without a checkpoint: the first slab with room by its count    *)
(* and a free slot, or the first that does not exist.  The offset used in  *)
(* a new slab is the one the scan of the slab before it ended with: behind *)
(* the last slot, when that slab had room by its count and no free slot.   *)
(* The object is then built behind the arrays and no slot of the slab is   *)
(* taken; what the write destroys there is left out.                       *)
HasRoom(s)   == slab[s] # "none" /\ count[s] < SlabSize
FreeIn(s)    == {n \in SlotsOf(s) : IsFree(n)}
Accepts(s)   == slab[s] = "none" \/ (HasRoom(s) /\ FreeIn(s) # {})
Overruns(s)  == s > 0 /\ HasRoom(s - 1)

AllocPlain ==
  /\ ~Inside
  /\ \E s \in Slabs :
       /\ Accepts(s) /\ \A t \in Slabs : t < s => ~Accepts(t)
       /\ \/ /\ slab[s] # "none"
             /\ refs' = [refs EXCEPT ![Min(FreeIn(s))] = 1]
             /\ UNCHANGED <<slab, files>>
          \/ /\ slab[s] = "none" /\ CanCreate(s)
             /\ Created({s})
             /\ refs' = IF Overruns(s) THEN refs
                        ELSE [refs EXCEPT ![s * SlabSize] = 1]
       /\ Counted(s)
  /\ UNCHANGED <<marks, session, rootHeld>>

(* allocRaw under a checkpoint, allocateAppendOnlyRaw: the first free slot *)
(* above the watermark; slabs that are missing on the way are created.     *)
Above(n) == {m \in Slots : m > n /\ IsFree(m)}
Missing(from, to) == {s \in Slabs : from <= s /\ s <= to /\ slab[s] = "none"}

AllocAppend ==
  /\ Inside /\ Len(log) < MaxLog
  /\ Above(Watermark) # {}
  /\ LET n == Min(Above(Watermark))
         new == Missing(SlabOf(Watermark), SlabOf(n))
     IN  /\ \A s \in new : CanCreate(s)
         /\ Created(new)
         /\ count[SlabOf(n)] # CountWidth \div 2
         /\ Counted(SlabOf(n))
         /\ refs' = [refs EXCEPT ![n] = 1]
         /\ log' = Append(log, n)
  /\ UNCHANGED <<stack, protected, session, rootHeld>>

(* tryRetain: a CPtr is copied. *)
Retain(n) ==
  /\ refs[n] < MaxRefs
  /\ refs' = [refs EXCEPT ![n] = @ + 1]
  /\ UNCHANGED <<slab, count, marks, session, files, rootHeld>>
-----------------------------------------------------------------------------
(* A slab deleted with its last slot but one. *)
EmptiedEarly(F) == {s \in Slabs : 1 <= Cardinality(F \cap SlotsOf(s))
                                 /\ count[s] <= Cardinality(F \cap SlotsOf(s)) + 1}

(* The last references to the slots of F are given up one after the other  *)
(* through deallocate.  A slab whose count comes to 0 is deleted, whatever *)
(* it holds; the file of a mapped one keeps what was in it.                *)
Emptied(F) == {s \in Slabs : 1 <= count[s] /\ count[s] <= Cardinality(F \cap SlotsOf(s))}

Without(F) == [n \in Slots |-> IF n \in F THEN 0 ELSE refs[n]]

Deallocated(F) ==
  /\ slab' = [s \in Slabs |-> IF s \in Emptied(F) THEN "none" ELSE slab[s]]
  /\ count' = [s \in Slabs |-> IF s \in Emptied(F) THEN 0
                ELSE (count[s] + CountWidth - Cardinality(F \cap SlotsOf(s))) % CountWidth]
  /\ refs' = [n \in Slots |-> IF SlabOf(n) \in Emptied(F) THEN 0 ELSE Without(F)[n]]
  /\ disk' = [n \in Slots |-> IF SlabOf(n) \in Emptied(F) /\ slab[SlabOf(n)] = "mapped"
                              THEN Without(F)[n] ELSE disk[n]]
  /\ UNCHANGED hasFile

(* invalidateCheckpointFastPath forgotten. *)
GoneUnmarked(c, F, append, careless) ==
  [start |-> c.start, mark |-> c.mark, append |-> c.append,
   base |-> c.base \ F, careless |-> c.careless \/ careless]

(* What a checkpoint is told when slots of its base are given up. *)
Gone(c, F, append, careless) ==
  [start |-> c.start, mark |-> c.mark, append |-> c.append /\ append,
   base |-> c.base \ F, careless |-> c.careless \/ careless]

GivesUp(F) == rootHeld' = (rootHeld /\ root \notin F)

(* deallocate: a CPtr is destroyed or moved into. *)
Release(n) ==
  /\ IF refs[n] > 1
     THEN /\ refs' = [refs EXCEPT ![n] = @ - 1]
          /\ UNCHANGED <<slab, count, marks, session, files, rootHeld>>
     ELSE /\ Deallocated({n})
          /\ protected' = IF Inside THEN protected \cup {n} ELSE protected
          /\ stack' = [i \in DOMAIN stack |-> Gone(stack[i], {n}, FALSE, FALSE)]
          /\ GivesUp({n})
          /\ UNCHANGED <<log, session>>

(* CPtr::operator=(const CPtr&): the old slot loses a reference through    *)
(* modrefs, which neither destroys, counts nor protects it; the new one is *)
(* retained.  Null stands for an empty right-hand side.                    *)
Assign(n, m) ==
  /\ n # m /\ (m # Null => refs[m] < MaxRefs)
  /\ refs' = [k \in Slots |-> IF k = n THEN refs[k] - 1
                              ELSE IF k = m /\ m # Null THEN refs[k] + 1 ELSE refs[k]]
  /\ IF refs[n] > 1
     THEN UNCHANGED <<stack, rootHeld>>
     ELSE /\ stack' = [i \in DOMAIN stack |-> Gone(stack[i], {n}, TRUE, TRUE)]
          /\ GivesUp({n})
  /\ UNCHANGED <<slab, count, log, protected, session, files>>
-----------------------------------------------------------------------------
(* checkpoint *)
Checkpoint ==
  /\ Len(stack) < IF 0 \in reattached THEN TornDepth ELSE MaxDepth
  /\ stack' = Append(stack, [start |-> Len(log), mark |-> Watermark, append |-> TRUE,
                             base |-> Live, careless |-> FALSE])
  /\ UNCHANGED <<memory, log, protected, session, files, rootHeld>>

Top    == stack[Len(stack)]
Popped == SubSeq(stack, 1, Len(stack) - 1)

(* A rollback takes the log back to where it was at the checkpoint. *)
LogLeft == IF Popped = <<>> THEN <<>> ELSE SubSeq(log, 1, Top.start)

(* commit: the log and the protected slots go with the last checkpoint. *)
Commit ==
  /\ Inside
  /\ stack' = Popped
  /\ log' = IF Popped = <<>> THEN <<>> ELSE log
  /\ protected' = IF Popped = <<>> THEN {} ELSE protected
  /\ UNCHANGED <<memory, session, files, rootHeld>>

(* The watermark's own slot not counted. *)
ResetCountShort(s, mark) ==
  IF slab[s] = "none" \/ s < SlabOf(mark) THEN count[s]
  ELSE IF s > SlabOf(mark) THEN 0 ELSE mark - s * SlabSize

(* rollbackStrictAppendOnlyFromWatermark: everything above the watermark   *)
(* is cleared, and the watermark's slab is taken to be full up to it.      *)
ResetCount(s, mark) ==
  IF slab[s] = "none" \/ s < SlabOf(mark) THEN count[s]
  ELSE IF s > SlabOf(mark) THEN 0
  ELSE IF mark = Null THEN (IF refs[Null] > 0 THEN 1 ELSE 0)
  ELSE mark - s * SlabSize + 1

RollbackStrict ==
  LET mark == Top.mark
      F == {n \in Live : n > mark}
  IN  /\ Inside /\ Top.append
      /\ count' = [s \in Slabs |-> ResetCount(s, mark)]
      /\ refs' = Without(F)
      /\ stack' = [i \in DOMAIN Popped |-> Gone(Popped[i], F, TRUE, FALSE)]
      /\ log' = LogLeft
      /\ protected' = IF Popped = <<>> THEN {} ELSE protected
      /\ GivesUp(F)
      /\ UNCHANGED <<slab, session, files>>

(* rollbackAllocation of what was logged since the checkpoint, for a       *)
(* checkpoint in which something was deallocated.                          *)
Logged == {log[i] : i \in (Top.start + 1) .. Len(log)}

RollbackLogged ==
  LET F == Logged \cap Live
  IN  /\ Inside /\ ~Top.append
      /\ Deallocated(F)
      /\ stack' = [i \in DOMAIN Popped |-> Gone(Popped[i], F, F = {}, FALSE)]
      /\ log' = LogLeft
      /\ protected' = IF Popped = <<>> THEN {} ELSE protected \cup F
      /\ GivesUp(F)
      /\ UNCHANGED session
-----------------------------------------------------------------------------
(* saveRootFileBacked runs on the thread of the VM: until it has returned  *)
(* nothing else happens here but the end of the process.  Mapped slabs are *)
(* their files; slab 0 is written out when it is on the heap; then the     *)
(* anchor, then the bootstrap.                                             *)
SaveBegins(n) ==
  /\ backing = "file" /\ Len(stack) <= SaveDepth /\ restarts < MaxRestarts
  /\ saving' = [todo |-> SaveOrder, opened |-> FALSE, of |-> n]
  /\ UNCHANGED <<memory, marks, files, backing, root, restarts, reattached, complete, rootHeld>>

(* Slab 0 written by the first save only. *)
WritesSlabOnce == slab[0] = "heap" /\ ~complete

(* writeSlabToFile leaves a mapped slab to msync. *)
WritesSlab == slab[0] = "heap"

(* fopen(path, "wb") and std::ios::trunc. *)
OpenFile ==
  /\ Saving /\ ~saving.opened
  /\ IF Head(saving.todo) = "slab" /\ ~WritesSlab
     THEN saving' = [saving EXCEPT !.todo = Tail(@)] /\ UNCHANGED hasFile
     ELSE /\ saving' = [saving EXCEPT !.opened = TRUE]
          /\ hasFile' = IF Head(saving.todo) = "slab" THEN hasFile \cup {0} ELSE hasFile
  /\ UNCHANGED <<memory, marks, disk, backing, root, restarts, reattached, complete, rootHeld>>

Written(file) ==
  /\ disk' = IF file # "slab" THEN disk
             ELSE [n \in Slots |-> IF SlabOf(n) = 0 THEN refs[n] ELSE disk[n]]
  /\ root' = IF file = "anchor" THEN saving.of ELSE root
  /\ rootHeld' = (rootHeld \/ file = "anchor")
  /\ complete' = (complete \/ file = "bootstrap")

WriteFile ==
  /\ saving.opened
  /\ Written(Head(saving.todo))
  /\ saving' = IF Len(saving.todo) = 1 THEN AtRest
               ELSE [saving EXCEPT !.todo = Tail(@), !.opened = FALSE]
  /\ UNCHANGED <<memory, marks, hasFile, backing, restarts, reattached>>

(* The process ends, at any moment after a save, and another one runs      *)
(* loadRootFileBacked: every slab that has a file is mapped with the       *)
(* references in it, and the count is rebuilt for slab 0 only.  Where the  *)
(* writing of slab 0 ended early the file reads as zeros, and its count is *)
(* not rebuilt either.  A load that fails is not followed any further.     *)
OnDisk(n, end) ==
  IF SlabOf(n) \notin hasFile THEN 0
  ELSE IF slab[SlabOf(n)] = "mapped" THEN refs[n]
  ELSE IF Torn("slab") /\ SlabOf(n) = 0 THEN IF n < end THEN refs[n] ELSE 0
  ELSE disk[n]

Rebuilt == IF Torn("slab") THEN 0
           ELSE Cardinality({n \in SlotsOf(0) : OnDisk(n, SlabSize) > 0})

(* A slab whose count the process knows, and a root that is not in a file  *)
(* cut off.                                                                *)
Sound(n) == SlabOf(n) \notin reattached
Spared   == Torn("slab") => SlabOf(root) # 0

Restart ==
  /\ complete /\ ~Torn("anchor") /\ ~Torn("bootstrap")
  /\ restarts < MaxRestarts
  /\ restarts' = restarts + 1
  /\ slab' = [s \in Slabs |-> IF s \in hasFile THEN "mapped" ELSE "none"]
  /\ \E end \in 0 .. SlabSize :
       /\ ~Torn("slab") => end = SlabSize
       /\ refs' = [n \in Slots |-> OnDisk(n, end)]
  /\ count' = [s \in Slabs |-> IF s = 0 THEN Rebuilt ELSE 0]
  /\ log' = <<>> /\ stack' = <<>> /\ protected' = {}
  /\ disk' = [n \in Slots |-> 0]
  /\ reattached' = IF Torn("slab") THEN hasFile ELSE hasFile \ {0}
  /\ saving' = AtRest
  /\ rootHeld' = (rootHeld /\ Sound(root) /\ Spared)
  /\ UNCHANGED <<backing, hasFile, root, complete>>

Works ==
  \/ AllocPlain \/ AllocAppend
  \/ \E n \in UserSlots : Retain(n) \/ Release(n) \/ SaveBegins(n)
  \/ \E n \in UserSlots, m \in Live : Assign(n, m)
  \/ Checkpoint \/ Commit \/ RollbackStrict \/ RollbackLogged

Next ==
  \/ ~Saving /\ Works
  \/ OpenFile \/ WriteFile
  \/ Restart

Spec == Init /\ [][Next]_vars
-----------------------------------------------------------------------------
Lost == Live \ {n \in Slots : refs'[n] > 0}

(* A slab's count is never below the number of its live slots, so that     *)
(* deallocate deletes a slab only when nothing lives in it.  The counts of *)
(* reattached slabs are what reattachFileBackedSlabs leaves unset.         *)
CountCoversLive ==
  /\ TypeOK
  /\ \A s \in Slabs \ reattached : Cardinality(Live \cap SlotsOf(s)) <= count[s]

(* Outside rollbacks and restarts a live slot disappears only when its own *)
(* last reference goes: no other slot goes with it, whatever slab is       *)
(* deleted or reused on the way.                                           *)
Undone == RollbackStrict \/ RollbackLogged \/ Restart

LiveSlotsKept ==
  [][~Undone => /\ Cardinality({n \in Lost : Sound(n)}) <= 1
                /\ \A n \in Lost : Sound(n) => refs[n] = 1]_vars

(* A rollback, strict or logged, after whatever nesting of checkpoints,    *)
(* commits and rollbacks, brings back the slots that were live at its      *)
(* checkpoint and have not been given up since, and nothing else; the      *)
(* second half needs that no slot was given up by copy assignment.         *)
RollbackExact ==
  [][RollbackStrict \/ RollbackLogged =>
       \A n \in Slots : Sound(n) =>
          /\ n \in Top.base => refs'[n] > 0
          /\ refs'[n] > 0 => n \in Top.base \/ Top.careless]_vars

(* The session root that roots.bin names, if it has not been given up      *)
(* since, is there for loadRootFileBacked whenever the process ended, in   *)
(* the middle of a later save too, between any two of its files; but for a *)
(* root in slab 0 when that slab's own file was being rewritten.           *)
RootSurvives ==
  [][restarts' > restarts /\ rootHeld /\ Sound(root) /\ Spared => refs'[root] > 0]_vars

=============================================================================
