------------------------------ MODULE SessionStore ------------------------------
(***************************************************************************)
(* Named sessions of the edict program: SessionStateStore and              *)
(* SessionImageStore (cpp-agent/runtime/persistence) in image mode, the    *)
(* slab images of core/alloc.h they carry, and the start and exit of       *)
(* edict/main.cpp that call them.  A process restores the session's graph  *)
(* from the image files, works, snapshots the graph above the high         *)
(* watermark of every allocator, rolls the snapshot back, clears the       *)
(* directory and writes the files, both one file after another, and exits. *)
(*                                                                         *)
(* A file is absent, torn, or the record that was written.  The graph is   *)
(* the set of names bound in the root; in each allocator every name is one *)
(* slot, and the allocator of values has one more for the root.  A slot is *)
(* numbered slab * SlabSize + offset, as in Allocator.  The file-backed    *)
(* mode of the store is in Allocator.                                      *)
(***************************************************************************)
EXTENDS Naturals, FiniteSets, Sequences, SequencesExt, FiniteSetsExt

CONSTANTS
  Procs,      \* edict processes started with the same session id
  Allocators, \* the persisted allocators, in the order they are written
  Rooted,     \* of those, the ones the root itself has a slot in
  NumSlabs, SlabSize,
  UserNames,  \* names a program binds
  Builtins,   \* names the VM binds at start, stripped before a save
  Parked,     \* continuations a scheduler may hold
  Mounts,     \* static images a session may declare
  MaxSaves,   \* bound: saves begun
  Stuck       \* files the system may refuse to remove

Scheduler == "__root1_scheduler"
Allocs    == Range(Allocators)
Slots     == 0 .. (NumSlabs * SlabSize - 1)
Slabs     == 0 .. (NumSlabs - 1)
Names     == UserNames \cup Builtins \cup {Scheduler}
Root      == "root"
SlabOf(s) == s \div SlabSize

\* What an instance assumes of them.
SessionAssumption ==
  /\ NumSlabs \in Nat \ {0} /\ SlabSize \in Nat \ {0, 1} /\ MaxSaves \in Nat
  /\ Rooted \subseteq Allocs /\ Rooted # {}
  /\ IsFiniteSet(UserNames) /\ IsFiniteSet(Builtins) /\ UserNames \cap Builtins = {}
  /\ Scheduler \notin UserNames \cup Builtins /\ Root \notin Names

VARIABLES
  disk,    \* the files of the session directory
  proc,    \* the processes: state, heap, bindings, files still to write
  saves,   \* number of saves that came to write, the identity of an image
  done,    \* history: the last completed save
  begun,   \* history: what each save that came to write was given
  image    \* history: the files are what the last save left, or "cut" down by
           \* a clearing that did not end, or "mixed" with older ones

vars == <<disk, proc, saves, done, begun, image>>

---------------------------------------------------------------------------
(* Slots of one allocator: which node has which slot, the slots taken by    *)
(* null sentinels, and the count kept per slab.                            *)

NoGraph == <<>>
Live(h) == {h.at[n] : n \in DOMAIN h.at} \cup h.sentinels
FreshHeap == [at |-> NoGraph, sentinels |-> {0},
              count |-> [b \in Slabs |-> IF b = 0 THEN 1 ELSE 0]]

\* Outside a checkpoint: the first free slot of the first slab whose count
\* says that it has room.  An allocation that finds none throws: a heap with
\* NoSlot in it is none a process goes on with.
NoSlot == NumSlabs * SlabSize
FreeSlots(h) == {s \in Slots \ Live(h) : h.count[SlabOf(s)] < SlabSize}
FirstFree(h) == Min(FreeSlots(h) \cup {NoSlot})
HasRoom(h) == FirstFree(h) # NoSlot
Counted(h, s) == [b \in Slabs |-> h.count[b] + (IF b = SlabOf(s) THEN 1 ELSE 0)]

Allocated(h, n) ==
  [at |-> [m \in DOMAIN h.at \cup {n} |-> IF m = n THEN FirstFree(h) ELSE h.at[m]],
   sentinels |-> h.sentinels, count |-> Counted(h, FirstFree(h))]
Sentinel(h) ==
  [at |-> h.at, sentinels |-> h.sentinels \cup {FirstFree(h)},
   count |-> Counted(h, FirstFree(h))]

\* The nodes of some names given up.
Freed(h, names) ==
  [at |-> [m \in DOMAIN h.at \ names |-> h.at[m]], sentinels |-> h.sentinels,
   count |-> [b \in Slabs |->
                h.count[b] - Cardinality({n \in names : SlabOf(h.at[n]) = b})]]

---------------------------------------------------------------------------
(* The snapshot: the JSON copy of the root is allocated under a checkpoint, *)
(* so above the high watermark, exported slab by slab, and rolled back.     *)

HighWatermark(h) == Max(Live(h) \cup {0})
Nodes(a, names)  == (IF a \in Rooted THEN <<Root>> ELSE <<>>) \o SetToSeq(names)
SnapshotFits(h, ns) == HighWatermark(h) + Len(ns) \in Slots
SnapshotAt(h, ns) ==
  [s \in (HighWatermark(h) + 1) .. (HighWatermark(h) + Len(ns)) |-> ns[s - HighWatermark(h)]]

\* The mistake of comparing offsets alone: a snapshot that goes on in the next
\* slab is cut at the end of the first.
SinceInSlab(h, ns, b) ==
  {s \in DOMAIN SnapshotAt(h, ns) : SlabOf(s) = b /\ b = SlabOf(HighWatermark(h))}
Since(h, ns, b) == {s \in DOMAIN SnapshotAt(h, ns) : SlabOf(s) = b}
Image(a, h, ns, b, k) ==
  [allocator |-> a, index |-> b, save |-> k,
   slots |-> [s \in Since(h, ns, b) |-> SnapshotAt(h, ns)[s]],
   count |-> h.count[b] + Cardinality(Since(h, ns, b))]
ImageSlabs(h, ns) == {b \in Slabs : Since(h, ns, b) # {}}
Metadata(ns, k) == [live |-> Len(ns), save |-> k]

---------------------------------------------------------------------------
(* The files of an image, and the order they are written in.               *)

MetaFile(a)    == <<"meta", a>>
SlabFile(a, b) == <<"slab", a, b>>
RootsFile      == <<"roots">>
BootstrapFile  == <<"bootstrap">>
ManifestFile   == <<"manifest">>

SlabFiles(heap, names) ==
  UNION {{SlabFile(a, b) : b \in ImageSlabs(heap[a], Nodes(a, names))} : a \in Allocs}
ImageFiles(heap, names) ==
  {MetaFile(a) : a \in Allocs} \cup SlabFiles(heap, names)
    \cup {RootsFile, BootstrapFile, ManifestFile}

Turn(f) == CASE f[1] = "meta" -> 1 [] f[1] = "slab" -> 2
             [] f = RootsFile -> 3 [] f = BootstrapFile -> 4 [] f = ManifestFile -> 5
Position(a) == CHOOSE i \in DOMAIN Allocators : Allocators[i] = a
Before(f, g) ==
  \/ Turn(f) < Turn(g)
  \/ /\ Turn(f) = Turn(g)
     /\ \/ Position(f[2]) < Position(g[2])
        \/ f[2] = g[2] /\ f[3] < g[3]
IsNext(f, todo) == f \in todo /\ \A g \in todo \ {f} : Before(f, g)

\* bootstrap.json and manifest.json: what there is to load, and the mounts.
Described(mounts, k) == [allocators |-> Allocs, mounts |-> mounts, save |-> k]

\* What the save k hands to the image store.  The root is the first node of
\* the snapshot.
Roots(heap, parked, k) ==
  [anchor |-> [a \in Rooted |-> HighWatermark(heap[a]) + 1], parked |-> parked, save |-> k]
Text(f, heap, names, parked, mounts, k) ==
  CASE f[1] = "meta" -> Metadata(Nodes(f[2], names), k)
    [] f[1] = "slab" -> Image(f[2], heap[f[2]], Nodes(f[2], names), f[3], k)
    [] f = RootsFile -> Roots(heap, parked, k)
    [] OTHER -> Described(mounts, k)
Contents(heap, names, parked, mounts, k) ==
  [f \in ImageFiles(heap, names) |-> Text(f, heap, names, parked, mounts, k)]

---------------------------------------------------------------------------
(* Reading the files d.  Every codec refuses a torn file: a prefix of what  *)
(* was written is short of a field, of a payload or of a closing brace.    *)

Torn == [torn |-> TRUE]
Whole(d, f) == f \in DOMAIN d /\ d[f] # Torn
Written(d, f, text) == [g \in DOMAIN d \cup {f} |-> IF g = f THEN text ELSE d[g]]

Exists(d) == BootstrapFile \in DOMAIN d \/ ManifestFile \in DOMAIN d

\* The slab files found in an allocator's directory; a header that names
\* another allocator, or an index other than the payload's, is an error.
Discovered(d, a) == {f \in DOMAIN d : f[1] = "slab" /\ f[2] = a}
SlabDecodes(d, f) == Whole(d, f) /\ d[f].allocator = f[2] /\ d[f].index = f[3]
SlabsReadable(d, a) ==
  /\ \A f \in Discovered(d, a) : SlabDecodes(d, f)
  /\ \A f, g \in Discovered(d, a) : d[f].index = d[g].index => f = g

\* The bootstrap, or the manifest reduced to one when there is no bootstrap;
\* the reduction leaves the mounts out.
Catalogue(d) == IF BootstrapFile \in DOMAIN d THEN BootstrapFile ELSE ManifestFile
Declared(d) == IF BootstrapFile \in DOMAIN d THEN d[BootstrapFile].mounts ELSE {}

SlabImages(d, a) == {d[f] : f \in Discovered(d, a)}
Rebuilt(images) ==
  LET slots == UNION {DOMAIN i.slots : i \in images}
      nodeAt(s) == (CHOOSE i \in images : s \in DOMAIN i.slots).slots[s]
      of(b) == {i \in images : i.index = b}
  IN  [at |-> [n \in {nodeAt(s) : s \in slots} |-> CHOOSE s \in slots : nodeAt(s) = n],
       sentinels |-> {},
       count |-> [b \in Slabs |-> IF of(b) = {} THEN 0
                                  ELSE (CHOOSE i \in of(b) : TRUE).count]]
RestoredHeap(d, a) ==
  IF SlabImages(d, a) = {} THEN FreshHeap ELSE Sentinel(Rebuilt(SlabImages(d, a)))

AllocatorLoads(d, a) ==
  /\ Whole(d, MetaFile(a)) /\ SlabsReadable(d, a)
  /\ Discovered(d, a) = {} => d[MetaFile(a)].live = 0

CatalogueLoads(d) == Whole(d, Catalogue(d)) /\ Allocs \subseteq d[Catalogue(d)].allocators

RootLoads(d) ==
  /\ Whole(d, RootsFile)
  /\ \A a \in Rooted : d[RootsFile].anchor[a] \in
                          UNION {DOMAIN d[f].slots : f \in Discovered(d, a)}

Loads(d) == CatalogueLoads(d) /\ (\A a \in Allocs : AllocatorLoads(d, a)) /\ RootLoads(d)

---------------------------------------------------------------------------
NoProc == [state |-> "down"]

Init ==
  /\ disk = <<>> /\ saves = 0 /\ done = {} /\ begun = <<>> /\ image = "left"
  /\ proc = [p \in Procs |-> NoProc]

\* What the startup binds, one name after another.
WithBuiltins(h) ==
  LET order == SetToSeq(Builtins)
      bound[i \in 0 .. Len(order)] == IF i = 0 THEN h ELSE Allocated(bound[i - 1], order[i])
  IN  bound[Len(order)]
Started(heap, names, parked, mounts, from) ==
  [state |-> "up", heap |-> [a \in Allocs |-> WithBuiltins(heap[a])],
   names |-> names \cup Builtins, parked |-> parked, mounts |-> mounts, from |-> from]
Starts(p, session) ==
  /\ \A a \in Allocs : NoSlot \notin Live(session.heap[a])
  /\ proc' = [proc EXCEPT ![p] = session]

\* prepareSession: restore what is there, refuse to start when it cannot be
\* restored, and start with an empty root when there is nothing.  A mount
\* whose image cannot be read or validated also refuses.
FreshHeapOf(a) == IF a \in Rooted THEN Allocated(FreshHeap, Root) ELSE FreshHeap
StartFresh(p) ==
  /\ proc[p].state = "down" /\ ~Exists(disk)
  /\ \E mounts \in SUBSET Mounts :
       Starts(p, Started([a \in Allocs |-> FreshHeapOf(a)], {}, {}, mounts, 0))
  /\ UNCHANGED <<disk, saves, done, begun, image>>

\* Slabs are taken as they are listed, and their number is not checked: a name
\* is found when all of its nodes are, the scheduler's state with its name.
\* Nodes of other names stay allocated, and nothing leads to them.
Found(d) == {n \in Names : \A a \in Allocs : n \in DOMAIN RestoredHeap(d, a).at}
Waiting(d) == IF Scheduler \in Found(d) THEN d[RootsFile].parked ELSE {}
Reached(h, names) ==
  LET nodes == DOMAIN h.at \cap (names \cup {Root})
  IN  [at |-> Restrict(h.at, nodes), sentinels |-> Live(h) \ {h.at[n] : n \in nodes},
       count |-> h.count]

StartRestored(p) ==
  /\ proc[p].state = "down" /\ Exists(disk) /\ Loads(disk)
  /\ Starts(p, Started([a \in Allocs |-> Reached(RestoredHeap(disk, a), Found(disk))],
                       Found(disk), Waiting(disk), Declared(disk),
                       disk[Catalogue(disk)].save))
  /\ UNCHANGED <<disk, saves, done, begun, image>>

\* Neither start is possible from an image that does not load, or whose slabs
\* have no slot left for the startup bindings: the program exits.

---------------------------------------------------------------------------
(* Work between start and exit.                                            *)

Bind(p) == \E n \in UserNames :
  /\ proc[p].state = "up" /\ n \notin proc[p].names
  /\ \A a \in Allocs : HasRoom(proc[p].heap[a])
  /\ proc' = [proc EXCEPT ![p].names = @ \cup {n},
                          ![p].heap = [a \in Allocs |-> Allocated(@[a], n)]]
  /\ UNCHANGED <<disk, saves, done, begun, image>>

Unbind(p) == \E n \in UserNames :
  /\ proc[p].state = "up" /\ n \in proc[p].names
  /\ proc' = [proc EXCEPT ![p].names = @ \ {n},
                          ![p].heap = [a \in Allocs |-> Freed(@[a], {n})]]
  /\ UNCHANGED <<disk, saves, done, begun, image>>

Park(p) ==
  /\ proc[p].state = "up"
  /\ \E c \in Parked \ proc[p].parked : proc' = [proc EXCEPT ![p].parked = @ \cup {c}]
  /\ UNCHANGED <<disk, saves, done, begun, image>>

---------------------------------------------------------------------------
(* saveSession at exit: the startup bindings are stripped, the scheduler is *)
(* pumped once, its state replaces the one restored, and saveRoot runs.     *)

Volatile    == Builtins \cup {Scheduler}
Stripped(p, a) == Freed(proc[p].heap[a], proc[p].names \cap Volatile)
Kept(p)     == (proc[p].names \ Builtins) \cup {Scheduler}
KeptHeap(p) == [a \in Allocs |-> Allocated(Stripped(p, a), Scheduler)]
Fits(p)     == \A a \in Allocs : SnapshotFits(KeptHeap(p)[a], Nodes(a, Kept(p)))

\* The snapshot is taken and rolled back; nothing is on disk yet.
SaveBegins(p) ==
  /\ proc[p].state = "up" /\ saves < MaxSaves /\ Fits(p)
  /\ \E still \in SUBSET proc[p].parked :
       proc' = [proc EXCEPT ![p] =
         [state |-> "clearing", save |-> saves + 1,
          given |-> [names |-> Kept(p), parked |-> still, mounts |-> proc[p].mounts],
          todo |-> ImageFiles(KeptHeap(p), Kept(p)),
          files |-> Contents(KeptHeap(p), Kept(p), still, proc[p].mounts, saves + 1)]]
  /\ UNCHANGED <<disk, saves, done, begun, image>>

\* image_store.clear() removes the directory before the first file is written,
\* one file after another, in no order the code knows of.
ClearFile(p) ==
  /\ proc[p].state = "clearing"
  /\ \E f \in DOMAIN disk : disk' = Restrict(disk, DOMAIN disk \ {f})
  /\ image' = IF image = "mixed" THEN "mixed" ELSE "cut"
  /\ UNCHANGED <<proc, saves, done, begun>>

\* Writing begins when all are gone, or one could not be removed: the error is
\* dropped.  The mistake of writing over the files of the last image.
NotCleared(d) == TRUE
Cleared(d) == DOMAIN d \subseteq Stuck
ClearEnds(p) ==
  /\ proc[p].state = "clearing" /\ Cleared(disk)
  /\ saves' = saves + 1 /\ begun' = Append(begun, proc[p].given)
  /\ image' = IF DOMAIN disk \cap Stuck = {} THEN "left" ELSE "mixed"
  /\ proc' = [proc EXCEPT ![p].state = "saving"]
  /\ UNCHANGED <<disk, done>>

\* The snapshot runs out of slots: nothing is written and the exit fails.
SaveRefused(p) ==
  /\ proc[p].state = "up" /\ ~Fits(p)
  /\ proc' = [proc EXCEPT ![p] = NoProc]
  /\ UNCHANGED <<disk, saves, done, begun, image>>

WriteFile(p) ==
  /\ proc[p].state = "saving"
  /\ \E f \in proc[p].todo :
       /\ IsNext(f, proc[p].todo)
       /\ disk' = Written(disk, f, proc[p].files[f])
       /\ proc' = [proc EXCEPT ![p].todo = @ \ {f}]
  /\ UNCHANGED <<saves, done, begun, image>>

SaveEnds(p) ==
  /\ proc[p].state = "saving" /\ proc[p].todo = {}
  /\ done' = {proc[p].save}
  /\ proc' = [proc EXCEPT ![p] = NoProc]
  /\ UNCHANGED <<disk, saves, begun, image>>

\* A write fails, or the process dies: the file being written is left absent
\* or torn, and the ones after it are not written.
WriteBreaks(p) ==
  /\ proc[p].state = "saving"
  /\ \E f \in proc[p].todo :
       /\ IsNext(f, proc[p].todo)
       /\ disk' \in {disk, Written(disk, f, Torn)}
  /\ proc' = [proc EXCEPT ![p] = NoProc]
  /\ UNCHANGED <<saves, done, begun, image>>

\* A program that fails, or a process that dies, saves nothing; what a clearing
\* has removed by then is gone.
ExitWithoutSave(p) ==
  /\ proc[p].state \in {"up", "clearing"}
  /\ proc' = [proc EXCEPT ![p] = NoProc]
  /\ UNCHANGED <<disk, saves, done, begun, image>>

Next == \E p \in Procs :
  \/ StartFresh(p) \/ StartRestored(p) \/ Bind(p) \/ Unbind(p) \/ Park(p)
  \/ SaveBegins(p) \/ ClearFile(p) \/ ClearEnds(p) \/ SaveRefused(p)
  \/ WriteFile(p) \/ SaveEnds(p) \/ WriteBreaks(p) \/ ExitWithoutSave(p)

Spec == Init /\ [][Next]_vars

---------------------------------------------------------------------------
(* Properties.                                                             *)

\* A start that restores (prepareSession, loadRoot) gets the names, continuations
\* and mounts of one save, in every allocator, whatever images, broken saves and
\* crashes the directory has seen before; and never of a save older than the last
\* one that completed.  It gets all of them, unless a process has died while it
\* cleared the directory (then it may get some, and none of another save), or
\* wrote over files it could not remove.
RestoresOneSave ==
  [][\A p \in Procs :
       (/\ proc[p].state = "down" /\ proc'[p].state = "up" /\ proc'[p].from > 0
        /\ image # "mixed") =>
         LET now == proc'[p]
             was == begun[proc'[p].from]
         IN  /\ \A k \in done : k <= now.from
             /\ \A f \in DOMAIN disk : Whole(disk, f) => disk[f].save = now.from
             /\ now.names \ Builtins \subseteq was.names
             /\ now.parked \subseteq was.parked /\ now.mounts \subseteq was.mounts
             /\ image = "left" => /\ now.names \ Builtins = was.names
                                 /\ now.parked = was.parked /\ now.mounts = was.mounts
             /\ \A a \in Allocs : DOMAIN now.heap[a].at \ {Root} = now.names]_vars

\* Once saveRoot has returned true, the session can be restored until the next
\* save begins to clear: the snapshot carries every node of the graph, wherever in
\* the slabs it landed, and loadRoot accepts every file saveRoot writes.
CompletedSaveRestores ==
  (done = {saves} /\ image = "left" /\ \A p \in Procs : proc[p].state # "saving") =>
    /\ Exists(disk) /\ Loads(disk)
    /\ \A a \in Allocs : DOMAIN RestoredHeap(disk, a).at \ {Root} = begun[saves].names

\* Facts/ListreeValueSerializationFormat.md:45: the null id is never the id of
\* a node, after a restore either.
NullIsReserved ==
  \A p \in Procs : proc[p].state = "up" =>
    \A a \in Allocs : \A n \in DOMAIN proc[p].heap[a].at : proc[p].heap[a].at[n] # 0

=============================================================================
