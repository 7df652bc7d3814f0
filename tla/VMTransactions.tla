----------------------------- MODULE VMTransactions -----------------------------
(***************************************************************************)
(* The transactions of an EdictVM that its host opens and ends             *)
(* (edict/edict_vm_core.cpp: beginTransaction, rollbackTransaction,        *)
(* commitTransaction, speculate), over the memory they roll back: the      *)
(* nodes of the VM's data stack and, in detail, BlobAllocator of           *)
(* core/alloc.h, where the bytes of texts too long for a node live, with   *)
(* its slabs on the heap or in mapped files.                               *)
(*                                                                         *)
(* The five node allocators are checkpointed together and appear as one:   *)
(* which slots it takes is what Allocator checks.  Of the resources the    *)
(* data stack stands for all: a list node and its values, changed in       *)
(* place; the registers, restored beside them, are in EdictVM.  What an    *)
(* Edict program does is a push or a pop, and the end of a speculation     *)
(* tells whether its action failed.                                        *)
(***************************************************************************)
EXTENDS Integers, Sequences, FiniteSetsExt, SequencesExt

CONSTANTS
  Texts,      \* what values say
  Length,     \* text -> bytes in the blob allocator, 0 if the node holds it
  SlabBytes,  \* kBlobSlabBytes
  NumSlabs,   \* NUM_SLABS
  MaxNodes,   \* bound: slots for nodes
  MaxStack,   \* bound: values on the stack
  MaxDepth,   \* bound: open transactions
  InsideOut,  \* the host rolls back the innermost transaction first
  Brimful     \* a transaction may begin when the last slab has no byte left

\* A longer text gets no blob and reads as empty.
TransactionAssumption ==
  /\ SlabBytes \in Nat \ {0, 1} /\ NumSlabs \in Nat \ {0}
  /\ MaxNodes \in Nat \ {0} /\ MaxStack \in Nat /\ MaxDepth \in Nat
  /\ Length \in [Texts -> 0 .. SlabBytes]
  /\ InsideOut \in BOOLEAN /\ Brimful \in BOOLEAN

VARIABLES
  heap,   \* nodes, and the slabs of blobs: made, mapped, count, header
  stack,  \* the list node of the VM's stack
  open,   \* checkpoints of the host, innermost last
  said    \* history: what the VM's calls, rolled back ones aside, left on it

vars == <<heap, stack, open, said>>

Slabs  == 0 .. (NumSlabs - 1)
Free   == [free |-> TRUE]
NoBlob == <<0, 0>>

---------------------------------------------------------------------------
(* BlobAllocator.  A slab's first free byte is its count; a mapped slab    *)
(* keeps the count in its file's header too.  A slab is made when all the  *)
(* ones before it are too full.                                            *)

HasSpace(h, length) == \E s \in Slabs : SlabBytes - h.count[s] >= length
FirstWithRoom(h, length) == Min({s \in Slabs : SlabBytes - h.count[s] >= length})

NewMapped(h, s) ==
  IF s \notin h.made /\ h.policy = "file" THEN h.mapped \cup {s} ELSE h.mapped

WithBlob(h, s, length) ==
  [h EXCEPT !.made = @ \cup {s},
            !.mapped = NewMapped(h, s),
            !.count[s] = @ + length,
            !.header[s] = IF s \in NewMapped(h, s) THEN h.count[s] + length ELSE @]

\* The last slab and its count, an offset of 16 bits: that of a full slab is 0.
Watermark(h) == <<Max(h.made), h.count[Max(h.made)] % SlabBytes>>

\* rollback: slabs above the mark are emptied and stay.
CountAt(h, mark, s) ==
  CASE s > mark[1] -> 0 [] s = mark[1] -> mark[2] [] OTHER -> h.count[s]
BlobsRolledBack(h, mark) ==
  [h EXCEPT !.count = [s \in Slabs |-> CountAt(h, mark, s)],
            !.header = [s \in Slabs |-> IF s \in h.mapped /\ s >= mark[1]
                                        THEN CountAt(h, mark, s) ELSE @[s]]]

BytesOf(node) ==
  {<<node.blob[1], b>> : b \in node.blob[2] .. (node.blob[2] + Length[node.text] - 1)}

---------------------------------------------------------------------------
(* Nodes: a text with its blob, or the list of a stack.                    *)

Nodes == 1 .. MaxNodes
Live(h) == {n \in Nodes : h.nodes[n] # Free}

\* Under a checkpoint a slot is taken above all that live.
NewNode(h) == IF h.depth > 0 THEN Max(Live(h)) + 1 ELSE Min(Nodes \ Live(h))

WithList(h, items) == [h EXCEPT !.nodes[NewNode(h)] = [items |-> items]]

TextAt(h, n, text) ==
  LET s == FirstWithRoom(h, Length[text]) IN
  IF Length[text] = 0
  THEN [h EXCEPT !.nodes[n] = [text |-> text, blob |-> NoBlob]]
  ELSE [WithBlob(h, s, Length[text]) EXCEPT
          !.nodes[n] = [text |-> text, blob |-> <<s, h.count[s]>>]]

Items(h, list) == h.nodes[list].items

\* A new value, the last of a list.
WithValue(h, list, text) ==
  [TextAt(h, NewNode(h), text) EXCEPT !.nodes[list].items = Append(@, NewNode(h))]

\* copy: the list first, then its values.
Copies(h, list) ==
  LET items == Items(h, list)
      copied[i \in 0 .. Len(items)] ==
        IF i = 0 THEN WithList(h, <<>>)
        ELSE WithValue(copied[i - 1], NewNode(h), h.nodes[items[i]].text)
  IN copied
WithCopy(h, list) == Copies(h, list)[Len(Items(h, list))]

\* References alone keep a node.
Kept(h, lists) ==
  LET reached == lists \cup UNION {Range(Items(h, l)) : l \in lists \cap Live(h)} IN
  [h EXCEPT !.nodes = [n \in Nodes |-> IF n \in reached THEN @[n] ELSE Free]]

\* Bound: there is a slot and, somewhere, the bytes for what is made.
HasNode(h) == Max(Live(h)) < MaxNodes
HasRoom(h, text) == HasNode(h) /\ HasSpace(h, Length[text])
CopyFits(h, list) ==
  HasNode(h) /\ \A i \in DOMAIN Items(h, list) :
                 HasRoom(Copies(h, list)[i - 1], h.nodes[Items(h, list)[i]].text)

---------------------------------------------------------------------------
(* The VM at work.                                                         *)

ListsOf(checkpoints) == {checkpoints[i].list : i \in DOMAIN checkpoints}

Push(text) ==
  /\ Len(said) < MaxStack /\ HasRoom(heap, text)
  /\ heap' = WithValue(heap, stack, text)
  /\ said' = Append(said, text)
  /\ UNCHANGED <<stack, open>>

Pop ==
  /\ said # <<>>
  /\ heap' = Kept([heap EXCEPT !.nodes[stack].items = Front(@)],
                  ListsOf(open) \cup {stack})
  /\ said' = Front(said)
  /\ UNCHANGED <<stack, open>>

---------------------------------------------------------------------------
(* Transactions.                                                           *)

Checkpoint(h, marked, speculative) ==
  [list |-> NewNode(h), nodes |-> Max(Live(marked)), blobs |-> Watermark(marked),
   speculative |-> speculative, said |-> said]

\* The mistake of marking the allocators before the copies are made.
BeginMarked(speculative) ==
  LET below == [heap EXCEPT !.depth = @ + 1] IN
  /\ Len(open) < MaxDepth /\ CopyFits(below, stack)
  /\ heap' = WithCopy(below, stack)
  /\ open' = Append(open, Checkpoint(below, heap, speculative))
  /\ UNCHANGED <<stack, said>>

\* Copies first, so that they lie below the marks of the allocators.
Begin(speculative) ==
  LET copied == WithCopy(heap, stack) IN
  /\ Len(open) < MaxDepth /\ CopyFits(heap, stack)
  /\ Brimful \/ copied.count[Max(copied.made)] < SlabBytes
  /\ heap' = [copied EXCEPT !.depth = @ + 1]
  /\ open' = Append(open, Checkpoint(heap, copied, speculative))
  /\ UNCHANGED <<stack, said>>

Reclaimed(h, c) ==
  LET blobs == BlobsRolledBack(h, c.blobs) IN
  [blobs EXCEPT !.depth = @ - 1,
                !.nodes = [n \in Nodes |-> IF n > c.nodes THEN Free ELSE @[n]]]

Innermost(i) == i = Len(open)

\* Resources and registers come first; then each allocator refuses a
\* checkpoint that is not its last, which the VM has taken over by then.
Rollback(i) ==
  LET c == open[i] IN
  /\ ~c.speculative
  /\ stack' = c.list
  /\ said' = c.said
  /\ IF Innermost(i)
     THEN /\ open' = Front(open)
          /\ heap' = Kept(Reclaimed(heap, c), ListsOf(Front(open)) \cup {c.list})
     ELSE /\ UNCHANGED open
          /\ heap' = Kept(heap, ListsOf(open))

Commit(i) ==
  /\ Innermost(i) /\ ~open[i].speculative
  /\ open' = Front(open)
  /\ heap' = Kept([heap EXCEPT !.depth = @ - 1], ListsOf(Front(open)) \cup {stack})
  /\ UNCHANGED <<stack, said>>

\* The host ends its own transactions only when no speculation is running.
Tried == IF InsideOut THEN {Len(open)} \ {0} ELSE DOMAIN open

\* speculate: the top is read before the rollback and becomes a value of its
\* own after it, which the caller pushes or drops.
SpeculationEnds(kept) ==
  /\ open # <<>> /\ Last(open).speculative
  /\ LET c    == Last(open)
         back == Kept(Reclaimed(heap, c), ListsOf(Front(open)) \cup {c.list})
         top  == heap.nodes[Last(Items(heap, stack))]
     IN IF said = <<>> \/ ~kept
        THEN /\ heap' = back /\ said' = c.said
        ELSE /\ Len(c.said) < MaxStack /\ HasRoom(back, top.text)
             /\ heap' = WithValue(back, c.list, top.text)
             /\ said' = Append(c.said, Last(said))
  /\ stack' = Last(open).list
  /\ open' = Front(open)

---------------------------------------------------------------------------
(* A session is saved and a new process loads it: slab 0 is written if it  *)
(* is on the heap, the mapped ones are in their files, and every file is   *)
(* mapped with the count of its header.  An image has the texts alone.     *)

Saved(h) ==
  [h EXCEPT !.header = [s \in Slabs |-> IF s = 0 /\ 0 \notin h.mapped THEN h.count[0]
                                        ELSE IF s \in h.made THEN @[s] ELSE 0]]

Reattached(h) == [h EXCEPT !.count = h.header, !.mapped = h.made]

\* Slab 0 is read from its file once more, the one it is mapped from.
SlabZeroRead(h) == [h EXCEPT !.count[0] = h.header[0]]

IsText(node) == "text" \in DOMAIN node

\* A process that has loaded nothing but the lists.
EmptySlabs(h) ==
  [h EXCEPT !.made = {0}, !.mapped = {}, !.count = [s \in Slabs |-> IF s = 0 THEN 1 ELSE 0],
            !.header = [s \in Slabs |-> 0],
            !.nodes = [n \in Nodes |-> IF IsText(@[n]) THEN Free ELSE @[n]]]

\* The texts get blobs in the order of their slots.
Loading(h) ==
  LET loaded[n \in 0 .. MaxNodes] ==
        IF n = 0 THEN EmptySlabs(h)
        ELSE IF IsText(h.nodes[n]) THEN TextAt(loaded[n - 1], n, h.nodes[n].text)
        ELSE loaded[n - 1]
  IN loaded
Reallocated(h) == Loading(h)[MaxNodes]

\* Bound: the texts find room again.
LoadFits(h) == \A n \in Nodes : IsText(h.nodes[n]) =>
                                 HasSpace(Loading(h)[n - 1], Length[h.nodes[n].text])

\* The store has slabs made from now on live in files; it is asked before
\* there is a second slab on the heap, which no save would write.
Configure ==
  /\ open = <<>> /\ heap.policy = "heap" /\ heap.made = {0}
  /\ heap' = [heap EXCEPT !.policy = "file"]
  /\ UNCHANGED <<stack, open, said>>

Restart ==
  /\ open = <<>>
  /\ \/ heap.policy = "file" /\ heap' = SlabZeroRead(Reattached(Saved(heap)))
     \/ heap.policy = "heap" /\ LoadFits(heap) /\ heap' = Reallocated(heap)
  /\ UNCHANGED <<stack, open, said>>

---------------------------------------------------------------------------
\* The start of a VM takes blobs of its own, in slab 0.
Init ==
  /\ heap = [policy |-> "heap", mapped |-> {}, made |-> {0}, depth |-> 0,
             nodes |-> [n \in Nodes |-> IF n = 1 THEN [items |-> <<>>] ELSE Free],
             count |-> [s \in Slabs |-> IF s = 0 THEN 1 ELSE 0],
             header |-> [s \in Slabs |-> 0]]
  /\ stack = 1
  /\ open = <<>>
  /\ said = <<>>

Next ==
  \/ \E text \in Texts : Push(text)
  \/ Pop
  \/ \E speculative \in BOOLEAN : Begin(speculative)
  \/ \E i \in Tried : Rollback(i)
  \/ \E i \in DOMAIN open : Commit(i)
  \/ \E kept \in BOOLEAN : SpeculationEnds(kept)
  \/ Configure
  \/ Restart

Spec == Init /\ [][Next]_vars

---------------------------------------------------------------------------
(* A rollback undoes what happened since its transaction began, and that   *)
(* alone: rollbackTransaction with the watermarks of the allocators, after *)
(* commits and rollbacks of inner transactions, speculations, and a        *)
(* restart in between.  The VM's stack always says what its calls          *)
(* left, those of rolled-back ones aside; the copies of open         *)
(* checkpoints still say what the stack said when they were taken; every   *)
(* value has bytes of its own that no later one is given.                  *)

Says(list, texts) ==
  /\ "items" \in DOMAIN heap.nodes[list]
  /\ Len(Items(heap, list)) = Len(texts)
  /\ \A i \in DOMAIN texts :
       LET node == heap.nodes[Items(heap, list)[i]] IN
       IsText(node) /\ node.text = texts[i]

TextNodes == {n \in Nodes : IsText(heap.nodes[n])}

OwnBytes ==
  \A n \in TextNodes :
    /\ \A b \in BytesOf(heap.nodes[n]) : b # NoBlob /\ b[2] < heap.count[b[1]]
    /\ \A m \in TextNodes \ {n} : BytesOf(heap.nodes[n]) \cap BytesOf(heap.nodes[m]) = {}

RollbacksAreExact ==
  /\ Says(stack, said)
  /\ \A i \in DOMAIN open : Says(open[i].list, open[i].said)
  /\ OwnBytes
=============================================================================
