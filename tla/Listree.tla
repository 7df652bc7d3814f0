------------------------------ MODULE Listree ------------------------------
(***************************************************************************)
(* Listree values, the dictionaries and lists Edict programs are made of,  *)
(* and the cursors that walk and change them: listree/listree.cpp and      *)
(* core/cursor.cpp.  The dictionary of a scope is changed by the VM's      *)
(* instructions, each through a cursor of its own that lives as long as    *)
(* the instruction; the VM's resident cursor keeps its position from one   *)
(* instruction to the next.  A second scope, `twin', is the copy a         *)
(* speculation or a search works on.                                       *)
(*                                                                         *)
(* Every operation takes a heap s = [node, item, ok] and a cursor record   *)
(* and returns both; ok says whether an allocation found room.             *)
(***************************************************************************)
EXTENDS Naturals, Sequences, FiniteSets, SequencesExt

CONSTANTS NumNodes,   \* values
          NumItems,   \* dictionary items
          Names,      \* names, as numbers: the tree is ordered by them
          Paths,      \* the paths instructions name
          MaxPins,    \* bound on the pins a value collects
          MaxSteps    \* bound on the instructions of a program

\* What an instance assumes of them.
ListreeAssumption ==
  /\ NumNodes \in Nat \ {0} /\ NumItems \in Nat /\ MaxPins \in Nat /\ MaxSteps \in Nat
  /\ Names \subseteq Nat \ {0}

VARIABLES node,     \* the values
          item,     \* the items: the history of a name, newest first
          resident, \* the VM's own cursor
          twin,     \* root of the copy, or None
          copying,  \* the copy was made by the last step
          steps     \* instructions so far

vars == <<node, item, resident, twin, copying, steps>>

None == 0
Root == 1
Nodes == 1..NumNodes
Items == 1..NumItems
Step(x) == [name |-> x, tail |-> FALSE, listTail |-> FALSE]

NoDict == [x \in Names |-> None]
Blank == [kind |-> "free", dict |-> NoDict, list |-> <<>>, ro |-> FALSE, pins |-> 0]
Kinds == {"null", "text", "list"}
Fresh(kind) == [Blank EXCEPT !.kind = kind]
NoItem == [on |-> FALSE, name |-> 0, vals |-> <<>>]

-----------------------------------------------------------------------------
(* The heap.                                                               *)

At(seq, fromEnd) ==
  IF seq = <<>> THEN None ELSE IF fromEnd THEN Last(seq) ELSE Head(seq)
Drop(seq, fromEnd) == IF fromEnd THEN Front(seq) ELSE Tail(seq)
Store(seq, v, atEnd) == IF atEnd THEN Append(seq, v) ELSE <<v>> \o seq

IsList(s, n) == s.node[n].kind = "list"
ItemsOf(s, n) == {s.node[n].dict[x] : x \in Names} \ {None}
Children(s, n) ==
  Range(s.node[n].list) \cup UNION {Range(s.item[i].vals) : i \in ItemsOf(s, n)}

RECURSIVE ReachFrom(_, _)
ReachFrom(s, S) ==
  LET more == S \cup UNION {Children(s, n) : n \in S}
  IN  IF more = S THEN S ELSE ReachFrom(s, more)

\* Allocation: the lowest free slot.
Full(s) == [s EXCEPT !.ok = FALSE]
FreeNodes(s) == {n \in Nodes : s.node[n].kind = "free"}
FreeItems(s) == {i \in Items : ~s.item[i].on}
Least(S) == CHOOSE n \in S : \A m \in S : n <= m
NewNode(s) == IF FreeNodes(s) = {} THEN Root ELSE Least(FreeNodes(s))
WithNode(s, kind) ==
  IF FreeNodes(s) = {} THEN Full(s)
  ELSE [s EXCEPT !.node[NewNode(s)] = Fresh(kind)]

\* Reference counts: what nothing refers to any more is gone.
Collect(s, roots, held) ==
  LET live == ReachFrom(s, roots \cup UNION {Range(s.item[i].vals) : i \in held})
      kept == held \cup UNION {ItemsOf(s, n) : n \in live}
  IN  [s EXCEPT !.node = [n \in Nodes |-> IF n \in live THEN s.node[n] ELSE Blank],
                !.item = [i \in Items |-> IF i \in kept THEN s.item[i] ELSE NoItem]]

-----------------------------------------------------------------------------
(* ListreeValue.                                                           *)

Find(s, n, x) == IF IsList(s, n) \/ x \notin Names THEN None ELSE s.node[n].dict[x]

\* find(name, insert): a list or a read-only value takes no new name.
Inserted(s, n, x) ==
  IF Find(s, n, x) # None \/ IsList(s, n) \/ s.node[n].ro THEN s
  ELSE IF FreeItems(s) = {} THEN Full(s)
  ELSE LET i == Least(FreeItems(s))
       IN  [s EXCEPT !.item[i] = [on |-> TRUE, name |-> x, vals |-> <<>>],
                      !.node[n].dict[x] = i]

Peek(s, i, fromEnd) == IF i = None THEN None ELSE At(s.item[i].vals, fromEnd)

\* The mistake of an item's history that is changed without asking its owner.
AddUnowned(s, n, i, v, atEnd) ==
  IF i = None THEN s ELSE [s EXCEPT !.item[i].vals = Store(@, v, atEnd)]
AddItemValue(s, n, i, v, atEnd) ==
  IF i = None \/ IsList(s, n) \/ s.node[n].ro THEN s
  ELSE [s EXCEPT !.item[i].vals = Store(@, v, atEnd)]

PopItemValue(s, n, i, fromEnd) ==
  IF IsList(s, n) \/ s.node[n].ro \/ Peek(s, i, fromEnd) = None THEN s
  ELSE [s EXCEPT !.item[i].vals = Drop(@, fromEnd)]

\* remove(name): refused by a read-only value, and while a value of the item
\* is pinned; otherwise the item leaves the tree and loses its values.
RemoveName(s, n, x) ==
  LET i == Find(s, n, x)
      pinned == \E v \in Range(s.item[i].vals) : s.node[v].pins > 0
  IN  IF i = None \/ s.node[n].ro \/ pinned THEN s
      ELSE [s EXCEPT !.node[n].dict[x] = None, !.item[i].vals = <<>>]

Put(s, n, v, atEnd) ==
  IF ~IsList(s, n) \/ s.node[n].ro THEN s ELSE [s EXCEPT !.node[n].list = Store(@, v, atEnd)]

\* get(pop): on a read-only list a pop is a peek.
Take(s, n, fromEnd) ==
  IF ~IsList(s, n) \/ s.node[n].ro \/ s.node[n].list = <<>> THEN s
  ELSE [s EXCEPT !.node[n].list = Drop(@, fromEnd)]

\* addNamedItem
AddNamed(s, n, x, v) ==
  LET t == Inserted(s, n, x) IN AddItemValue(t, n, Find(t, n, x), v, FALSE)

\* setReadOnly(true): the value and whatever can be reached from it, through
\* the whole history of each name.
\* The mistake of a walk that follows the newest value of a name only.
RECURSIVE HeadReach(_, _)
HeadReach(s, S) ==
  LET heads(n) == {Peek(s, i, FALSE) : i \in ItemsOf(s, n)} \ {None}
      more == S \cup UNION {Range(s.node[n].list) \cup heads(n) : n \in S}
  IN  IF more = S THEN S ELSE HeadReach(s, more)
FrozenByHead(s, n) ==
  [s EXCEPT !.node = [m \in Nodes |->
     IF m \in HeadReach(s, {n}) THEN [s.node[m] EXCEPT !.ro = TRUE] ELSE s.node[m]]]
Frozen(s, n) ==
  [s EXCEPT !.node = [m \in Nodes |->
     IF m \in ReachFrom(s, {n}) THEN [s.node[m] EXCEPT !.ro = TRUE] ELSE s.node[m]]]

\* copy(): read-only values are shared, a value on the way down is a cycle
\* and is left out, anything else is rebuilt with its histories in order.
\* Returns the heap and the copy (None for a cycle).
RECURSIVE Copied(_, _, _)
\* The mistake of a copy that starts behind the newest value.
CopySeqShort(s, vals, active) ==
  FoldLeft(LAMBDA acc, v :
             LET c == Copied(acc.s, v, active)
             IN  [s |-> c.s, seq |-> IF c.n = None THEN acc.seq ELSE Append(acc.seq, c.n)],
           [s |-> s, seq |-> <<>>], IF vals = <<>> THEN vals ELSE Tail(vals))
CopySeq(s, vals, active) ==
  FoldLeft(LAMBDA acc, v :
             LET c == Copied(acc.s, v, active)
             IN  [s |-> c.s, seq |-> IF c.n = None THEN acc.seq ELSE Append(acc.seq, c.n)],
           [s |-> s, seq |-> <<>>], vals)
CopyDict(s, n, m, active) ==
  FoldLeft(LAMBDA t, x :
             LET Filled(c) == [c.s EXCEPT !.item[Find(c.s, m, x)].vals = c.seq]
                 From(u) == IF u.ok THEN Filled(CopySeq(u, s.item[Find(s, n, x)].vals, active))
                            ELSE u
             IN  IF Find(s, n, x) = None \/ ~t.ok THEN t ELSE From(Inserted(t, m, x)),
           s, SetToSeq(Names))
Copied(s, n, active) ==
  IF s.node[n].ro THEN [s |-> s, n |-> n]
  ELSE IF n \in active \/ ~s.ok THEN [s |-> s, n |-> None]
  ELSE LET Listed(c, m) == [s |-> [c.s EXCEPT !.node[m].list = c.seq], n |-> m]
           Into(t, m, down) ==
             IF ~t.ok THEN [s |-> t, n |-> None]
             ELSE IF IsList(s, n) THEN Listed(CopySeq(t, s.node[n].list, down), m)
             ELSE [s |-> CopyDict(t, n, m, down), n |-> m]
       IN  Into(WithNode(s, s.node[n].kind), NewNode(s), active \cup {n})

\* toJson: names with their newest value, a value met again on the way down
\* as null; a value without names is its text, or null.
RECURSIVE ToJson(_, _, _)
ToJson(s, n, path) ==
  IF n \in path THEN <<"null", <<>>>>
  ELSE IF IsList(s, n)
  THEN <<"list", [k \in DOMAIN s.node[n].list |-> ToJson(s, s.node[n].list[k], path \cup {n})]>>
  ELSE LET shown == {x \in Names : Peek(s, Find(s, n, x), FALSE) # None}
       IN  IF ItemsOf(s, n) = {} THEN <<s.node[n].kind, <<>>>>
           ELSE <<"dict", [x \in Names |-> IF x \notin shown THEN <<"absent", <<>>>>
                             ELSE ToJson(s, Peek(s, Find(s, n, x), FALSE), path \cup {n})]>>

-----------------------------------------------------------------------------
(* Cursor.  cur, parent and item say where it stands, path is the list of  *)
(* its components, oldest first.  done is what the method returns.         *)

Pinned(s, n) ==
  IF n = None THEN s
  ELSE [s EXCEPT !.node[n].pins = @ + 1, !.ok = @ /\ s.node[n].pins < MaxPins]
\* The mistake of an unpin that does not stop at zero.
UnpinnedBelow(s, n) == IF n = None THEN s ELSE [s EXCEPT !.node[n].pins = @ - 1]
Unpinned(s, n) ==
  IF n = None \/ s.node[n].pins = 0 THEN s ELSE [s EXCEPT !.node[n].pins = @ - 1]

NewCursor(root) == [root |-> root, cur |-> root, parent |-> None, item |-> None,
                    fromEnd |-> FALSE, path |-> <<>>]
AtRoot(c) == [NewCursor(c.root) EXCEPT !.path = c.path]
Open(s, root) == [s |-> Pinned(s, root), c |-> NewCursor(root), done |-> TRUE]
Pin(r) == [r EXCEPT !.s = Pinned(r.s, r.c.cur)]
Unpin(r) == [r EXCEPT !.s = Unpinned(r.s, r.c.cur)]
Failed(r) == [r EXCEPT !.done = FALSE]
MoveTo(r, v, i, fromEnd) ==
  [r EXCEPT !.c = [@ EXCEPT !.cur = v, !.parent = r.c.cur, !.item = i, !.fromEnd = fromEnd]]
ReadOnlyHere(r) ==
  \/ r.c.cur # None /\ r.s.node[r.c.cur].ro
  \/ r.c.parent # None /\ r.s.node[r.c.parent].ro

\* One component of a path: the name's newest or oldest value, the last
\* element of a list in its place; an inserting resolve fills a name that
\* has no value with an empty dictionary.
Fill(r, t, i, comp) ==
  IF ~t.ok THEN Failed([r EXCEPT !.s.ok = FALSE])
  ELSE MoveTo([r EXCEPT !.s = AddItemValue(t, r.c.cur, i, NewNode(r.s), FALSE)],
              NewNode(r.s), i, comp.tail)
Enter(r, i, there, comp, insert) ==
  LET inList == comp.listTail /\ there # None
      next == IF inList THEN At(r.s.node[there].list, TRUE) ELSE there
  IN  IF i = None \/ ~r.s.ok \/ (inList /\ ~IsList(r.s, there)) THEN Failed(r)
      ELSE IF next # None THEN MoveTo(r, next, i, comp.tail)
      ELSE IF insert THEN Fill(r, WithNode(r.s, "null"), i, comp) ELSE Failed(r)
Visit(r, comp, insert) ==
  LET At1(q, i) == Enter(q, i, Peek(q.s, i, comp.tail), comp, insert)
      Named(q) == At1(q, Find(q.s, q.c.cur, comp.name))
  IN  IF ~r.done \/ ~r.s.ok THEN r
      ELSE IF IsList(r.s, r.c.cur) THEN Failed(r)
      ELSE Named(IF insert THEN [r EXCEPT !.s = Inserted(@, r.c.cur, comp.name)] ELSE r)

Resolve(r, absolute, comps, insert) ==
  LET c == IF absolute \/ r.c.path = <<>> THEN [AtRoot(r.c) EXCEPT !.path = comps]
           ELSE [r.c EXCEPT !.path = @ \o comps]
      start == [s |-> Unpinned(r.s, r.c.cur), c |-> c, done |-> TRUE]
  IN  Pin(FoldLeft(LAMBDA q, comp : Visit(q, comp, insert), start, comps))

\* up() takes a component away and resolves the rest from the root.  The
\* component it takes away is the first: pop(TRUE) is the oldest end.
GoUp(r) ==
  IF r.c.path = <<>> THEN Failed(r)
  ELSE LET p == Tail(r.c.path)
           OrBack(u) == IF u.done THEN u ELSE Pin(u)
       IN  OrBack(Resolve(Unpin([r EXCEPT !.c.path = p]), TRUE, p, FALSE))

\* The names of a dictionary that have a value.
Valued(s, n) == {x \in Names : Peek(s, Find(s, n, x), FALSE) # None}
ToName(u, x, path) ==
  LET i == Find(u.s, u.c.cur, x)
  IN  Pin([MoveTo(u, Peek(u.s, i, FALSE), i, FALSE) EXCEPT !.c.path = Append(path, Step(x))])

\* down(): the first child of a list, the first name of a dictionary that
\* has a value.
GoDown(r) ==
  LET Below(u, first, named) ==
        IF IsList(u.s, u.c.cur)
        THEN IF first = None THEN Failed(Pin(u))
             ELSE Pin([MoveTo(u, first, None, FALSE) EXCEPT !.c.path = Append(@, Step(0))])
        ELSE IF named = {} THEN Failed(Pin(u)) ELSE ToName(u, Least(named), u.c.path)
  IN  IF r.c.cur = None THEN Failed(r)
      ELSE Below(Unpin(r), At(r.s.node[r.c.cur].list, FALSE), Valued(r.s, r.c.cur))

\* next() and prev(): to the neighbour among the names of the parent, which
\* are collected after the cursor's own has been met; the pin of the parent,
\* which resolve set, stays behind.
Neighbour(S, later) == IF later THEN Least(S) ELSE CHOOSE x \in S : \A y \in S : y <= x
GoBeside(r, later) ==
  LET c == r.c
      here == Last(c.path).name
      To(u, beyond) ==
        IF beyond # {} THEN ToName(u, Neighbour(beyond, later), Front(c.path))
        ELSE Failed(Pin([u EXCEPT !.c = [c EXCEPT !.fromEnd = u.c.fromEnd]]))
      Beyond(u) == {x \in Valued(u.s, u.c.cur) : IF later THEN x > here ELSE x < here}
      Lost(u) == ~u.done \/ IsList(u.s, u.c.cur) \/ Find(u.s, u.c.cur, here) = None
      From(u) == To(u, IF Lost(u) THEN {} ELSE Beyond(u))
  IN  IF c.cur = None \/ c.item = None \/ c.path = <<>> THEN Failed(r)
      ELSE From(Resolve(Unpin(r), TRUE, Front(c.path), FALSE))

\* assign(): a value put into the item; an empty placeholder gives way to it.
Placeholder(s, n) == n # None /\ s.node[n].kind = "null" /\ ItemsOf(s, n) = {}
Assign(r, v) ==
  LET c == r.c
      Room(s) == IF Placeholder(s, Peek(s, c.item, c.fromEnd))
                 THEN PopItemValue(s, c.parent, c.item, c.fromEnd) ELSE s
  IN  IF None \in {c.cur, c.parent, c.item} \/ ReadOnlyHere(r) \/ IsList(r.s, c.parent)
      THEN Failed(r)
      ELSE Pin([s |-> AddItemValue(Room(r.s), c.parent, c.item, v, c.fromEnd),
                c |-> [c EXCEPT !.cur = v], done |-> TRUE])

\* The loop of remove(): an item without values is taken out of its parent,
\* then a parent that has become empty out of its own.
Popped(s, c) == PopItemValue(s, c.parent, c.item, c.fromEnd)
Useless(s, n) == ItemsOf(s, n) = {} /\ s.node[n].kind # "text"
RECURSIVE Prune(_)
Prune(r) ==
  LET On(q) ==
        IF q.c.item = None \/ ~Useless(q.s, q.c.cur) \/ q.c.parent = None \/ ReadOnlyHere(q)
        THEN q ELSE Prune([q EXCEPT !.s = Popped(q.s, q.c)])
      Without(u) ==
        IF u.c.cur = None \/ IsList(u.s, u.c.cur) THEN u
        ELSE [u EXCEPT !.s = RemoveName(u.s, u.c.cur, r.s.item[r.c.item].name)]
      Above(u) == IF u.done THEN On(Without(u)) ELSE Without(u)
  IN  IF Peek(r.s, r.c.item, FALSE) # None \/ ~r.s.ok THEN r ELSE Above(GoUp(r))

RemoveHere(r) ==
  LET To(s) == IF s = r.s THEN Failed(r) ELSE Pin(Prune([r EXCEPT !.s = s]))
  IN  IF None \in {r.c.cur, r.c.parent, r.c.item} \/ ReadOnlyHere(r) THEN Failed(r)
      ELSE To(Popped(r.s, r.c))

RemoveHeadOnly(r) ==
  LET c == r.c
      To(u, s) ==
        IF s = u.s THEN Failed([u EXCEPT !.c.cur = None, !.c.parent = None])
        ELSE Pin([u EXCEPT !.s = s, !.c.cur = Peek(s, c.item, c.fromEnd)])
      From(u) == To(u, Popped(u.s, c))
  IN  IF None \in {c.parent, c.item} \/ ReadOnlyHere(r) THEN Failed(r) ELSE From(Unpin(r))

-----------------------------------------------------------------------------
(* The instructions.                                                       *)

Heap == [node |-> node, item |-> item, ok |-> TRUE]
Scopes == {Root, twin} \ {None}
InScope(r) == ReachFrom(Heap, {r})

Install(s, c, t, fresh) ==
  \E h \in {Collect(s, {Root, t, c.root, c.cur, c.parent} \ {None}, {c.item} \ {None})} :
      /\ s.ok
      /\ steps < MaxSteps /\ steps' = steps + 1
      /\ node' = h.node /\ item' = h.item
      /\ resident' = c /\ twin' = t /\ copying' = fresh

\* What an instruction's own cursor leaves behind when it goes.
Close(r) == Install(Unpinned(r.s, r.c.cur), resident, twin, FALSE)

\* The value an instruction stores: new, or one that is in its scope already
\* and has been fetched through the resident cursor.
Stored(s, r) == {[s |-> WithNode(s, k), v |-> NewNode(s)] : k \in Kinds}
                \cup {[s |-> s, v |-> n] : n \in {resident.cur} \cap InScope(r)}

\* op_ASSIGN.  Where a path cannot be made, at a list or a read-only value,
\* create() cannot make it either.
OpAssign(root, p) ==
  \E w \in Stored(Heap, root) :
    LET plain == Len(p) = 1 /\ p[1] = Step(p[1].name)
        To(r) == Close(IF r.done THEN Assign(r, w.v) ELSE r)
    IN  IF ~w.s.ok THEN FALSE
        ELSE IF plain /\ ~IsList(w.s, root)
        THEN Install(AddNamed(w.s, root, p[1].name, w.v), resident, twin, FALSE)
        ELSE To(Resolve(Open(w.s, root), FALSE, p, TRUE))

\* op_REMOVE and op_REMOVE_HEAD: in the first scope where the path resolves.
OpRemove(root, p) ==
  \E r \in {Resolve(Open(Heap, root), FALSE, p, FALSE)} :
    Close(IF r.done THEN RemoveHere(r) ELSE r)
OpRemoveHead(root, p) ==
  \E r \in {Resolve(Open(Heap, root), FALSE, p, FALSE)} :
    Close(IF r.done THEN RemoveHeadOnly(r) ELSE r)

\* The instructions of the resident cursor.
MoveResident ==
  LET r == [s |-> Heap, c |-> resident, done |-> TRUE]
  IN  \E m \in {GoDown(r), GoUp(r), GoBeside(r, TRUE), GoBeside(r, FALSE)} :
        Install(m.s, m.c, twin, FALSE)
SetResident ==
  \E w \in Stored(Heap, Root) :
    /\ w.s.ok
    /\ \E r \in {Assign([s |-> w.s, c |-> resident, done |-> TRUE], w.v)} :
         r.done /\ Install(r.s, r.c, twin, FALSE)

\* Lists are changed through what a program has fetched.
ChangeList ==
  \E root \in Scopes : \E n \in InScope(root) :
    /\ node[n].kind = "list"
    /\ \/ Install(Take(Heap, n, FALSE), resident, twin, FALSE)
       \/ \E w \in Stored(Heap, root), atEnd \in BOOLEAN :
            Len(node[n].list) < 2 /\ w.s.ok
            /\ Install(Put(w.s, n, w.v, atEnd), resident, twin, FALSE)

\* op_FREEZE
Freeze ==
  \E root \in Scopes : \E n \in InScope(root) :
    ~node[n].ro /\ Install(Frozen(Heap, n), resident, twin, FALSE)

\* The copy a speculation or a search starts from, and its end.
Duplicate ==
  twin = None /\ \E c \in {Copied(Heap, Root, {})} : Install(c.s, resident, c.n, TRUE)
DropTwin == twin # None /\ Install(Heap, resident, None, FALSE)

Init ==
  /\ node = [n \in Nodes |-> IF n = Root THEN [Fresh("null") EXCEPT !.pins = 1] ELSE Blank]
  /\ item = [i \in Items |-> NoItem]
  /\ resident = NewCursor(Root)
  /\ twin = None
  /\ copying = FALSE
  /\ steps = 0

Next ==
  \/ \E root \in Scopes, p \in Paths : OpAssign(root, p)
  \/ \E root \in Scopes, p \in Paths : OpRemove(root, p)
  \/ \E root \in Scopes, p \in Paths : OpRemoveHead(root, p)
  \/ MoveResident \/ SetResident
  \/ ChangeList \/ Freeze
  \/ Duplicate \/ DropTwin

Spec == Init /\ [][Next]_vars

-----------------------------------------------------------------------------
(* What the heap promises.                                                 *)

\* A type invariant for both.
TypeOK ==
  /\ \A n \in Nodes : /\ node[n].kind \in Kinds \cup {"free"}
                       /\ node[n].dict \in [Names -> Items \cup {None}]
                       /\ Range(node[n].list) \subseteq Nodes
                       /\ node[n].pins \in 0..MaxPins
  /\ \A i \in Items : Range(item[i].vals) \subseteq Nodes
  /\ twin \in Nodes \cup {None}

Content(n) == [dict |-> node[n].dict, list |-> node[n].list,
               history |-> [i \in ItemsOf(Heap, n) |-> item[i].vals]]

\* A value that has been frozen is never changed again, by no instruction and
\* through no cursor that was already there: not its names, not the history
\* of a name, not its list (the flag ReadOnly is checked by each operation
\* that changes one of them, the pruning of remove() included).
FrozenStays ==
  [][\A n \in Nodes : node[n].ro /\ node'[n].kind # "free"
                         => node'[n].ro /\ Content(n)' = Content(n)]_vars

\* What a frozen value leads to is frozen, however deep in the history of a
\* name: copy() and the threads of intern jobs share it without a lock.
\* Hence no value that can still change belongs to a scope and to its copy.
CopyIsApart ==
  /\ \A n \in Nodes : node[n].ro => \A m \in Children(Heap, n) : node[m].ro
  /\ twin # None => \A n \in InScope(Root) \cap InScope(twin) : node[n].ro

RECURSIVE OnCycle(_, _)
OnCycle(n, path) ==
  n \in path \/ \E m \in Children(Heap, n) : OnCycle(m, path \cup {n})

\* A copy reads as the scope it was made from, names, newest values and lists
\* in order; cycles are cut, so only scopes without one are compared.
CopyReadsAlike ==
  copying /\ twin # None /\ ~OnCycle(Root, {})
    => ToJson(Heap, Root, {}) = ToJson(Heap, twin, {})

\* "We moved up. 'current' is the Parent Tree": the removal of a path changes
\* nothing but values on that path; a name of the scope that the path does
\* not start with keeps its newest value.
RemovalStaysOnPath ==
  [][\A p \in Paths : twin = None /\ OpRemove(Root, p) =>
       \A x \in Names \ {p[1].name} :
         LET i == Find(Heap, Root, x)
         IN  i # None => node'[Root].dict[x] = i /\ item'[i] = item[i]]_vars
=============================================================================
