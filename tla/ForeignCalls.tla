---------------------------- MODULE ForeignCalls ----------------------------
(***************************************************************************)
(* Data that cross between Edict and C: the arguments and the result of a  *)
(* function called through FFI (ffi.cpp), the structures Boxing packs and  *)
(* unpacks (boxing.cpp), and an Edict function C calls back                *)
(* (edict_vm_core.cpp).                                                    *)
(*                                                                         *)
(* A byte has Radix values, so that a long of eight bytes is a number TLC  *)
(* can write; every type keeps its size in bytes and its sign.  Real       *)
(* numbers are left out.  Names are numbers: all that matters of them is   *)
(* their order.                                                            *)
(***************************************************************************)
EXTENDS Integers, SequencesExt, FiniteSetsExt

CONSTANTS Radix,      \* the values of a byte
          Structs,    \* C structures: name -> [size, fields]
          Functions,  \* C functions: name -> [parameters, returns], as declared
          Numbers,    \* the integers a program or a C function uses
          MaxLeaks    \* bound on the buffers that are never freed

VARIABLES box,        \* the box in use: its type, its bytes and what they mean
          leaks,      \* buffers nobody can free
          crossing    \* what the last call passed and what arrived

foreignVars == <<box, leaks, crossing>>

NoBox == [type |-> "none", bytes |-> <<>>, meant |-> <<>>]
Text(n)  == [kind |-> "text", number |-> n]
Bytes(b) == [kind |-> "bytes", bytes |-> b]
Nothing  == [kind |-> "none"]

NoCrossing == [way |-> "none", function |-> "none", given |-> <<>>, taken |-> <<>>,
               back |-> Nothing, answer |-> 0]

---------------------------------------------------------------------------
(* The types Boxing knows: canonicalType, scalarSize.  A structure, or a   *)
(* name it does not know, has size 0.                                      *)

Canonical(t) == CASE t \in {"size_t", "time_t", "__uid_t"} -> "long"
                  [] t = "uint32_t"                        -> "unsigned int"
                  [] t = "int8_t"                          -> "char"
                  [] OTHER                                 -> t

ScalarSize(t) ==
  CASE Canonical(t) \in {"char", "unsigned char"}             -> 1
    [] Canonical(t) \in {"short", "unsigned short"}           -> 2
    [] Canonical(t) \in {"int", "unsigned int"}               -> 4
    [] Canonical(t) \in {"long", "unsigned long", "pointer"}  -> 8
    [] OTHER                                                  -> 0

Unsigned(t) == Canonical(t) \in {"unsigned char", "unsigned short",
                                 "unsigned int", "unsigned long", "pointer"}

(* What the compiler of the C code makes of the same names. *)
CSize(t) == IF t = "__uid_t" THEN 4 ELSE ScalarSize(t)
CUnsigned(t) == Unsigned(t) \/ t \in {"size_t", "__uid_t", "uint32_t"}

(* What a byte counts for, up to those of a register. *)
Power[k \in 0..8] == IF k = 0 THEN 1 ELSE Radix * Power[k - 1]

(* Numbers as bytes, the lowest first. *)
ToBytes(n, size) == [i \in 1..size |-> (n \div Power[i - 1]) % Radix]

Sums(bytes) ==
  LET sum[i \in 0..Len(bytes)] ==
        IF i = 0 THEN 0 ELSE sum[i - 1] + bytes[i] * Power[i - 1]
  IN sum

FromBytes(bytes, unsigned) ==
  LET n == Sums(bytes)[Len(bytes)]
      all == Power[Len(bytes)] IN
  IF unsigned \/ 2 * n < all THEN n ELSE n - all

CRange(t) == LET all == Power[CSize(t)] IN
             IF CUnsigned(t) THEN 0..(all - 1) ELSE -(all \div 2)..((all \div 2) - 1)

(* What stoi, stoll and stoul read without an exception: the unsigned ones  *)
(* take a minus sign, and the narrow types are read as wider ones.         *)
Readable(t) == IF Unsigned(t) THEN (1 - Power[8])..(Power[8] - 1)
               ELSE LET all == Power[IF ScalarSize(t) = 8 THEN 8 ELSE 4] IN
                    -(all \div 2)..((all \div 2) - 1)

---------------------------------------------------------------------------
(* bindTypes: a field of type "struct X" finds X among the declarations; a  *)
(* structure known by a typedef only does not.                           *)
Bound(t) == t \in DOMAIN Structs

(* Boxing: the scalars of a structure, nested ones included, in the order   *)
(* packStruct visits them: by name.  A field without an offset, or of an   *)
(* unknown type, is passed over.                                           *)

Leaves[s \in DOMAIN Structs] ==
  FlattenSeq([i \in DOMAIN Structs[s].fields |->
    LET f == Structs[s].fields[i] IN
    IF f.offset < 0 THEN <<>>
    ELSE IF ScalarSize(f.type) > 0
    THEN <<[path |-> <<f.name>>, type |-> f.type, at |-> f.offset]>>
    ELSE IF ~Bound(f.type) THEN <<>>
    ELSE [j \in DOMAIN Leaves[f.type] |->
            [Leaves[f.type][j] EXCEPT !.path = <<f.name>> \o @, !.at = @ + f.offset]]])

LeavesIn(s) == ToSet(Leaves[s])

PackScalar(t, v) ==
  CASE t = "pointer" -> IF v.kind = "bytes" /\ Len(v.bytes) = 8 THEN v.bytes ELSE ToBytes(0, 8)
    [] t # "pointer" /\ v.kind = "text" -> ToBytes(v.number, ScalarSize(t))
    [] OTHER -> ToBytes(0, ScalarSize(t))

Throws(t, v) == v.kind = "text" /\ t # "pointer" /\ v.number \notin Readable(t)

UnpackScalar(t, bytes) == IF t = "pointer" THEN Bytes(bytes)
                          ELSE Text(FromBytes(bytes, Unsigned(t)))

Written(bytes, at, piece) ==
  [i \in DOMAIN bytes |-> IF at < i /\ i <= at + Len(piece) THEN piece[i - at] ELSE bytes[i]]

Zeros(size) == [i \in 1..size |-> 0]

(* The mistake of a packer that lays the fields out one after the other. *)
PackedTight(s, source) ==
  LET Put(state, l) ==
        [bytes |-> Written(state.bytes, state.at, PackScalar(l.type, source[l])),
         at |-> state.at + ScalarSize(l.type)] IN
  FoldLeft(Put, [bytes |-> Zeros(Structs[s].size), at |-> 0], Leaves[s]).bytes

Packing(s, source) ==
  LET packed[i \in 0..Len(Leaves[s])] ==
        IF i = 0 THEN Zeros(Structs[s].size)
        ELSE LET l == Leaves[s][i] IN
             Written(packed[i - 1], l.at, PackScalar(l.type, source[l]))
  IN packed
Packed(s, source) == Packing(s, source)[Len(Leaves[s])]

Stored(bytes, l, size) == SubSeq(bytes, l.at + 1, l.at + size)
Unpacked(s, bytes, l) == UnpackScalar(l.type, Stored(bytes, l, ScalarSize(l.type)))

(* What a program may give a field or an argument: a number or a pointer. *)
Values == {Text(n) : n \in Numbers} \cup {Bytes(ToBytes(1, 8))}

(* The number a C programmer would find in a field given v. *)
Meant(t, v) ==
  IF t = "pointer" THEN FromBytes(PackScalar(t, v), TRUE)
  ELSE IF v.kind = "text" THEN FromBytes(ToBytes(v.number, CSize(t)), CUnsigned(t)) ELSE 0

Box(s) ==
  /\ box.type = "none"
  /\ \E source \in [LeavesIn(s) -> Values \cup {Nothing}] :
       IF \E l \in LeavesIn(s) : Throws(l.type, source[l])
       THEN leaks < MaxLeaks /\ leaks' = leaks + 1 /\ UNCHANGED box
       ELSE /\ box' = [type |-> s, bytes |-> Packed(s, source),
                       meant |-> [l \in LeavesIn(s) |-> Meant(l.type, source[l])]]
            /\ UNCHANGED leaks
  /\ UNCHANGED crossing

(* A C function that was given the pointer sets a field. *)
CStores ==
  /\ box.type # "none"
  /\ \E l \in LeavesIn(box.type) : \E n \in Numbers \cap CRange(l.type) :
       box' = [box EXCEPT !.bytes = Written(@, l.at, ToBytes(n, CSize(l.type))),
                          !.meant[l] = n]
  /\ UNCHANGED <<leaks, crossing>>

(* freeBox: a program that keeps to the rules does not use the box again. *)
FreeBox == box.type # "none" /\ box' = NoBox /\ UNCHANGED <<leaks, crossing>>

(* The box is forgotten, or assigned to again: its buffer stays. *)
DropBox == /\ box.type # "none" /\ leaks < MaxLeaks
           /\ box' = NoBox /\ leaks' = leaks + 1 /\ UNCHANGED crossing

---------------------------------------------------------------------------
(* FFI: getFFIType takes a name it does not know for an int. *)

Known == {"char", "unsigned char", "short", "unsigned short", "int", "unsigned int",
          "long", "unsigned long", "pointer"}
FfiType(t) == IF t \in Known THEN t ELSE "int"

(* The types of the parameters come out of the tree in the order of names. *)
ByName(p, q) == p.name < q.name
ArgumentTypes(f) ==
  LET parameters == SetToSortSeq(ToSet(Functions[f].parameters), ByName) IN
  [i \in DOMAIN parameters |-> FfiType(parameters[i].type)]

ConvertValue(t, v) ==
  CASE v.kind = "bytes" /\ Len(v.bytes) = ScalarSize(t)           -> v.bytes
    [] v.kind = "text" /\ t # "pointer" /\ v.number \in Readable(t) -> ToBytes(v.number, ScalarSize(t))
    [] OTHER                                                   -> ToBytes(0, ScalarSize(t))

(* A register: libffi extends what it is given, each side reads its size. *)
Register(bytes, unsigned) == ToBytes(FromBytes(bytes, unsigned), 8)
Read(register, t) == FromBytes(SubSeq(register, 1, CSize(t)), CUnsigned(t))

ConvertReturn(t, register) ==
  IF t = "pointer" THEN Bytes(register)
  ELSE Text(FromBytes(SubSeq(register, 1, ScalarSize(t)), Unsigned(t)))

ByC(t, n) == Register(ToBytes(n, CSize(t)), CUnsigned(t))

Positions(f) == DOMAIN Functions[f].parameters
Returns(f) == Functions[f].returns

(* evalDispatchFFI takes as many values as there are parameters; invoke     *)
(* converts the i-th to the i-th type.                                     *)
Invoke(f) ==
  LET types == ArgumentTypes(f) IN
  \E args \in [Positions(f) -> Values], n \in Numbers \cap CRange(Returns(f)) :
    crossing' = [way |-> "call", function |-> f, given |-> args,
                 taken |-> [i \in Positions(f) |->
                              Read(Register(ConvertValue(types[i], args[i]), Unsigned(types[i])),
                                   Functions[f].parameters[i].type)],
                 back |-> ConvertReturn(FfiType(Returns(f)), ByC(Returns(f), n)),
                 answer |-> n]

(* A blocked name, or one no library has: nothing is called.  With too few  *)
(* values on the stack those that were there are lost.                     *)
Refuse == crossing' = [NoCrossing EXCEPT !.way = "refused"]

(* createClosure takes the types of a signature in the same order. *)
SignatureTypes(f) == ArgumentTypes(f)

(* closure_thunk: C calls an Edict function of the signature f.  One that   *)
(* leaves nothing behind gives 0 for the types the code names, and         *)
(* whatever was there for the others.                                      *)
Answered(t, v) ==
  IF v # Nothing THEN {Read(Register(ConvertValue(FfiType(t), v), Unsigned(FfiType(t))), t)}
  ELSE IF FfiType(t) \in {"int", "pointer"} THEN {0}
  ELSE Numbers \cap CRange(t)

CallBack(f) ==
  LET types == SignatureTypes(f) IN
  \E args \in [Positions(f) -> Numbers], v \in Values \cup {Nothing} :
    /\ \A i \in Positions(f) : args[i] \in CRange(Functions[f].parameters[i].type)
    /\ \E n \in Answered(Returns(f), v) :
         crossing' = [way |-> "callback", function |-> f, given |-> args,
                      taken |-> [i \in Positions(f) |->
                                   ConvertReturn(types[i],
                                     ByC(Functions[f].parameters[i].type, args[i]))],
                      back |-> v, answer |-> n]

Init == box = NoBox /\ leaks = 0 /\ crossing = NoCrossing

(* The call is over, and its arguments are dropped. *)
GoOn == crossing.way # "none" /\ crossing' = NoCrossing

Next == \/ /\ crossing.way = "none"
           /\ (\E s \in DOMAIN Structs : Box(s)) \/ CStores \/ FreeBox \/ DropBox
        \/ /\ box.type = "none" /\ UNCHANGED <<box, leaks>>
           /\ \/ /\ crossing.way = "none"
                 /\ (\E f \in DOMAIN Functions : Invoke(f) \/ CallBack(f)) \/ Refuse
              \/ GoOn

Spec == Init /\ [][Next]_foreignVars

---------------------------------------------------------------------------
(* What bindTypes makes of the structures is a list of scalars, as no      *)
(* structure contains itself; each within its structure and apart from the *)
(* others.                                                                 *)
ForeignAssumption ==
  /\ Radix \in Nat \ {0, 1} /\ Numbers \subseteq Int
  /\ \A s \in DOMAIN Structs :
       /\ Structs[s].size \in Nat
       /\ Leaves[s] \in Seq([path : Seq(Nat), type : STRING, at : Nat])
       /\ \A l \in LeavesIn(s) : /\ l.at + ScalarSize(l.type) <= Structs[s].size
                               /\ ScalarSize(l.type) = CSize(l.type)
       /\ \A l, m \in LeavesIn(s) :
            l = m \/ l.at + ScalarSize(l.type) <= m.at \/ m.at + ScalarSize(m.type) <= l.at

(* Whatever was given to a field, or stored there by C, C finds in it, and  *)
(* so does unbox, which shows a size_t beyond the range of long as a       *)
(* negative number; no field disturbs another.  (packStruct, unpackStruct, *)
(* packScalar, unpackScalar.)                                              *)
FieldsAreKept ==
  box.type # "none" =>
    \A l \in LeavesIn(box.type) :
      /\ FromBytes(Stored(box.bytes, l, CSize(l.type)), CUnsigned(l.type)) = box.meant[l]
      /\ Unpacked(box.type, box.bytes, l) =
           IF l.type = "pointer" THEN Bytes(ToBytes(box.meant[l], 8))
           ELSE IF Unsigned(l.type) = CUnsigned(l.type) THEN Text(box.meant[l])
           ELSE Text(FromBytes(ToBytes(box.meant[l], 8), FALSE))

(* The parameters have their types in the order of their names. *)
InOrder(f) ==
  ArgumentTypes(f) = [i \in Positions(f) |-> FfiType(Functions[f].parameters[i].type)]

(* A number within the range of a parameter FFI knows arrives as that       *)
(* number, in both directions, and so does the result, if the declared     *)
(* order of the types is that of the names.  (convertValue, convertReturn, *)
(* invoke, closure_thunk.)                                                 *)
NumbersArrive ==
  LET f == crossing.function IN
  crossing.way \in {"call", "callback"} /\ InOrder(f) =>
    /\ \A i \in Positions(f) :
         LET t == Functions[f].parameters[i].type IN
         t \in Known /\ t # "pointer" =>
           IF crossing.way = "callback" THEN crossing.taken[i] = Text(crossing.given[i])
           ELSE crossing.given[i].kind = "text" /\ crossing.given[i].number \in CRange(t)
                  => crossing.taken[i] = crossing.given[i].number
    /\ Returns(f) \in Known \ {"pointer"} =>
         IF crossing.way = "call" THEN crossing.back = Text(crossing.answer)
         ELSE crossing.back.kind = "text" /\ crossing.back.number \in CRange(Returns(f))
                => crossing.answer = crossing.back.number

ForeignDataIsKept == FieldsAreKept /\ NumbersArrive
=============================================================================
