------------------------------- MODULE MCHost -------------------------------
(***************************************************************************)
(* An instance of HostParts for TLC.                                       *)
(***************************************************************************)
EXTENDS HostParts, TLC

CONSTANTS lib1, lib2, header1, Absent

\* A program that uses a host symbol.  One that answers differs from one that
\* floods only in that its envelope fits into the pipe.
HostSymbols == {"printf"}

\* Quotes in the order they are observed.
InTime == FALSE

\* Two libraries whose files have one name, and a header that names a type
\* as it names a function.
Function(n) == [name |-> n, kind |-> "Function"]
Struct(n) == [name |-> n, kind |-> "Struct"]

FileNames == (lib1 :> "lib") @@ (lib2 :> "lib") @@ (header1 :> "header")
LibraryFiles == {{"f"}, {"f", "g"}}
HeaderFiles == {<<Function("f"), Struct("g"), Function("g")>>, <<Function("g")>>}
FilesAtFirst == (lib1 :> {"f", "g"}) @@ (lib2 :> {"f"}) @@ (header1 :> <<Function("g")>>)

ASSUME /\ TccAssumption
       /\ Pubs!PublicationAssumption
       /\ Coordination!SlabAssumption
       /\ Words!PrimitivesAssumption
       /\ Hub!HubAssumption
       /\ Imports!ImportAssumption
       /\ Handles!HandlesAssumption
=============================================================================
