------------------------------ MODULE MCParts ------------------------------
(***************************************************************************)
(* Components that share no state with each other, in one instance: a      *)
(* behaviour is one of one part, chosen at the start, while the others     *)
(* rest in their initial states.                                           *)
(***************************************************************************)
EXTENDS MCEdictVM, MCSessionStore

CONSTANTS user1, builtin1, parked1, mount1, p1

VARIABLES part,
          node, item, resident, twin, copying, steps,
          slots, freeSlots, lastError, handed

listreeVars == <<node, item, resident, twin, copying, steps>>
logicVars == <<slots, freeSlots, lastError, handed>>

allVars == <<part, vars, edictVars, listreeVars, logicVars, foreignVars, transactionVars>>

---------------------------------------------------------------------------
(* EdictVM, with the library and the lines of MCEdictVM.                   *)

Meaning == INSTANCE EdictMeaning WITH Builtins <- Library

LinesAreRead == Edict!TypeOK /\ Meaning!LinesMeanWhatTheySay

EdictStep == /\ part = "edict" /\ Edict!Next
             /\ UNCHANGED <<vars, listreeVars, logicVars, foreignVars, transactionVars>>

---------------------------------------------------------------------------
(* SessionStore, as the configuration and MCSessionStore have it.          *)

SessionStep == /\ part = "session" /\ Next
               /\ UNCHANGED <<edictVars, listreeVars, logicVars, foreignVars,
                              transactionVars>>

---------------------------------------------------------------------------
(* Listree: two names, paths of one and two components.                    *)

First == [name |-> 1, tail |-> FALSE, listTail |-> FALSE]
Second == [First EXCEPT !.name = 2]

Values == INSTANCE Listree WITH
  NumNodes <- 4, NumItems <- 3, Names <- {1, 2}, MaxPins <- 2, MaxSteps <- 4,
  Paths <- {<<First>>, <<[First EXCEPT !.tail = TRUE]>>, <<First, Second>>,
            <<Second, Second>>, <<Second, [First EXCEPT !.listTail = TRUE]>>}

\* A copy reads as its original and shares nothing with it that can change.
CopyIsFaithful == Values!TypeOK /\ Values!CopyIsApart /\ Values!CopyReadsAlike
FrozenStays == Values!FrozenStays

ListreeStep == /\ part = "listree" /\ Values!Next
               /\ UNCHANGED <<vars, edictVars, logicVars, foreignVars, transactionVars>>

---------------------------------------------------------------------------
(* LogicRuntime: a context of two slots, and a query for each thing a      *)
(* query can do: alternatives, a list split, joined, built from its parts, *)
(* objects, an endless number of answers, a number shared with a fresh     *)
(* variable, an evaluation without an end, an error.                       *)

Terms == INSTANCE Kanren WITH Frames <- 12

TermA == Terms!Atom("a")
TermB == Terms!Atom("b")
TermX == Terms!Atom("x")
TermY == Terms!Atom("y")
TermZ == Terms!Atom("z")
TermAB == Terms!ListOf(<<TermA, TermB>>)
Pair(h, t) == Terms!ListOf(<<h, t>>)
Is(op, args) == <<Terms!Atom(op)>> \o args

Where(fresh, clause, results) ==
  [fresh |-> fresh, has |-> {"where"}, where |-> clause, conde |-> <<>>,
   results |-> results, limit |-> 0]
Either(fresh, clauses, results, limit) ==
  [fresh |-> fresh, has |-> {"conde"}, where |-> <<>>, conde |-> clauses,
   results |-> results, limit |-> limit]

LogicQueries == [
  either  |-> Either(<<"x">>, <<<<Is("==", <<TermX, TermA>>)>>,
                                <<Is("membero", <<TermX, Terms!ListOf(<<TermB, TermA>>)>>)>>>>,
                     <<TermX>>, 0),
  split   |-> Where(<<"x", "y">>, <<Is("appendo", <<TermX, TermY, TermAB>>)>>,
                    <<TermX, TermY>>),
  joined  |-> Where(<<"x", "y">>, <<Is("membero", <<TermX, TermAB>>),
                                    Is("conso", <<TermX, TermY, TermAB>>)>>,
                    <<TermX, TermY>>),
  pair    |-> Where(<<"x">>, <<Is("pairo", <<TermX>>), Is("heado", <<TermX, TermA>>),
                               Is("tailo", <<TermX, Terms!ListOf(<<TermB>>)>>)>>, <<TermX>>),
  object  |-> Where(<<"x", "y">>,
                    <<Is("==", <<Terms!Tree(<<"k", "l">>, <<TermX, TermY>>),
                                 Terms!Tree(<<"k", "l">>, <<TermY, TermB>>)>>)>>,
                    <<TermX>>),
  endless |-> Either(<<"x">>, <<<<Is("membero", <<TermA, TermX>>)>>,
                                <<Is("==", <<TermX, TermB>>)>>>>, <<TermX>>, 2),
  shared  |-> Where(<<"x", "y">>, <<Is("heado", <<TermAB, TermY>>)>>, <<TermX>>),
  circle  |-> Where(<<"x", "y", "z">>,
                    <<Is("==", <<TermX, TermY>>), Is("==", <<TermZ, TermA>>),
                      Is("==", <<TermX, TermY>>)>>, <<TermX>>),
  wrong   |-> Where(<<"x">>, <<Is("heado", <<TermX>>)>>, <<TermX>>)]

Short == {Pair(t, Terms!NullTerm) : t \in {TermA, TermB}}

Logic == INSTANCE LogicRuntime WITH
  Frames <- 12, Queries <- LogicQueries, held <- handed,
  Universe <- {TermA, TermB, Terms!NullTerm} \cup Short
              \cup {Pair(h, t) : h \in {TermA, TermB}, t \in Short},
  MaxSlots <- 2, MaxGeneration <- 2, MaxRefs <- 2

\* A handle stands for its value, an evaluation's for the query's solutions.
AnswersAreTrue == Logic!HandlesResolve /\ Logic!AnswersAreSolutions

LogicStep == /\ part = "logic" /\ Logic!Next
             /\ UNCHANGED <<vars, edictVars, listreeVars, foreignVars, transactionVars>>

---------------------------------------------------------------------------
(* ForeignCalls: a byte of one bit, so that an int has 16 values; a nested  *)
(* structure, a name of unknown size, parameters out of order.             *)

Parameter(n, t) == [name |-> n, type |-> t]
Field(n, t, at) == [name |-> n, type |-> t, offset |-> at]

Numbers_ == {-1, 3, 9, 200}
Structs_ ==
  [s \in {"struct point", "struct line"} |->
     IF s = "struct point"
     THEN [size |-> 8, fields |-> <<Field(1, "int8_t", 0), Field(2, "uint32_t", 4)>>]
     ELSE [size |-> 24, fields |-> <<Field(1, "struct point", 16), Field(2, "size_t", 8),
                                     Field(3, "pointer", 0), Field(4, "union shade", -1)>>]]
CFunctions_ ==
  [first  |-> [parameters |-> <<Parameter(1, "char"), Parameter(2, "unsigned long")>>,
               returns |-> "unsigned short"],
   second |-> [parameters |-> <<Parameter(2, "short"), Parameter(1, "size_t")>>,
               returns |-> "long"],
   third  |-> [parameters |-> <<Parameter(1, "pointer")>>, returns |-> "pointer"]]

ForeignStep == /\ part = "foreign" /\ C!Next
               /\ UNCHANGED <<vars, edictVars, listreeVars, logicVars, transactionVars>>

---------------------------------------------------------------------------
(* VMTransactions, as the configuration has it: one text is within its     *)
(* node, the other takes two bytes of a slab of five.                      *)

TextLengths == [text \in {"word", "page"} |-> IF text = "word" THEN 0 ELSE 2]

TransactionStep == /\ part = "transactions" /\ VM!Next
                   /\ UNCHANGED <<vars, edictVars, listreeVars, logicVars, foreignVars>>

---------------------------------------------------------------------------

ASSUME /\ SessionAssumption
       /\ Edict!VMAssumption
       /\ Values!ListreeAssumption
       /\ C!ForeignAssumption
       /\ VM!TransactionAssumption

PartsInit == /\ part \in {"edict", "session", "listree", "logic", "foreign", "transactions"}
             /\ Init /\ Edict!Init /\ Values!Init /\ Logic!Init
             /\ C!Init /\ VM!Init

PartsNext == /\ UNCHANGED part
             /\ \/ EdictStep \/ SessionStep \/ ListreeStep
                \/ LogicStep \/ ForeignStep \/ TransactionStep

PartsSpec == PartsInit /\ [][PartsNext]_allVars
=============================================================================
