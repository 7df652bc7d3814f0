------------------------------ MODULE EdictParts ------------------------------
(***************************************************************************)
(* What an edict process has, for any values of the constants: the machine *)
(* that runs a line, the data it exchanges with C, and what the process    *)
(* has its state from after a failure, the session images of SessionStore  *)
(* and the transactions of the VM.  The four share no state.               *)
(***************************************************************************)
EXTENDS SessionStore, Integers

CONSTANTS Quoted, Prefixed, Wildcards, Thunks, Rules, Functions, Numerals,  \* EdictVM
          Library, Keys, Lists, Lines, Followups, MaxRewrites, MaxCode, MaxLines,
          Null, EmptyList, FullList, Uncompilable, Blob, NoValue,
          Texts, Length, SlabBytes, NumBlobSlabs,                    \* VMTransactions
          MaxNodes, MaxStack, MaxDepth, InsideOut, Brimful,
          Radix, Structs, CFunctions, Numbers, MaxLeaks              \* ForeignCalls

VARIABLES code, ips, scan, flags, data, dict, func, state, modes, spec, root, host,
          memory, frame, open, said,
          box, leaks, crossing

edictVars == <<code, ips, scan, flags, data, dict, func, state, modes, spec, root, host>>
transactionVars == <<memory, frame, open, said>>
foreignVars == <<box, leaks, crossing>>

Edict == INSTANCE EdictVM WITH Builtins <- Library
VM == INSTANCE VMTransactions WITH
  NumSlabs <- NumBlobSlabs, heap <- memory, stack <- frame
C == INSTANCE ForeignCalls WITH Functions <- CFunctions

\* A speculation, and all it runs, leaves the activations of its callers as they
\* are (op_SPECULATE, and the loop of execute under it).
SpeculationKeepsCallers == Edict!SpeculationKeepsCallers

\* A rollback undoes what happened since its transaction began, and that alone
\* (rollbackTransaction, with the watermarks of BlobAllocator).
RollbacksAreExact == VM!RollbacksAreExact

\* A field of a structure has what was put there last, for a program and for C,
\* and a number that fits its type arrives (boxing.cpp, ffi.cpp, closure_thunk).
ForeignDataIsKept == C!ForeignDataIsKept
=============================================================================
