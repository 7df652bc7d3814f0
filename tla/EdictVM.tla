------------------------------- MODULE EdictVM -------------------------------
(***************************************************************************)
(* The Edict virtual machine: the code stack and its instruction pointers, *)
(* conditional scanning, evaluation, function and context frames, rewrite  *)
(* rules, speculation, yielding, and the host that executes one line of    *)
(* source after another, resumes a parked machine and clears it.           *)
(*                                                                         *)
(* A value is a text (a sequence of lexemes) or an atom: a builtin's code  *)
(* object, a foreign function, a rule object, a list, Null, or Blob, the   *)
(* bytes a speculation returns for a code object.  NoValue is the null     *)
(* pointer popped from an empty frame.  Stacks are sequences, newest first.*)
(* The bindings of a context are not followed once it is closed, so        *)
(* contexts are opened on fresh values only.                               *)
(***************************************************************************)
EXTENDS EdictCompiler, EdictRewrite

CONSTANTS FullList,      \* a list with elements
          Blob, NoValue,
          Thunks,        \* builtin code object -> its one instruction
          Rules,         \* rule object -> [pattern, replacement]
          Functions,     \* function -> [args, unsafe, result]
          Numerals,      \* text -> the number it spells
          Keys,          \* the names that are ever bound
          Builtins,      \* name -> what the core library binds it to
          Lines,         \* source the host may execute first
          Followups,     \* source the host may execute afterwards
          MaxCode,       \* bound on the activations of the code stack
          MaxLines       \* bound on the lines executed

VMAssumption == /\ Lists = {EmptyList, FullList}
                /\ MaxCode \in Nat /\ MaxLines \in Nat
                /\ DOMAIN Builtins \subseteq Keys

VARIABLES code,     \* VMRES_CODE: activations [ins, shared]
          ips,      \* code_ips_: one pointer per activation
          scan,     \* VM_SCANNING, scan_mode and scan_depth
          flags,    \* VM_YIELD, VM_ERROR and VM_COMPLETE
          data,     \* VMRES_STACK: frames of values
          dict,     \* VMRES_DICT: scopes
          func,     \* VMRES_FUNC
          state,    \* VMRES_STATE
          modes,    \* lookup and rewrite mode, rules, the unsafe permission
          spec,     \* checkpoints of the speculations under way
          root,     \* the session root under the cursor, and whether the
                    \* oldest scope still is that object
          host      \* running, parked, the lines executed, the last one, and
                    \* (history) the stacks it started from

vars == <<code, ips, scan, flags, data, dict, func, state, modes, spec, root,
          host>>

Atoms == {Null, NoValue, Blob} \cup Lists \cup DOMAIN Thunks
           \cup DOMAIN Rules \cup DOMAIN Functions
NoScan == [on |-> FALSE, mode |-> "None", depth |-> 0]
EmptyScope == [k \in Keys |-> <<>>]
WithBuiltins(scope) ==
  [k \in Keys |-> IF k \in DOMAIN Builtins THEN <<Builtins[k]>> \o scope[k]
                  ELSE scope[k]]

Init ==
  /\ code = <<>> /\ ips = <<>> /\ scan = NoScan /\ flags = {}
  /\ data = <<<<>>>> /\ func = <<>> /\ state = <<>> /\ spec = <<>>
  /\ dict = <<WithBuiltins(EmptyScope)>>
  /\ modes = [lookup |-> "Lax", rewrite |-> "auto", rules |-> <<>>,
              unsafe |-> FALSE]
  /\ root = [bindings |-> WithBuiltins(EmptyScope), attached |-> TRUE]
  /\ host = [running |-> FALSE, parked |-> FALSE, lines |-> 0, line |-> <<>>,
             from |-> <<>>]

-----------------------------------------------------------------------------
(* The active frame of the data stack and the newest scope. *)

Top == IF data = <<>> THEN <<>> ELSE data[1]
WithTop(frame) == IF data = <<>> THEN data ELSE <<frame>> \o Tail(data)
Peek(n) == IF Len(Top) < n THEN NoValue ELSE Top[n]
Drop(n) == IF Len(Top) <= n THEN <<>> ELSE SubSeq(Top, n + 1, Len(Top))
Pop(n) == WithTop(Drop(n))

\* A null pointer that is pushed reads like the empty frame below it.
Replace(n, vs) == WithTop(SelectSeq(vs, LAMBDA v : v # NoValue) \o Drop(n))

HasBytes(v) == v \in {Blob} \cup DOMAIN Thunks \/ (v \notin Atoms /\ v # <<>>)
IsText(v) == v \notin Atoms
IsTrue(v) == v = FullList \/ HasBytes(v)

\* listcat: the newest frame is emptied into the one below, newest first.
Merged == IF Len(data) < 2 THEN <<>>
          ELSE <<Reverse(data[1]) \o data[2]>> \o SubSeq(data, 3, Len(data))

\* The newest scope's values of k become vs, in the session root too while
\* that is the oldest scope.
Bind(k, vs) ==
  /\ dict' = [dict EXCEPT ![1][k] = vs]
  /\ root' = IF Len(dict) = 1 /\ root.attached
             THEN [root EXCEPT !.bindings[k] = vs] ELSE root
BindNothing == UNCHANGED <<dict, root>>

PopScope ==
  /\ dict' = IF dict = <<>> THEN dict ELSE Tail(dict)
  /\ root' = [root EXCEPT !.attached = @ /\ Len(dict) > 1]

-----------------------------------------------------------------------------
(* Activations and their instruction pointers. *)

\* findCodeFrameIndex keeps the last match of a walk that starts at the top:
\* all activations of one code object use the pointer of the oldest.
IpIndex(c, k) ==
  IF c[k].shared = NoValue THEN k
  ELSE CHOOSE i \in DOMAIN c : /\ c[i].shared = c[k].shared
                               /\ \A j \in DOMAIN c :
                                    c[j].shared = c[k].shared => j <= i

Ip == ips[IpIndex(code, 1)]
Size == Len(code[1].ins)
Ins == code[1].ins[Ip + 1]
\* The mistake of a nested run that does not stop at its parent's depth.
BaseZero == 0
Base == IF spec = <<>> THEN 0 ELSE spec[1].base
Looping == /\ host.running
           /\ flags \cap {"ERROR", "YIELD"} = {}
           /\ Len(code) > Base
Fetch == Looping /\ Ip < Size
Dispatch(op) == Fetch /\ ~scan.on /\ Ins.op = op
TailEval == Ins.op = "EVAL" /\ Ip + 1 >= Size

Advance == ips' = [ips EXCEPT ![IpIndex(code, 1)] = Ip + 1] /\ code' = code

\* The mistake of writing the caller's pointer before the callee is pushed,
\* to what is then the callee's place.
EnterEarly(ins, shared) ==
  LET below == IF TailEval THEN Tail(code) ELSE code
      c == <<[ins |-> ins, shared |-> shared]>> \o below
      i == <<0>> \o (IF TailEval THEN Tail(ips) ELSE ips)
  IN  /\ Len(c) <= MaxCode
      /\ code' = c
      /\ ips' = IF TailEval THEN i
                ELSE [i EXCEPT ![1] = IF Len(ins) > 1 THEN 1 ELSE 0, ![2] = Ip + 1]

\* An evaluation in tail position replaces its own activation; any other
\* writes the caller's pointer after the callee has been pushed.
Enter(ins, shared) ==
  LET below == IF TailEval THEN Tail(code) ELSE code
      c == <<[ins |-> ins, shared |-> shared]>> \o below
      i == <<0>> \o (IF TailEval THEN Tail(ips) ELSE ips)
  IN  /\ Len(c) <= MaxCode
      /\ code' = c
      /\ ips' = IF TailEval THEN i ELSE [i EXCEPT ![IpIndex(c, 2)] = Ip + 1]

\* The epilogue of an instruction: automatic rewriting of the active frame.
Rewritten(d) ==
  IF d = <<>> \/ modes'.rewrite # "auto" \/ scan'.on
       \/ flags' \cap {"ERROR", "YIELD"} # {}
  THEN d ELSE <<RewriteLoop(modes'.rules, d[1])>> \o Tail(d)

Settle(d) == data' = Rewritten(d) /\ Advance
KeepRest == UNCHANGED <<spec, host>>
OnlyData == KeepRest /\ UNCHANGED <<scan, flags, dict, func, state, modes, root>>
Fails(d) ==
  /\ flags' = flags \cup {"ERROR"} /\ KeepRest
  /\ UNCHANGED <<scan, dict, func, state, modes, root>>
  /\ Settle(d)

-----------------------------------------------------------------------------
(* Instructions on values and bindings. *)

PushExt == Dispatch("PUSHEXT") /\ OnlyData /\ Settle(Replace(0, <<Ins.arg>>))
Dup     == Dispatch("DUP") /\ OnlyData /\ Settle(Replace(0, <<Peek(1)>>))
PopTop  == Dispatch("POP") /\ OnlyData /\ Settle(Pop(1))

Swap ==
  /\ Dispatch("SWAP")
  /\ IF Peek(2) = NoValue THEN Fails(Pop(2))
     ELSE OnlyData /\ Settle(Replace(2, <<Peek(2), Peek(1)>>))

ListAdd ==
  /\ Dispatch("LIST_ADD")
  /\ IF Peek(2) = NoValue THEN Fails(Pop(2))
     ELSE OnlyData /\ Settle(Replace(2, <<FullList>>))

Visible(k) == {i \in DOMAIN dict : dict[i][k] # <<>>}

\* A value without bytes, and a code object, refer to themselves.
Ref ==
  LET k == Peek(1)
      found == IF k \in Keys THEN Visible(k) ELSE {}
      missing == IsText(k) /\ k # <<>> /\ found = {}
      newest == CHOOSE i \in found : \A j \in found : i <= j
  IN
  /\ Dispatch("REF")
  /\ state' = IF missing /\ modes.lookup = "StrictFail" THEN <<k>> \o state
              ELSE state
  /\ KeepRest /\ UNCHANGED <<scan, flags, dict, func, modes, root>>
  /\ Settle(CASE found # {} -> Replace(1, <<dict[newest][k][1]>>)
              [] missing /\ modes.lookup # "Lax" -> Replace(1, <<Null>>)
              [] OTHER -> data)

Assign ==
  LET k == Peek(1) v == Peek(2) IN
  /\ Dispatch("ASSIGN")
  /\ IF k \in Keys /\ v # NoValue /\ dict # <<>> THEN Bind(k, <<v>> \o dict[1][k])
     ELSE BindNothing
  /\ KeepRest /\ UNCHANGED <<scan, flags, func, state, modes>>
  /\ Settle(Pop(2))

\* What tells the two apart, the emptied entry in the tree, no lookup finds.
RemoveBinding ==
  LET k == Peek(1) IN
  /\ Dispatch("REMOVE") \/ Dispatch("REMOVE_HEAD")
  /\ IF k \in Keys /\ dict # <<>> /\ dict[1][k] # <<>> THEN Bind(k, Tail(dict[1][k]))
     ELSE BindNothing
  /\ KeepRest /\ UNCHANGED <<scan, flags, func, state, modes>>
  /\ Settle(Pop(1))

Lookup ==
  /\ Dispatch("LOOKUP")
  /\ modes' = [modes EXCEPT !.lookup = Ins.arg]
  /\ KeepRest /\ UNCHANGED <<scan, flags, dict, func, state, root>>
  /\ Settle(data)

Unsafe ==
  /\ Dispatch("UNSAFE")
  /\ modes' = [modes EXCEPT !.unsafe = Ins.arg]
  /\ KeepRest /\ UNCHANGED <<scan, flags, dict, func, state, root>>
  /\ Settle(Replace(0, <<<<IF Ins.arg THEN "allowed" ELSE "blocked">>>>))

-----------------------------------------------------------------------------
(* Evaluation, functions and contexts. *)

EvalNothing ==
  /\ Dispatch("EVAL")
  /\ Peek(1) \in {NoValue, Null} \cup Lists \cup DOMAIN Rules
  /\ OnlyData /\ Settle(Pop(1))

EvalThunk ==
  /\ Dispatch("EVAL") /\ Peek(1) \in DOMAIN Thunks
  /\ Enter(<<Thunks[Peek(1)]>>, Peek(1))
  /\ OnlyData /\ data' = Rewritten(Pop(1))

\* The bytes of a code object are no lexemes: they compile to nothing.
EvalSource ==
  LET out == IF Peek(1) = Blob THEN <<>> ELSE Compile(Peek(1)) IN
  /\ Dispatch("EVAL") /\ (Peek(1) = Blob \/ IsText(Peek(1)))
  /\ IF out = Uncompilable THEN Fails(Pop(1))
     ELSE Enter(out, NoValue) /\ OnlyData /\ data' = Rewritten(Pop(1))

\* The policy is asked before an argument is popped; an underflow after all
\* the arguments there were.
EvalFunction ==
  LET f == Functions[Peek(1)] IN
  /\ Dispatch("EVAL") /\ Peek(1) \in DOMAIN Functions
  /\ IF f.unsafe /\ ~modes.unsafe THEN Fails(Pop(1))
     ELSE IF Len(Top) < f.args + 1 THEN Fails(Pop(f.args + 1))
     ELSE OnlyData /\ Settle(Replace(f.args + 1, <<f.result>>))

FunPush ==
  /\ Dispatch("FUN_PUSH")
  /\ func' = IF Peek(1) = NoValue THEN func ELSE <<Peek(1)>> \o func
  /\ dict' = <<EmptyScope>> \o dict
  /\ KeepRest /\ UNCHANGED <<scan, flags, state, modes, root>>
  /\ Settle(<<<<>>>> \o Pop(1))

\* The activation that will clean up, and above it the one that evaluates.
FunEval ==
  LET Internal(op) == [ins |-> <<Op(op)>>, shared |-> NoValue]
      pushed == IF func = <<>> THEN <<Internal("FUN_POP")>>
                ELSE <<Internal("EVAL"), Internal("FUN_POP")>>
      c == pushed \o code
  IN
  /\ Dispatch("FUN_EVAL") /\ Len(c) <= MaxCode
  /\ code' = c
  /\ ips' = [[i \in DOMAIN pushed |-> 0] \o ips
               EXCEPT ![IpIndex(c, Len(pushed) + 1)] = Ip + 1]
  /\ OnlyData
  /\ data' = Rewritten(IF func = <<>> THEN data ELSE Replace(0, <<func[1]>>))

FunPop ==
  /\ Dispatch("FUN_POP")
  /\ PopScope
  /\ func' = IF func = <<>> THEN func ELSE Tail(func)
  /\ KeepRest /\ UNCHANGED <<scan, flags, state, modes>>
  /\ Settle(Merged)

CtxPush ==
  /\ Dispatch("CTX_PUSH") /\ Peek(1) \in {Null, NoValue}
  /\ dict' = <<EmptyScope>> \o dict
  /\ KeepRest /\ UNCHANGED <<scan, flags, func, state, modes, root>>
  /\ Settle(<<<<>>>> \o Pop(1))

\* The context itself, if there was one, is pushed on the frame below.
CtxPop ==
  /\ Dispatch("CTX_POP")
  /\ PopScope
  /\ KeepRest /\ UNCHANGED <<scan, flags, func, state, modes>>
  /\ Settle(IF dict = <<>> \/ Merged = <<>> THEN Merged
            ELSE <<<<Null>> \o Merged[1]>> \o Tail(Merged))

-----------------------------------------------------------------------------
(* Failures and conditionals. *)

\* FAIL records the value it pops, TEST only one that is not true.
Fail ==
  /\ Dispatch("FAIL")
  /\ state' = IF Peek(1) = NoValue THEN state ELSE <<Peek(1)>> \o state
  /\ KeepRest /\ UNCHANGED <<scan, flags, dict, func, modes, root>>
  /\ Settle(Pop(1))

Test ==
  LET v == IF Peek(1) = NoValue THEN Null ELSE Peek(1) IN
  /\ Dispatch("TEST")
  /\ state' = IF IsTrue(Peek(1)) THEN state ELSE <<v>> \o state
  /\ KeepRest /\ UNCHANGED <<scan, flags, dict, func, modes, root>>
  /\ Settle(Pop(1))

StartScan(mode) == scan' = [on |-> TRUE, mode |-> mode, depth |-> 0]
OnlyScan == KeepRest /\ UNCHANGED <<flags, dict, func, modes, root>>

\* & with a recorded failure skips to its |.
Throws ==
  /\ Dispatch("THROW")
  /\ IF state = <<>> THEN UNCHANGED <<scan, state>>
     ELSE StartScan("FromThrow") /\ state' = Tail(state)
  /\ OnlyScan /\ Settle(data)

\* | reached by the branch taken skips to the next |, or to the end.
Catch ==
  /\ Dispatch("CATCH")
  /\ StartScan("FromCatch") /\ UNCHANGED state
  /\ OnlyScan /\ Settle(data)

\* A skipped instruction advances the pointer, an evaluation in tail
\* position excepted.
SkipAdvance == IF TailEval THEN UNCHANGED <<code, ips>> ELSE Advance

Skip ==
  /\ Fetch /\ scan.on /\ ~(Ins.op = "CATCH" /\ scan.depth = 0)
  /\ scan' = [scan EXCEPT !.depth = CASE Ins.op = "THROW" -> @ + 1
                                      [] Ins.op = "CATCH" -> @ - 1
                                      [] OTHER -> @]
  /\ SkipAdvance /\ OnlyScan /\ UNCHANGED <<data, state>>

\* The mistake of leaving the mode of a scan that has ended.
SkipEndsDirty ==
  /\ Fetch /\ scan.on /\ Ins.op = "CATCH" /\ scan.depth = 0
  /\ IF scan.mode = "FromCatch" THEN StartScan("FromCatch")
     ELSE scan' = [scan EXCEPT !.on = FALSE]
  /\ OnlyScan /\ UNCHANGED <<data, state>> /\ Advance

\* The | that ends a skipped then-branch; after a taken one it is executed
\* again, and goes on skipping.
SkipEnds ==
  /\ Fetch /\ scan.on /\ Ins.op = "CATCH" /\ scan.depth = 0
  /\ IF scan.mode = "FromCatch" THEN StartScan("FromCatch") ELSE scan' = NoScan
  /\ OnlyScan /\ UNCHANGED <<data, state>> /\ Advance

FrameEnds ==
  /\ Looping /\ Ip >= Size
  /\ code' = Tail(code) /\ ips' = Tail(ips)
  /\ scan' = NoScan
  /\ OnlyScan /\ UNCHANGED <<data, state>>

Yield ==
  /\ Dispatch("YIELD")
  /\ flags' = flags \cup {"YIELD"}
  /\ KeepRest /\ UNCHANGED <<scan, dict, func, state, modes, root>>
  /\ Settle(data)

\* The participant to wait for is popped when the value on top has bytes.
Await ==
  /\ Dispatch("AWAIT")
  /\ flags' = flags \cup {"YIELD"}
  /\ KeepRest /\ UNCHANGED <<scan, dict, func, state, modes, root>>
  /\ Settle(IF HasBytes(Peek(1)) THEN Pop(1) ELSE data)

-----------------------------------------------------------------------------
(* Rewrite rules. *)

RewriteDefine ==
  /\ Dispatch("REWRITE_DEFINE")
  /\ IF Peek(1) \notin DOMAIN Rules THEN Fails(Pop(1))
     ELSE /\ modes' = [modes EXCEPT !.rules = Append(@, Rules[Peek(1)])]
          /\ KeepRest /\ UNCHANGED <<scan, flags, dict, func, state, root>>
          /\ Settle(data)

RewriteRemove ==
  LET i == IF Peek(1) \in DOMAIN Numerals THEN Numerals[Peek(1)]
           ELSE Len(modes.rules)
  IN
  /\ Dispatch("REWRITE_REMOVE")
  /\ IF i >= Len(modes.rules) THEN Fails(Pop(1))
     ELSE /\ modes' = [modes EXCEPT !.rules = RemoveAt(@, i + 1)]
          /\ KeepRest /\ UNCHANGED <<scan, flags, dict, func, state, root>>
          /\ Settle(Replace(1, <<Null>>))

\* One attempt, unless rewriting is off, and the trace of it; no epilogue.
RewriteApply ==
  /\ Dispatch("REWRITE_APPLY")
  /\ data' = WithTop(<<Null>> \o (IF modes.rewrite = "off" THEN Top
                                  ELSE RewriteOnce(modes.rules, Top)))
  /\ Advance /\ OnlyData

RewriteMode ==
  /\ Dispatch("REWRITE_MODE")
  /\ IF Peek(1) \notin {<<"auto">>, <<"manual">>, <<"off">>}
     THEN Fails(Pop(1))
     ELSE /\ modes' = [modes EXCEPT !.rewrite = Peek(1)[1]]
          /\ KeepRest
          /\ UNCHANGED <<scan, flags, dict, func, state, root, data>> /\ Advance

-----------------------------------------------------------------------------
(* Speculation: a nested run of the same machine, rolled back at its end. *)

\* What survives of the value on top of the speculated stack.
Snapshot(v) == CASE v \in Lists -> <<"list">>
                 [] v \in {Blob} \cup DOMAIN Thunks -> Blob
                 [] v \in DOMAIN Rules \cup DOMAIN Functions -> Null
                 [] OTHER -> v

Speculate ==
  LET source == Peek(1)
      out == IF IsText(source) /\ source # <<>> THEN Compile(source)
             ELSE Uncompilable
  IN
  /\ Dispatch("SPECULATE")
  /\ IF out = Uncompilable
     THEN data' = Replace(1, <<Null>>) /\ Advance /\ OnlyData
     ELSE /\ Len(code) < MaxCode
          /\ spec' = <<[base |-> Len(code), data |-> Pop(1), dict |-> dict,
                        func |-> func, state |-> state,
                        rules |-> modes.rules, ip |-> Ip]>> \o spec
          /\ code' = <<[ins |-> out, shared |-> NoValue]>> \o code
          /\ ips' = <<0>> \o ips
          /\ data' = Pop(1) /\ scan' = NoScan
          /\ UNCHANGED <<flags, dict, func, state, modes, root, host>>

\* The nested run is over: by draining, by an error, or by a yield, which
\* counts as success.  Every stack but the code stack is replaced by the
\* copy made at the start; what the modes say stays as it was left.
NestedReturn ==
  LET cp == spec[1]
      c == SubSeq(code, Len(code) - cp.base + 1, Len(code))
      i == SubSeq(ips, Len(ips) - cp.base + 1, Len(ips))
      result == IF "ERROR" \in flags THEN Null ELSE Snapshot(Peek(1))
      frame == IF cp.data = <<>> THEN <<>> ELSE cp.data[1]
  IN
  /\ host.running /\ ~Looping /\ spec # <<>>
  /\ code' = c /\ ips' = [i EXCEPT ![IpIndex(c, 1)] = cp.ip + 1]
  /\ scan' = NoScan /\ flags' = {}
  /\ data' = IF cp.data = <<>> \/ result = NoValue THEN cp.data
             ELSE <<<<result>> \o frame>> \o Tail(cp.data)
  /\ dict' = cp.dict /\ func' = cp.func /\ state' = cp.state
  /\ modes' = [modes EXCEPT !.rules = cp.rules]
  /\ spec' = Tail(spec)
  /\ root' = [root EXCEPT !.attached = FALSE]
  /\ UNCHANGED host

-----------------------------------------------------------------------------
(* The host: one line at a time. *)

Execute(line) ==
  LET out == Compile(line) IN
  /\ ~host.running /\ host.lines < MaxLines
  /\ line \in (IF host.lines = 0 THEN Lines ELSE Followups)
  /\ out # Uncompilable
  /\ code' = <<[ins |-> out, shared |-> NoValue]>> /\ ips' = <<0>>
  /\ scan' = NoScan /\ flags' = {}
  /\ host' = [running |-> TRUE, parked |-> FALSE, lines |-> host.lines + 1,
              line |-> line,
              from |-> [data |-> data, dict |-> dict, func |-> func,
                        state |-> state, modes |-> modes, err |-> FALSE]]
  /\ UNCHANGED <<data, dict, func, state, modes, spec, root>>

Return ==
  /\ host.running /\ ~Looping /\ spec = <<>>
  /\ flags' = IF flags = {} THEN {"COMPLETE"} ELSE flags
  /\ host' = [host EXCEPT !.running = FALSE, !.parked = "YIELD" \in flags]
  /\ UNCHANGED <<code, ips, scan, data, dict, func, state, modes, spec, root>>

\* The scheduler resumes a machine that yielded; the host may as well
\* execute another line first, which discards the parked code.
Resume ==
  /\ ~host.running /\ host.parked /\ "ERROR" \notin flags
  /\ flags' = {} /\ scan' = NoScan
  /\ host' = [host EXCEPT !.running = TRUE, !.parked = FALSE]
  /\ UNCHANGED <<code, ips, data, dict, func, state, modes, spec, root>>

\* reset(): the stacks are made anew over the session root, in which the
\* core library is bound once more.  The modes and the rules stay.
Clear ==
  /\ ~host.running /\ host.lines \in 1..MaxLines - 1
  /\ code' = <<>> /\ ips' = <<>> /\ flags' = {}
  /\ data' = <<<<>>>> /\ func' = <<>> /\ state' = <<>>
  /\ dict' = <<WithBuiltins(root.bindings)>>
  /\ root' = [bindings |-> WithBuiltins(root.bindings), attached |-> TRUE]
  /\ host' = [host EXCEPT !.parked = FALSE, !.lines = @ + 1, !.line = <<>>]
  /\ UNCHANGED <<scan, modes, spec>>

Instruction ==
  \/ PushExt \/ Dup \/ PopTop \/ Swap \/ ListAdd \/ Ref \/ Assign
  \/ RemoveBinding \/ Lookup \/ Unsafe
  \/ EvalNothing \/ EvalThunk \/ EvalSource \/ EvalFunction
  \/ FunPush \/ FunEval \/ FunPop \/ CtxPush \/ CtxPop
  \/ Fail \/ Test \/ Throws \/ Catch \/ Yield \/ Await
  \/ RewriteDefine \/ RewriteRemove \/ RewriteApply \/ RewriteMode
  \/ Speculate

Machine == Instruction \/ Skip \/ SkipEnds \/ FrameEnds \/ NestedReturn \/ Return
Next == Machine \/ Resume \/ Clear \/ \E line \in Lines \cup Followups : Execute(line)

Spec == Init /\ [][Next]_vars
FairSpec == Spec /\ WF_vars(Machine)

-----------------------------------------------------------------------------
(* Properties. *)

TypeOK ==
  /\ Len(ips) = Len(code)
  /\ \A i \in DOMAIN ips : ips[i] \in 0..Len(code[i].ins)
  /\ Len(code) <= MaxCode
  /\ flags \subseteq {"YIELD", "ERROR", "COMPLETE"}
  /\ scan.depth \in Nat /\ (~scan.on => scan = NoScan)
  /\ \A i \in DOMAIN dict : \A k \in Keys : \A j \in DOMAIN dict[i][k] :
       dict[i][k][j] # NoValue
  /\ \A i \in DOMAIN data : \A j \in DOMAIN data[i] : data[i][j] # NoValue
  /\ ~host.running => spec = <<>>

(***************************************************************************)
(* Speculation runs on the code stack of the line that asked for it and    *)
(* restores every other stack: the nested run, and the while loop of       *)
(* op_SPECULATE that drops what it left, never touch the activations below *)
(* their base.                                                             *)
(***************************************************************************)
Callers(c) == SubSeq(c, Len(c) - spec[Len(spec)].base + 1, Len(c))
SpeculationKeepsCallers ==
  [][spec # <<>> => /\ Len(code') >= spec[Len(spec)].base
                    /\ Callers(code') = Callers(code)]_vars

=============================================================================
