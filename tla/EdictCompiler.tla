---------------------------- MODULE EdictCompiler ----------------------------
(***************************************************************************)
(* EdictCompiler and its Tokenizer: source text to instructions, in one    *)
(* pass with one token of lookahead.  A text is a sequence of lexemes;     *)
(* spelling, escapes and white space are left out.  The tokenizer has two  *)
(* modes: outside JSON a bracketed text is one literal, inside it brackets *)
(* are tokens.  The mode belongs to the tokenizer, not to the nesting, and *)
(* is switched while the lookahead token has already been read.            *)
(***************************************************************************)
EXTENDS Integers, Sequences, SequencesExt, FiniteSets, TLC

CONSTANTS Quoted,        \* lexeme "w" or 'w -> the word it spells
          Prefixed,      \* lexeme @w, /w, /@w, ^w -> [sigils, name]
          Null,          \* the value an opened context starts from
          EmptyList,     \* the value an array starts from
          Uncompilable   \* what a text that throws compiles to

Op(name) == [op |-> name]
Push(v) == [op |-> "PUSHEXT", arg |-> v]

Keyword == [dup |-> Op("DUP"), swap |-> Op("SWAP"), fail |-> Op("FAIL"),
            test |-> Op("TEST"),
            unsafe_extensions_allow |-> [op |-> "UNSAFE", arg |-> TRUE],
            unsafe_extensions_block |-> [op |-> "UNSAFE", arg |-> FALSE]]
OperatorMap == ("!" :> "EVAL") @@ ("&" :> "THROW") @@ ("|" :> "CATCH")
Opens == {"{", "(", "<"}
Closes == {"}", ")", ">"}
Operators == {"@", "/", "^", "!", ":", ",", "&", "|", "="}

Token(kind, val, text, next) ==
  [kind |-> kind, val |-> val, text |-> text, next |-> next]

\* The end of a literal opened at p: where its brackets balance.
LiteralEnd(src, p) ==
  LET Depth(q) == Cardinality({i \in p..q : src[i] = "["})
                    - Cardinality({i \in p..q : src[i] = "]"})
      ends == {q \in p..Len(src) : Depth(q) = 0}
  IN  IF ends = {} THEN 0 ELSE CHOOSE q \in ends : \A r \in ends : q <= r

\* Tokenizer::nextToken.  A lexeme no rule accepts, and a literal that is
\* never closed, read as the end of the source.
NextToken(src, p, json) ==
  IF p > Len(src) THEN Token("EOF", "", <<>>, p)
  ELSE LET x == src[p] IN
    CASE x = "[" /\ ~json ->
           LET q == LiteralEnd(src, p) IN
           IF q = 0 THEN Token("EOF", "", <<>>, Len(src) + 1)
           ELSE Token("literal", "", SubSeq(src, p + 1, q - 1), q + 1)
      [] x = "]" /\ ~json -> Token("EOF", x, <<>>, p + 1)
      [] x \in Opens \/ (x = "[" /\ json) -> Token("open", x, <<>>, p + 1)
      [] x \in Closes \/ (x = "]" /\ json) -> Token("close", x, <<>>, p + 1)
      [] x \in Operators -> Token("op", x, <<>>, p + 1)
      [] x \in DOMAIN Quoted -> Token("string", "", <<Quoted[x]>>, p + 1)
      [] x \in DOMAIN Prefixed -> Token("prefix", x, <<>>, p + 1)
      [] OTHER -> Token("id", x, <<x>>, p + 1)

\* c: the source, the lookahead token, the mode, the open JSON constructs
\* (newest first), the instructions so far, and whether compile has thrown.
Read(c) == [c EXCEPT !.tok = NextToken(c.src, c.tok.next, c.json)]
Emit(c, ins) == [c EXCEPT !.out = @ \o ins]
Throw(c) == [c EXCEPT !.error = TRUE]
Phase(c, phase) == [c EXCEPT !.ctx[1].phase = phase]
Open(c, type) ==
  [c EXCEPT !.ctx = <<[type |-> type, key |-> <<>>, phase |-> "head"]>> \o @]

OpenObject(c) ==
  Emit(Read(Open([c EXCEPT !.json = TRUE], "object")),
       <<Push(Null), Op("CTX_PUSH")>>)

CloseObject(c) ==
  IF c.tok.val # "}" THEN Throw(c)
  ELSE LET d == Read(c) IN
       Emit([d EXCEPT !.json = FALSE, !.ctx = Tail(@)], <<Op("CTX_POP")>>)

OpenArray(c) == Emit(Read(Open(c, "array")), <<Push(EmptyList)>>)

ObjectHead(c) ==
  IF c.tok.kind \notin {"string", "id"} THEN CloseObject(c)
  ELSE LET d == Read([c EXCEPT !.ctx[1].key = c.tok.text]) IN
       IF d.tok.val = ":" THEN Phase(Read(d), "value") ELSE CloseObject(d)

ArrayHead(c) ==
  IF c.tok.kind # "EOF" /\ c.tok.val # "]" THEN Phase(c, "value")
  ELSE IF c.tok.val # "]" THEN Throw(c)
  ELSE LET d == Read(c) IN [d EXCEPT !.ctx = Tail(@)]

JsonValue(c) ==
  LET d == Phase(c, "after") IN
  CASE c.tok.kind = "open" /\ c.tok.val = "{" -> OpenObject(d)
    [] c.tok.kind = "open" /\ c.tok.val = "[" -> OpenArray(d)
    [] c.tok.kind \in {"string", "id", "literal"} ->
         Emit(Read(d), <<Push(c.tok.text)>>)
    [] OTHER -> Read(d)

AfterValue(c) ==
  LET d == Emit(c, IF c.ctx[1].type = "array" THEN <<Op("LIST_ADD")>>
                   ELSE <<Push(c.ctx[1].key), Op("ASSIGN")>>)
  IN  Phase(IF d.tok.val = "," THEN Read(d) ELSE d, "head")

\* @name assigns, /name removes, and a removal followed by another sigil
\* leaves the emptied entry in place; ^name only pushes the label.
PrefixChain(chain) ==
  FlattenSeq([i \in DOMAIN chain.sigils |->
    <<Push(<<chain.name>>)>> \o
      CASE chain.sigils[i] = "@" -> <<Op("ASSIGN")>>
        [] chain.sigils[i] = "/" ->
             <<Op(IF i < Len(chain.sigils) THEN "REMOVE_HEAD" ELSE "REMOVE")>>
        [] OTHER -> <<>>])

Identifier(c) ==
  LET d == Read(c) IN
  IF c.tok.val = "speculate" /\ d.tok.kind = "literal"
  THEN Emit(Read(d), <<Push(d.tok.text), Op("SPECULATE")>>)
  ELSE IF c.tok.val \in DOMAIN Keyword THEN Emit(d, <<Keyword[c.tok.val]>>)
  ELSE Emit(d, <<Push(c.tok.text), Op("REF")>>)

Operator(c) ==
  LET d == Read(c) IN
  CASE c.tok.val = "/" -> Emit(d, <<Op("POP")>>)
    [] c.tok.val = "^" -> Emit(d, <<Op("SPLICE")>>)
    [] c.tok.val = "@" -> Emit(d, <<Op("SWAP"), Op("ASSIGN")>>)
    [] c.tok.val \in DOMAIN OperatorMap -> Emit(d, <<Op(OperatorMap[c.tok.val])>>)
    [] OTHER -> Throw(c)

Term(c) ==
  CASE c.tok.kind \in {"literal", "string"} -> Emit(Read(c), <<Push(c.tok.text)>>)
    [] c.tok.kind = "id" -> Identifier(c)
    [] c.tok.kind = "op" -> Operator(c)
    [] c.tok.kind = "prefix" -> Emit(Read(c), PrefixChain(Prefixed[c.tok.val]))
    [] c.tok.val = "{" -> OpenObject(c)
    [] c.tok.val \in {"(", "["} -> Emit(Read(c), <<Op("FUN_PUSH")>>)
    [] c.tok.val \in {")", "]"} -> Emit(Read(c), <<Op("FUN_EVAL")>>)
    [] c.tok.val = "<" -> Emit(Read(c), <<Op("CTX_PUSH")>>)
    [] OTHER -> Emit(Read(c), <<Op("CTX_POP")>>)

Finished(c) == c.error \/ (c.ctx = <<>> /\ c.tok.kind = "EOF")

CompileStep(c) ==
  IF Finished(c) THEN c
  ELSE IF c.ctx = <<>> THEN Term(c)
  ELSE CASE c.ctx[1].phase = "value" -> JsonValue(c)
         [] c.ctx[1].phase = "after" -> AfterValue(c)
         [] c.ctx[1].phase = "head" /\ c.ctx[1].type = "object" -> ObjectHead(c)
         [] c.ctx[1].phase = "head" /\ c.ctx[1].type = "array" -> ArrayHead(c)

\* EdictCompiler::compile: at most three steps per lexeme.
Compile(src) ==
  LET start == [src |-> src, tok |-> NextToken(src, 1, FALSE), json |-> FALSE,
                ctx |-> <<>>, out |-> <<>>, error |-> FALSE]
      bound == 3 * Len(src) + 3
      Run[n \in 0..bound] == IF n = 0 THEN start ELSE CompileStep(Run[n - 1])
  IN  IF Run[bound].error THEN Uncompilable ELSE Run[bound].out
=============================================================================
