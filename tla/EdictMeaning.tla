----------------------------- MODULE EdictMeaning -----------------------------
(***************************************************************************)
(* What a line means to the Edict VM: a big-step evaluation of the source  *)
(* text by its brackets, with no instructions, pointers, scanning, code    *)
(* stack or checkpoints.                                                   *)
(***************************************************************************)
EXTENDS EdictVM

\* Builtins of the library that a line calls by name.
CONSTANTS tYield, tAwait, tStrict, tDefine, tRemove, tMode, tSpec

(* The meaning of a line.  m: data, dict, func and state as in the machine, *)
(* the modes, and whether the line has failed.                             *)

PushOn(m, v) ==
  IF v = NoValue \/ m.data = <<>> THEN m ELSE [m EXCEPT !.data[1] = <<v>> \o @]
TopOf(m, n) == IF m.data = <<>> \/ Len(m.data[1]) < n THEN NoValue ELSE m.data[1][n]
Dropped(m, n) ==
  IF m.data = <<>> THEN m
  ELSE [m EXCEPT !.data[1] = IF Len(@) <= n THEN <<>> ELSE SubSeq(@, n + 1, Len(@))]
Failed(m) == [m EXCEPT !.err = TRUE]
Recorded(m, v) == IF v = NoValue THEN m ELSE [m EXCEPT !.state = <<v>> \o @]

Close(open) == CASE open = "[" -> "]" [] open = "(" -> ")" [] OTHER -> "}"
Balance(src, open, n) ==
  Cardinality({i \in 1..n : src[i] = open})
    - Cardinality({i \in 1..n : src[i] = Close(open)})
\* src starts with an opening bracket: the position of the one that closes it.
Matching(src) == CHOOSE q \in DOMAIN src :
  /\ Balance(src, src[1], q) = 0
  /\ \A r \in 1..q - 1 : Balance(src, src[1], r) > 0
Upto(src, q) == SubSeq(src, 2, q - 1)
From(src, q) == SubSeq(src, q, Len(src))

\* Where the | of the conditional is whose branch src is; past the end if
\* there is none.
Else(src) ==
  LET Nested(n) == Cardinality({i \in 1..n : src[i] = "&"})
                     - Cardinality({i \in 1..n : src[i] = "|"})
      bars == {q \in DOMAIN src : Nested(q) = -1}
  IN  IF bars = {} THEN Len(src) + 1 ELSE CHOOSE q \in bars : \A r \in bars : q <= r

Named(m, k) ==
  LET found == {i \in DOMAIN m.dict : k \in Keys /\ m.dict[i][k] # <<>>}
      newest == CHOOSE i \in found : \A j \in found : i <= j
  IN  IF found # {} THEN PushOn(m, m.dict[newest][k][1])
      ELSE IF m.modes.lookup = "Lax" THEN PushOn(m, k)
      ELSE Recorded(PushOn(m, Null), k)

Store(m, k, vs(_)) == IF m.dict = <<>> THEN m ELSE [m EXCEPT !.dict[1][k] = vs(@)]
Assigned(m, k) == LET v == TopOf(m, 1) IN
  Dropped(IF v = NoValue THEN m ELSE Store(m, k, LAMBDA vs : <<v>> \o vs), 1)
Removed(m, k) == Store(m, k, LAMBDA vs : IF vs = <<>> THEN vs ELSE Tail(vs))

RECURSIVE Mean(_, _)

Speculation(m, text) ==
  LET n == Mean(text, m)
      back == [m EXCEPT !.modes = n.modes]
  IN  PushOn(back, IF n.err THEN Null ELSE Snapshot(TopOf(n, 1)))

Applied(m, v) ==
  CASE v \in {NoValue, Null} \cup Lists \cup DOMAIN Rules -> m
    [] v = tStrict -> [m EXCEPT !.modes.lookup = "StrictFail"]
    [] v = tSpec ->
         LET text == TopOf(m, 1) IN
         IF text \in Atoms THEN PushOn(Dropped(m, 1), Null)
         ELSE Speculation(Dropped(m, 1), text)
    [] v = tAwait -> IF HasBytes(TopOf(m, 1)) THEN Dropped(m, 1) ELSE m
    [] v \in {Blob, tYield} -> m
    [] v \in {tRemove, tMode, tDefine} -> Failed(m)
    [] v \in DOMAIN Functions ->
         IF \/ Functions[v].unsafe /\ ~m.modes.unsafe
            \/ TopOf(m, Functions[v].args) = NoValue
         THEN Failed(m)
         ELSE PushOn(Dropped(m, Functions[v].args), Functions[v].result)
    [] OTHER -> Mean(v, m)

\* A call: the arguments and the function run in a frame and a scope of
\* their own, whose results are poured back newest first.
Called(m, args) ==
  LET f == TopOf(m, 1)
      o == Dropped(m, 1)
      opened == [o EXCEPT !.data = <<<<>>>> \o @, !.dict = <<EmptyScope>> \o @,
                          !.func = IF f = NoValue THEN @ ELSE <<f>> \o @]
      n == Mean(args, opened)
      r == IF n.err \/ n.func = <<>> THEN n ELSE Applied(n, n.func[1])
  IN  IF r.err THEN r
      ELSE [r EXCEPT !.data = IF Len(@) < 2 THEN <<>>
                              ELSE <<Reverse(@[1]) \o @[2]>> \o SubSeq(@, 3, Len(@)),
                     !.dict = Tail(@),
                     !.func = IF @ = <<>> THEN @ ELSE Tail(@)]

Simple(m, x) ==
  LET u == TopOf(m, 1) v == TopOf(m, 2) IN
  CASE x = "dup" -> PushOn(m, u)
    [] x = "swap" -> IF v = NoValue THEN Failed(m)
                     ELSE PushOn(PushOn(Dropped(m, 2), u), v)
    [] x = "/" -> Dropped(m, 1)
    [] x = "fail" -> Recorded(Dropped(m, 1), u)
    [] x = "test" -> IF IsTrue(u) THEN Dropped(m, 1)
                     ELSE Recorded(Dropped(m, 1), IF u = NoValue THEN Null ELSE u)
    [] x = "@a" -> Assigned(m, <<"a">>)
    [] x = "/a" -> Removed(m, <<"a">>)
    [] x = "/@a" -> Assigned(Removed(m, <<"a">>), <<"a">>)
    [] x = "'y" -> PushOn(m, <<"y">>)
    [] x = "unsafe_extensions_allow" ->
         PushOn([m EXCEPT !.modes.unsafe = TRUE], <<"allowed">>)
    [] OTHER -> Named(m, <<x>>)

Mean(src, m) ==
  IF src = <<>> \/ m.err THEN m
  ELSE LET x == src[1] IN
    CASE x = "[" -> Mean(From(src, Matching(src) + 1),
                         PushOn(m, Upto(src, Matching(src))))
      [] x = "(" -> Mean(From(src, Matching(src) + 1),
                         Called(m, Upto(src, Matching(src))))
      [] x = "{" -> Mean(From(src, Matching(src) + 1), PushOn(m, Null))
      [] x = "speculate" ->
           LET q == Matching(Tail(src)) IN
           Mean(From(src, q + 2), Speculation(m, Upto(Tail(src), q)))
      [] x = "!" -> Mean(Tail(src), Applied(Dropped(m, 1), TopOf(m, 1)))
      [] x = "&" ->
           IF m.state = <<>> THEN Mean(SubSeq(src, 2, Else(Tail(src))), m)
           ELSE Mean(From(src, Else(Tail(src)) + 2), [m EXCEPT !.state = Tail(@)])
      [] OTHER -> Mean(Tail(src), Simple(m, x))

-----------------------------------------------------------------------------
\* Rewriting lines, and those whose stray brackets close what they did not
\* open, have no meaning of this kind; neither has a speculation that yields.
Meaningful(line) ==
  /\ {line[i] : i \in DOMAIN line} \cap {"rule", "<", ")", ">", "yield"}
       \subseteq {")"}
  /\ \A n \in DOMAIN line : Balance(line, "(", n) >= 0

(***************************************************************************)
(* Compiled to instructions and run on the code stack, a line that         *)
(* completes has exactly the effect of its text on the data stack, the     *)
(* scopes, the recorded failures and the modes, and it fails exactly when  *)
(* its text does.                                                          *)
(***************************************************************************)
LinesMeanWhatTheySay ==
  (/\ ~host.running /\ host.line # <<>> /\ "YIELD" \notin flags
   /\ host.from.modes.rules = <<>> /\ Meaningful(host.line))
  => LET m == Mean(host.line, host.from) IN
     /\ m.err <=> "ERROR" \in flags
     /\ m.err \/ /\ m.data = data /\ m.dict = dict /\ m.func = func
                 /\ m.state = state /\ m.modes = modes
=============================================================================
