---------------------------- MODULE EdictRewrite ----------------------------
(***************************************************************************)
(* Rewrite rules of the Edict VM: what one attempt makes of the active     *)
(* data frame and what the automatic epilogue of an instruction repeats.   *)
(* A frame is a sequence whose first element is the top of the stack.  A   *)
(* rule is a record of two sequences in source order, so the last token of *)
(* its pattern is matched against the top.  Tokens are literal texts,      *)
(* wildcards and the two type tests; a pattern names a wildcard at most    *)
(* once, so the identity test of a repeated wildcard never runs.           *)
(***************************************************************************)
EXTENDS Integers, Sequences, SequencesExt

CONSTANTS Wildcards,    \* the tokens $0, $1, ...
          Lists,        \* values in list mode
          MaxRewrites   \* rounds of the automatic loop (16 in the code)

AtomToken == <<"#atom">>
ListToken == <<"#list">>

\* One token of a pattern against one value of the frame.
TokenMatches(token, value) ==
  \/ token \in Wildcards
  \/ token = ListToken /\ value \in Lists
  \/ token = AtomToken /\ value \notin Lists
  \/ token \notin Wildcards \cup {AtomToken, ListToken} /\ value = token

RuleMatches(rule, frame) ==
  LET n == Len(rule.pattern) IN
  /\ n \in 1..Len(frame)
  /\ \A i \in 1..n : TokenMatches(rule.pattern[n + 1 - i], frame[i])

Redex(rules, frame) == \E i \in DOMAIN rules : RuleMatches(rules[i], frame)

\* The longest pattern wins, the oldest rule among those of one length.
BestRule(rules, frame) ==
  LET hits == {i \in DOMAIN rules : RuleMatches(rules[i], frame)}
      longest == {i \in hits : \A j \in hits :
                    Len(rules[j].pattern) <= Len(rules[i].pattern)}
  IN  rules[CHOOSE i \in longest : \A j \in longest : i <= j]

Replacement(rule, frame) ==
  LET n == Len(rule.pattern)
      Captured(w) == frame[n + 1 - CHOOSE k \in 1..n : rule.pattern[k] = w]
  IN  [k \in DOMAIN rule.replacement |->
         LET token == rule.replacement[k] IN
         IF token \in Wildcards /\ \E i \in 1..n : rule.pattern[i] = token
         THEN Captured(token) ELSE token]

RewriteOnce(rules, frame) ==
  IF ~Redex(rules, frame) THEN frame
  ELSE LET rule == BestRule(rules, frame) IN
       Reverse(Replacement(rule, frame))
         \o SubSeq(frame, Len(rule.pattern) + 1, Len(frame))

\* The loop ends at the first attempt that matches nothing.
RewriteLoop(rules, frame) ==
  LET Round[n \in 0..MaxRewrites] ==
        IF n = 0 THEN frame ELSE RewriteOnce(rules, Round[n - 1])
  IN  Round[MaxRewrites]
=============================================================================
