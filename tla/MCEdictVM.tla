------------------------------ MODULE MCEdictVM ------------------------------
(***************************************************************************)
(* A small library and a few thousand lines for the Edict VM, for TLC.     *)
(***************************************************************************)
EXTENDS EdictParts, TLC

CONSTANTS tYield, tAwait, tStrict, tDefine, tRemove, tApply, tMode, tSpec,
          aRule, fSafe, fUnsafe

Op(name) == [op |-> name]
Quoted_ == ("'y" :> "y")
Prefixed_ == ("@a" :> [sigils |-> <<"@">>, name |-> "a"])
               @@ ("/a" :> [sigils |-> <<"/">>, name |-> "a"])
               @@ ("/@a" :> [sigils |-> <<"/", "@">>, name |-> "a"])
Wildcards_ == {<<"$0">>}
Thunks_ == (tYield :> Op("YIELD")) @@ (tAwait :> Op("AWAIT"))
             @@ (tStrict :> [op |-> "LOOKUP", arg |-> "StrictFail"])
             @@ (tDefine :> Op("REWRITE_DEFINE")) @@ (tRemove :> Op("REWRITE_REMOVE"))
             @@ (tApply :> Op("REWRITE_APPLY")) @@ (tMode :> Op("REWRITE_MODE"))
             @@ (tSpec :> Op("SPECULATE"))
Rules_ == (aRule :> [pattern |-> <<<<"$0">>, <<"x">>>>,
                     replacement |-> <<<<"y">>, <<"$0">>>>])
Functions_ == (fSafe :> [args |-> 2, unsafe |-> FALSE, result |-> <<"x">>])
                @@ (fUnsafe :> [args |-> 1, unsafe |-> TRUE, result |-> Null])
Numerals_ == (<<"0">> :> 0)
Library_ == (<<"yield">> :> tYield) @@ (<<"await">> :> tAwait)
               @@ (<<"strict">> :> tStrict) @@ (<<"define">> :> tDefine)
               @@ (<<"remove">> :> tRemove) @@ (<<"apply">> :> tApply)
               @@ (<<"mode">> :> tMode) @@ (<<"spec">> :> tSpec)
               @@ (<<"rule">> :> aRule) @@ (<<"f">> :> fSafe) @@ (<<"g">> :> fUnsafe)
Keys_ == DOMAIN Library_ \cup {<<"a">>}
Lists_ == {EmptyList, FullList}

Bodies == {<<"x">>, <<"dup">>, <<"@a">>, <<"swap">>, <<"[", "dup", "]", "!">>,
           <<"test", "&", "a", "|", "dup">>}
Literal(text) == <<"[">> \o text \o <<"]">>
Speculated == {<<"x", "@a", "a">>, <<"@a", "swap">>,
               <<"strict", "!", "x", "[", "fail", "]", "!">>}
Units == {Literal(b) : b \in Bodies}
           \cup {<<"speculate">> \o Literal(b) : b \in Speculated}
           \cup {<<"a">>, <<"'y", "@a">>, <<"/a">>, <<"/@a">>, <<"!">>, <<"swap">>,
                 <<"/">>, <<"(", ")">>, <<"(", "'y", "x", ")">>,
                 <<"f", "!">>, <<"g", "!">>, <<"strict", "!">>}
Ends == {<<>>, <<"test", "&", "[", "x", "]">>,
         <<"test", "&", "test", "&", "'y", "|", "a", "|", "@a">>}
Special ==
  {<<"rule", "define", "!", "x", "a", "x">>,
   <<"[", "manual", "]", "mode", "!", "rule", "define", "!", "x", "x">>,
   <<"rule", "define", "!", "apply", "!", "[", "0", "]", "remove", "!">>,
   <<"x", "define", "!">>, <<"x", "remove", "!">>, <<"x", "mode", "!">>,
   <<"x", "await", "!", "x">>, <<"a", "yield", "!", "'y", "@a">>,
   <<"[", "dup", "]", "yield", "!", "(", ")">>,
   <<"speculate", "[", "x", "yield", "!", "dup", "]">>,
   <<"[", "x", "spec", "!", "]", "spec", "!">>,
   <<"unsafe_extensions_allow", "g", "!">>,
   <<"speculate", "[", "unsafe_extensions_allow", "]", "f", "g", "!">>,
   <<"{", "a", ":", "'y", ",", "x", ":", "{", "x", ":", "'y", "}", "}">>,
   <<"{", "a", ":", "[", "'y", ",", "x", "]", "}", "test">>,
   <<"<", "'y", "@a", "a", ">">>, <<")", "x">>, <<">", "x">>, <<"x", "fail", "a">>}
Lines_ == Special \cup {u \o v \o e : u, v \in Units, e \in Ends}
Followups_ == {<<"a", "a">>, <<"@a", "&", "'y", "|", "x">>, <<"(", "g", "!", ")">>}
=============================================================================
