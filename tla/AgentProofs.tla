----------------------------- MODULE AgentProofs -----------------------------
(***************************************************************************)
(* Theorems about the agent daemon, the market hub and imports, as         *)
(* HostParts composes them.                                                *)
(***************************************************************************)
EXTENDS HostParts, SequenceTheorems, FiniteSetTheorems, NaturalsInduction,
        WellFoundedInduction, TLAPS

(***************************************************************************)
(* The least of a set of numbers.                                          *)
(***************************************************************************)
LEMMA LeastNumber ==
  ASSUME NEW T \in SUBSET Nat, T # {}
  PROVE  \E x \in T : \A y \in T : x <= y
<1> DEFINE R == OpToRel(<, Nat)
<1>1. IsWellFoundedOn(R, Nat)
  BY NatLessThanWellFounded, Zenon
<1>2. \A x, y \in Nat : x < y => <<x, y>> \in R
  BY Zenon DEF OpToRel
<1> HIDE DEF R
<1>3. PICK x \in T : \A y \in T : <<y, x>> \notin R
  BY <1>1, WFMin, Zenon
<1>4. \A y \in T : ~ (y < x)
  BY <1>2, <1>3, Zenon
<1> QED BY <1>3, <1>4, SMT

---------------------------------------------------------------------------
(* The daemon.                                                             *)

Said == [role : {"user", "assistant"}, n : Nat]
Conversed == Said \cup {Agent!NullText}

(* A prompt is answered right after it, if it is, and followed by later    *)
(* ones.                                                                   *)
InOrder(ms, from, upto) ==
  /\ \A i \in 1 .. Len(ms) : ms[i] \in Said /\ from < ms[i].n /\ ms[i].n <= upto
  /\ \A i, j \in 1 .. Len(ms) :
       i < j => \/ ms[i].n < ms[j].n
                \/ ms[i].n = ms[j].n /\ ms[i].role = "user" /\ ms[j].role = "assistant"
  /\ \A i \in 1 .. Len(ms) :
       ms[i].role = "assistant" => i > 1 /\ ms[i - 1] = Agent!User(ms[i].n)

(* The text "null" among the messages makes the conversation unreadable.   *)
Told(ms, from, upto) ==
  /\ ms \in Seq(Conversed)
  /\ (\A i \in 1 .. Len(ms) : ms[i] # Agent!NullText) => InOrder(ms, from, upto)

Roots == [messages : Seq(Conversed), provider : RootProviders \cup {"unknown"},
          contract : RootProviders \cup {"unknown", "none"}]
Turns == [prompt : Nat,
          response : {"none", "ok", "internal_error", "provider_response_invalid"},
          reply : {"none", "text", "message.text"}]

HostTypes ==
  /\ root \in Roots /\ turn \in Turns
  /\ options \in RootProviders \cup {"unknown"}
  /\ saved \in {Agent!NoSession}
       \cup [kind : {"saved"}, root : Roots, turn : Turns, whole : BOOLEAN]
  /\ named \in BOOLEAN
  /\ prompts \in Nat /\ since \in Nat /\ since <= prompts
  /\ sent \in [n : Nat, provider : RootProviders \cup {"unknown", "none"}, messages : Seq(Said)]

(* What is at work and what is on disk is of this session; the prompt of   *)
(* the turn was the last thing said until it is answered.                  *)
AgentInv ==
  /\ HostTypes
  /\ Told(root.messages, since, prompts)
  /\ saved # Agent!NoSession => Told(saved.root.messages, since, prompts)
  /\ host \in {"asks", "applies"} =>
       LET ms == root.messages
       IN ms # <<>> /\ ms[Len(ms)] = Agent!User(prompts) /\ turn.prompt = prompts
          /\ since < prompts
  /\ sent.n <= prompts
  /\ RequestsCarryTheSession

---------------------------------------------------------------------------
(* What Codex is given.                                                    *)

Spoken(ms) == IF ms # <<>> /\ ms[1] = Agent!User(1) THEN Tail(ms) ELSE ms

LEMMA OnlyFirstIsBlank ==
  ASSUME NEW ms \in Seq(Conversed), NEW from \in Nat, NEW upto \in Nat,
         InOrder(ms, from, upto),
         NEW i \in 1 .. Len(ms), ms[i] = Agent!User(1)
  PROVE  i = 1
<1>1. Len(ms) \in Nat /\ 1 \in 1 .. Len(ms)
  BY LenProperties
<1>2. \A k \in 1 .. Len(ms) : ms[k] \in Said /\ from < ms[k].n
  BY DEF InOrder
<1>3. ms[1] \in Said /\ from < ms[1].n /\ ms[i].n = 1 /\ ms[i].role = "user"
  BY <1>1, <1>2 DEF Agent!User
<1>4. 1 < i => ms[1].n < ms[i].n \/ ms[i].role = "assistant"
  BY <1>1 DEF InOrder
<1> QED BY <1>1, <1>3, <1>4 DEF Said

(* A message more of a part of the conversation.                           *)
LEMMA PartGrows ==
  ASSUME NEW S, NEW ms \in Seq(S), NEW m \in 1 .. Len(ms), NEW n \in m .. Len(ms)
  PROVE  SubSeq(ms, m, n) = Append(SubSeq(ms, m, n - 1), ms[n])
<1>1. Len(ms) \in Nat /\ n - 1 \in Int /\ n \in 1 .. Len(ms)
  BY LenProperties
<1>2. \A i \in m .. n - 1 : ms[i] \in S
  BY <1>1, ElementOfSeq
<1>3. SubSeq(ms, m, n - 1) \in Seq(S)
  BY <1>1, <1>2, SubSeqProperties
<1>4. ms[n] \in S
  BY <1>1, ElementOfSeq
<1>5. Append(SubSeq(ms, m, n - 1), ms[n]) = SubSeq(ms, m, n - 1) \o <<ms[n]>>
  BY <1>3, <1>4, AppendIsConcat
<1> QED BY <1>5, SubSeqRecursiveSecond

LEMMA CodexLeavesOutTheBlank ==
  ASSUME NEW ms \in Seq(Conversed), NEW from \in Nat, NEW upto \in Nat,
         InOrder(ms, from, upto)
  PROVE  Agent!CodexInput(ms) = Spoken(ms)
<1> DEFINE Body(f) == [i \in 0 .. Len(ms) |->
                         IF i = 0 THEN <<>>
                         ELSE IF ms[i] = Agent!User(1) THEN f[i - 1]
                         ELSE Append(f[i - 1], ms[i])]
           skips == ms # <<>> /\ ms[1] = Agent!User(1)
           kept == CHOOSE f : f = Body(f)
           parts == [i \in 0 .. Len(ms) |->
                       IF i = 0 THEN <<>>
                       ELSE IF skips THEN SubSeq(ms, 2, i) ELSE SubSeq(ms, 1, i)]
<1>0. Len(ms) \in Nat
  BY LenProperties
<1>1. Agent!CodexInput(ms) = kept[Len(ms)]
  BY DEF Agent!CodexInput, Agent!Blank
<1>2. ASSUME NEW i \in 1 .. Len(ms)
      PROVE  parts[i] = IF ms[i] = Agent!User(1) THEN parts[i - 1]
                        ELSE Append(parts[i - 1], ms[i])
  <2>1. ms[i] = Agent!User(1) => i = 1 /\ skips
    BY <1>0, OnlyFirstIsBlank
  <2>2. SubSeq(ms, 2, 1) = <<>> /\ SubSeq(ms, 1, 0) = <<>>
    BY SubSeqEmpty
  <2>3. i >= 2 => SubSeq(ms, 2, i) = Append(SubSeq(ms, 2, i - 1), ms[i])
    BY <1>0, PartGrows
  <2>4. SubSeq(ms, 1, i) = Append(SubSeq(ms, 1, i - 1), ms[i])
    BY <1>0, PartGrows
  <2>5. parts[i] = IF skips THEN SubSeq(ms, 2, i) ELSE SubSeq(ms, 1, i)
    BY <1>0
  <2>6. parts[i - 1] = IF skips THEN SubSeq(ms, 2, i - 1) ELSE SubSeq(ms, 1, i - 1)
    <3>1. CASE i = 1
      <4>1. SubSeq(ms, 2, 0) = <<>> /\ SubSeq(ms, 1, 0) = <<>> /\ parts[0] = <<>>
        BY <1>0, SubSeqEmpty
      <4>2. i - 1 = 0
        BY <3>1
      <4> HIDE DEF parts, skips
      <4> QED BY <4>1, <4>2
    <3>2. CASE i # 1
      BY <1>0, <3>2
    <3> QED BY <3>1, <3>2
  <2>7. skips /\ i = 1 => ms[i] = Agent!User(1)
    OBVIOUS
  <2> HIDE DEF parts, skips
  <2>8. CASE i = 1 /\ skips
    <3>1. SubSeq(ms, 2, 0) = <<>> /\ i - 1 = 0
      BY <2>8, SubSeqEmpty
    <3> QED BY <2>2, <2>5, <2>6, <2>7, <2>8, <3>1
  <2>9. CASE ~ skips
    BY <2>1, <2>4, <2>5, <2>6, <2>9
  <2>10. CASE i >= 2 /\ skips
    BY <2>1, <2>3, <2>5, <2>6, <2>10
  <2> QED BY <2>8, <2>9, <2>10
<1>3. parts = Body(parts)
  <2>1. parts[0] = <<>>
    BY <1>0
  <2>2. parts = [i \in 0 .. Len(ms) |-> parts[i]]
    OBVIOUS
  <2> HIDE DEF parts
  <2> QED BY <1>0, <1>2, <2>1, <2>2
<1>4. kept = Body(kept)
  <2> HIDE DEF Body
  <2> QED BY <1>3
<1>5. kept[0] = <<>> /\ parts[0] = <<>>
  <2>1. Body(kept)[0] = <<>> /\ parts[0] = <<>>
    BY <1>0
  <2> HIDE DEF Body, kept, parts
  <2> QED BY <1>4, <2>1
<1>6. ASSUME NEW i \in 1 .. Len(ms)
      PROVE  kept[i] = IF ms[i] = Agent!User(1) THEN kept[i - 1]
                       ELSE Append(kept[i - 1], ms[i])
  <2> HIDE DEF kept
  <2>1. Body(kept)[i] = IF ms[i] = Agent!User(1) THEN kept[i - 1]
                        ELSE Append(kept[i - 1], ms[i])
    BY <1>0
  <2> HIDE DEF Body
  <2> QED BY <1>4, <2>1
<1> HIDE DEF kept, Body
<1>7. kept[Len(ms)] = parts[Len(ms)]
  <2> SUFFICES ASSUME kept[Len(ms)] # parts[Len(ms)] PROVE FALSE
    OBVIOUS
  <2> DEFINE T == {i \in 0 .. Len(ms) : kept[i] # parts[i]}
  <2> HIDE DEF parts
  <2>1. T \in SUBSET Nat /\ T # {}
    BY <1>0
  <2>2. PICK i \in T : \A j \in T : i <= j
    BY <2>1, LeastNumber, Zenon
  <2>3. i \in 0 .. Len(ms) /\ kept[i] # parts[i] /\ i # 0
    BY <1>5, <2>2
  <2>4. i - 1 \in 0 .. Len(ms) /\ i - 1 \notin T
    BY <1>0, <2>2, <2>3
  <2>5. kept[i - 1] = parts[i - 1]
    BY <2>4
  <2> QED BY <1>0, <1>2, <1>6, <2>3, <2>5
<1>8. parts[Len(ms)] = Spoken(ms)
  <2>1. CASE ms = <<>>
    BY <2>1 DEF Spoken
  <2>2. CASE ms # <<>>
    <3>1. Len(ms) # 0 /\ SubSeq(ms, 1, Len(ms)) = ms /\ SubSeq(ms, 2, Len(ms)) = Tail(ms)
      BY <2>2, EmptySeq, SubSeqFull, TailIsSubSeq
    <3>2. parts[Len(ms)] = IF skips THEN SubSeq(ms, 2, Len(ms)) ELSE SubSeq(ms, 1, Len(ms))
      BY <1>0, <3>1
    <3> HIDE DEF parts
    <3> QED BY <2>2, <3>1, <3>2 DEF Spoken
  <2> QED BY <2>1, <2>2
<1> QED BY <1>1, <1>7, <1>8

---------------------------------------------------------------------------
(* A request.                                                              *)

Carried(ms, n, provider, after) ==
  /\ \A i \in 1 .. Len(ms) : ms[i].role \in {"user", "assistant"}
  /\ \A i, j \in 1 .. Len(ms) : i < j => ms[i].n <= ms[j].n
  /\ \A i, j \in 1 .. Len(ms) : ms[i] = ms[j] => i = j
  /\ \A i \in 1 .. Len(ms) : ms[i].role = "assistant" /\ ms[i].n # 1
                            => i > 1 /\ ms[i - 1] = Agent!User(ms[i].n)
  /\ n > 0 /\ ~(provider = "codex" /\ n = 1) => ms # <<>> /\ ms[Len(ms)] = Agent!User(n)
  /\ n > after => \A i \in 1 .. Len(ms) : ms[i].n > after

LEMMA CarriedIsTheProperty ==
  ASSUME sent.messages \in Seq(Said)
  PROVE  RequestsCarryTheSession <=> Carried(sent.messages, sent.n, sent.provider, since)
<1>1. DOMAIN sent.messages = 1 .. Len(sent.messages)
  BY LenProperties
<1>2. Agent!Last(sent.messages) = sent.messages[Len(sent.messages)]
  BY DEF Agent!Last
<1> QED
  BY <1>1, <1>2, Zenon DEF RequestsCarryTheSession, Agent!RequestsCarryTheSession, Carried,
     Agent!Blank

LEMMA CarriedNext ==
  ASSUME sent'.messages \in Seq(Said),
         Carried(sent'.messages, sent'.n, sent'.provider, since')
  PROVE  RequestsCarryTheSession'
<1>1. DOMAIN sent'.messages = 1 .. Len(sent'.messages)
  BY LenProperties
<1>2. Agent!Last(sent'.messages) = sent'.messages[Len(sent'.messages)]
  BY DEF Agent!Last
<1> QED
  BY <1>1, <1>2, Zenon DEF RequestsCarryTheSession, Agent!RequestsCarryTheSession, Carried,
     Agent!Blank

LEMMA InOrderIsOnce ==
  ASSUME NEW ms \in Seq(Conversed), NEW from \in Nat, NEW upto \in Nat,
         InOrder(ms, from, upto),
         NEW i \in 1 .. Len(ms), NEW j \in 1 .. Len(ms)
  PROVE  /\ i < j => ms[i].n <= ms[j].n
         /\ ms[i] = ms[j] => i = j
<1>1. Len(ms) \in Nat /\ i \in Nat /\ j \in Nat
  BY LenProperties
<1>2. ms[i].n \in Nat /\ ms[j].n \in Nat
  BY DEF InOrder, Said
<1>3. i < j => \/ ms[i].n < ms[j].n
               \/ ms[i].n = ms[j].n /\ ms[i].role = "user" /\ ms[j].role = "assistant"
  BY DEF InOrder
<1>4. j < i => \/ ms[j].n < ms[i].n
               \/ ms[j].n = ms[i].n /\ ms[j].role = "user" /\ ms[i].role = "assistant"
  BY DEF InOrder
<1>5. i < j => ms[i].n <= ms[j].n
  BY <1>2, <1>3
<1>6. ASSUME ms[i] = ms[j] PROVE i = j
  <2>1. ms[i].n = ms[j].n /\ ms[i].role = ms[j].role
    BY <1>6
  <2>2. ~ (ms[i].n < ms[j].n) /\ ~ (ms[j].n < ms[i].n)
    BY <1>2, <2>1
  <2>3. ~ (i < j) /\ ~ (j < i)
    BY <1>3, <1>4, <2>1, <2>2
  <2> QED BY <1>1, <2>3
<1> QED BY <1>5, <1>6

LEMMA WholeIsCarried ==
  ASSUME NEW ms \in Seq(Conversed), NEW from \in Nat, NEW upto \in Nat,
         InOrder(ms, from, upto), ms # <<>>, ms[Len(ms)] = Agent!User(upto), NEW p
  PROVE  ms \in Seq(Said) /\ Carried(ms, upto, p, from)
<1>1. \A i \in 1 .. Len(ms) : ms[i] \in Said /\ ms[i].n > from
  <2>1. TAKE i \in 1 .. Len(ms)
  <2>2. ms[i] \in Said /\ from < ms[i].n
    BY DEF InOrder
  <2> QED BY <2>2 DEF Said
<1>2. ms \in Seq(Said)
  <2>1. Len(ms) \in Nat /\ SubSeq(ms, 1, Len(ms)) = ms
    BY LenProperties, SubSeqFull
  <2>2. SubSeq(ms, 1, Len(ms)) \in Seq(Said)
    BY <1>1, <2>1, SubSeqProperties
  <2> QED BY <2>1, <2>2
<1>3. \A i \in 1 .. Len(ms) : ms[i].role \in {"user", "assistant"}
  BY <1>1 DEF Said
<1>4. \A i, j \in 1 .. Len(ms) : i < j => ms[i].n <= ms[j].n
  BY InOrderIsOnce
<1>5. \A i, j \in 1 .. Len(ms) : ms[i] = ms[j] => i = j
  BY InOrderIsOnce
<1>6. \A i \in 1 .. Len(ms) : ms[i].role = "assistant" /\ ms[i].n # 1
                            => i > 1 /\ ms[i - 1] = Agent!User(ms[i].n)
  BY DEF InOrder
<1> QED BY <1>1, <1>2, <1>3, <1>4, <1>5, <1>6, Zenon DEF Carried

LEMMA RestIsCarried ==
  ASSUME NEW ms \in Seq(Conversed), NEW from \in Nat, NEW upto \in Nat,
         InOrder(ms, from, upto), ms # <<>>, ms[Len(ms)] = Agent!User(upto),
         ms[1] = Agent!User(1)
  PROVE  Tail(ms) \in Seq(Said) /\ Carried(Tail(ms), upto, "codex", from)
<1> DEFINE rest == Tail(ms)
<1>1. ms \in Seq(Said) /\ Carried(ms, upto, "codex", from)
  BY WholeIsCarried
<1>2. /\ rest \in Seq(Said) /\ Len(rest) = Len(ms) - 1
      /\ \A i \in 1 .. Len(rest) : rest[i] = ms[i + 1]
      /\ Len(ms) \in Nat \ {0} /\ Len(rest) \in Nat
  BY <1>1, HeadTailProperties, EmptySeq, LenProperties
<1> HIDE DEF rest
<1>3. \A i \in 1 .. Len(rest) : i + 1 \in 1 .. Len(ms) /\ rest[i] = ms[i + 1] /\ i \in Nat
  BY <1>2
<1>4. \A i \in 1 .. Len(rest) : rest[i].role \in {"user", "assistant"} /\ rest[i].n > from
  <2>1. TAKE i \in 1 .. Len(rest)
  <2>2. i + 1 \in 1 .. Len(ms) /\ rest[i] = ms[i + 1]
    BY <1>3
  <2>3. ms[i + 1] \in Said /\ from < ms[i + 1].n
    BY <2>2 DEF InOrder
  <2> QED BY <2>2, <2>3 DEF Said
<1>5. \A i, j \in 1 .. Len(rest) : i < j => rest[i].n <= rest[j].n
  <2> SUFFICES ASSUME NEW i \in 1 .. Len(rest), NEW j \in 1 .. Len(rest), i < j
               PROVE  rest[i].n <= rest[j].n
    OBVIOUS
  <2>1. /\ i + 1 \in 1 .. Len(ms) /\ j + 1 \in 1 .. Len(ms) /\ i + 1 < j + 1
        /\ rest[i] = ms[i + 1] /\ rest[j] = ms[j + 1]
    BY <1>3
  <2>2. ms[i + 1].n <= ms[j + 1].n
    BY <2>1, InOrderIsOnce
  <2> QED BY <2>1, <2>2
<1>6. \A i, j \in 1 .. Len(rest) : rest[i] = rest[j] => i = j
  <2> SUFFICES ASSUME NEW i \in 1 .. Len(rest), NEW j \in 1 .. Len(rest), rest[i] = rest[j]
               PROVE  i = j
    OBVIOUS
  <2>1. /\ i + 1 \in 1 .. Len(ms) /\ j + 1 \in 1 .. Len(ms) /\ i \in Nat /\ j \in Nat
        /\ rest[i] = ms[i + 1] /\ rest[j] = ms[j + 1]
    BY <1>3
  <2>2. i + 1 = j + 1
    BY <2>1, InOrderIsOnce
  <2> QED BY <2>1, <2>2
<1>7. \A i \in 1 .. Len(rest) : rest[i].role = "assistant" /\ rest[i].n # 1
                              => i > 1 /\ rest[i - 1] = Agent!User(rest[i].n)
  <2> SUFFICES ASSUME NEW i \in 1 .. Len(rest), rest[i].role = "assistant", rest[i].n # 1
               PROVE  i > 1 /\ rest[i - 1] = Agent!User(rest[i].n)
    OBVIOUS
  <2>1. i + 1 \in 1 .. Len(ms) /\ rest[i] = ms[i + 1] /\ i \in Nat /\ i >= 1
    BY <1>3
  <2>2. ms[(i + 1) - 1] = Agent!User(ms[i + 1].n)
    BY <2>1 DEF InOrder
  <2>3. ms[i] = Agent!User(rest[i].n)
    BY <2>1, <2>2
  <2>4. i # 1
    BY <2>3 DEF Agent!User
  <2>5. i > 1 /\ i - 1 \in 1 .. Len(rest) /\ (i - 1) + 1 = i
    BY <1>2, <2>1, <2>4
  <2>6. rest[i - 1] = ms[(i - 1) + 1]
    BY <1>3, <2>5
  <2> QED BY <2>3, <2>5, <2>6
<1>8. upto # 1 => rest # <<>> /\ rest[Len(rest)] = Agent!User(upto)
  <2> SUFFICES ASSUME upto # 1 PROVE rest # <<>> /\ rest[Len(rest)] = Agent!User(upto)
    OBVIOUS
  <2>1. Len(ms) # 1
    BY DEF Agent!User
  <2>2. Len(rest) \in 1 .. Len(rest) /\ Len(rest) + 1 = Len(ms)
    BY <1>2, <2>1
  <2>3. rest[Len(rest)] = ms[Len(rest) + 1]
    BY <1>3, <2>2
  <2> QED BY <2>2, <2>3, EmptySeq
<1>9. upto > 0 /\ ~("codex" = "codex" /\ upto = 1)
        => rest # <<>> /\ rest[Len(rest)] = Agent!User(upto)
  BY <1>8
<1>10. Carried(rest, upto, "codex", from)
  BY <1>4, <1>5, <1>6, <1>7, <1>9, Zenon DEF Carried
<1> QED BY <1>2, <1>10 DEF rest

(* The payload of whatever provider.                                       *)
LEMMA PayloadIsCarried ==
  ASSUME NEW ms \in Seq(Conversed), NEW from \in Nat, NEW upto \in Nat,
         InOrder(ms, from, upto), ms # <<>>, ms[Len(ms)] = Agent!User(upto), NEW p
  PROVE  /\ Agent!Payload(p, ms) \in Seq(Said)
         /\ Carried(Agent!Payload(p, ms), upto, p, from)
<1>1. CASE p # "codex"
  BY <1>1, WholeIsCarried DEF Agent!Payload
<1>2. CASE p = "codex" /\ ms[1] = Agent!User(1)
  BY <1>2, CodexLeavesOutTheBlank, RestIsCarried DEF Agent!Payload, Spoken
<1>3. CASE p = "codex" /\ ms[1] # Agent!User(1)
  BY <1>3, CodexLeavesOutTheBlank, WholeIsCarried DEF Agent!Payload, Spoken
<1> QED BY <1>1, <1>2, <1>3

---------------------------------------------------------------------------
(* A conversation grows.                                                   *)

LEMMA NothingIsTold ==
  ASSUME NEW from, NEW upto
  PROVE  Told(<<>>, from, upto)
<1>1. <<>> \in Seq(Conversed) /\ Len(<<>>) = 0
  BY EmptySeq
<1>2. 1 .. Len(<<>>) = {}
  BY <1>1
<1> QED BY <1>1, <1>2, Zenon DEF Told, InOrder

LEMMA StaysTold ==
  ASSUME NEW ms, NEW from \in Nat, NEW upto \in Nat, Told(ms, from, upto)
  PROVE  Told(ms, from, upto + 1)
<1>1. ASSUME InOrder(ms, from, upto) PROVE InOrder(ms, from, upto + 1)
  <2>1. \A i \in 1 .. Len(ms) : ms[i] \in Said /\ from < ms[i].n /\ ms[i].n <= upto
    BY <1>1 DEF InOrder
  <2>2. \A i \in 1 .. Len(ms) : ms[i] \in Said /\ from < ms[i].n /\ ms[i].n <= upto + 1
    BY <2>1 DEF Said
  <2> QED BY <1>1, <2>2, Zenon DEF InOrder
<1> QED BY <1>1, Zenon DEF Told

LEMMA MoreIsTold ==
  ASSUME NEW ms, NEW from \in Nat, NEW upto \in Nat, NEW next \in Nat, NEW m \in Conversed,
         Told(ms, from, upto), from < next, upto <= next,
         m # Agent!NullText =>
           /\ m \in Said /\ m.n = next
           /\ \/ m.role = "user" /\ upto < next
              \/ /\ m.role = "assistant" /\ upto = next
                 /\ ms # <<>> /\ ms[Len(ms)] = Agent!User(next)
  PROVE  Told(Append(ms, m), from, next)
<1> DEFINE more == Append(ms, m)
<1>1. /\ ms \in Seq(Conversed) /\ Len(ms) \in Nat
      /\ more \in Seq(Conversed) /\ Len(more) = Len(ms) + 1
      /\ \A i \in 1 .. Len(ms) : more[i] = ms[i]
      /\ more[Len(ms) + 1] = m
  BY AppendProperties, LenProperties DEF Told
<1> HIDE DEF more
<1>2. SUFFICES ASSUME \A i \in 1 .. Len(more) : more[i] # Agent!NullText
               PROVE  InOrder(more, from, next)
  BY <1>1 DEF Told, more
<1>3. m \in Said /\ m.n = next /\ m # Agent!NullText
  BY <1>1, <1>2
<1>4. \A i \in 1 .. Len(ms) : ms[i] # Agent!NullText
  BY <1>1, <1>2
<1>5. InOrder(ms, from, upto)
  BY <1>4 DEF Told
<1>6. \A i \in 1 .. Len(more) : \/ i \in 1 .. Len(ms) /\ more[i] = ms[i]
                                \/ i = Len(ms) + 1 /\ more[i] = m
  <2>1. \A i \in 1 .. Len(more) : i \in 1 .. Len(ms) \/ i = Len(ms) + 1
    BY <1>1
  <2> QED BY <1>1, <2>1
<1>7. \A i \in 1 .. Len(ms) : ms[i] \in Said /\ from < ms[i].n /\ ms[i].n <= upto
  BY <1>5 DEF InOrder
<1>8. \A i \in 1 .. Len(more) : more[i] \in Said /\ from < more[i].n /\ more[i].n <= next
  <2>1. TAKE i \in 1 .. Len(more)
  <2>2. CASE i \in 1 .. Len(ms) /\ more[i] = ms[i]
    BY <1>7, <2>2 DEF Said
  <2>3. CASE more[i] = m
    BY <1>3, <2>3
  <2> QED BY <1>6, <2>2, <2>3
<1>9. ASSUME m.role = "assistant"
      PROVE  upto = next /\ ms # <<>> /\ ms[Len(ms)] = Agent!User(next)
  BY <1>3, <1>9
<1>10. ASSUME NEW i \in 1 .. Len(more), NEW j \in 1 .. Len(more), i < j
       PROVE  \/ more[i].n < more[j].n
              \/ more[i].n = more[j].n /\ more[i].role = "user" /\ more[j].role = "assistant"
  <2>1. i \in 1 .. Len(ms) /\ more[i] = ms[i] /\ ms[i] \in Said /\ ms[i].n <= upto
    BY <1>1, <1>7, <1>10
  <2>2. CASE j \in 1 .. Len(ms) /\ more[j] = ms[j]
    BY <1>5, <1>10, <2>1, <2>2 DEF InOrder
  <2>3. CASE more[j] = m /\ m.role = "user"
    <3>1. ms[i].n < m.n
      BY <1>3, <2>1, <2>3 DEF Said
    <3> QED BY <2>1, <2>3, <3>1
  <2>4. CASE more[j] = m /\ m.role = "assistant"
    <3>1. upto = next /\ ms # <<>> /\ ms[Len(ms)] = Agent!User(next)
      BY <1>9, <2>4
    <3>2. CASE i = Len(ms)
      BY <1>3, <2>1, <2>4, <3>1, <3>2 DEF Agent!User
    <3>3. CASE i # Len(ms)
      <4>1. i < Len(ms) /\ Len(ms) \in 1 .. Len(ms)
        BY <1>1, <2>1, <3>3
      <4>2. ms[i].n < ms[Len(ms)].n \/ ms[Len(ms)].role = "assistant"
        BY <1>5, <2>1, <4>1 DEF InOrder
      <4> QED BY <1>3, <2>1, <2>4, <3>1, <4>2 DEF Agent!User
    <3> QED BY <3>2, <3>3
  <2>5. m.role \in {"user", "assistant"}
    BY <1>3 DEF Said
  <2> QED BY <1>6, <2>2, <2>3, <2>4, <2>5
<1>11. ASSUME NEW i \in 1 .. Len(more), more[i].role = "assistant"
       PROVE  i > 1 /\ more[i - 1] = Agent!User(more[i].n)
  <2>1. CASE i \in 1 .. Len(ms) /\ more[i] = ms[i]
    <3>1. i > 1 /\ ms[i - 1] = Agent!User(ms[i].n)
      BY <1>5, <1>11, <2>1 DEF InOrder
    <3>2. i - 1 \in 1 .. Len(ms)
      BY <1>1, <2>1, <3>1
    <3> QED BY <1>1, <2>1, <3>1, <3>2
  <2>2. CASE i = Len(ms) + 1 /\ more[i] = m
    <3>1. ms # <<>> /\ ms[Len(ms)] = Agent!User(next)
      BY <1>9, <1>11, <2>2
    <3>2. Len(ms) \in 1 .. Len(ms) /\ i - 1 = Len(ms) /\ i > 1
      BY <1>1, <2>2, <3>1, EmptySeq
    <3> QED BY <1>1, <1>3, <2>2, <3>1, <3>2
  <2> QED BY <1>6, <2>1, <2>2
<1> QED BY <1>8, <1>10, <1>11, Zenon DEF InOrder

---------------------------------------------------------------------------
(* The steps of the daemon.                                                *)

LEMMA AgentInit == Agent!Init => AgentInv
<1> SUFFICES ASSUME Agent!Init PROVE AgentInv
  OBVIOUS
<1>0. <<>> \in Seq(Conversed) /\ <<>> \in Seq(Said) /\ Len(<<>>) = 0
  BY EmptySeq
<1>1. HostTypes
  <2>1. root \in Roots /\ turn \in Turns
    BY <1>0 DEF Agent!Init, Roots, Turns, Agent!DefaultRoot, Agent!NoTurn
  <2>2. sent \in [n : Nat, provider : RootProviders \cup {"unknown", "none"},
                 messages : Seq(Said)]
    BY <1>0 DEF Agent!Init
  <2>3. saved = Agent!NoSession /\ options = "unknown" /\ prompts = 0 /\ since = 0
    BY DEF Agent!Init
  <2>4. named \in BOOLEAN
    BY Zenon DEF Agent!Init
  <2>5. prompts \in Nat /\ since \in Nat /\ since <= prompts
    BY <2>3
  <2>6. options \in RootProviders \cup {"unknown"}
    BY <2>3
  <2> QED BY <2>1, <2>2, <2>3, <2>4, <2>5, <2>6, Zenon DEF HostTypes
<1>2. Told(root.messages, since, prompts) /\ host = "down" /\ saved = Agent!NoSession
  BY NothingIsTold DEF Agent!Init, Agent!DefaultRoot
<1>3. sent.messages = <<>> /\ sent.n = 0 /\ prompts = 0 /\ since = 0
  BY DEF Agent!Init
<1>4. Carried(<<>>, 0, sent.provider, 0)
  BY <1>0 DEF Carried
<1>5. RequestsCarryTheSession
  BY <1>0, <1>3, <1>4, CarriedIsTheProperty
<1> QED BY <1>1, <1>2, <1>3, <1>5 DEF AgentInv

(* Steps that ask nothing keep what was asked, unless it is cleared.       *)
LEMMA SentStays ==
  ASSUME AgentInv, sent' = sent, since' = since
  PROVE  RequestsCarryTheSession'
  BY DEF AgentInv, RequestsCarryTheSession, Agent!RequestsCarryTheSession

LEMMA RootIsRehydrated ==
  ASSUME NEW r \in Roots
  PROVE  Agent!Rehydrated(r) \in Roots /\ Agent!Rehydrated(r).messages = r.messages
  BY DEF Agent!Rehydrated, Roots

LEMMA DefaultRootIs ==
  ASSUME NEW p \in RootProviders \cup {"unknown"}
  PROVE  Agent!DefaultRoot(p) \in Roots /\ Agent!DefaultRoot(p).messages = <<>>
  BY EmptySeq DEF Agent!DefaultRoot, Roots

LEMMA StartKeeps == AgentInv /\ Agent!Start => AgentInv'
<1> SUFFICES ASSUME AgentInv, Agent!Start PROVE AgentInv'
  OBVIOUS
<1>1. /\ HostTypes /\ host' = "accepts" /\ turn' = Agent!NoTurn
      /\ options' \in RootProviders /\ named' = TRUE
      /\ UNCHANGED <<prompts, since, sent>>
  BY DEF AgentInv, Agent!Start
<1>2. Agent!DefaultRoot(options') \in Roots /\ Agent!DefaultRoot(options').messages = <<>>
  BY <1>1, DefaultRootIs
<1>3. \A r \in Agent!Restorable : r \in Roots /\ Told(r.messages, since, prompts)
  <2>1. TAKE r \in Agent!Restorable
  <2>2. r = Agent!DefaultRoot(options') \/ (saved.kind # "none" /\ r = saved.root)
    <3>1. CASE saved.kind = "none"
      BY <3>1 DEF Agent!Restorable
    <3>2. CASE saved.kind # "none"
      BY <3>2, Zenon DEF Agent!Restorable
    <3> QED BY <3>1, <3>2
  <2>3. CASE r = Agent!DefaultRoot(options')
    BY <1>2, <2>3, NothingIsTold
  <2>4. CASE saved.kind # "none" /\ r = saved.root
    BY <1>1, <2>4 DEF HostTypes, AgentInv, Agent!NoSession
  <2> QED BY <2>2, <2>3, <2>4
<1>4. PICK r \in Roots : root' = Agent!Rehydrated(r) /\ Told(r.messages, since, prompts)
  BY <1>2, <1>3, NothingIsTold DEF Agent!Start
<1>5. root' \in Roots /\ Told(root'.messages, since, prompts)
  BY <1>4, RootIsRehydrated
<1>6. saved' = saved \/ saved' = Agent!NoSession
  BY DEF Agent!Start
<1>7. HostTypes'
  BY <1>1, <1>5, <1>6 DEF HostTypes, Turns, Agent!NoTurn
<1>8. (saved # Agent!NoSession => Told(saved.root.messages, since, prompts))'
  BY <1>1, <1>6 DEF AgentInv
<1>9. (sent.n <= prompts)' /\ host' \notin {"asks", "applies"}
  BY <1>1 DEF AgentInv
<1> QED BY <1>1, <1>5, <1>7, <1>8, <1>9, SentStays DEF AgentInv

(* What leaves the conversations alone.                                    *)
LEMMA EndsKeeps ==
  ASSUME AgentInv, NEW b \in BOOLEAN, Agent!Ends(b)
  PROVE  AgentInv'
<1>1. /\ HostTypes /\ host' = "down" /\ turn' = Agent!NoTurn
      /\ UNCHANGED <<root, named, options, prompts, since, sent>>
      /\ Told(root.messages, since, prompts) /\ root \in Roots
  BY DEF AgentInv, Agent!Ends, HostTypes
<1>2. \/ saved' = saved
      \/ saved.kind = "saved" /\ saved' = [saved EXCEPT !.root = root]
      \/ saved.kind = "saved" /\ saved' = [saved EXCEPT !.whole = FALSE]
  BY DEF Agent!Ends
<1>3. saved.kind = "saved" =>
        /\ saved # Agent!NoSession
        /\ saved \in [kind : {"saved"}, root : Roots, turn : Turns, whole : BOOLEAN]
        /\ Told(saved.root.messages, since, prompts)
  BY <1>1 DEF AgentInv, HostTypes, Agent!NoSession
<1>4. /\ saved' \in {Agent!NoSession}
              \cup [kind : {"saved"}, root : Roots, turn : Turns, whole : BOOLEAN]
      /\ saved' # Agent!NoSession => Told(saved'.root.messages, since, prompts)
  <2>1. CASE saved' = saved
    BY <1>1, <2>1 DEF AgentInv, HostTypes
  <2>2. CASE saved.kind = "saved" /\ saved' = [saved EXCEPT !.root = root]
    BY <1>1, <1>3, <2>2
  <2>3. CASE saved.kind = "saved" /\ saved' = [saved EXCEPT !.whole = FALSE]
    BY <1>1, <1>3, <2>3
  <2> QED BY <1>2, <2>1, <2>2, <2>3
<1>5. HostTypes'
  BY <1>1, <1>4 DEF HostTypes, Turns, Agent!NoTurn
<1>6. sent'.n <= prompts' /\ host' \notin {"asks", "applies"}
  BY <1>1 DEF AgentInv
<1>7. Told(root.messages, since, prompts)'
  BY <1>1
<1> QED BY <1>1, <1>4, <1>5, <1>6, <1>7, SentStays DEF AgentInv

LEMMA ResetKeeps == AgentInv /\ (Agent!Reset \/ Agent!ResetEnds) => AgentInv'
<1>1. ASSUME AgentInv, Agent!Reset PROVE AgentInv'
  <2>1. /\ HostTypes /\ host' = "resets" /\ saved' = Agent!NoSession
        /\ root' = Agent!DefaultRoot(options) /\ since' = prompts /\ named' = FALSE
        /\ UNCHANGED <<turn, options, prompts, sent>>
    BY <1>1 DEF AgentInv, Agent!Reset, Agent!At, Agent!Cleared
  <2>2. root' \in Roots /\ root'.messages = <<>>
    BY <2>1, DefaultRootIs DEF HostTypes
  <2>3. Told(root.messages, since, prompts)'
    BY <2>2, NothingIsTold
  <2>4. HostTypes'
    <3>1. prompts \in Nat /\ prompts <= prompts
      BY <2>1 DEF HostTypes
    <3>0. named' \in BOOLEAN
      BY <2>1, Zenon
    <3>2. saved' \in {Agent!NoSession}
             \cup [kind : {"saved"}, root : Roots, turn : Turns, whole : BOOLEAN]
      BY <2>1
    <3>3. options' \in RootProviders \cup {"unknown"} /\ turn' \in Turns
      BY <2>1 DEF HostTypes
    <3>4. prompts' \in Nat /\ since' \in Nat /\ since' <= prompts'
      BY <2>1, <3>1
    <3>5. sent' \in [n : Nat, provider : RootProviders \cup {"unknown", "none"},
                    messages : Seq(Said)]
      BY <2>1 DEF HostTypes
    <3> QED BY <2>2, <3>0, <3>2, <3>3, <3>4, <3>5, Zenon DEF HostTypes
  <2>5. sent'.n <= prompts' /\ host' \notin {"asks", "applies"}
    BY <1>1, <2>1 DEF AgentInv
  <2>6. Carried(sent.messages, sent.n, sent.provider, since)
    BY <1>1, <2>1, CarriedIsTheProperty DEF AgentInv, HostTypes
  <2>7. ~ (sent.n > since')
    BY <2>1, <1>1 DEF AgentInv, HostTypes
  <2>8. Carried(sent.messages, sent.n, sent.provider, since')
    BY <2>6, <2>7, Zenon DEF Carried
  <2>9. RequestsCarryTheSession'
    <3>1. sent'.messages \in Seq(Said)
      BY <2>1 DEF HostTypes
    <3> QED BY <2>1, <2>8, <3>1, CarriedNext
  <2> QED BY <2>1, <2>3, <2>4, <2>5, <2>9 DEF AgentInv
<1>2. ASSUME AgentInv, Agent!ResetEnds PROVE AgentInv'
  <2>1. /\ HostTypes /\ host' = "reads" /\ saved' = Agent!NoSession
        /\ root' = Agent!Rehydrated(root)
        /\ UNCHANGED <<turn, named, options, prompts, since, sent>>
    BY <1>2 DEF AgentInv, Agent!ResetEnds, Agent!At, Agent!Cleared
  <2>2. root' \in Roots /\ root'.messages = root.messages
    BY <2>1, RootIsRehydrated DEF HostTypes
  <2>3. Told(root.messages, since, prompts)'
    BY <1>2, <2>1, <2>2 DEF AgentInv
  <2>4. HostTypes'
    BY <2>1, <2>2 DEF HostTypes
  <2>5. sent'.n <= prompts' /\ host' \notin {"asks", "applies"}
    BY <1>2, <2>1 DEF AgentInv
  <2> QED BY <1>2, <2>1, <2>3, <2>4, <2>5, SentStays DEF AgentInv
<1> QED BY <1>1, <1>2

LEMMA WaitingKeeps ==
  AgentInv /\ (Agent!Attach \/ Agent!Detach \/ Agent!Throw \/ UNCHANGED Agent!hostVars)
    => AgentInv'
<1> SUFFICES ASSUME AgentInv,
                    Agent!Attach \/ Agent!Detach \/ Agent!Throw \/ UNCHANGED Agent!hostVars
             PROVE  AgentInv'
  OBVIOUS
<1>1. /\ host' \notin {"asks", "applies"} \/ (host' = host /\ turn' = turn)
      /\ turn' \in {turn, Agent!NoTurn}
      /\ UNCHANGED <<root, saved, named, options, prompts, since, sent>>
  BY DEF Agent!Attach, Agent!Detach, Agent!Throw, Agent!At, Agent!hostVars
<1>2. HostTypes'
  BY <1>1 DEF AgentInv, HostTypes, Turns, Agent!NoTurn
<1>3. Told(root.messages, since, prompts)' /\ (sent.n <= prompts)'
  BY <1>1 DEF AgentInv
<1>4. (saved # Agent!NoSession => Told(saved.root.messages, since, prompts))'
  BY <1>1 DEF AgentInv
<1>5. (host \in {"asks", "applies"} =>
         LET ms == root.messages
         IN ms # <<>> /\ ms[Len(ms)] = Agent!User(prompts) /\ turn.prompt = prompts
            /\ since < prompts)'
  BY <1>1 DEF AgentInv
<1> QED BY <1>1, <1>2, <1>3, <1>4, <1>5, SentStays DEF AgentInv

LEMMA StageKeeps == AgentInv /\ Agent!Stage => AgentInv'
<1> SUFFICES ASSUME AgentInv, Agent!Stage PROVE AgentInv'
  OBVIOUS
<1> DEFINE ms == root.messages
           next == prompts + 1
<1>1. /\ HostTypes /\ host' = "asks" /\ prompts' = next
      /\ turn' = [Agent!NoTurn EXCEPT !.prompt = next]
      /\ root' = [root EXCEPT !.messages = Append(@, Agent!User(next))]
      /\ UNCHANGED <<saved, named, options, since, sent>>
  BY DEF AgentInv, Agent!Stage, Agent!At
<1>2. /\ Told(ms, since, prompts) /\ ms \in Seq(Conversed)
      /\ prompts \in Nat /\ since \in Nat /\ since <= prompts /\ next \in Nat
      /\ since < next /\ prompts < next /\ prompts <= next
  BY <1>1 DEF AgentInv, HostTypes, Roots
<1>3. /\ Agent!User(next) \in Conversed /\ Agent!User(next) \in Said
      /\ Agent!User(next).n = next /\ Agent!User(next).role = "user"
  BY <1>2 DEF Conversed, Said, Agent!User
<1>4. Told(Append(ms, Agent!User(next)), since, next)
  BY <1>2, <1>3, MoreIsTold
<1>5. root' \in Roots /\ root'.messages = Append(ms, Agent!User(next))
  BY <1>1, <1>2, <1>3, AppendProperties DEF HostTypes, Roots
<1>6. /\ root'.messages # <<>>
      /\ root'.messages[Len(root'.messages)] = Agent!User(next)
  BY <1>2, <1>3, <1>5, AppendProperties
<1>7. turn' \in Turns /\ turn'.prompt = next
  BY <1>1, <1>2 DEF Turns, Agent!NoTurn
<1>8. HostTypes'
  BY <1>1, <1>2, <1>5, <1>7 DEF HostTypes
<1>9. (saved # Agent!NoSession => Told(saved.root.messages, since, prompts))'
  BY <1>1, <1>2, StaysTold DEF AgentInv
<1>10. sent'.n <= prompts'
  BY <1>1, <1>2 DEF AgentInv, HostTypes
<1>11. Told(root.messages, since, prompts)'
  BY <1>1, <1>4, <1>5
<1> QED BY <1>1, <1>2, <1>6, <1>7, <1>8, <1>9, <1>10, <1>11, SentStays DEF AgentInv

LEMMA AskKeeps == AgentInv /\ Agent!Ask => AgentInv'
<1> SUFFICES ASSUME AgentInv, Agent!Ask PROVE AgentInv'
  OBVIOUS
<1> DEFINE ms == root.messages
<1>1. /\ HostTypes /\ host = "asks" /\ host' = "applies"
      /\ UNCHANGED <<root, saved, named, options, prompts, since>>
  BY DEF AgentInv, Agent!Ask, Agent!At
<1>2. turn' \in Turns /\ turn'.prompt = turn.prompt
  BY <1>1 DEF Agent!Ask, Agent!Respond, HostTypes, Turns
<1>3. /\ Told(ms, since, prompts) /\ ms \in Seq(Conversed) /\ ms # <<>>
      /\ ms[Len(ms)] = Agent!User(prompts) /\ turn.prompt = prompts
      /\ since \in Nat /\ prompts \in Nat /\ since < prompts
      /\ root.contract \in RootProviders \cup {"unknown", "none"}
  BY <1>1 DEF AgentInv, HostTypes, Roots
<1>4. /\ sent' \in [n : Nat, provider : RootProviders \cup {"unknown", "none"},
                   messages : Seq(Said)]
      /\ sent'.n <= prompts
      /\ RequestsCarryTheSession'
  <2>1. CASE sent' = sent
    BY <1>1, <2>1, SentStays DEF AgentInv, HostTypes
  <2>2. CASE /\ Agent!Readable(ms)
             /\ sent' = [n |-> prompts, provider |-> root.contract,
                        messages |-> Agent!Payload(root.contract, ms)]
    <3>1. \A i \in 1 .. Len(ms) : ms[i] # Agent!NullText
      <4>1. DOMAIN ms = 1 .. Len(ms)
        BY <1>3, LenProperties
      <4> HIDE DEF ms
      <4> QED BY <2>2, <4>1, Zenon DEF Agent!Readable, Agent!Range
    <3>2. InOrder(ms, since, prompts)
      BY <1>3, <3>1 DEF Told
    <3>3. /\ Agent!Payload(root.contract, ms) \in Seq(Said)
          /\ Carried(Agent!Payload(root.contract, ms), prompts, root.contract, since)
      BY <1>3, <3>2, PayloadIsCarried
    <3>4. /\ sent'.messages = Agent!Payload(root.contract, ms)
          /\ sent'.n = prompts /\ sent'.provider = root.contract
      BY <2>2
    <3>5. sent' \in [n : Nat, provider : RootProviders \cup {"unknown", "none"},
                    messages : Seq(Said)]
      BY <1>3, <2>2, <3>3
    <3>6. RequestsCarryTheSession'
      BY <1>1, <3>3, <3>4, CarriedNext
    <3> QED BY <1>3, <3>4, <3>5, <3>6
  <2> QED BY <1>3, <2>1, <2>2 DEF Agent!Ask
<1>5. HostTypes'
  BY <1>1, <1>2, <1>4 DEF HostTypes
<1>6. (saved # Agent!NoSession => Told(saved.root.messages, since, prompts))'
  BY <1>1 DEF AgentInv
<1>7. Told(root.messages, since, prompts)'
  BY <1>1, <1>3
<1>8. (host \in {"asks", "applies"} =>
         LET m == root.messages
         IN m # <<>> /\ m[Len(m)] = Agent!User(prompts) /\ turn.prompt = prompts
            /\ since < prompts)'
  BY <1>1, <1>2, <1>3
<1> QED BY <1>1, <1>4, <1>5, <1>6, <1>7, <1>8 DEF AgentInv

LEMMA ApplyKeeps == AgentInv /\ Agent!Apply => AgentInv'
<1> SUFFICES ASSUME AgentInv, Agent!Apply PROVE AgentInv'
  OBVIOUS
<1> DEFINE ms == root.messages
<1>1. /\ HostTypes /\ host = "applies" /\ host' = "saves"
      /\ UNCHANGED <<saved, named, options, prompts, since, sent>>
  BY DEF AgentInv, Agent!Apply, Agent!At
<1>2. turn' \in Turns
  BY <1>1 DEF Agent!Apply, Agent!ReplyText, HostTypes, Turns
<1>3. /\ Told(ms, since, prompts) /\ ms \in Seq(Conversed) /\ ms # <<>>
      /\ ms[Len(ms)] = Agent!User(prompts) /\ turn.prompt = prompts
      /\ since \in Nat /\ prompts \in Nat /\ since < prompts /\ prompts <= prompts
      /\ root \in Roots
  BY <1>1 DEF AgentInv, HostTypes, Roots
<1>4. PICK m \in {Agent!Assistant(prompts), Agent!NullText} :
        root' = [root EXCEPT !.messages = Append(@, m)]
  BY <1>3 DEF Agent!Apply, Agent!Joined
<1>5. /\ m \in Conversed
      /\ m # Agent!NullText =>
           /\ m \in Said /\ m.n = prompts
           /\ \/ m.role = "user" /\ prompts < prompts
              \/ /\ m.role = "assistant" /\ prompts = prompts
                 /\ ms # <<>> /\ ms[Len(ms)] = Agent!User(prompts)
  BY <1>3, <1>4 DEF Conversed, Said, Agent!Assistant
<1>6. Told(Append(ms, m), since, prompts)
  BY <1>3, <1>5, MoreIsTold
<1>7. root' \in Roots /\ root'.messages = Append(ms, m)
  BY <1>3, <1>4, <1>5, AppendProperties DEF Roots
<1>8. HostTypes'
  BY <1>1, <1>2, <1>7 DEF HostTypes
<1>9. (saved # Agent!NoSession => Told(saved.root.messages, since, prompts))'
  BY <1>1 DEF AgentInv
<1>10. Told(root.messages, since, prompts)' /\ (sent.n <= prompts)'
  BY <1>1, <1>6, <1>7 DEF AgentInv
<1> QED BY <1>1, <1>8, <1>9, <1>10, SentStays DEF AgentInv

LEMMA SaveKeeps == AgentInv /\ Agent!Save => AgentInv'
<1> SUFFICES ASSUME AgentInv, Agent!Save PROVE AgentInv'
  OBVIOUS
<1>1. /\ HostTypes /\ host' = "reads" /\ Told(root.messages, since, prompts)
      /\ UNCHANGED <<root, turn, named, options, prompts, since, sent>>
      /\ saved' = saved \/ saved' = Agent!Saved
  BY DEF AgentInv, Agent!Save, Agent!At
<1>2. CASE saved' = saved
  <2>1. HostTypes' /\ Told(root.messages, since, prompts)' /\ (sent.n <= prompts)'
    BY <1>1, <1>2 DEF HostTypes, AgentInv
  <2>2. (saved # Agent!NoSession => Told(saved.root.messages, since, prompts))'
    BY <1>1, <1>2 DEF AgentInv
  <2> QED BY <1>1, <2>1, <2>2, SentStays DEF AgentInv
<1>3. CASE saved' = Agent!Saved
  <2>1. /\ saved' = [kind |-> "saved", root |-> root, turn |-> turn, whole |-> named]
        /\ saved'.root = root
    BY <1>3 DEF Agent!Saved
  <2>2. HostTypes'
    BY <1>1, <2>1 DEF HostTypes
  <2>3. (saved # Agent!NoSession => Told(saved.root.messages, since, prompts))'
    BY <1>1, <2>1
  <2>4. Told(root.messages, since, prompts)' /\ (sent.n <= prompts)'
    BY <1>1 DEF AgentInv
  <2> QED BY <1>1, <2>2, <2>3, <2>4, SentStays DEF AgentInv
<1> QED BY <1>1, <1>2, <1>3

---------------------------------------------------------------------------
(***************************************************************************)
(* Whatever providers the daemon knows and however many prompts it is      *)
(* given, through restarts, crashes, failed turns and resets, a request    *)
(* has the conversation since the last reset: prompts in the order they    *)
(* were typed, a reply right after its prompt, the prompt of the turn      *)
(* last (agentc_stateful_loop.edict, runtime.cpp).                         *)
(***************************************************************************)
THEOREM RequestsAreTheSession == Agent!Spec => []RequestsCarryTheSession
<1>1. Agent!Init => AgentInv
  BY AgentInit
<1>2. AgentInv /\ [Agent!Next]_(Agent!hostVars) => AgentInv'
  <2> SUFFICES ASSUME AgentInv, [Agent!Next]_(Agent!hostVars) PROVE AgentInv'
    OBVIOUS
  <2>1. CASE Agent!Start
    BY <2>1, StartKeeps
  <2>2. CASE Agent!Crash \/ Agent!Shutdown
    BY <2>2, EndsKeeps DEF Agent!Crash, Agent!Shutdown
  <2>3. CASE Agent!Attach \/ Agent!Detach \/ Agent!Throw \/ UNCHANGED Agent!hostVars
    BY <2>3, WaitingKeeps
  <2>4. CASE Agent!Reset \/ Agent!ResetEnds
    BY <2>4, ResetKeeps
  <2>5. CASE Agent!Stage
    BY <2>5, StageKeeps
  <2>6. CASE Agent!Ask
    BY <2>6, AskKeeps
  <2>7. CASE Agent!Apply
    BY <2>7, ApplyKeeps
  <2>8. CASE Agent!Save
    BY <2>8, SaveKeeps
  <2> QED BY <2>1, <2>2, <2>3, <2>4, <2>5, <2>6, <2>7, <2>8 DEF Agent!Next
<1>3. AgentInv => RequestsCarryTheSession
  BY DEF AgentInv
<1> QED BY <1>1, <1>2, <1>3, PTL DEF Agent!Spec, Agent!hostVars, hostVars,
        RequestsCarryTheSession

---------------------------------------------------------------------------
(* The hub: its state.                                                     *)

Quotes == [kind : {"quote"}, entity : Entities, value : Values, at : Nat,
           sequence : Nat \ {0}]
Samples == [bucket : Int, value : Values, sequence : Nat, at : Nat]
PriceMoves == [kind : {"price_move"}, from : Samples, to : Samples, sequence : Nat]
StaleQuotes == [kind : {"stale_quote"}, of : Quotes, when : Nat, sequence : Nat]
Highlights == PriceMoves \cup StaleQuotes
Events == Quotes \cup Highlights

HubTypes ==
  /\ clock \in Nat /\ sequence \in Nat
  /\ latest \in [Entities -> {Hub!None} \cup Quotes]
  /\ history \in [Entities -> Seq(Samples)]
  /\ flagged \in [Entities -> Nat]
  /\ highlights \in [Threads -> Seq(Highlights)]
  /\ feed \in Seq(Nat)
  /\ log \in Seq(Events) /\ Len(log) = sequence

IsStale(h) == h.kind = "stale_quote"

(* A stale quote that has a highlight is the latest of its entity, and so  *)
(* flagged, for as long as none is published after it.                     *)
Noted(h, at, last, flags) ==
  LET q == h.of
      e == q.entity
  IN \/ last[e] = q /\ flags[e] = q.sequence /\ at - q.at > Freshness
     \/ last[e].sequence > q.sequence

LatestHasItsNumber ==
  \A e \in Entities :
    /\ latest[e].sequence <= sequence
    /\ latest[e] # Hub!None => latest[e].entity = e

StaleIsNoted ==
  /\ \A i \in 1 .. Len(log) : IsStale(log[i]) => Noted(log[i], clock, latest, flagged)
  /\ \A t \in Threads : \A k \in 1 .. Len(highlights[t]) :
       IsStale(highlights[t][k]) => Noted(highlights[t][k], clock, latest, flagged)

(* No quote has two highlights, published or not.                          *)
OnceInLog ==
  \A i, j \in 1 .. Len(log) :
    (IsStale(log[i]) /\ IsStale(log[j]) /\ log[i].of = log[j].of) => i = j
OnceInAll ==
  \A i \in 1 .. Len(log) : \A t \in Threads : \A k \in 1 .. Len(highlights[t]) :
    (IsStale(log[i]) /\ IsStale(highlights[t][k])) => log[i].of # highlights[t][k].of
OnceInHand ==
  \A t, u \in Threads :
    \A k \in 1 .. Len(highlights[t]) : \A l \in 1 .. Len(highlights[u]) :
      (IsStale(highlights[t][k]) /\ IsStale(highlights[u][l])
        /\ highlights[t][k].of = highlights[u][l].of) => t = u /\ k = l

FeedInOrder ==
  /\ \A i \in 1 .. Len(feed) : feed[i] <= sequence
  /\ \A i, j \in 1 .. Len(feed) : i < j => feed[i] < feed[j]

HubInv == /\ HubTypes /\ LatestHasItsNumber /\ StaleIsNoted
          /\ OnceInLog /\ OnceInAll /\ OnceInHand /\ FeedInOrder

(* With quotes that come in the order they were observed: what is recorded *)
(* and published is in the order of time.                                  *)
LogInTime ==
  /\ \A i \in 1 .. Len(log) : log[i].kind = "quote" => log[i].at <= clock
  /\ \A i, j \in 1 .. Len(log) :
       (i < j /\ log[i].kind = "quote" /\ log[j].kind = "quote") => log[i].at <= log[j].at
LatestIsPublished ==
  \A e \in Entities :
    latest[e] # Hub!None => /\ latest[e].sequence \in 1 .. Len(log)
                            /\ log[latest[e].sequence] = latest[e]
InBucket(s) == s.bucket = (s.at \div Resolution) * Resolution
HistoryInTime ==
  \A e \in Entities :
    /\ \A i \in 1 .. Len(history[e]) : history[e][i].at <= clock /\ InBucket(history[e][i])
    /\ \A i, j \in 1 .. Len(history[e]) : i <= j => history[e][i].at <= history[e][j].at

(* A highlight is true.                                                    *)
Holds(h, past) ==
  /\ h.kind = "price_move" =>
       /\ h.to.at - h.from.at < Lookback + Resolution
       /\ h.from.at <= h.to.at
  /\ IsStale(h) =>
       /\ h.of.sequence \in 1 .. Len(past) /\ past[h.of.sequence] = h.of
       /\ h.when - h.of.at > Freshness
HighlightsHold ==
  /\ \A i \in 1 .. Len(log) : Holds(log[i], log)
  /\ \A t \in Threads : \A k \in 1 .. Len(highlights[t]) : Holds(highlights[t][k], log)

HubInTime == LogInTime /\ LatestIsPublished /\ HistoryInTime /\ HighlightsHold

---------------------------------------------------------------------------
(* Buckets and the ends of sequences.                                      *)

LEMMA BucketHolds ==
  ASSUME NEW R \in Nat \ {0}, NEW at \in Nat
  PROVE  /\ (at \div R) * R \in Int
         /\ (at \div R) * R <= at
         /\ at < (at \div R) * R + R
  OBVIOUS

(* What is kept of a sequence is its end.                                  *)
LEMMA EndOfSequence ==
  ASSUME NEW S, NEW s \in Seq(S), NEW n \in Nat \ {0}
  PROVE  /\ Hub!LastOf(s, n) \in Seq(S)
         /\ \E d \in Nat : \A i \in 1 .. Len(Hub!LastOf(s, n)) :
              i + d \in 1 .. Len(s) /\ Hub!LastOf(s, n)[i] = s[i + d]
<1> DEFINE m == IF Len(s) > n THEN Len(s) - n + 1 ELSE 1
           l == Len(s)
<1>1. l \in Nat /\ m \in Int /\ m >= 1
  BY LenProperties
<1>2. \A i \in m .. l : s[i] \in S
  BY <1>1, ElementOfSeq
<1>3. Hub!LastOf(s, n) = SubSeq(s, m, l)
  BY DEF Hub!LastOf
<1> HIDE DEF m, l
<1>4. /\ SubSeq(s, m, l) \in Seq(S)
      /\ Len(SubSeq(s, m, l)) = IF m <= l THEN l - m + 1 ELSE 0
      /\ \A i \in 1 .. l - m + 1 : SubSeq(s, m, l)[i] = s[m + i - 1]
  BY <1>1, <1>2, SubSeqProperties
<1>5. \A i \in 1 .. Len(SubSeq(s, m, l)) :
        i + (m - 1) \in 1 .. l /\ SubSeq(s, m, l)[i] = s[i + (m - 1)]
  <2>1. TAKE i \in 1 .. Len(SubSeq(s, m, l))
  <2>2. m <= l /\ i \in 1 .. l - m + 1 /\ i \in Nat
    BY <1>1, <1>4
  <2>3. m + i - 1 = i + (m - 1) /\ i + (m - 1) \in 1 .. l
    BY <1>1, <2>2
  <2> QED BY <1>4, <2>2, <2>3
<1>6. m - 1 \in Nat
  BY <1>1
<1> QED BY <1>3, <1>4, <1>5, <1>6 DEF l

(* A set as a sequence has each element once.                              *)
LEMMA SetAsSequence ==
  ASSUME NEW S, IsFiniteSet(S)
  PROVE  /\ DOMAIN Hub!SetToSeq(S) = 1 .. Cardinality(S) /\ Cardinality(S) \in Nat
         /\ \A i \in 1 .. Cardinality(S) : Hub!SetToSeq(S)[i] \in S
         /\ \A i, j \in 1 .. Cardinality(S) :
              Hub!SetToSeq(S)[i] = Hub!SetToSeq(S)[j] => i = j
<1>1. Cardinality(S) \in Nat /\ ExistsBijection(1 .. Cardinality(S), S)
  BY FS_CardinalityType
<1>2. PICK f \in [1 .. Cardinality(S) -> S] : IsInjective(f)
  BY <1>1, Zenon DEF ExistsBijection, Bijection, Injection
<1>3. Hub!SetToSeq(S) = CHOOSE g \in [1 .. Cardinality(S) -> S] : IsInjective(g)
  BY Zenon DEF Hub!SetToSeq, Hub!Cardinality, Cardinality, Hub!IsInjective, IsInjective
<1>4. Hub!SetToSeq(S) \in [1 .. Cardinality(S) -> S] /\ IsInjective(Hub!SetToSeq(S))
  BY <1>2, <1>3, Zenon
<1>5. DOMAIN Hub!SetToSeq(S) = 1 .. Cardinality(S)
  BY <1>4
<1>6. \A i \in 1 .. Cardinality(S) : Hub!SetToSeq(S)[i] \in S
  BY <1>4
<1>7. \A i, j \in 1 .. Cardinality(S) :
        Hub!SetToSeq(S)[i] = Hub!SetToSeq(S)[j] => i = j
  BY <1>4, <1>5, Zenon DEF IsInjective
<1> QED BY <1>1, <1>5, <1>6, <1>7

LEMMA ShapeOfHighlight ==
  ASSUME NEW h \in Highlights
  PROVE  /\ IsStale(h) => h \in StaleQuotes /\ h.of \in Quotes
         /\ ~ IsStale(h) => h \in PriceMoves
         /\ h.kind # "quote" /\ h \in Events
         /\ \A n \in Nat : LET g == [h EXCEPT !.sequence = n]
                           IN /\ g \in Highlights /\ g.sequence = n /\ g.kind = h.kind
                              /\ IsStale(h) => g.of = h.of /\ g.when = h.when
                              /\ ~ IsStale(h) => g.from = h.from /\ g.to = h.to
<1>1. CASE h \in StaleQuotes
  BY <1>1 DEF StaleQuotes, IsStale, Events, Highlights
<1>2. CASE h \in PriceMoves
  BY <1>2 DEF PriceMoves, IsStale, Events, Highlights
<1> QED BY <1>1, <1>2 DEF Highlights

LEMMA ShapeOfEvent ==
  ASSUME NEW e \in Events
  PROVE  /\ IsStale(e) => e \in Highlights
         /\ e.kind = "quote" => e \in Quotes /\ ~ IsStale(e)
         /\ e.kind # "quote" => e \in Highlights
  BY DEF Events, Highlights, Quotes, StaleQuotes, PriceMoves, IsStale

LEMMA ShapeOfQuote ==
  ASSUME NEW q \in Quotes
  PROVE  /\ q \in Events /\ q.kind = "quote" /\ q.entity \in Entities /\ q.at \in Nat
         /\ q.sequence \in Nat \ {0} /\ q # Hub!None /\ ~ IsStale(q) /\ q.value \in Values
  BY DEF Quotes, Events, IsStale, Hub!None

(* The samples in the window, and the move from the oldest of them.        *)
LEMMA MovesAre ==
  ASSUME NEW s \in Seq(Samples), s # <<>>
  PROVE  \/ Hub!Moves(s) = <<>>
         \/ \E i \in 1 .. Len(s) :
              /\ s[i].bucket >= s[Len(s)].bucket - Lookback
              /\ Hub!Moves(s) = <<[kind |-> "price_move", from |-> s[i], to |-> s[Len(s)],
                                   sequence |-> 0]>>
<1>1. Len(s) \in Nat /\ DOMAIN s = 1 .. Len(s) /\ Hub!Last(s) = s[Len(s)]
  BY LenProperties DEF Hub!Last
<1>2. CASE Hub!InWindow(s) = {}
  BY <1>2 DEF Hub!Moves
<1>3. CASE Hub!InWindow(s) # {}
  <2> DEFINE T == Hub!InWindow(s)
             i == CHOOSE i \in T : \A j \in T : i <= j
  <2>1. T \in SUBSET Nat /\ T # {}
    BY <1>1, <1>3 DEF Hub!InWindow
  <2>2. \E x \in T : \A y \in T : x <= y
    <3> HIDE DEF T
    <3> QED BY <2>1, LeastNumber
  <2>3. i \in T
    <3> HIDE DEF T
    <3> QED BY <2>2
  <2>4. i \in 1 .. Len(s) /\ s[i].bucket >= s[Len(s)].bucket - Lookback
    <3> HIDE DEF i
    <3> QED BY <1>1, <2>3 DEF Hub!InWindow
  <2>5. \/ Hub!Moves(s) = <<>>
        \/ Hub!Moves(s) = <<[kind |-> "price_move", from |-> s[i], to |-> s[Len(s)],
                             sequence |-> 0]>>
    BY <1>1, <1>3, Zenon DEF Hub!Moves
  <2> HIDE DEF i
  <2> QED BY <2>4, <2>5
<1> QED BY <1>2, <1>3

LEMMA RecordedIs ==
  ASSUME NEW s \in Seq(Samples), NEW q \in Quotes, Hub!HubAssumption
  PROVE  /\ Hub!Sample(q) \in Samples
         /\ Hub!Recorded(s, q) \in Seq(Samples) /\ Hub!Recorded(s, q) # <<>>
         /\ \E d \in Nat : \A i \in 1 .. Len(Hub!Recorded(s, q)) :
              \/ i + d \in 1 .. Len(s) /\ Hub!Recorded(s, q)[i] = s[i + d]
              \/ i = Len(Hub!Recorded(s, q)) /\ Hub!Recorded(s, q)[i] = Hub!Sample(q)
<1> DEFINE z == Hub!Sample(q)
           r == Hub!Recorded(s, q)
<1>1. z \in Samples /\ z.bucket = (q.at \div Resolution) * Resolution
  <2>1. Hub!Bucket(q) = (q.at \div Resolution) * Resolution /\ Hub!Bucket(q) \in Int
    BY ShapeOfQuote, BucketHolds DEF Hub!Bucket, Hub!HubAssumption
  <2> QED BY <2>1, ShapeOfQuote DEF Hub!Sample, Samples
<1>2. Len(s) \in Nat
  BY LenProperties
<1>3. CASE s # <<>> /\ Hub!Last(s).bucket = Hub!Bucket(q)
  <2>1. Len(s) \in 1 .. Len(s)
    BY <1>2, <1>3, EmptySeq
  <2>2. r = [s EXCEPT ![Len(s)] = z]
    BY <1>3 DEF Hub!Recorded
  <2> HIDE DEF r, z
  <2>3. /\ r \in Seq(Samples) /\ Len(r) = Len(s)
        /\ \A j \in 1 .. Len(s) : r[j] = IF j = Len(s) THEN z ELSE s[j]
    BY <1>1, <2>1, <2>2, ExceptSeq
  <2>4. \A i \in 1 .. Len(r) :
          \/ i + 0 \in 1 .. Len(s) /\ r[i] = s[i + 0]
          \/ i = Len(r) /\ r[i] = z
    BY <1>2, <2>3
  <2>5. r # <<>>
    BY <2>1, <2>3, EmptySeq
  <2> QED BY <1>1, <2>3, <2>4, <2>5 DEF r, z
<1>4. CASE ~ (s # <<>> /\ Hub!Last(s).bucket = Hub!Bucket(q))
  <2> DEFINE a == Append(s, z)
  <2>1. r = Hub!LastOf(a, MaxSamples)
    BY <1>4 DEF Hub!Recorded
  <2>2. MaxSamples \in Nat \ {0}
    BY DEF Hub!HubAssumption
  <2> HIDE DEF z, r
  <2>3. /\ a \in Seq(Samples) /\ Len(a) = Len(s) + 1
        /\ \A i \in 1 .. Len(s) : a[i] = s[i]
        /\ a[Len(s) + 1] = z
    BY <1>1, AppendProperties
  <2> HIDE DEF a
  <2>4. /\ r \in Seq(Samples)
        /\ \E d \in Nat : \A i \in 1 .. Len(r) : i + d \in 1 .. Len(a) /\ r[i] = a[i + d]
    <3>1. /\ Hub!LastOf(a, MaxSamples) \in Seq(Samples)
          /\ \E d \in Nat : \A i \in 1 .. Len(Hub!LastOf(a, MaxSamples)) :
               i + d \in 1 .. Len(a) /\ Hub!LastOf(a, MaxSamples)[i] = a[i + d]
      <4>1. a \in Seq(Samples)
        BY <2>3
      <4> QED BY ONLY <2>2, <4>1, EndOfSequence, Zenon
    <3> QED BY <2>1, <3>1
  <2>5. Len(r) = IF Len(a) > MaxSamples THEN MaxSamples ELSE Len(a)
    <3> DEFINE m == IF Len(a) > MaxSamples THEN Len(a) - MaxSamples + 1 ELSE 1
    <3>1. m \in Int /\ m >= 1 /\ Len(a) \in Nat /\ Len(a) > 0
      BY <1>2, <2>2, <2>3
    <3>2. \A i \in m .. Len(a) : a[i] \in Samples
      BY <2>3, <3>1, ElementOfSeq
    <3>3. r = SubSeq(a, m, Len(a))
      BY <2>1 DEF Hub!LastOf
    <3>4. m <= Len(a) /\ Len(a) - m + 1 = (IF Len(a) > MaxSamples THEN MaxSamples ELSE Len(a))
      BY <2>2, <3>1
    <3> HIDE DEF m
    <3>5. Len(r) = IF m <= Len(a) THEN Len(a) - m + 1 ELSE 0
      BY <2>3, <3>1, <3>2, <3>3, SubSeqProperties
    <3> QED BY <3>4, <3>5
  <2>6. PICK d \in Nat : \A i \in 1 .. Len(r) : i + d \in 1 .. Len(a) /\ r[i] = a[i + d]
    BY <2>4
  <2>7. Len(r) \in Nat /\ Len(r) > 0 /\ r # <<>>
    BY <1>2, <2>2, <2>3, <2>5, EmptySeq
  <2>8. \A i \in 1 .. Len(r) :
          \/ i + d \in 1 .. Len(s) /\ r[i] = s[i + d]
          \/ i = Len(r) /\ r[i] = z
    <3>1. TAKE i \in 1 .. Len(r)
    <3>2. i + d \in 1 .. Len(a) /\ r[i] = a[i + d] /\ Len(r) + d \in 1 .. Len(a)
      BY <2>6, <2>7
    <3>3. CASE i + d \in 1 .. Len(s)
      <4>1. a[i + d] = s[i + d]
        BY <2>3, <3>3
      <4> QED BY <3>2, <3>3, <4>1
    <3>4. CASE i + d = Len(s) + 1
      <4>1. i = Len(r)
        BY <1>2, <2>3, <2>7, <3>2, <3>4
      <4> QED BY <2>3, <3>2, <3>4, <4>1
    <3> QED BY <1>2, <2>3, <3>2, <3>3, <3>4
  <2> QED BY <1>1, <2>4, <2>7, <2>8 DEF r, z
<1> QED BY <1>3, <1>4

---------------------------------------------------------------------------
(* An event gets its number.                                               *)

LEMMA DispatchKeeps ==
  ASSUME HubTypes, FeedInOrder, Hub!HubAssumption,
         NEW e \in Events, e.sequence = sequence + 1, Hub!Dispatch(e)
  PROVE  /\ sequence' = sequence + 1 /\ sequence' \in Nat
         /\ log' \in Seq(Events) /\ Len(log') = sequence'
         /\ \A i \in 1 .. Len(log) : log'[i] = log[i]
         /\ log'[sequence + 1] = e
         /\ \A i \in 1 .. Len(log') : i \in 1 .. Len(log) \/ i = sequence + 1
         /\ feed' \in Seq(Nat) /\ FeedInOrder'
<1>1. /\ sequence \in Nat /\ feed \in Seq(Nat) /\ log \in Seq(Events) /\ Len(log) = sequence
      /\ sequence' = sequence + 1 /\ log' = Append(log, e)
  BY DEF HubTypes, Hub!Dispatch
<1>2. /\ log' \in Seq(Events) /\ Len(log') = sequence + 1
      /\ \A i \in 1 .. Len(log) : log'[i] = log[i]
      /\ log'[sequence + 1] = e
  BY <1>1, AppendProperties
<1>3. feed' \in Seq(Nat) /\ FeedInOrder'
  <2>1. CASE feed' = feed
    BY <1>1, <2>1 DEF FeedInOrder
  <2>2. CASE feed' = Hub!LastOf(Append(feed, sequence + 1), FeedSize)
    <3> DEFINE a == Append(feed, sequence + 1)
    <3>1. /\ a \in Seq(Nat) /\ Len(a) = Len(feed) + 1 /\ Len(feed) \in Nat
          /\ \A i \in 1 .. Len(feed) : a[i] = feed[i]
          /\ a[Len(feed) + 1] = sequence + 1
      BY <1>1, AppendProperties, LenProperties
    <3> HIDE DEF a
    <3>2. \A i \in 1 .. Len(feed) : feed[i] \in Nat /\ feed[i] <= sequence
      BY <1>1, ElementOfSeq DEF FeedInOrder
    <3>3. \A i \in 1 .. Len(a) : a[i] <= sequence + 1
      <4>1. TAKE i \in 1 .. Len(a)
      <4>2. i \in 1 .. Len(feed) \/ i = Len(feed) + 1
        BY <3>1
      <4> QED BY <1>1, <3>1, <3>2, <4>2
    <3>4. \A i, j \in 1 .. Len(a) : i < j => a[i] < a[j]
      <4>1. TAKE i, j \in 1 .. Len(a)
      <4>2. HAVE i < j
      <4>3. i \in 1 .. Len(feed) /\ (j \in 1 .. Len(feed) \/ j = Len(feed) + 1)
        BY <3>1, <4>2
      <4>4. j \in 1 .. Len(feed) => feed[i] < feed[j]
        BY <4>2, <4>3 DEF FeedInOrder
      <4> QED BY <1>1, <3>1, <3>2, <4>3, <4>4
    <3>5. FeedSize \in Nat \ {0}
      BY DEF Hub!HubAssumption
    <3>6. /\ feed' \in Seq(Nat)
          /\ \E d \in Nat : \A i \in 1 .. Len(feed') : i + d \in 1 .. Len(a) /\ feed'[i] = a[i + d]
      <4>1. /\ Hub!LastOf(a, FeedSize) \in Seq(Nat)
            /\ \E d \in Nat : \A i \in 1 .. Len(Hub!LastOf(a, FeedSize)) :
                 i + d \in 1 .. Len(a) /\ Hub!LastOf(a, FeedSize)[i] = a[i + d]
        BY ONLY <3>1, <3>5, EndOfSequence, Zenon
      <4>2. feed' = Hub!LastOf(a, FeedSize)
        BY <2>2 DEF a
      <4> QED BY <4>1, <4>2
    <3>7. PICK d \in Nat : \A i \in 1 .. Len(feed') :
                             i + d \in 1 .. Len(a) /\ feed'[i] = a[i + d]
      BY <3>6
    <3>8. \A i \in 1 .. Len(feed') : feed'[i] <= sequence'
      BY <1>1, <3>3, <3>7
    <3>9. \A i, j \in 1 .. Len(feed') : i < j => feed'[i] < feed'[j]
      <4>1. TAKE i, j \in 1 .. Len(feed')
      <4>2. HAVE i < j
      <4>3. i + d < j + d
        BY <4>2
      <4> QED BY <3>4, <3>7, <4>3
    <3> QED BY <3>6, <3>8, <3>9 DEF FeedInOrder
  <2>3. feed' = feed \/ feed' = Hub!LastOf(Append(feed, sequence + 1), FeedSize)
    BY DEF Hub!Dispatch
  <2> QED BY <2>1, <2>2, <2>3
<1>4. \A i \in 1 .. Len(log') : i \in 1 .. Len(log) \/ i = sequence + 1
  BY <1>1, <1>2
<1> QED BY <1>1, <1>2, <1>3, <1>4

---------------------------------------------------------------------------
(* The steps of the hub.                                                   *)

LEMMA HubInit == Hub!Init => HubInv /\ HubInTime
<1> SUFFICES ASSUME Hub!Init PROVE HubInv /\ HubInTime
  OBVIOUS
<1>0. \A S : <<>> \in Seq(S) /\ Len(<<>>) = 0
  BY EmptySeq
<1>1. /\ clock = 0 /\ sequence = 0 /\ feed = <<>> /\ log = <<>>
      /\ latest = [e \in Entities |-> Hub!None]
      /\ history = [e \in Entities |-> <<>>]
      /\ flagged = [e \in Entities |-> 0]
      /\ highlights = [t \in Threads |-> <<>>]
  BY DEF Hub!Init
<1>2. HubTypes
  BY <1>0, <1>1 DEF HubTypes
<1>3. LatestHasItsNumber
  BY <1>1 DEF LatestHasItsNumber, Hub!None
<1>4. 1 .. Len(log) = {} /\ 1 .. Len(feed) = {}
  BY <1>0, <1>1
<1>5. \A t \in Threads : 1 .. Len(highlights[t]) = {}
  BY <1>0, <1>1
<1>6. \A e \in Entities : 1 .. Len(history[e]) = {} /\ latest[e] = Hub!None
  BY <1>0, <1>1
<1>7. StaleIsNoted /\ OnceInLog /\ OnceInAll /\ OnceInHand /\ FeedInOrder
  BY <1>4, <1>5, Zenon DEF StaleIsNoted, OnceInLog, OnceInAll, OnceInHand, FeedInOrder
<1>8. HubInTime
  BY <1>4, <1>5, <1>6, Zenon
     DEF HubInTime, LogInTime, LatestIsPublished, HistoryInTime, HighlightsHold
<1> QED BY <1>2, <1>3, <1>7, <1>8 DEF HubInv

LEMMA LatestNumber ==
  ASSUME HubTypes, NEW e \in Entities
  PROVE  latest[e].sequence \in Nat
<1>1. latest[e] = Hub!None \/ latest[e] \in Quotes
  BY DEF HubTypes
<1>2. CASE latest[e] = Hub!None
  BY <1>2 DEF Hub!None
<1>3. CASE latest[e] \in Quotes
  BY <1>3, ShapeOfQuote
<1> QED BY <1>1, <1>2, <1>3

LEMMA NotedStays ==
  ASSUME HubTypes, Hub!HubAssumption, clock' \in Nat, clock <= clock',
         NEW h, h.of \in Quotes, Noted(h, clock, latest, flagged),
         \A e \in Entities :
           \/ latest'[e] = latest[e] /\ flagged'[e] = flagged[e]
           \/ latest'[e].sequence > latest[e].sequence /\ latest'[e].sequence \in Nat
  PROVE  Noted(h, clock', latest', flagged')
<1> DEFINE q == h.of
           e == q.entity
<1>1. e \in Entities /\ q.at \in Nat /\ q.sequence \in Nat
  BY ShapeOfQuote
<1>2. latest[e].sequence \in Nat /\ clock \in Nat /\ Freshness \in Nat
  BY <1>1, LatestNumber DEF HubTypes, Hub!HubAssumption
<1>3. \/ latest[e] = q /\ flagged[e] = q.sequence /\ clock - q.at > Freshness
      \/ latest[e].sequence > q.sequence
  BY DEF Noted
<1>4. \/ latest'[e] = latest[e] /\ flagged'[e] = flagged[e]
      \/ latest'[e].sequence > latest[e].sequence /\ latest'[e].sequence \in Nat
  BY <1>1
<1> HIDE DEF q, e
<1>5. \/ latest'[e] = q /\ flagged'[e] = q.sequence /\ clock' - q.at > Freshness
      \/ latest'[e].sequence > q.sequence
  BY <1>1, <1>2, <1>3, <1>4
<1> QED BY <1>5 DEF Noted, q, e

LEMMA HighlightIs ==
  ASSUME HubTypes
  PROVE  /\ \A i \in 1 .. Len(log) : log[i] \in Events
         /\ \A t \in Threads : \A k \in 1 .. Len(highlights[t]) :
              highlights[t][k] \in Highlights /\ highlights[t][k] \in Events
         /\ \A i \in 1 .. Len(log) : IsStale(log[i]) => log[i].of \in Quotes
         /\ \A t \in Threads : \A k \in 1 .. Len(highlights[t]) :
              IsStale(highlights[t][k]) => highlights[t][k].of \in Quotes
<1>1. \A i \in 1 .. Len(log) : log[i] \in Events
  BY ElementOfSeq DEF HubTypes
<1>2. \A t \in Threads : \A k \in 1 .. Len(highlights[t]) :
        highlights[t][k] \in Highlights /\ highlights[t][k] \in Events
  <2>1. TAKE t \in Threads
  <2>2. highlights[t] \in Seq(Highlights)
    BY DEF HubTypes
  <2>3. \A k \in 1 .. Len(highlights[t]) : highlights[t][k] \in Highlights
    BY <2>2, ElementOfSeq
  <2> QED BY <2>3 DEF Events
<1>3. \A i \in 1 .. Len(log) : IsStale(log[i]) => log[i].of \in Quotes
  BY <1>1, ShapeOfEvent, ShapeOfHighlight
<1>4. \A t \in Threads : \A k \in 1 .. Len(highlights[t]) :
        IsStale(highlights[t][k]) => highlights[t][k].of \in Quotes
  BY <1>2, ShapeOfHighlight
<1> QED BY <1>1, <1>2, <1>3, <1>4

(* What adds no highlight of a stale quote leaves those there are true.    *)
LEMMA NoMoreAreStale ==
  ASSUME HubInv, Hub!HubAssumption, clock' \in Nat, clock <= clock',
         \A e \in Entities :
           \/ latest'[e] = latest[e] /\ flagged'[e] = flagged[e]
           \/ latest'[e].sequence > latest[e].sequence /\ latest'[e].sequence \in Nat,
         \A i \in 1 .. Len(log') :
           IsStale(log'[i]) => i \in 1 .. Len(log) /\ log'[i] = log[i],
         \A t \in Threads : \A k \in 1 .. Len(highlights'[t]) :
           IsStale(highlights'[t][k]) => /\ k \in 1 .. Len(highlights[t])
                                         /\ highlights'[t][k] = highlights[t][k]
  PROVE  StaleIsNoted' /\ OnceInLog' /\ OnceInAll' /\ OnceInHand'
<1>1. HubTypes /\ StaleIsNoted /\ OnceInLog /\ OnceInAll /\ OnceInHand
  BY DEF HubInv
<1>2. \A i \in 1 .. Len(log') :
        IsStale(log'[i]) => Noted(log'[i], clock', latest', flagged')
  <2>1. TAKE i \in 1 .. Len(log')
  <2>2. HAVE IsStale(log'[i])
  <2>3. i \in 1 .. Len(log) /\ log'[i] = log[i] /\ IsStale(log[i])
    BY <2>2
  <2>4. Noted(log[i], clock, latest, flagged) /\ log[i].of \in Quotes
    BY <1>1, <2>3, HighlightIs DEF StaleIsNoted
  <2>5. Noted(log[i], clock', latest', flagged')
    BY <1>1, <2>4, NotedStays
  <2> QED BY <2>3, <2>5
<1>3. \A t \in Threads : \A k \in 1 .. Len(highlights'[t]) :
        IsStale(highlights'[t][k]) => Noted(highlights'[t][k], clock', latest', flagged')
  <2>1. TAKE t \in Threads
  <2>2. TAKE k \in 1 .. Len(highlights'[t])
  <2>3. HAVE IsStale(highlights'[t][k])
  <2>4. /\ k \in 1 .. Len(highlights[t]) /\ highlights'[t][k] = highlights[t][k]
        /\ IsStale(highlights[t][k])
    BY <2>3
  <2>5. Noted(highlights[t][k], clock, latest, flagged) /\ highlights[t][k].of \in Quotes
    BY <1>1, <2>4, HighlightIs DEF StaleIsNoted
  <2>6. Noted(highlights[t][k], clock', latest', flagged')
    BY <1>1, <2>5, NotedStays
  <2> QED BY <2>4, <2>6
<1>4. StaleIsNoted'
  BY <1>2, <1>3, Zenon DEF StaleIsNoted
<1>5. OnceInLog'
  BY <1>1, Zenon DEF OnceInLog
<1>6. OnceInAll'
  <2> SUFFICES ASSUME NEW i \in 1 .. Len(log'), NEW t \in Threads,
                      NEW k \in 1 .. Len(highlights'[t]),
                      IsStale(log'[i]), IsStale(highlights'[t][k])
               PROVE  log'[i].of # highlights'[t][k].of
    BY Zenon DEF OnceInAll
  <2>1. i \in 1 .. Len(log) /\ log'[i] = log[i]
    OBVIOUS
  <2>2. k \in 1 .. Len(highlights[t]) /\ highlights'[t][k] = highlights[t][k]
    OBVIOUS
  <2> QED BY <1>1, <2>1, <2>2 DEF OnceInAll
<1>7. OnceInHand'
  <2> SUFFICES ASSUME NEW t \in Threads, NEW u \in Threads,
                      NEW k \in 1 .. Len(highlights'[t]),
                      NEW l \in 1 .. Len(highlights'[u]),
                      IsStale(highlights'[t][k]), IsStale(highlights'[u][l]),
                      highlights'[t][k].of = highlights'[u][l].of
               PROVE  t = u /\ k = l
    BY DEF OnceInHand
  <2>1. k \in 1 .. Len(highlights[t]) /\ highlights'[t][k] = highlights[t][k]
    OBVIOUS
  <2>2. l \in 1 .. Len(highlights[u]) /\ highlights'[u][l] = highlights[u][l]
    OBVIOUS
  <2> QED BY <1>1, <2>1, <2>2 DEF OnceInHand
<1> QED BY <1>4, <1>5, <1>6, <1>7

LEMMA MovesAreHighlights ==
  ASSUME NEW s \in Seq(Samples), s # <<>>
  PROVE  /\ Hub!Moves(s) \in Seq(Highlights)
         /\ \A k \in 1 .. Len(Hub!Moves(s)) :
              /\ ~ IsStale(Hub!Moves(s)[k])
              /\ \E i \in 1 .. Len(s) :
                   /\ Hub!Moves(s)[k].kind = "price_move"
                   /\ Hub!Moves(s)[k].from = s[i] /\ Hub!Moves(s)[k].to = s[Len(s)]
                   /\ s[i].bucket >= s[Len(s)].bucket - Lookback
<1> DEFINE Good(ms) ==
             /\ ms \in Seq(Highlights)
             /\ \A k \in 1 .. Len(ms) :
                  /\ ~ IsStale(ms[k])
                  /\ \E i \in 1 .. Len(s) :
                       /\ ms[k].kind = "price_move"
                       /\ ms[k].from = s[i] /\ ms[k].to = s[Len(s)]
                       /\ s[i].bucket >= s[Len(s)].bucket - Lookback
           Move(i) == [kind |-> "price_move", from |-> s[i], to |-> s[Len(s)], sequence |-> 0]
<1>1. Good(<<>>)
  <2>1. <<>> \in Seq(Highlights) /\ 1 .. Len(<<>>) = {}
    BY EmptySeq
  <2> QED BY <2>1
<1>2. ASSUME NEW i \in 1 .. Len(s), s[i].bucket >= s[Len(s)].bucket - Lookback
      PROVE  Good(<<Move(i)>>)
  <2> DEFINE m == Move(i)
  <2>1. Len(s) \in 1 .. Len(s)
    BY LenProperties, EmptySeq
  <2>2. s[i] \in Samples /\ s[Len(s)] \in Samples
    BY <2>1, ElementOfSeq
  <2>3. /\ m \in Highlights /\ ~ IsStale(m) /\ m.kind = "price_move"
        /\ m.from = s[i] /\ m.to = s[Len(s)]
    BY <2>2 DEF Highlights, PriceMoves, IsStale
  <2> HIDE DEF m
  <2>4. <<m>> \in Seq(Highlights) /\ \A k \in 1 .. Len(<<m>>) : <<m>>[k] = m
    BY <2>3
  <2>5. Good(<<m>>)
    BY <1>2, <2>3, <2>4
  <2> QED BY <2>5 DEF m
<1>3. \/ Hub!Moves(s) = <<>>
      \/ \E i \in 1 .. Len(s) : /\ s[i].bucket >= s[Len(s)].bucket - Lookback
                             /\ Hub!Moves(s) = <<Move(i)>>
  BY MovesAre
<1> HIDE DEF Good, Move
<1>4. Good(Hub!Moves(s))
  BY <1>1, <1>2, <1>3
<1> QED BY <1>4 DEF Good

(* What publish of a quote does.                                           *)
PublishedQuote(e, v, at) ==
  [kind |-> "quote", entity |-> e, value |-> v, at |-> at, sequence |-> sequence + 1]

LEMMA PublishIs ==
  ASSUME HubInv, Hub!HubAssumption,
         NEW t \in Threads, NEW e \in Entities, NEW v \in Values, NEW at \in 0 .. MaxTime,
         Hub!Publish(t, e, v, at)
  PROVE  LET q == PublishedQuote(e, v, at)
             r == Hub!Recorded(history[e], q)
         IN /\ q \in Quotes /\ q.sequence = sequence + 1 /\ q.entity = e /\ q.at = at
            /\ q \in Events /\ ~ IsStale(q) /\ q # Hub!None
            /\ at \in Nat /\ at <= clock /\ (~ Late => at = clock)
            /\ latest' = [latest EXCEPT ![e] = q]
            /\ history' = [history EXCEPT ![e] = r]
            /\ r \in Seq(Samples) /\ r # <<>>
            /\ highlights' = [highlights EXCEPT ![t] = Hub!Moves(r)]
            /\ Hub!Moves(r) \in Seq(Highlights)
            /\ Hub!Dispatch(q)
            /\ clock' = clock /\ flagged' = flagged
<1> DEFINE q == PublishedQuote(e, v, at)
           r == Hub!Recorded(history[e], q)
<1>1. sequence \in Nat /\ at \in Nat /\ history[e] \in Seq(Samples)
  BY DEF HubInv, HubTypes, Hub!HubAssumption
<1>2. q \in Quotes /\ q.sequence = sequence + 1 /\ q.entity = e /\ q.at = at
  BY <1>1 DEF PublishedQuote, Quotes
<1>3. q \in Events /\ ~ IsStale(q) /\ q # Hub!None
  BY <1>2, ShapeOfQuote
<1>4. /\ at <= clock /\ (Late \/ at = clock)
      /\ latest' = [latest EXCEPT ![e] = q]
      /\ history' = [history EXCEPT ![e] = Hub!Recorded(@, q)]
      /\ highlights' = [highlights EXCEPT ![t] = Hub!Moves(r)]
      /\ Hub!Dispatch(q)
      /\ clock' = clock /\ flagged' = flagged
  BY DEF Hub!Publish, PublishedQuote
<1> HIDE DEF q
<1>5. r \in Seq(Samples) /\ r # <<>>
  BY <1>1, <1>2, RecordedIs
<1>6. Hub!Moves(r) \in Seq(Highlights)
  BY <1>5, MovesAreHighlights
<1>7. history' = [history EXCEPT ![e] = r]
  BY <1>4
<1> HIDE DEF r
<1> QED BY <1>1, <1>2, <1>3, <1>4, <1>5, <1>6, <1>7 DEF q, r

LEMMA PublishKeeps ==
  ASSUME HubInv, Hub!HubAssumption,
         NEW t \in Threads, NEW e \in Entities, NEW v \in Values, NEW at \in 0 .. MaxTime,
         Hub!Publish(t, e, v, at)
  PROVE  HubInv'
<1> DEFINE q == PublishedQuote(e, v, at)
           r == Hub!Recorded(history[e], q)
<1>0. HubTypes /\ LatestHasItsNumber /\ FeedInOrder
  BY DEF HubInv
<1>1. /\ q \in Quotes /\ q.sequence = sequence + 1 /\ q.entity = e /\ q.at = at
      /\ q \in Events /\ ~ IsStale(q) /\ q # Hub!None
      /\ latest' = [latest EXCEPT ![e] = q]
      /\ history' = [history EXCEPT ![e] = r]
      /\ r \in Seq(Samples) /\ r # <<>>
      /\ highlights' = [highlights EXCEPT ![t] = Hub!Moves(r)]
      /\ Hub!Moves(r) \in Seq(Highlights)
      /\ Hub!Dispatch(q)
      /\ clock' = clock /\ flagged' = flagged
  BY PublishIs
<1>2. \A k \in 1 .. Len(Hub!Moves(r)) : ~ IsStale(Hub!Moves(r)[k])
  BY <1>1, MovesAreHighlights
<1> HIDE DEF q, r
<1>3. /\ sequence' = sequence + 1 /\ sequence' \in Nat /\ sequence \in Nat
      /\ log' \in Seq(Events) /\ Len(log') = sequence' /\ Len(log) = sequence
      /\ \A i \in 1 .. Len(log) : log'[i] = log[i]
      /\ log'[sequence + 1] = q
      /\ \A i \in 1 .. Len(log') : i \in 1 .. Len(log) \/ i = sequence + 1
      /\ feed' \in Seq(Nat) /\ FeedInOrder'
  BY <1>0, <1>1, DispatchKeeps DEF HubTypes
<1>4. /\ latest' \in [Entities -> {Hub!None} \cup Quotes]
      /\ history' \in [Entities -> Seq(Samples)]
      /\ flagged' \in [Entities -> Nat]
      /\ highlights' \in [Threads -> Seq(Highlights)]
      /\ clock' \in Nat /\ clock <= clock'
  BY <1>0, <1>1 DEF HubTypes
<1>5. HubTypes'
  BY <1>3, <1>4, Zenon DEF HubTypes
<1>6. \A x \in Entities : latest[x].sequence \in Nat /\ latest[x].sequence <= sequence
  BY <1>0, LatestNumber DEF LatestHasItsNumber
<1>7. \A x \in Entities : latest'[x] = IF x = e THEN q ELSE latest[x]
  BY <1>0, <1>1 DEF HubTypes
<1>8. LatestHasItsNumber'
  <2>1. \A x \in Entities : latest'[x].sequence <= sequence'
    BY <1>1, <1>3, <1>6, <1>7
  <2>2. \A x \in Entities : latest'[x] # Hub!None => latest'[x].entity = x
    BY <1>0, <1>1, <1>7 DEF LatestHasItsNumber
  <2> QED BY <2>1, <2>2, Zenon DEF LatestHasItsNumber
<1>9. \A x \in Entities :
        \/ latest'[x] = latest[x] /\ flagged'[x] = flagged[x]
        \/ latest'[x].sequence > latest[x].sequence /\ latest'[x].sequence \in Nat
  BY <1>1, <1>3, <1>6, <1>7
<1>10. \A i \in 1 .. Len(log') : IsStale(log'[i]) => i \in 1 .. Len(log) /\ log'[i] = log[i]
  BY <1>1, <1>3
<1>11. ASSUME NEW u \in Threads, NEW k \in 1 .. Len(highlights'[u]),
              IsStale(highlights'[u][k])
       PROVE  k \in 1 .. Len(highlights[u]) /\ highlights'[u][k] = highlights[u][k]
  <2>1. u = t => highlights'[u] = Hub!Moves(r)
    BY <1>0, <1>1 DEF HubTypes
  <2>2. u # t
    BY <1>2, <1>11, <2>1
  <2>3. highlights'[u] = highlights[u]
    BY <1>0, <1>1, <2>2 DEF HubTypes
  <2> QED BY <2>3
<1>12. StaleIsNoted' /\ OnceInLog' /\ OnceInAll' /\ OnceInHand'
  BY <1>4, <1>9, <1>10, <1>11, NoMoreAreStale
<1> QED BY <1>3, <1>5, <1>8, <1>12 DEF HubInv

LEMMA WaitingHubKeeps ==
  ASSUME HubInv, Hub!HubAssumption,
         Hub!Tick \/ Hub!ToggleFeed \/ UNCHANGED Hub!hubVars
  PROVE  HubInv' /\ (HubInTime => HubInTime')
<1>1. /\ HubTypes /\ LatestHasItsNumber /\ FeedInOrder
      /\ UNCHANGED <<sequence, latest, history, flagged, highlights, feed, log>>
      /\ clock' = clock \/ clock' = clock + 1
  BY DEF HubInv, Hub!Tick, Hub!ToggleFeed, Hub!hubVars
<1>2. clock \in Nat /\ clock' \in Nat /\ clock <= clock'
  BY <1>1 DEF HubTypes
<1>3. HubTypes' /\ LatestHasItsNumber' /\ FeedInOrder'
  BY <1>1, <1>2, Zenon DEF HubTypes, LatestHasItsNumber, FeedInOrder
<1>4. StaleIsNoted' /\ OnceInLog' /\ OnceInAll' /\ OnceInHand'
  BY <1>1, <1>2, NoMoreAreStale
<1>5. ASSUME HubInTime PROVE HubInTime'
  <2>1. LogInTime'
    <3>1. ASSUME NEW i \in 1 .. Len(log), log[i].kind = "quote" PROVE log[i].at <= clock'
      <4>1. log[i].at <= clock
        BY <1>5, <3>1 DEF HubInTime, LogInTime
      <4>2. log[i].at \in Nat
        BY <1>1, <3>1, HighlightIs, ShapeOfEvent, ShapeOfQuote
      <4> QED BY <1>2, <4>1, <4>2
    <3> QED BY <1>1, <1>5, <3>1, Zenon DEF HubInTime, LogInTime
  <2>2. HistoryInTime'
    <3>1. ASSUME NEW e \in Entities, NEW i \in 1 .. Len(history[e])
          PROVE  history[e][i].at <= clock'
      <4>1. history[e][i].at <= clock
        BY <1>5 DEF HubInTime, HistoryInTime
      <4>2. history[e] \in Seq(Samples)
        BY <1>1 DEF HubTypes
      <4>3. history[e][i] \in Samples
        BY <4>2, ElementOfSeq
      <4> QED BY <1>2, <4>1, <4>3 DEF Samples
    <3> QED BY <1>1, <1>5, <3>1, Zenon DEF HubInTime, HistoryInTime
  <2>3. LatestIsPublished' /\ HighlightsHold'
    BY <1>1, <1>5, Zenon DEF HubInTime, LatestIsPublished, HighlightsHold, Holds
  <2> QED BY <2>1, <2>2, <2>3 DEF HubInTime
<1> QED BY <1>3, <1>4, <1>5 DEF HubInv

(* What held of a shorter log holds of a longer one.                       *)
LEMMA HoldsStays ==
  ASSUME NEW h, NEW past, NEW longer, Holds(h, past), Len(past) \in Nat, Len(longer) \in Nat,
         Len(past) <= Len(longer), \A i \in 1 .. Len(past) : longer[i] = past[i]
  PROVE  Holds(h, longer)
<1>1. 1 .. Len(past) \subseteq 1 .. Len(longer)
  OBVIOUS
<1> QED BY <1>1, Zenon DEF Holds

LEMMA MoveHolds ==
  ASSUME Hub!HubAssumption, NEW from \in Samples, NEW to \in Samples,
         InBucket(from), InBucket(to), from.bucket >= to.bucket - Lookback, from.at <= to.at
  PROVE  to.at - from.at < Lookback + Resolution
<1>1. Resolution \in Nat \ {0} /\ Lookback \in Nat /\ from.at \in Nat /\ to.at \in Nat
  BY DEF Hub!HubAssumption, Samples
<1>2. from.bucket <= from.at /\ to.at < to.bucket + Resolution
  BY <1>1, BucketHolds DEF InBucket
<1>3. from.bucket \in Int /\ to.bucket \in Int
  BY DEF Samples
<1> QED BY <1>1, <1>2, <1>3

LEMMA PublishInTime ==
  ASSUME HubInv, HubInTime, Hub!HubAssumption, ~ Late,
         NEW t \in Threads, NEW e \in Entities, NEW v \in Values, NEW at \in 0 .. MaxTime,
         Hub!Publish(t, e, v, at)
  PROVE  HubInTime'
<1> DEFINE q == PublishedQuote(e, v, at)
           s == history[e]
           r == Hub!Recorded(s, q)
<1>0. /\ HubTypes /\ FeedInOrder
      /\ LogInTime /\ LatestIsPublished /\ HistoryInTime /\ HighlightsHold
  BY DEF HubInv, HubInTime
<1>1. /\ q \in Quotes /\ q.sequence = sequence + 1 /\ q.entity = e /\ q.at = clock
      /\ q \in Events /\ ~ IsStale(q) /\ q # Hub!None
      /\ latest' = [latest EXCEPT ![e] = q]
      /\ history' = [history EXCEPT ![e] = r]
      /\ r \in Seq(Samples) /\ r # <<>>
      /\ highlights' = [highlights EXCEPT ![t] = Hub!Moves(r)]
      /\ Hub!Dispatch(q)
      /\ clock' = clock
  BY PublishIs
<1>2. \A k \in 1 .. Len(Hub!Moves(r)) :
        /\ ~ IsStale(Hub!Moves(r)[k])
        /\ \E i \in 1 .. Len(r) :
             /\ Hub!Moves(r)[k].kind = "price_move"
             /\ Hub!Moves(r)[k].from = r[i] /\ Hub!Moves(r)[k].to = r[Len(r)]
             /\ r[i].bucket >= r[Len(r)].bucket - Lookback
  BY <1>1, MovesAreHighlights
<1>3. s \in Seq(Samples) /\ clock \in Nat
  BY <1>0 DEF HubTypes
<1>4. /\ Hub!Sample(q) \in Samples
      /\ \E d \in Nat : \A i \in 1 .. Len(r) :
           \/ i + d \in 1 .. Len(s) /\ r[i] = s[i + d]
           \/ i = Len(r) /\ r[i] = Hub!Sample(q)
  <2> HIDE DEF q, s
  <2> QED BY <1>1, <1>3, RecordedIs
<1>5. Hub!Sample(q).at = clock /\ InBucket(Hub!Sample(q))
  BY <1>1 DEF Hub!Sample, Hub!Bucket, InBucket
<1> HIDE DEF q, s, r
<1>6. /\ Len(log') = sequence + 1 /\ Len(log) = sequence /\ sequence \in Nat
      /\ \A i \in 1 .. Len(log) : log'[i] = log[i]
      /\ log'[sequence + 1] = q
      /\ \A i \in 1 .. Len(log') : i \in 1 .. Len(log) \/ i = sequence + 1
  BY <1>0, <1>1, DispatchKeeps DEF HubTypes
<1>7. q.kind = "quote" /\ clock <= clock
  BY <1>1, <1>3, ShapeOfQuote
<1>8. LogInTime'
  <2>1. \A i \in 1 .. Len(log) : log[i].kind = "quote" => log[i].at <= clock
    BY <1>0 DEF LogInTime
  <2>2. \A i \in 1 .. Len(log') : log'[i].kind = "quote" => log'[i].at <= clock'
    BY <1>1, <1>3, <1>6, <2>1
  <2>3. ASSUME NEW i \in 1 .. Len(log'), NEW j \in 1 .. Len(log'), i < j,
               log'[i].kind = "quote", log'[j].kind = "quote"
        PROVE  log'[i].at <= log'[j].at
    <3>1. i \in 1 .. Len(log) /\ log'[i] = log[i]
      BY <1>6, <2>3
    <3>2. CASE j \in 1 .. Len(log)
      BY <1>0, <1>6, <2>3, <3>1, <3>2 DEF LogInTime
    <3>3. CASE j = sequence + 1
      BY <1>1, <1>6, <2>1, <2>3, <3>1, <3>3
    <3> QED BY <1>6, <3>2, <3>3
  <2> QED BY <2>2, <2>3 DEF LogInTime
<1>9. LatestIsPublished'
  <2> SUFFICES ASSUME NEW x \in Entities, latest'[x] # Hub!None
               PROVE  /\ latest'[x].sequence \in 1 .. Len(log')
                      /\ log'[latest'[x].sequence] = latest'[x]
    BY DEF LatestIsPublished
  <2>1. CASE x = e
    <3>1. latest'[x] = q
      BY <1>0, <1>1, <2>1 DEF HubTypes
    <3> QED BY <1>1, <1>6, <3>1
  <2>2. CASE x # e
    <3>1. latest'[x] = latest[x]
      BY <1>0, <1>1, <2>2 DEF HubTypes
    <3>2. latest[x].sequence \in 1 .. Len(log) /\ log[latest[x].sequence] = latest[x]
      BY <1>0, <3>1 DEF LatestIsPublished
    <3> QED BY <1>6, <3>1, <3>2
  <2> QED BY <2>1, <2>2
<1>10. /\ \A i \in 1 .. Len(r) : r[i].at <= clock /\ InBucket(r[i])
       /\ \A i, j \in 1 .. Len(r) : i <= j => r[i].at <= r[j].at
  <2>1. /\ \A i \in 1 .. Len(s) : s[i].at <= clock /\ InBucket(s[i])
        /\ \A i, j \in 1 .. Len(s) : i <= j => s[i].at <= s[j].at
    BY <1>0 DEF HistoryInTime, s
  <2>2. PICK d \in Nat : \A i \in 1 .. Len(r) :
                           \/ i + d \in 1 .. Len(s) /\ r[i] = s[i + d]
                           \/ i = Len(r) /\ r[i] = Hub!Sample(q)
    BY <1>4
  <2>3. \A i \in 1 .. Len(r) : r[i].at <= clock /\ InBucket(r[i])
    <3>1. TAKE i \in 1 .. Len(r)
    <3>2. CASE i + d \in 1 .. Len(s) /\ r[i] = s[i + d]
      BY <2>1, <3>2
    <3>3. CASE r[i] = Hub!Sample(q)
      BY <1>5, <1>7, <3>3
    <3> QED BY <2>2, <3>2, <3>3
  <2>4. ASSUME NEW i \in 1 .. Len(r), NEW j \in 1 .. Len(r), i <= j
        PROVE  r[i].at <= r[j].at
    <3>0. Len(r) \in Nat
      BY <1>1, LenProperties
    <3>1. CASE j + d \in 1 .. Len(s) /\ r[j] = s[j + d]
      <4>1. CASE i + d \in 1 .. Len(s) /\ r[i] = s[i + d]
        <5>1. i + d <= j + d
          BY <2>4
        <5> QED BY <2>1, <3>1, <4>1, <5>1
      <4>2. CASE i = Len(r) /\ r[i] = Hub!Sample(q)
        <5>1. i = j
          BY <2>4, <3>0, <4>2
        <5> QED BY <1>5, <1>7, <3>0, <4>2, <5>1
      <4> QED BY <2>2, <4>1, <4>2
    <3>2. CASE j = Len(r) /\ r[j] = Hub!Sample(q)
      BY <1>5, <2>3, <3>2
    <3> QED BY <2>2, <3>1, <3>2
  <2> QED BY <2>3, <2>4
<1>11. \A x \in Entities : history'[x] = IF x = e THEN r ELSE history[x]
  BY <1>0, <1>1 DEF HubTypes
<1>12. HistoryInTime'
  <2>1. ASSUME NEW x \in Entities
        PROVE  /\ \A i \in 1 .. Len(history'[x]) :
                    history'[x][i].at <= clock' /\ InBucket(history'[x][i])
               /\ \A i, j \in 1 .. Len(history'[x]) :
                    i <= j => history'[x][i].at <= history'[x][j].at
    <3>1. CASE x = e
      BY <1>1, <1>10, <1>11, <3>1
    <3>2. CASE x # e
      BY <1>0, <1>1, <1>11, <3>2 DEF HistoryInTime
    <3> QED BY <3>1, <3>2
  <2> QED BY <2>1 DEF HistoryInTime
<1>13. /\ Len(log) \in Nat /\ Len(log') \in Nat /\ Len(log) <= Len(log')
  BY <1>6
<1>14. \A i \in 1 .. Len(log') : Holds(log'[i], log')
  <2>1. TAKE i \in 1 .. Len(log')
  <2>2. CASE i \in 1 .. Len(log)
    <3>1. Holds(log[i], log)
      BY <1>0, <2>2 DEF HighlightsHold
    <3>2. Holds(log[i], log')
      BY <1>6, <1>13, <3>1, HoldsStays
    <3> QED BY <1>6, <2>2, <3>2
  <2>3. CASE log'[i] = q
    BY <1>1, <1>7, <2>3 DEF Holds
  <2> QED BY <1>6, <2>2, <2>3
<1>15. \A k \in 1 .. Len(Hub!Moves(r)) : Holds(Hub!Moves(r)[k], log')
  <2>1. TAKE k \in 1 .. Len(Hub!Moves(r))
  <2>2. PICK i \in 1 .. Len(r) :
             /\ Hub!Moves(r)[k].kind = "price_move"
             /\ Hub!Moves(r)[k].from = r[i] /\ Hub!Moves(r)[k].to = r[Len(r)]
             /\ r[i].bucket >= r[Len(r)].bucket - Lookback
    BY <1>2
  <2>3. Len(r) \in 1 .. Len(r) /\ i <= Len(r)
    BY <1>1, LenProperties, EmptySeq
  <2>4. r[i] \in Samples /\ r[Len(r)] \in Samples
    BY <1>1, <2>3, ElementOfSeq
  <2>5. r[i].at <= r[Len(r)].at /\ InBucket(r[i]) /\ InBucket(r[Len(r)])
    BY <1>10, <2>3
  <2>6. r[Len(r)].at - r[i].at < Lookback + Resolution
    BY <2>2, <2>4, <2>5, MoveHolds
  <2>7. ~ IsStale(Hub!Moves(r)[k])
    BY <1>2
  <2> QED BY <2>2, <2>5, <2>6, <2>7, Zenon DEF Holds
<1>16. \A u \in Threads : \A k \in 1 .. Len(highlights'[u]) : Holds(highlights'[u][k], log')
  <2>1. TAKE u \in Threads
  <2>2. CASE u = t
    <3>1. highlights'[u] = Hub!Moves(r)
      BY <1>0, <1>1, <2>2 DEF HubTypes
    <3> QED BY <1>15, <3>1
  <2>3. CASE u # t
    <3>1. highlights'[u] = highlights[u]
      BY <1>0, <1>1, <2>3 DEF HubTypes
    <3>2. \A k \in 1 .. Len(highlights[u]) : Holds(highlights[u][k], log)
      BY <1>0 DEF HighlightsHold
    <3>3. \A k \in 1 .. Len(highlights[u]) : Holds(highlights[u][k], log')
      BY <1>6, <1>13, <3>2, HoldsStays
    <3> QED BY <3>1, <3>3
  <2> QED BY <2>2, <2>3
<1>17. HighlightsHold'
  BY <1>14, <1>16, Zenon DEF HighlightsHold
<1> QED BY <1>8, <1>9, <1>12, <1>17 DEF HubInTime

LEMMA PublishHighlightKeeps ==
  ASSUME HubInv, Hub!HubAssumption, NEW t \in Threads, Hub!PublishHighlight(t)
  PROVE  HubInv' /\ (HubInTime => HubInTime')
<1> DEFINE h == Head(highlights[t])
           g == [h EXCEPT !.sequence = sequence + 1]
<1>0. /\ HubTypes /\ LatestHasItsNumber /\ FeedInOrder
      /\ StaleIsNoted /\ OnceInLog /\ OnceInAll /\ OnceInHand
  BY DEF HubInv
<1>1. /\ highlights[t] # <<>> /\ Hub!Dispatch(g)
      /\ highlights' = [highlights EXCEPT ![t] = Tail(@)]
      /\ UNCHANGED <<clock, latest, history, flagged>>
  BY DEF Hub!PublishHighlight
<1>2. highlights[t] \in Seq(Highlights) /\ sequence \in Nat
  BY <1>0 DEF HubTypes
<1>3. /\ 1 \in 1 .. Len(highlights[t]) /\ h = highlights[t][1]
      /\ Tail(highlights[t]) \in Seq(Highlights)
      /\ \A k \in 1 .. Len(Tail(highlights[t])) :
           k + 1 \in 1 .. Len(highlights[t]) /\ Tail(highlights[t])[k] = highlights[t][k + 1]
  <2>1. Len(highlights[t]) \in Nat \ {0}
    BY <1>1, <1>2, EmptySeq
  <2>2. h = highlights[t][1]
    BY <1>1, <1>2
  <2>3. /\ Tail(highlights[t]) \in Seq(Highlights)
        /\ Len(Tail(highlights[t])) = Len(highlights[t]) - 1
        /\ \A k \in 1 .. Len(Tail(highlights[t])) : Tail(highlights[t])[k] = highlights[t][k + 1]
    BY <1>1, <1>2, HeadTailProperties
  <2> QED BY <2>1, <2>2, <2>3
<1>4. h \in Highlights
  BY <1>2, <1>3, ElementOfSeq
<1>5. /\ g \in Highlights /\ g.sequence = sequence + 1 /\ g.kind = h.kind /\ g \in Events
      /\ g.kind # "quote"
      /\ IsStale(h) => g.of = h.of /\ g.when = h.when
      /\ ~ IsStale(h) => g.from = h.from /\ g.to = h.to
  <2>1. sequence + 1 \in Nat
    BY <1>2
  <2> HIDE DEF h
  <2>2. /\ g \in Highlights /\ g.sequence = sequence + 1 /\ g.kind = h.kind
        /\ IsStale(h) => g.of = h.of /\ g.when = h.when
        /\ ~ IsStale(h) => g.from = h.from /\ g.to = h.to
    BY <1>4, <2>1, ShapeOfHighlight
  <2> HIDE DEF g
  <2> QED BY <2>2, ShapeOfHighlight
<1> HIDE DEF h, g
<1>6. /\ sequence' = sequence + 1 /\ sequence' \in Nat /\ sequence \in Nat
      /\ log' \in Seq(Events) /\ Len(log') = sequence' /\ Len(log) = sequence
      /\ \A i \in 1 .. Len(log) : log'[i] = log[i]
      /\ log'[sequence + 1] = g
      /\ \A i \in 1 .. Len(log') : i \in 1 .. Len(log) \/ i = sequence + 1
      /\ feed' \in Seq(Nat) /\ FeedInOrder'
  BY <1>0, <1>1, <1>5, DispatchKeeps DEF HubTypes
<1>7. HubTypes'
  <2>1. highlights' \in [Threads -> Seq(Highlights)]
    BY <1>0, <1>1, <1>3 DEF HubTypes
  <2>2. /\ clock' \in Nat /\ latest' \in [Entities -> {Hub!None} \cup Quotes]
        /\ history' \in [Entities -> Seq(Samples)] /\ flagged' \in [Entities -> Nat]
    BY <1>0, <1>1 DEF HubTypes
  <2> QED BY <1>6, <2>1, <2>2, Zenon DEF HubTypes
<1>8. LatestHasItsNumber'
  <2>1. \A x \in Entities : latest[x].sequence \in Nat /\ latest[x].sequence <= sequence
    BY <1>0, LatestNumber DEF LatestHasItsNumber
  <2>2. \A x \in Entities : latest'[x].sequence <= sequence'
    BY <1>1, <1>6, <2>1
  <2> QED BY <1>0, <1>1, <2>2 DEF LatestHasItsNumber
<1>9. IsStale(g) => IsStale(h) /\ g.of = h.of
  BY <1>5 DEF IsStale
<1> DEFINE Place(u, k) == IF u = t THEN k + 1 ELSE k
<1>10. ASSUME NEW u \in Threads, NEW k \in 1 .. Len(highlights'[u])
       PROVE  /\ Place(u, k) \in 1 .. Len(highlights[u])
              /\ highlights'[u][k] = highlights[u][Place(u, k)]
  <2>1. CASE u = t
    <3>1. highlights'[u] = Tail(highlights[t])
      BY <1>0, <1>1, <2>1 DEF HubTypes
    <3> QED BY <1>3, <2>1, <3>1
  <2>2. CASE u # t
    <3>1. highlights'[u] = highlights[u]
      BY <1>0, <1>1, <2>2 DEF HubTypes
    <3> QED BY <2>2, <3>1
  <2> QED BY <2>1, <2>2
<1>11. IsStale(h) => Noted(h, clock, latest, flagged)
  BY <1>0, <1>3 DEF StaleIsNoted
<1>12. StaleIsNoted'
  <2>1. \A i \in 1 .. Len(log') :
          IsStale(log'[i]) => Noted(log'[i], clock, latest, flagged)
    <3>1. TAKE i \in 1 .. Len(log')
    <3>2. CASE i \in 1 .. Len(log)
      BY <1>0, <1>6, <3>2 DEF StaleIsNoted
    <3>3. CASE log'[i] = g
      BY <1>9, <1>11, <3>3 DEF Noted
    <3> QED BY <1>6, <3>2, <3>3
  <2>2. \A u \in Threads : \A k \in 1 .. Len(highlights'[u]) :
          IsStale(highlights'[u][k]) => Noted(highlights'[u][k], clock, latest, flagged)
    <3>1. TAKE u \in Threads
    <3>2. TAKE k \in 1 .. Len(highlights'[u])
    <3> DEFINE j == Place(u, k)
    <3>3. j \in 1 .. Len(highlights[u]) /\ highlights'[u][k] = highlights[u][j]
      BY <1>10
    <3> HIDE DEF j
    <3> QED BY <1>0, <3>3 DEF StaleIsNoted
  <2> QED BY <1>1, <2>1, <2>2, Zenon DEF StaleIsNoted
<1>13. ASSUME NEW i \in 1 .. Len(log), IsStale(log[i]), IsStale(g)
       PROVE  log[i].of # g.of
  BY <1>0, <1>3, <1>9, <1>13 DEF OnceInAll
<1>14. OnceInLog'
  <2> SUFFICES ASSUME NEW i \in 1 .. Len(log'), NEW j \in 1 .. Len(log'),
                      IsStale(log'[i]), IsStale(log'[j]), log'[i].of = log'[j].of
               PROVE  i = j
    BY DEF OnceInLog
  <2>1. CASE i \in 1 .. Len(log) /\ j \in 1 .. Len(log)
    BY <1>0, <1>6, <2>1 DEF OnceInLog
  <2>2. CASE i \in 1 .. Len(log) /\ log'[j] = g
    BY <1>6, <1>13, <2>2
  <2>3. CASE j \in 1 .. Len(log) /\ log'[i] = g
    BY <1>6, <1>13, <2>3
  <2> QED BY <1>6, <2>1, <2>2, <2>3
<1>15. OnceInAll'
  <2> SUFFICES ASSUME NEW i \in 1 .. Len(log'), NEW u \in Threads,
                      NEW k \in 1 .. Len(highlights'[u]),
                      IsStale(log'[i]), IsStale(highlights'[u][k])
               PROVE  log'[i].of # highlights'[u][k].of
    BY Zenon DEF OnceInAll
  <2> DEFINE j == Place(u, k)
  <2>1. j \in 1 .. Len(highlights[u]) /\ highlights'[u][k] = highlights[u][j]
    BY <1>10
  <2>2. u = t => j # 1
    BY <1>3, <1>10 DEF Place
  <2> HIDE DEF j
  <2>3. CASE i \in 1 .. Len(log)
    BY <1>0, <1>6, <2>1, <2>3 DEF OnceInAll
  <2>4. CASE log'[i] = g
    <3>1. IsStale(highlights[t][1]) /\ g.of = highlights[t][1].of
      BY <1>3, <1>9, <2>4
    <3>2. IsStale(highlights[u][j]) /\ highlights'[u][k].of = highlights[u][j].of
      BY <2>1
    <3>3. ~ (t = u /\ 1 = j)
      BY <2>2
    <3>4. highlights[t][1].of # highlights[u][j].of
      BY <1>0, <1>3, <2>1, <3>1, <3>2, <3>3 DEF OnceInHand
    <3> QED BY <2>4, <3>1, <3>2, <3>4
  <2> QED BY <1>6, <2>3, <2>4
<1>16. OnceInHand'
  <2> SUFFICES ASSUME NEW u \in Threads, NEW w \in Threads,
                      NEW k \in 1 .. Len(highlights'[u]),
                      NEW l \in 1 .. Len(highlights'[w]),
                      IsStale(highlights'[u][k]), IsStale(highlights'[w][l]),
                      highlights'[u][k].of = highlights'[w][l].of
               PROVE  u = w /\ k = l
    BY DEF OnceInHand
  <2>1. /\ Place(u, k) \in 1 .. Len(highlights[u])
        /\ highlights'[u][k] = highlights[u][Place(u, k)]
    BY <1>10
  <2>2. /\ Place(w, l) \in 1 .. Len(highlights[w])
        /\ highlights'[w][l] = highlights[w][Place(w, l)]
    BY <1>10
  <2>3. u = w => (Place(u, k) = Place(w, l) => k = l)
    BY DEF Place
  <2> HIDE DEF Place
  <2>4. u = w /\ Place(u, k) = Place(w, l)
    BY <1>0, <2>1, <2>2 DEF OnceInHand
  <2> QED BY <2>3, <2>4
<1>17. HubInv'
  BY <1>6, <1>7, <1>8, <1>12, <1>14, <1>15, <1>16 DEF HubInv
<1>18. ASSUME HubInTime PROVE HubInTime'
  <2>0. LogInTime /\ LatestIsPublished /\ HistoryInTime /\ HighlightsHold
    BY <1>18 DEF HubInTime
  <2>1. LogInTime'
    <3>1. \A i \in 1 .. Len(log') :
            log'[i].kind = "quote" => i \in 1 .. Len(log) /\ log'[i] = log[i]
      BY <1>5, <1>6
    <3> QED BY <1>1, <2>0, <3>1 DEF LogInTime
  <2>2. LatestIsPublished'
    <3> SUFFICES ASSUME NEW x \in Entities, latest'[x] # Hub!None
                 PROVE  /\ latest'[x].sequence \in 1 .. Len(log')
                        /\ log'[latest'[x].sequence] = latest'[x]
      BY DEF LatestIsPublished
    <3>1. latest[x].sequence \in 1 .. Len(log) /\ log[latest[x].sequence] = latest[x]
      BY <1>1, <2>0 DEF LatestIsPublished
    <3> QED BY <1>1, <1>6, <3>1
  <2>3. HistoryInTime'
    BY <1>1, <2>0, Zenon DEF HistoryInTime
  <2>4. \A x : Holds(x, log) => Holds(x, log')
    <3>1. Len(log) \in Nat /\ Len(log') \in Nat /\ Len(log) <= Len(log')
      BY <1>6
    <3> QED BY <1>6, <3>1, HoldsStays
  <2>5. \A i \in 1 .. Len(log') : Holds(log'[i], log')
    <3>1. TAKE i \in 1 .. Len(log')
    <3>2. CASE i \in 1 .. Len(log)
      BY <1>6, <2>0, <2>4, <3>2 DEF HighlightsHold
    <3>3. CASE log'[i] = g
      <4>1. Holds(h, log)
        BY <1>3, <2>0 DEF HighlightsHold
      <4>2. Holds(h, log')
        BY <2>4, <4>1
      <4>3. Holds(g, log')
        <5>1. CASE IsStale(h)
          BY <1>5, <4>2, <5>1 DEF Holds, IsStale
        <5>2. CASE ~ IsStale(h)
          BY <1>5, <4>2, <5>2 DEF Holds, IsStale
        <5> QED BY <5>1, <5>2
      <4> QED BY <3>3, <4>3
    <3> QED BY <1>6, <3>2, <3>3
  <2>6. \A u \in Threads : \A k \in 1 .. Len(highlights'[u]) : Holds(highlights'[u][k], log')
    <3>1. TAKE u \in Threads
    <3>2. TAKE k \in 1 .. Len(highlights'[u])
    <3> DEFINE j == Place(u, k)
    <3>3. j \in 1 .. Len(highlights[u]) /\ highlights'[u][k] = highlights[u][j]
      BY <1>10
    <3> HIDE DEF j
    <3> QED BY <2>0, <2>4, <3>3 DEF HighlightsHold
  <2>7. HighlightsHold'
    BY <2>5, <2>6, Zenon DEF HighlightsHold
  <2> QED BY <2>1, <2>2, <2>3, <2>7 DEF HubInTime
<1> QED BY <1>17, <1>18

(* The entities whose latest quote a sweep flags.                          *)
Cached == {e \in Entities : latest[e] # Hub!None}
Old == {e \in Cached : clock - latest[e].at > Freshness}
NewlyOld == {e \in Old : flagged[e] # latest[e].sequence}

LEMMA EvaluateIs ==
  ASSUME NEW t \in Threads, Hub!EvaluateStaleness(t)
  PROVE  /\ highlights[t] = <<>>
         /\ flagged' = [e \in Entities |-> IF e \in NewlyOld THEN latest[e].sequence
                                           ELSE IF e \in Cached \ Old THEN 0 ELSE flagged[e]]
         /\ highlights' = [highlights EXCEPT ![t] =
              [i \in DOMAIN Hub!SetToSeq(NewlyOld) |->
                 [kind |-> "stale_quote", of |-> latest[Hub!SetToSeq(NewlyOld)[i]],
                  when |-> clock, sequence |-> 0]]]
         /\ UNCHANGED <<clock, sequence, latest, history, feed, log>>
<1>1. NewlyOld = {e \in {x \in {y \in Entities : latest[y] # Hub!None} :
                            Hub!Age(x) > Freshness} : flagged[e] # latest[e].sequence}
  BY DEF NewlyOld, Old, Cached, Hub!Age
<1>2. Cached \ Old = {y \in Entities : latest[y] # Hub!None}
                      \ {x \in {y \in Entities : latest[y] # Hub!None} : Hub!Age(x) > Freshness}
  BY DEF Old, Cached, Hub!Age
<1> QED BY <1>1, <1>2 DEF Hub!EvaluateStaleness, Hub!Flag

LEMMA EvaluateKeeps ==
  ASSUME HubInv, Hub!HubAssumption, NEW t \in Threads, Hub!EvaluateStaleness(t)
  PROVE  HubInv' /\ (HubInTime => HubInTime')
<1> DEFINE f == Hub!SetToSeq(NewlyOld)
           n == Cardinality(NewlyOld)
           h(i) == [kind |-> "stale_quote", of |-> latest[f[i]], when |-> clock, sequence |-> 0]
<1>0. /\ HubTypes /\ LatestHasItsNumber /\ FeedInOrder
      /\ StaleIsNoted /\ OnceInLog /\ OnceInAll /\ OnceInHand
  BY DEF HubInv
<1>1. /\ highlights[t] = <<>>
      /\ flagged' = [e \in Entities |-> IF e \in NewlyOld THEN latest[e].sequence
                                        ELSE IF e \in Cached \ Old THEN 0 ELSE flagged[e]]
      /\ highlights' = [highlights EXCEPT ![t] = [i \in DOMAIN f |-> h(i)]]
      /\ UNCHANGED <<clock, sequence, latest, history, feed, log>>
  BY EvaluateIs
<1>2. IsFiniteSet(NewlyOld)
  <2>1. IsFiniteSet(Entities) /\ NewlyOld \subseteq Entities
    BY DEF Hub!HubAssumption, Hub!IsFiniteSet, IsFiniteSet, NewlyOld, Old, Cached
  <2> QED BY <2>1, FS_Subset
<1>3. /\ DOMAIN f = 1 .. n /\ n \in Nat
      /\ \A i \in 1 .. n : f[i] \in NewlyOld
      /\ \A i, j \in 1 .. n : f[i] = f[j] => i = j
  BY <1>2, SetAsSequence
<1> HIDE DEF f, n
<1>4. ASSUME NEW e \in NewlyOld
      PROVE  /\ e \in Entities /\ latest[e] \in Quotes /\ latest[e].entity = e
             /\ latest[e] # Hub!None
             /\ clock - latest[e].at > Freshness /\ flagged[e] # latest[e].sequence
             /\ latest[e].sequence \in Nat
  <2>1. /\ e \in Entities /\ latest[e] # Hub!None
        /\ clock - latest[e].at > Freshness /\ flagged[e] # latest[e].sequence
    BY DEF NewlyOld, Old, Cached
  <2>2. latest[e] \in Quotes /\ latest[e].entity = e
    BY <1>0, <2>1 DEF HubTypes, LatestHasItsNumber
  <2> QED BY <1>0, <2>1, <2>2, LatestNumber
<1>5. ASSUME NEW i \in 1 .. n
      PROVE  /\ h(i) \in Highlights /\ IsStale(h(i)) /\ h(i).of = latest[f[i]]
             /\ h(i).when = clock /\ f[i] \in NewlyOld
  <2>1. latest[f[i]] \in Quotes /\ clock \in Nat /\ f[i] \in NewlyOld
    BY <1>0, <1>3, <1>4 DEF HubTypes
  <2> QED BY <2>1 DEF Highlights, StaleQuotes, IsStale
<1> HIDE DEF h
<1>6. /\ highlights'[t] \in Seq(Highlights) /\ Len(highlights'[t]) = n
      /\ \A i \in 1 .. n : highlights'[t][i] = h(i)
  <2> DEFINE hs == [i \in 1 .. n |-> h(i)]
  <2>1. hs \in [1 .. n -> Highlights]
    BY <1>5
  <2>2. hs \in Seq(Highlights) /\ Len(hs) = n
    BY <1>3, <2>1, SeqDef
  <2>3. highlights'[t] = hs
    BY <1>0, <1>1, <1>3 DEF HubTypes
  <2> QED BY <2>2, <2>3
<1>7. \A u \in Threads : u # t => highlights'[u] = highlights[u]
  BY <1>0, <1>1 DEF HubTypes
<1>8. HubTypes'
  <2>1. highlights' \in [Threads -> Seq(Highlights)]
    <3>1. highlights' = [u \in Threads |-> highlights'[u]]
      BY <1>0, <1>1 DEF HubTypes
    <3>2. \A u \in Threads : highlights'[u] \in Seq(Highlights)
      BY <1>0, <1>6, <1>7 DEF HubTypes
    <3> QED BY <3>1, <3>2
  <2>2. flagged' \in [Entities -> Nat]
    BY <1>0, <1>1, <1>4 DEF HubTypes
  <2> QED BY <1>0, <1>1, <2>1, <2>2 DEF HubTypes
<1>9. LatestHasItsNumber' /\ FeedInOrder' /\ OnceInLog'
  BY <1>0, <1>1, Zenon DEF LatestHasItsNumber, FeedInOrder, OnceInLog
<1>10. ASSUME NEW x, x.of \in Quotes, Noted(x, clock, latest, flagged)
       PROVE  /\ Noted(x, clock, latest, flagged')
              /\ \A e \in NewlyOld : x.of # latest[e]
  <2> DEFINE q == x.of
             e == q.entity
  <2>1. e \in Entities /\ q.at \in Nat /\ q.sequence \in Nat /\ q # Hub!None
    BY <1>10, ShapeOfQuote
  <2>2. \/ latest[e] = q /\ flagged[e] = q.sequence /\ clock - q.at > Freshness
        \/ latest[e].sequence > q.sequence
    BY <1>10 DEF Noted
  <2> HIDE DEF q
  <2>3. CASE latest[e] = q /\ flagged[e] = q.sequence /\ clock - q.at > Freshness
    <3>1. e \notin NewlyOld /\ e \notin Cached \ Old
      BY <2>1, <2>3 DEF NewlyOld, Cached, Old
    <3>2. flagged'[e] = flagged[e]
      BY <1>1, <2>1, <3>1
    <3>3. Noted(x, clock, latest, flagged')
      BY <2>3, <3>2 DEF Noted, q
    <3>4. \A a \in NewlyOld : q # latest[a]
      BY <1>4, <2>3, <3>1
    <3> QED BY <3>3, <3>4 DEF q
  <2>4. CASE latest[e].sequence > q.sequence
    <3>1. Noted(x, clock, latest, flagged')
      BY <2>4 DEF Noted, q
    <3>2. \A a \in NewlyOld : q # latest[a]
      BY <1>4, <2>1, <2>4
    <3> QED BY <3>1, <3>2 DEF q
  <2> QED BY <2>2, <2>3, <2>4
<1>11. ASSUME NEW i \in 1 .. n
       PROVE  Noted(h(i), clock, latest, flagged')
  <2>1. /\ f[i] \in Entities /\ latest[f[i]].entity = f[i]
        /\ clock - latest[f[i]].at > Freshness
    BY <1>4, <1>5
  <2>2. flagged'[f[i]] = latest[f[i]].sequence
    BY <1>1, <1>5, <2>1
  <2> QED BY <1>5, <2>1, <2>2 DEF Noted
<1>12. \A i \in 1 .. Len(log) : IsStale(log[i]) =>
         /\ log[i].of \in Quotes /\ Noted(log[i], clock, latest, flagged')
         /\ \A e \in NewlyOld : log[i].of # latest[e]
  BY <1>0, <1>10, HighlightIs DEF StaleIsNoted
<1>13. \A u \in Threads : \A k \in 1 .. Len(highlights[u]) : IsStale(highlights[u][k]) =>
         /\ Noted(highlights[u][k], clock, latest, flagged')
         /\ \A e \in NewlyOld : highlights[u][k].of # latest[e]
  BY <1>0, <1>10, HighlightIs DEF StaleIsNoted
<1>14. StaleIsNoted'
  <2>1. \A u \in Threads : \A k \in 1 .. Len(highlights'[u]) :
          IsStale(highlights'[u][k]) => Noted(highlights'[u][k], clock, latest, flagged')
    <3>1. TAKE u \in Threads
    <3>2. CASE u = t
      BY <1>6, <1>11, <3>2
    <3>3. CASE u # t
      BY <1>7, <1>13, <3>3
    <3> QED BY <3>2, <3>3
  <2> QED BY <1>1, <1>12, <2>1, Zenon DEF StaleIsNoted
<1>15. OnceInAll'
  <2> SUFFICES ASSUME NEW i \in 1 .. Len(log), NEW u \in Threads,
                      NEW k \in 1 .. Len(highlights'[u]),
                      IsStale(log[i]), IsStale(highlights'[u][k])
               PROVE  log[i].of # highlights'[u][k].of
    BY <1>1, Zenon DEF OnceInAll
  <2>1. CASE u = t
    <3>1. k \in 1 .. n /\ highlights'[u][k] = h(k)
      BY <1>6, <2>1
    <3>2. highlights'[u][k].of = latest[f[k]] /\ f[k] \in NewlyOld
      BY <1>5, <3>1
    <3> QED BY <1>12, <3>2
  <2>2. CASE u # t
    BY <1>0, <1>7, <2>2 DEF OnceInAll
  <2> QED BY <2>1, <2>2
<1>16. OnceInHand'
  <2> SUFFICES ASSUME NEW u \in Threads, NEW w \in Threads,
                      NEW k \in 1 .. Len(highlights'[u]),
                      NEW l \in 1 .. Len(highlights'[w]),
                      IsStale(highlights'[u][k]), IsStale(highlights'[w][l]),
                      highlights'[u][k].of = highlights'[w][l].of
               PROVE  u = w /\ k = l
    BY DEF OnceInHand
  <2>1. \A m \in 1 .. n : highlights'[t][m].of = latest[f[m]] /\ f[m] \in NewlyOld
    BY <1>5, <1>6
  <2>2. CASE u = t /\ w = t
    <3>1. k \in 1 .. n /\ l \in 1 .. n /\ latest[f[k]] = latest[f[l]]
      BY <1>6, <2>1, <2>2
    <3>2. latest[f[k]].entity = f[k] /\ latest[f[l]].entity = f[l]
      BY <1>4, <2>1, <3>1
    <3> QED BY <1>3, <2>2, <3>1, <3>2
  <2>3. CASE u = t /\ w # t
    BY <1>6, <1>7, <1>13, <2>1, <2>3
  <2>4. CASE u # t /\ w = t
    BY <1>6, <1>7, <1>13, <2>1, <2>4
  <2>5. CASE u # t /\ w # t
    BY <1>0, <1>7, <2>5 DEF OnceInHand
  <2> QED BY <2>2, <2>3, <2>4, <2>5
<1>17. ASSUME HubInTime PROVE HubInTime'
  <2>0. LogInTime /\ LatestIsPublished /\ HistoryInTime /\ HighlightsHold
    BY <1>17 DEF HubInTime
  <2>1. LogInTime' /\ LatestIsPublished' /\ HistoryInTime'
    BY <1>1, <2>0, Zenon DEF LogInTime, LatestIsPublished, HistoryInTime
  <2>2. \A i \in 1 .. n : Holds(h(i), log)
    <3>1. TAKE i \in 1 .. n
    <3>2. latest[f[i]] # Hub!None /\ f[i] \in Entities /\ clock - latest[f[i]].at > Freshness
      BY <1>4, <1>5
    <3>3. latest[f[i]].sequence \in 1 .. Len(log) /\ log[latest[f[i]].sequence] = latest[f[i]]
      BY <2>0, <3>2 DEF LatestIsPublished
    <3> QED BY <1>5, <3>2, <3>3 DEF Holds, IsStale
  <2>3. \A u \in Threads : \A k \in 1 .. Len(highlights'[u]) : Holds(highlights'[u][k], log)
    <3>1. TAKE u \in Threads
    <3>2. CASE u = t
      BY <1>6, <2>2, <3>2
    <3>3. CASE u # t
      BY <1>7, <2>0, <3>3 DEF HighlightsHold
    <3> QED BY <3>2, <3>3
  <2>4. HighlightsHold'
    BY <1>1, <2>0, <2>3, Zenon DEF HighlightsHold
  <2> QED BY <2>1, <2>4 DEF HubInTime
<1> QED BY <1>8, <1>9, <1>14, <1>15, <1>16, <1>17 DEF HubInv

---------------------------------------------------------------------------
(* The hub: its steps and what they keep.                                  *)

LEMMA HubStepKeeps ==
  ASSUME Hub!HubAssumption, HubInv, [Hub!Next]_(Hub!hubVars)
  PROVE  HubInv' /\ (~ Late /\ HubInTime => HubInTime')
<1>1. CASE \E t \in Threads, e \in Entities, v \in Values, at \in 0 .. MaxTime :
             Hub!Publish(t, e, v, at)
  BY <1>1, PublishKeeps, PublishInTime
<1>2. CASE \E t \in Threads : Hub!PublishHighlight(t)
  BY <1>2, PublishHighlightKeeps
<1>3. CASE \E t \in Threads : Hub!EvaluateStaleness(t)
  BY <1>3, EvaluateKeeps
<1>4. CASE Hub!ToggleFeed \/ Hub!Tick \/ UNCHANGED Hub!hubVars
  BY <1>4, WaitingHubKeeps
<1> QED BY <1>1, <1>2, <1>3, <1>4 DEF Hub!Next

FeedIsInOrder == \A i, j \in DOMAIN feed : i < j => feed[i] < feed[j]

LEMMA StaleAndFeed ==
  ASSUME HubInv
  PROVE  Hub!StaleIsFlaggedOnce /\ FeedIsInOrder
<1>1. HubTypes /\ OnceInLog /\ FeedInOrder
  BY DEF HubInv
<1>2. DOMAIN log = 1 .. Len(log) /\ DOMAIN feed = 1 .. Len(feed)
  BY <1>1, LenProperties DEF HubTypes
<1>3. FeedIsInOrder
  BY <1>1, <1>2, Zenon DEF FeedInOrder, FeedIsInOrder
<1>4. \A i \in Hub!Published("stale_quote") : i \in 1 .. Len(log) /\ IsStale(log[i])
  BY <1>2 DEF Hub!Published, IsStale
<1>5. Hub!StaleIsFlaggedOnce
  BY <1>1, <1>4 DEF Hub!StaleIsFlaggedOnce, OnceInLog
<1> QED BY <1>3, <1>5

LEMMA HighlightsTrue ==
  ASSUME HubInv, HubInTime, Hub!HubAssumption
  PROVE  HighlightsAreTrue
<1>1. HubTypes /\ LogInTime /\ HighlightsHold
  BY DEF HubInv, HubInTime
<1>2. DOMAIN log = 1 .. Len(log) /\ Len(log) \in Nat
  BY <1>1, LenProperties DEF HubTypes
<1>3. Hub!MovesAreInWindow
  <2> SUFFICES ASSUME NEW i \in Hub!Published("price_move")
               PROVE  /\ log[i].to.at - log[i].from.at < Lookback + Resolution
                      /\ log[i].from.at <= log[i].to.at
    BY DEF Hub!MovesAreInWindow
  <2>2. i \in 1 .. Len(log) /\ log[i].kind = "price_move"
    BY <1>2 DEF Hub!Published
  <2>3. Holds(log[i], log)
    BY <1>1, <2>2 DEF HighlightsHold
  <2> QED BY <2>2, <2>3 DEF Holds
<1>4. Hub!FlaggedIsFreshest
  <2> SUFFICES ASSUME NEW i \in Hub!Published("stale_quote"),
                      NEW j \in Hub!Published("quote"),
                      log[j].entity = log[i].of.entity, j < log[i].of.sequence
               PROVE  log[i].when - log[j].at > Freshness
    BY DEF Hub!FlaggedIsFreshest
  <2> DEFINE k == log[i].of.sequence
  <2>1. i \in 1 .. Len(log) /\ IsStale(log[i]) /\ j \in 1 .. Len(log) /\ log[j].kind = "quote"
    BY <1>2 DEF Hub!Published, IsStale
  <2>2. /\ k \in 1 .. Len(log) /\ log[k] = log[i].of
        /\ log[i].when - log[i].of.at > Freshness
    BY <1>1, <2>1 DEF HighlightsHold, Holds
  <2>3. log[i] \in StaleQuotes /\ log[i].of \in Quotes
    <3>1. log[i] \in Highlights
      BY <1>1, <2>1, HighlightIs, ShapeOfEvent
    <3> QED BY <2>1, <3>1, ShapeOfHighlight
  <2>4. log[k].kind = "quote" /\ log[k].at \in Nat /\ log[i].when \in Nat
    BY <2>2, <2>3, ShapeOfQuote DEF StaleQuotes
  <2>5. log[j].at \in Nat
    BY <1>1, <2>1, HighlightIs, ShapeOfEvent, ShapeOfQuote
  <2>6. log[j].at <= log[k].at
    BY <1>1, <2>1, <2>2, <2>4 DEF LogInTime
  <2>7. Freshness \in Nat
    BY DEF Hub!HubAssumption
  <2> QED BY <2>2, <2>4, <2>5, <2>6, <2>7
<1> QED BY <1>3, <1>4, StaleAndFeed, Zenon DEF HighlightsAreTrue, Hub!HighlightsAreTrue,
        FeedIsInOrder

(***************************************************************************)
(* Whatever quotes the hub is given and however its callers interleave, a  *)
(* quote that went stale has one highlight, although the sweep that flags  *)
(* it publishes later and without the lock, and a feed has its events in   *)
(* the order of their numbers (MarketHub::evaluateStaleness, dispatch).    *)
(***************************************************************************)
THEOREM StaleQuotesAreFlaggedOnce ==
  ASSUME Hub!HubAssumption
  PROVE  Hub!Spec => [](Hub!StaleIsFlaggedOnce /\ FeedIsInOrder)
<1>1. Hub!Init => HubInv
  BY HubInit
<1>2. HubInv /\ [Hub!Next]_(Hub!hubVars) => HubInv'
  BY HubStepKeeps
<1>3. HubInv => Hub!StaleIsFlaggedOnce /\ FeedIsInOrder
  BY StaleAndFeed
<1> QED BY <1>1, <1>2, <1>3, PTL DEF Hub!Spec, Hub!hubVars, hubVars

(***************************************************************************)
(* Where quotes come in the order they were observed, a price move besides *)
(* compares two quotes no further apart than the window and the width of a *)
(* bucket, and a quote is flagged only when every earlier one of its       *)
(* entity is as old (PriceMoveRule, StaleQuoteRule).                       *)
(***************************************************************************)
THEOREM HighlightsStayTrue ==
  ASSUME Hub!HubAssumption, ~ Late
  PROVE  Hub!Spec => []HighlightsAreTrue
<1>1. Hub!Init => HubInv /\ HubInTime
  BY HubInit
<1>2. HubInv /\ HubInTime /\ [Hub!Next]_(Hub!hubVars) => HubInv' /\ HubInTime'
  BY HubStepKeeps
<1>3. HubInv /\ HubInTime => HighlightsAreTrue
  BY HighlightsTrue
<1> QED BY <1>1, <1>2, <1>3, PTL DEF Hub!Spec, Hub!hubVars, hubVars, HighlightsAreTrue

---------------------------------------------------------------------------
(* Imports: their state.                                                   *)

IsList(d) == d \in Seq({d[i] : i \in DOMAIN d})

(* What a file was when it was there, at some time up to the given one.    *)
WasThere(state, upto) == state # Missing /\ state.mtime \in Nat /\ state.mtime <= upto

FilesAre ==
  /\ now \in Nat \ {0}
  /\ DOMAIN disk = Imports!Files
  /\ \A f \in Imports!Files : disk[f] # Missing =>
       /\ WasThere(disk[f], now)
       /\ f \in Headers => disk[f].text \in HeaderTexts

(* A resolved schema names functions its library exported when it was as   *)
(* its fingerprint says, unless that is not what the library is any more:  *)
(* what has changed since never becomes the same again.                    *)
Honest(api) ==
  \A i \in DOMAIN api.description :
    api.symbols[i] = "resolved" => api.description[i].name \in api.fingerprint.text
IsSound(api, files, upto) ==
  /\ api.library \in Libraries /\ WasThere(api.fingerprint, upto)
  /\ IsList(api.description)
  /\ Honest(api) \/ files[api.library] # api.fingerprint

(* A text that decodes is a sound schema.                                  *)
Decodes(text) == text # <<>> /\ Imports!Last(text).field = "close"
TextIsSound(text, files, upto) ==
  Decodes(text) => IsSound(Imports!DecodeResolvedApi(text), files, upto)
CacheIsSound ==
  /\ DOMAIN cache = Imports!CacheNames
  /\ \A c \in Imports!CacheNames :
       cache[c] # Missing => TextIsSound(cache[c].text, disk, now)

(* What changed under an import changed after it began.                    *)
ImportIs(i, files, upto) ==
  /\ i.pc \in {"look", "cached", "parse", "hash", "resolve", "save", "flush"}
  /\ i.library \in Libraries /\ i.header \in Headers
  /\ i.began \in Nat /\ i.began <= upto
  /\ i.pc = "cached" /\ i.api # Missing => IsSound(i.api, files, upto)
  /\ i.pc \in {"hash", "resolve"} => IsList(i.api.description)
  /\ i.pc = "resolve" => WasThere(i.api.fingerprint, upto)
  /\ i.pc \in {"resolve", "save", "flush"} =>
       files[i.library] = i.api.fingerprint \/ i.began < upto
  /\ i.pc \in {"save", "flush"} =>
       IsSound(i.api, files, upto) /\ i.api.library = i.library /\ "pc" \in DOMAIN i
ImportIsSound == import.pc = "idle" \/ ImportIs(import, disk, now)

HeldIsSound ==
  /\ held.schema # Missing => IsList(Imports!DecodeParseDescription(held.schema))
  /\ held.resolved # Missing => Decodes(held.resolved) /\ TextIsSound(held.resolved, disk, now)

(* What an import did holds, for what it looked at.                        *)
Defined(d, files, upto) ==
  \/ d = Missing
  \/ /\ d.ok
     /\ \A name \in DOMAIN d.table : d.table[name].status = "resolved" => name \in d.checked
  \/ /\ ~ d.ok
     /\ d.began \in Nat /\ d.began <= upto
     /\ (\E f \in Imports!Files : files[f] = Missing) \/ d.began < upto

ImportInv ==
  /\ FilesAre /\ CacheIsSound /\ ImportIsSound /\ HeldIsSound
  /\ Defined(defs, disk, now)

---------------------------------------------------------------------------
(* Lists, and the texts they are passed on as.                             *)

LEMMA ListIs ==
  ASSUME NEW d, IsList(d)
  PROVE  Len(d) \in Nat /\ DOMAIN d = 1 .. Len(d) /\ d = [i \in 1 .. Len(d) |-> d[i]]
<1> DEFINE S == {d[i] : i \in DOMAIN d}
<1>1. d \in Seq(S)
  BY DEF IsList
<1> HIDE DEF S
<1> QED BY <1>1, LenProperties

LEMMA ListOf ==
  ASSUME NEW n \in Nat, NEW d, d = [i \in 1 .. n |-> d[i]]
  PROVE  IsList(d) /\ Len(d) = n
<1> DEFINE S == {d[i] : i \in DOMAIN d}
<1>1. DOMAIN d = 1 .. n
  OBVIOUS
<1>2. \A i \in 1 .. n : d[i] \in S
  BY <1>1
<1> HIDE DEF S
<1>3. d \in [1 .. n -> S]
  BY <1>2
<1>4. d \in Seq(S) /\ Len(d) = n
  BY <1>3, SeqDef, LenProperties, <1>1
<1> QED BY <1>4 DEF IsList, S

LEMMA OfKindIsList ==
  ASSUME NEW d, IsList(d), NEW kind
  PROVE  IsList(Imports!OfKind(d, kind))
<1> DEFINE places == {i \in DOMAIN d : d[i].kind = kind}
           n == Cardinality(places)
           o == Imports!OfKind(d, kind)
<1>1. n \in Nat
  <2>1. IsFiniteSet(1 .. Len(d)) /\ places \subseteq 1 .. Len(d)
    BY ListIs, FS_Interval
  <2> QED BY <2>1, FS_Subset, FS_CardinalityType
<1>2. o = [i \in 1 .. n |-> o[i]]
  BY DEF Imports!OfKind, Imports!Cardinality, Cardinality
<1> HIDE DEF n, o
<1> QED BY <1>1, <1>2, ListOf DEF o

LEMMA SeqIsList ==
  ASSUME NEW S, NEW d \in Seq(S)
  PROVE  IsList(d)
<1>1. Len(d) \in Nat /\ d \in [1 .. Len(d) -> S]
  BY LenProperties
<1>2. d = [i \in 1 .. Len(d) |-> d[i]]
  BY <1>1
<1> QED BY <1>1, <1>2, ListOf

LEMMA ListIsSeq ==
  ASSUME NEW d, IsList(d), NEW S, \A i \in 1 .. Len(d) : d[i] \in S
  PROVE  d \in Seq(S)
<1>1. d \in [1 .. Len(d) -> S] /\ Len(d) \in Nat
  BY ListIs
<1> QED BY <1>1, SeqDef

LEMMA JoinedIsList ==
  ASSUME NEW c, NEW d, IsList(c), IsList(d)
  PROVE  IsList(c \o d)
<1> DEFINE S == {c[i] : i \in DOMAIN c} \cup {d[i] : i \in DOMAIN d}
<1>1. c \in Seq(S) /\ d \in Seq(S)
  <2>1. (\A i \in 1 .. Len(c) : c[i] \in S) /\ (\A i \in 1 .. Len(d) : d[i] \in S)
    BY ListIs
  <2> HIDE DEF S
  <2> QED BY <2>1, ListIsSeq
<1> HIDE DEF S
<1>2. c \o d \in Seq(S)
  BY <1>1, ConcatProperties
<1> QED BY <1>2, SeqIsList

LEMMA ParsedIsList ==
  ASSUME FilesAre, Imports!ImportAssumption,
         NEW h \in Headers, disk[h] # Missing, NEW d \in Imports!ParseDescription(h)
  PROVE  IsList(d)
<1>1. disk[h].text \in HeaderTexts
  BY DEF FilesAre, Imports!Files
<1> DEFINE t == disk[h].text
<1>2. t \in Seq(Imports!Range(t))
  BY <1>1 DEF Imports!ImportAssumption
<1> HIDE DEF t
<1>3. IsList(t)
  BY <1>2 DEF IsList, Imports!Range
<1>4. IsList(Imports!ParseDescriptionFallback(h))
  BY <1>3, OfKindIsList, JoinedIsList DEF Imports!ParseDescriptionFallback, t
<1> QED BY <1>3, <1>4 DEF Imports!ParseDescription, t

LEMMA DescriptionIsPassedOn ==
  ASSUME NEW d, IsList(d)
  PROVE  Imports!DecodeParseDescription(Imports!EncodeParseDescription(d)) = d
<1> DEFINE S == {d[i] : i \in DOMAIN d} \cup {Imports!Close}
           e == Append(d, Imports!Close)
<1>1. d \in Seq(S)
  <2>1. \A i \in 1 .. Len(d) : d[i] \in S
    BY ListIs
  <2> HIDE DEF S
  <2> QED BY <2>1, ListIsSeq
<1>2. Imports!Close \in S
  OBVIOUS
<1> HIDE DEF S
<1>3. /\ e \in Seq(S) /\ Len(e) = Len(d) + 1
      /\ \A i \in 1 .. Len(d) : e[i] = d[i]
      /\ e[Len(d) + 1] = Imports!Close
  BY <1>1, <1>2, AppendProperties
<1> HIDE DEF e
<1>4. Imports!IsWhole(e)
  BY <1>3, EmptySeq, ListIs DEF Imports!IsWhole, Imports!Last
<1>5. Imports!Front(e) = d
  <2>1. Imports!Front(e) = SubSeq(e, 1, Len(d)) /\ Len(d) \in Nat
    BY <1>3, ListIs DEF Imports!Front
  <2>2. \A i \in 1 .. Len(d) : e[i] \in S
    BY <1>3, <2>1, ElementOfSeq
  <2>3. /\ SubSeq(e, 1, Len(d)) \in Seq(S) /\ Len(SubSeq(e, 1, Len(d))) = Len(d)
        /\ \A i \in 1 .. Len(d) : SubSeq(e, 1, Len(d))[i] = e[i]
    BY <2>1, <2>2, SubSeqProperties
  <2>4. SubSeq(e, 1, Len(d)) = d
    BY <1>1, <1>3, <2>1, <2>3, SeqEqual
  <2> QED BY <2>1, <2>4
<1> QED BY <1>4, <1>5 DEF e, Imports!DecodeParseDescription, Imports!EncodeParseDescription

---------------------------------------------------------------------------
(* Resolved schemas.                                                       *)

LEMMA TextOfApi ==
  ASSUME NEW api, NEW files, NEW upto, IsSound(api, files, upto)
  PROVE  LET text == Imports!EncodeResolvedApi(api)
         IN /\ Decodes(text)
            /\ Imports!DecodeResolvedApi(text).library = api.library
            /\ IsSound(Imports!DecodeResolvedApi(text), files, upto)
            /\ \A n \in 1 .. 3 : ~ Decodes(SubSeq(text, 1, n))
            /\ SubSeq(text, 1, 4) = text
<1> DEFINE text == Imports!EncodeResolvedApi(api)
           back == Imports!DecodeResolvedApi(text)
<1>1. /\ Len(text) = 4 /\ text # <<>> /\ text[4].field = "close"
      /\ text[1].field # "close" /\ text[2].field # "close" /\ text[3].field # "close"
      /\ text[1].value[1] = api.library /\ text[1].value[2] = api.fingerprint
      /\ text[2].value = Imports!EncodeParseDescription(api.description)
      /\ text[3].value = api.symbols
  BY DEF Imports!EncodeResolvedApi
<1>2. text \in Seq({text[i] : i \in 1 .. 4})
  <2> DEFINE T == {text[i] : i \in 1 .. 4}
  <2>1. text[1] \in T /\ text[2] \in T /\ text[3] \in T /\ text[4] \in T
    OBVIOUS
  <2>2. text = <<text[1], text[2], text[3], text[4]>>
    BY DEF Imports!EncodeResolvedApi
  <2> HIDE DEF T, text
  <2>3. <<text[1], text[2], text[3], text[4]>> \in Seq(T)
    BY <2>1
  <2> QED BY <2>2, <2>3 DEF T
<1> DEFINE T == {text[i] : i \in 1 .. 4}
<1> HIDE DEF text
<1>3. Imports!Last(text) = text[4]
  BY <1>1 DEF Imports!Last
<1>4. Decodes(text)
  BY <1>1, <1>3 DEF Decodes
<1>5. /\ back.library = api.library /\ back.fingerprint = api.fingerprint
      /\ back.description = api.description /\ back.symbols = api.symbols
  <2>1. Imports!DecodeParseDescription(text[2].value) = api.description
    BY <1>1, DescriptionIsPassedOn DEF IsSound
  <2>2. back = [library |-> text[1].value[1], fingerprint |-> text[1].value[2],
                description |-> Imports!DecodeParseDescription(text[2].value),
                symbols |-> text[3].value]
    BY <1>1, <1>3 DEF Imports!DecodeResolvedApi, Imports!ParseSymbols
  <2> HIDE DEF back
  <2> QED BY <1>1, <2>1, <2>2
<1>6. IsSound(back, files, upto)
  <2> HIDE DEF back
  <2> QED BY <1>5 DEF IsSound, Honest
<1>7. ASSUME NEW n \in 1 .. 3 PROVE ~ Decodes(SubSeq(text, 1, n))
  <2>1. \A i \in 1 .. n : text[i] \in T
    BY <1>7
  <2> HIDE DEF T
  <2>2. Len(SubSeq(text, 1, n)) = n /\ SubSeq(text, 1, n)[n] = text[n]
    BY <1>7, <2>1, SubSeqProperties
  <2> QED BY <1>1, <1>7, <2>2 DEF Decodes, Imports!Last
<1>8. SubSeq(text, 1, 4) = text
  BY <1>1, <1>2, SubSeqFull
<1> QED BY <1>4, <1>5, <1>6, <1>7, <1>8 DEF text, back

LEMMA FirstIsFound ==
  ASSUME NEW d, IsList(d), NEW name \in Imports!NamesOf(d)
  PROVE  /\ Imports!FirstOf(d, name) \in DOMAIN d
         /\ d[Imports!FirstOf(d, name)].name = name
<1> DEFINE T == {i \in 1 .. Len(d) : d[i].name = name}
<1>1. T \in SUBSET Nat /\ T # {}
  BY ListIs DEF Imports!NamesOf
<1>2. \E x \in T : \A y \in T : x <= y
  BY <1>1, LeastNumber, Zenon
<1>3. Imports!FirstOf(d, name) = CHOOSE x \in T : \A y \in T : x <= y
  BY <1>1 DEF Imports!FirstOf, Imports!SelectInSeq, Imports!Min
<1>4. Imports!FirstOf(d, name) \in T
  <2> HIDE DEF T
  <2> QED BY <1>2, <1>3, Zenon
<1> QED BY <1>4, ListIs

LEMMA ResolvedIsSound ==
  ASSUME NEW l \in Libraries, NEW print, NEW d, NEW offered, NEW files, NEW upto,
         WasThere(print, upto), IsList(d), offered = print.text \/ files[l] # print
  PROVE  LET api == Imports!ResolveApiDescription(l, print, d, offered)
         IN /\ IsSound(api, files, upto)
            /\ api.library = l /\ api.fingerprint = print /\ api.description = d
<1> DEFINE api == Imports!ResolveApiDescription(l, print, d, offered)
<1>1. /\ api.library = l /\ api.fingerprint = print /\ api.description = d
      /\ \A i \in DOMAIN d : api.symbols[i] = Imports!ResolutionStatus(d[i], offered)
  BY DEF Imports!ResolveApiDescription
<1> HIDE DEF api
<1>2. offered = print.text => Honest(api)
  BY <1>1 DEF Honest, Imports!ResolutionStatus
<1> QED BY <1>1, <1>2 DEF IsSound, api

(* What is imported from a schema that is fresh is exported.               *)
LEMMA FreshIsExported ==
  ASSUME NEW api, IsSound(api, disk, now), Imports!IsFresh(api)
  PROVE  \A name \in DOMAIN Imports!Annotate(api) :
           Imports!Annotate(api)[name].status = "resolved" => name \in disk[api.library].text
<1>1. disk[api.library] = api.fingerprint /\ Honest(api) /\ IsList(api.description)
  BY DEF Imports!IsFresh, Imports!FingerprintNow, IsSound
<1>2. DOMAIN Imports!Annotate(api) = Imports!NamesOf(api.description)
  BY DEF Imports!Annotate
<1>3. TAKE name \in DOMAIN Imports!Annotate(api)
<1> DEFINE i == Imports!FirstOf(api.description, name)
<1>4. Imports!Annotate(api)[name].status = api.symbols[i]
  BY <1>2 DEF Imports!Annotate
<1>5. i \in DOMAIN api.description /\ api.description[i].name = name
  BY <1>1, <1>2, FirstIsFound
<1> HIDE DEF i
<1> QED BY <1>1, <1>4, <1>5 DEF Honest

(* What a change makes of files.                                           *)
LEMMA ChangesAreNew ==
  ASSUME FilesAre, NEW f \in Imports!Files, Imports!Change(f)
  PROVE  /\ now' \in Nat \ {0} /\ now < now' /\ DOMAIN disk' = Imports!Files
         /\ \A g \in Imports!Files :
              disk'[g] = disk[g] \/ disk'[g] = Missing \/ disk'[g].mtime = now'
<1>1. /\ now' = now + 1 /\ now \in Nat /\ DOMAIN disk = Imports!Files
      /\ \/ \E text : disk' = [disk EXCEPT ![f] = [text |-> text, mtime |-> now + 1]]
         \/ disk' = [disk EXCEPT ![f] = Missing]
  BY DEF Imports!Change, FilesAre
<1>2. DOMAIN disk' = Imports!Files
  BY <1>1
<1>3. \A g \in Imports!Files :
        disk'[g] = disk[g] \/ disk'[g] = Missing \/ disk'[g].mtime = now'
  BY <1>1
<1> QED BY <1>1, <1>2, <1>3

LEMMA SoundStays ==
  ASSUME FilesAre, NEW f \in Imports!Files, Imports!Change(f),
         NEW l \in Libraries, NEW print, WasThere(print, now)
  PROVE  WasThere(print, now') /\ (disk[l] # print => disk'[l] # print)
<1>1. /\ now' \in Nat \ {0} /\ now < now' /\ now \in Nat
      /\ disk'[l] = disk[l] \/ disk'[l] = Missing \/ disk'[l].mtime = now'
  BY ChangesAreNew DEF FilesAre, Imports!Files
<1> QED BY <1>1 DEF WasThere

LEMMA ApiStays ==
  ASSUME FilesAre, NEW f \in Imports!Files, Imports!Change(f),
         NEW api, IsSound(api, disk, now)
  PROVE  IsSound(api, disk', now')
BY SoundStays DEF IsSound

---------------------------------------------------------------------------
(* Imports: the steps.                                                     *)

LEMMA ImportInit ==
  ASSUME Imports!ImportAssumption, Imports!Init
  PROVE  ImportInv
<1>1. /\ disk = [f \in Imports!Files |-> [text |-> AtFirst[f], mtime |-> 0]]
      /\ cache = [c \in Imports!CacheNames |-> Missing]
      /\ now = 1 /\ import = Imports!Idle
      /\ held = [schema |-> Missing, resolved |-> Missing] /\ defs = Missing
  BY DEF Imports!Init
<1>2. FilesAre
  <2>1. \A f \in Imports!Files : disk[f].mtime = 0 /\ disk[f].text = AtFirst[f]
    BY <1>1
  <2>2. \A h \in Headers : AtFirst[h] \in HeaderTexts
    BY DEF Imports!ImportAssumption
  <2> QED BY <1>1, <2>1, <2>2 DEF FilesAre, WasThere
<1>3. CacheIsSound
  BY <1>1 DEF CacheIsSound
<1>4. ImportIsSound
  BY <1>1 DEF ImportIsSound, Imports!Idle
<1>5. HeldIsSound
  BY <1>1 DEF HeldIsSound
<1>6. Defined(defs, disk, now)
  BY <1>1 DEF Defined
<1> QED BY <1>2, <1>3, <1>4, <1>5, <1>6 DEF ImportInv

LEMMA ChangeKeeps ==
  ASSUME Imports!ImportAssumption, ImportInv, NEW f \in Imports!Files, Imports!Change(f)
  PROVE  ImportInv'
<1>1. /\ FilesAre /\ CacheIsSound /\ ImportIsSound /\ HeldIsSound
      /\ Defined(defs, disk, now)
      /\ UNCHANGED <<cache, import, held, defs>>
  BY DEF ImportInv, Imports!Change
<1>2. /\ now' \in Nat \ {0} /\ now < now' /\ now \in Nat /\ DOMAIN disk' = Imports!Files
      /\ \A g \in Imports!Files :
           disk'[g] = disk[g] \/ disk'[g] = Missing \/ disk'[g].mtime = now'
  BY <1>1, ChangesAreNew DEF FilesAre
<1>3. \A api : IsSound(api, disk, now) => IsSound(api, disk', now')
  BY <1>1, ApiStays
<1>4. FilesAre'
  <2>1. ASSUME NEW g \in Imports!Files, disk'[g] # Missing
        PROVE  WasThere(disk'[g], now') /\ (g \in Headers => disk'[g].text \in HeaderTexts)
    <3>1. disk'[g] = disk[g] \/ (g = f /\ disk'[g].mtime = now' /\ g \in Imports!Files
             /\ (g \in Headers => disk'[g].text \in HeaderTexts))
      <4>1. \/ \E text \in IF f \in Libraries THEN LibraryTexts ELSE HeaderTexts :
                 disk' = [disk EXCEPT ![f] = [text |-> text, mtime |-> now + 1]]
            \/ disk' = [disk EXCEPT ![f] = Missing]
        BY DEF Imports!Change
      <4>2. now' = now + 1 /\ DOMAIN disk = Imports!Files
        BY <1>1 DEF Imports!Change, FilesAre
      <4>3. f \in Headers => f \notin Libraries
        BY DEF Imports!ImportAssumption
      <4> QED BY <2>1, <4>1, <4>2, <4>3
    <3>2. CASE disk'[g] = disk[g]
      BY <1>1, <1>2, <2>1, <3>2 DEF FilesAre, WasThere
    <3>3. CASE disk'[g] # disk[g]
      BY <1>2, <2>1, <3>1, <3>3 DEF WasThere
    <3> QED BY <3>2, <3>3
  <2> QED BY <1>2, <2>1 DEF FilesAre
<1>5. \A text : TextIsSound(text, disk, now) => TextIsSound(text, disk', now')
  BY <1>3 DEF TextIsSound
<1>6. CacheIsSound' /\ HeldIsSound'
  BY <1>1, <1>5 DEF CacheIsSound, HeldIsSound
<1>7. ImportIsSound'
  <2>1. CASE import.pc = "idle"
    BY <1>1, <2>1 DEF ImportIsSound
  <2>2. CASE ImportIs(import, disk, now)
    <3>1. ImportIs(import, disk', now')
      <4>1. import.began <= now' /\ import.began < now' /\ import.began \in Nat
        BY <1>2, <2>2 DEF ImportIs
      <4>2. WasThere(import.api.fingerprint, now) => WasThere(import.api.fingerprint, now')
        BY <1>2 DEF WasThere
      <4>3. IsSound(import.api, disk, now) => IsSound(import.api, disk', now')
        BY <1>3
      <4> QED BY <2>2, <4>1, <4>2, <4>3 DEF ImportIs
    <3> QED BY <1>1, <3>1 DEF ImportIsSound
  <2> QED BY <1>1, <2>1, <2>2 DEF ImportIsSound
<1>8. Defined(defs', disk', now')
  BY <1>1, <1>2 DEF Defined
<1> QED BY <1>4, <1>6, <1>7, <1>8 DEF ImportInv

(* Steps that leave the files as they are.                                 *)
LEMMA FilesRest ==
  ASSUME FilesAre, UNCHANGED <<disk, now>>
  PROVE  FilesAre'
BY DEF FilesAre

LEMMA CacheRests ==
  ASSUME CacheIsSound, UNCHANGED <<disk, cache, now>>
  PROVE  CacheIsSound'
BY DEF CacheIsSound

LEMMA HeldRests ==
  ASSUME HeldIsSound, UNCHANGED <<disk, now, held>>
  PROVE  HeldIsSound'
BY DEF HeldIsSound

LEMMA ImportRests ==
  ASSUME ImportIsSound, UNCHANGED <<disk, now, import>>
  PROVE  ImportIsSound'
BY DEF ImportIsSound

LEMMA SuccessIsDefined ==
  ASSUME NEW api, IsSound(api, disk, now), Imports!IsFresh(api), Imports!Succeeds(api)
  PROVE  Defined(defs', disk, now)
<1>1. defs' = [ok |-> TRUE, library |-> api.library,
               checked |-> disk[api.library].text, table |-> Imports!Annotate(api)]
  BY DEF Imports!Succeeds
<1>2. \A name \in DOMAIN Imports!Annotate(api) :
        Imports!Annotate(api)[name].status = "resolved" => name \in disk[api.library].text
  BY FreshIsExported
<1>3. /\ defs'.ok /\ defs'.checked = disk[api.library].text
      /\ defs'.table = Imports!Annotate(api)
  BY <1>1
<1> QED BY <1>2, <1>3 DEF Defined

LEMMA FailureIsDefined ==
  ASSUME NEW why, ImportIs(import, disk, now), Imports!Fail(why),
         \E f \in Imports!Files : disk[f] = Missing
  PROVE  /\ Defined(defs', disk, now) /\ import'.pc = "idle"
         /\ UNCHANGED <<disk, cache, now, held>>
<1>1. /\ defs' = [ok |-> FALSE, why |-> why, began |-> import.began]
      /\ import' = Imports!Idle /\ UNCHANGED <<disk, cache, now, held>>
  BY DEF Imports!Fail
<1>2. ~ defs'.ok /\ defs'.began = import.began
  BY <1>1
<1>3. import.began \in Nat /\ import.began <= now
  BY DEF ImportIs
<1>4. import'.pc = "idle"
  BY <1>1 DEF Imports!Idle
<1> QED BY <1>1, <1>2, <1>3, <1>4 DEF Defined

LEMMA WithIs ==
  ASSUME NEW pc, NEW api, import' = Imports!With(pc, api)
  PROVE  /\ import'.pc = pc /\ import'.library = import.library
         /\ import'.header = import.header /\ import'.began = import.began
         /\ import'.api = api /\ "pc" \in DOMAIN import'
BY DEF Imports!With

LEMMA BeginKeeps ==
  ASSUME ImportInv, Imports!Begin
  PROVE  ImportInv'
<1>1. /\ FilesAre /\ CacheIsSound /\ HeldIsSound /\ Defined(defs, disk, now)
      /\ UNCHANGED <<disk, cache, now, held, defs>>
  BY DEF ImportInv, Imports!Begin
<1>2. PICK l \in Libraries, h \in Headers :
        import' = [pc |-> "look", library |-> l, header |-> h, began |-> now]
  BY DEF Imports!Begin
<1>3. now \in Nat
  BY <1>1 DEF FilesAre
<1>4. ImportIs(import', disk, now)
  BY <1>2, <1>3 DEF ImportIs
<1>5. ImportIsSound'
  BY <1>1, <1>4 DEF ImportIsSound
<1>6. Defined(defs', disk', now')
  BY <1>1
<1> QED BY <1>1, <1>5, <1>6, FilesRest, CacheRests, HeldRests DEF ImportInv

(* The import under way has its operands.                                  *)
LEMMA OnTheWay ==
  ASSUME ImportIsSound, NEW pc, pc # "idle", Imports!At(pc)
  PROVE  /\ ImportIs(import, disk, now) /\ import.pc = pc
         /\ Imports!CacheName \in Imports!CacheNames
         /\ import.library \in Imports!Files /\ import.header \in Imports!Files
BY DEF ImportIsSound, Imports!At, ImportIs, Imports!CacheName, Imports!CacheNames,
       Imports!Files

(* The next stage of it.                                                   *)
LEMMA StageIs ==
  ASSUME ImportIs(import, disk, now), NEW pc, NEW api,
         import' = Imports!With(pc, api),
         pc \in {"cached", "parse", "hash", "resolve", "save"},
         pc = "cached" /\ api # Missing => IsSound(api, disk, now),
         pc \in {"hash", "resolve"} => IsList(api.description),
         pc = "resolve" => WasThere(api.fingerprint, now),
         pc \in {"resolve", "save"} =>
           disk[import.library] = api.fingerprint \/ import.began < now,
         pc = "save" => IsSound(api, disk, now) /\ api.library = import.library
  PROVE  ImportIs(import', disk, now)
BY WithIs DEF ImportIs

LEMMA LookKeeps ==
  ASSUME ImportInv, Imports!Look
  PROVE  ImportInv'
<1>1. /\ FilesAre /\ CacheIsSound /\ HeldIsSound /\ Defined(defs, disk, now)
      /\ ImportIsSound /\ UNCHANGED <<disk, cache, now, held, defs>> /\ Imports!At("look")
  BY DEF ImportInv, Imports!Look
<1>2. ImportIs(import, disk, now) /\ Imports!CacheName \in Imports!CacheNames
  BY <1>1, OnTheWay
<1>3. ImportIs(import', disk, now)
  <2>1. CASE Imports!CacheValid
    <3> DEFINE text == cache[Imports!CacheName].text
               api == Imports!DecodeResolvedApi(text)
    <3>1. import' = Imports!With("cached", api)
      BY <2>1 DEF Imports!Look
    <3>2. TextIsSound(text, disk, now)
      BY <1>1, <1>2, <2>1 DEF CacheIsSound, Imports!CacheValid
    <3> HIDE DEF text
    <3>3. api # Missing => Decodes(text)
      BY DEF Imports!DecodeResolvedApi, Decodes
    <3>4. api # Missing => IsSound(api, disk, now)
      BY <3>2, <3>3 DEF TextIsSound
    <3> HIDE DEF api
    <3> QED BY <1>2, <3>1, <3>4, StageIs
  <2>2. CASE ~ Imports!CacheValid
    <3>1. import' = Imports!With("parse", Missing)
      BY <2>2 DEF Imports!Look
    <3> QED BY <1>2, <3>1, StageIs
  <2> QED BY <2>1, <2>2
<1>4. ImportIsSound'
  BY <1>1, <1>3 DEF ImportIsSound
<1>5. Defined(defs', disk', now')
  BY <1>1
<1> QED BY <1>1, <1>4, <1>5, FilesRest, CacheRests, HeldRests DEF ImportInv

LEMMA FromCacheKeeps ==
  ASSUME ImportInv, Imports!FromCache
  PROVE  ImportInv'
<1>1. /\ FilesAre /\ CacheIsSound /\ HeldIsSound /\ Defined(defs, disk, now)
      /\ ImportIsSound /\ UNCHANGED <<disk, cache, now, held>> /\ Imports!At("cached")
  BY DEF ImportInv, Imports!FromCache
<1>2. ImportIs(import, disk, now) /\ import.pc = "cached"
  BY <1>1, OnTheWay
<1>3. CASE import.api # Missing /\ Imports!IsFresh(import.api)
  <2>1. Imports!Succeeds(import.api) /\ import' = Imports!Idle
    BY <1>3 DEF Imports!FromCache
  <2>2. IsSound(import.api, disk, now)
    BY <1>2, <1>3 DEF ImportIs
  <2>3. Defined(defs', disk, now)
    BY <1>3, <2>1, <2>2, SuccessIsDefined
  <2>4. ImportIsSound'
    BY <2>1 DEF ImportIsSound, Imports!Idle
  <2>5. Defined(defs', disk', now')
    BY <1>1, <2>3
  <2> QED BY <1>1, <2>4, <2>5, FilesRest, CacheRests, HeldRests DEF ImportInv
<1>4. CASE ~ (import.api # Missing /\ Imports!IsFresh(import.api))
  <2>1. import' = Imports!With("parse", Missing) /\ UNCHANGED defs
    BY <1>4 DEF Imports!FromCache
  <2>2. ImportIs(import', disk, now)
    BY <1>2, <2>1, StageIs
  <2>3. ImportIsSound' /\ Defined(defs', disk', now')
    BY <1>1, <2>1, <2>2 DEF ImportIsSound
  <2> QED BY <1>1, <2>3, FilesRest, CacheRests, HeldRests DEF ImportInv
<1> QED BY <1>3, <1>4

(* An import that fails for want of a file.                                *)
LEMMA FailureKeeps ==
  ASSUME ImportInv, ImportIs(import, disk, now), NEW why, Imports!Fail(why),
         NEW f \in Imports!Files, disk[f] = Missing
  PROVE  ImportInv'
<1>1. FilesAre /\ CacheIsSound /\ HeldIsSound
  BY DEF ImportInv
<1>2. /\ Defined(defs', disk, now) /\ import'.pc = "idle"
      /\ UNCHANGED <<disk, cache, now, held>>
  BY FailureIsDefined
<1>3. ImportIsSound' /\ Defined(defs', disk', now')
  BY <1>2 DEF ImportIsSound
<1> QED BY <1>1, <1>2, <1>3, FilesRest, CacheRests, HeldRests DEF ImportInv

(* One that goes on.                                                       *)
LEMMA GoingOnKeeps ==
  ASSUME ImportInv, ImportIs(import', disk, now),
         UNCHANGED <<disk, cache, now, loaded, held, defs>>
  PROVE  ImportInv'
<1>1. FilesAre /\ CacheIsSound /\ HeldIsSound /\ Defined(defs, disk, now)
  BY DEF ImportInv
<1>2. ImportIsSound' /\ Defined(defs', disk', now')
  BY <1>1 DEF ImportIsSound
<1> QED BY <1>1, <1>2, FilesRest, CacheRests, HeldRests DEF ImportInv

LEMMA ParseKeeps ==
  ASSUME Imports!ImportAssumption, ImportInv, Imports!Parse
  PROVE  ImportInv'
<1>1. FilesAre /\ ImportIsSound /\ Imports!At("parse")
  BY DEF ImportInv, Imports!Parse
<1>2. /\ ImportIs(import, disk, now) /\ import.header \in Imports!Files
      /\ import.header \in Headers
  BY <1>1, OnTheWay DEF ImportIs
<1>3. CASE disk[import.header] = Missing
  BY <1>2, <1>3, FailureKeeps DEF Imports!Parse
<1>4. CASE disk[import.header] # Missing
  <2>1. PICK d \in Imports!ParseDescription(import.header) :
          import' = Imports!With("hash", [description |-> d])
    BY <1>4 DEF Imports!Parse
  <2>2. UNCHANGED <<disk, cache, now, loaded, held, defs>>
    BY <1>4 DEF Imports!Parse
  <2>3. IsList(d)
    BY <1>1, <1>2, <1>4, ParsedIsList
  <2> DEFINE api == [description |-> d]
  <2>4. IsList(api.description)
    BY <2>3
  <2> HIDE DEF api
  <2>5. ImportIs(import', disk, now)
    BY <1>2, <2>1, <2>4, StageIs DEF api
  <2> QED BY <2>2, <2>5, GoingOnKeeps
<1> QED BY <1>3, <1>4

LEMMA HashKeeps ==
  ASSUME ImportInv, Imports!Hash
  PROVE  ImportInv'
<1>1. FilesAre /\ ImportIsSound /\ Imports!At("hash")
  BY DEF ImportInv, Imports!Hash
<1>2. ImportIs(import, disk, now) /\ import.library \in Imports!Files /\ import.pc = "hash"
  BY <1>1, OnTheWay
<1>3. CASE disk[import.library] = Missing
  BY <1>2, <1>3, FailureKeeps DEF Imports!Hash
<1>4. CASE disk[import.library] # Missing
  <2> DEFINE api == [description |-> import.api.description,
                     fingerprint |-> Imports!Fingerprint(import.library)]
  <2>1. import' = Imports!With("resolve", api)
    BY <1>4 DEF Imports!Hash
  <2>2. UNCHANGED <<disk, cache, now, loaded, held, defs>>
    BY <1>4 DEF Imports!Hash
  <2>3. api.fingerprint = disk[import.library] /\ api.description = import.api.description
    BY DEF Imports!Fingerprint
  <2> HIDE DEF api
  <2>4. WasThere(api.fingerprint, now)
    BY <1>1, <1>2, <1>4, <2>3 DEF FilesAre
  <2>5. IsList(api.description)
    BY <1>2, <2>3 DEF ImportIs
  <2>6. ImportIs(import', disk, now)
    BY <1>2, <2>1, <2>3, <2>4, <2>5, StageIs
  <2> QED BY <2>2, <2>6, GoingOnKeeps
<1> QED BY <1>3, <1>4

LEMMA ResolveKeeps ==
  ASSUME ImportInv, Imports!Resolve
  PROVE  ImportInv'
<1>1. FilesAre /\ ImportIsSound /\ Imports!At("resolve")
  BY DEF ImportInv, Imports!Resolve
<1>2. /\ ImportIs(import, disk, now) /\ import.library \in Imports!Files
      /\ import.pc = "resolve" /\ import.library \in Libraries
  BY <1>1, OnTheWay DEF ImportIs
<1>3. CASE disk[import.library] = Missing
  BY <1>2, <1>3, FailureKeeps DEF Imports!Resolve
<1>4. CASE disk[import.library] # Missing
  <2> DEFINE print == import.api.fingerprint
             d == import.api.description
             offered == disk[import.library].text
             api == Imports!ResolveApiDescription(import.library, print, d, offered)
  <2>1. import' = Imports!With("save", api)
    BY <1>4 DEF Imports!Resolve
  <2>2. UNCHANGED <<disk, cache, now, loaded, held, defs>>
    BY <1>4 DEF Imports!Resolve
  <2>3. /\ WasThere(print, now) /\ IsList(d)
        /\ disk[import.library] = print \/ import.began < now
    BY <1>2 DEF ImportIs
  <2>4. offered = print.text \/ disk[import.library] # print
    OBVIOUS
  <2>5. IsSound(api, disk, now) /\ api.library = import.library /\ api.fingerprint = print
    <3> HIDE DEF offered, print, d
    <3> QED BY <1>2, <2>3, <2>4, ResolvedIsSound
  <2> HIDE DEF api
  <2>6. disk[import.library] = api.fingerprint \/ import.began < now
    BY <2>3, <2>5
  <2>7. ImportIs(import', disk, now)
    BY <1>2, <2>1, <2>5, <2>6, StageIs
  <2> QED BY <2>2, <2>7, GoingOnKeeps
<1> QED BY <1>3, <1>4

(* What is in a cache file that is not whole does not decode.              *)
LEMMA CacheKeeps ==
  ASSUME CacheIsSound, UNCHANGED <<disk, now>>, NEW c \in Imports!CacheNames, NEW text,
         cache' = [cache EXCEPT ![c] = [mtime |-> now, text |-> text]],
         TextIsSound(text, disk, now)
  PROVE  CacheIsSound'
<1>1. DOMAIN cache' = Imports!CacheNames
  BY DEF CacheIsSound
<1>2. ASSUME NEW x \in Imports!CacheNames, cache'[x] # Missing
      PROVE  TextIsSound(cache'[x].text, disk, now)
  <2>1. x = c => cache'[x].text = text
    BY DEF CacheIsSound
  <2>2. x # c => cache'[x] = cache[x]
    BY DEF CacheIsSound
  <2> QED BY <1>2, <2>1, <2>2 DEF CacheIsSound
<1> QED BY <1>1, <1>2 DEF CacheIsSound

LEMMA CacheSaveKeeps ==
  ASSUME ImportInv, Imports!Save
  PROVE  ImportInv'
<1>1. /\ FilesAre /\ CacheIsSound /\ HeldIsSound /\ Defined(defs, disk, now)
      /\ ImportIsSound /\ UNCHANGED <<disk, now, loaded, held, defs>> /\ Imports!At("save")
      /\ cache' = [cache EXCEPT ![Imports!CacheName] = [mtime |-> now, text |-> <<>>]]
      /\ import' = [import EXCEPT !.pc = "flush"]
  BY DEF ImportInv, Imports!Save
<1>2. /\ ImportIs(import, disk, now) /\ import.pc = "save"
      /\ Imports!CacheName \in Imports!CacheNames
  BY <1>1, OnTheWay
<1>3. TextIsSound(<<>>, disk, now)
  BY DEF TextIsSound, Decodes
<1>4. CacheIsSound'
  BY <1>1, <1>2, <1>3, CacheKeeps
<1>5. /\ import'.pc = "flush" /\ import'.library = import.library
      /\ import'.header = import.header /\ import'.began = import.began
      /\ import'.api = import.api /\ "pc" \in DOMAIN import'
  BY <1>1, <1>2 DEF ImportIs
<1>6. ImportIs(import', disk, now)
  BY <1>2, <1>5 DEF ImportIs
<1>7. ImportIsSound' /\ Defined(defs', disk', now')
  BY <1>1, <1>6 DEF ImportIsSound
<1> QED BY <1>1, <1>4, <1>7, FilesRest, HeldRests DEF ImportInv

LEMMA FlushKeeps ==
  ASSUME ImportInv, Imports!Flush
  PROVE  ImportInv'
<1> DEFINE text == Imports!EncodeResolvedApi(import.api)
<1>1. /\ FilesAre /\ CacheIsSound /\ HeldIsSound /\ Defined(defs, disk, now)
      /\ ImportIsSound /\ UNCHANGED <<disk, now, held>> /\ Imports!At("flush")
      /\ cache' = [cache EXCEPT ![Imports!CacheName] =
                     [mtime |-> now, text |-> SubSeq(text, 1, 4)]]
      /\ import' = Imports!Idle
  BY DEF ImportInv, Imports!Flush, Imports!Written
<1>2. /\ ImportIs(import, disk, now) /\ import.pc = "flush"
      /\ Imports!CacheName \in Imports!CacheNames
  BY <1>1, OnTheWay
<1>3. IsSound(import.api, disk, now) /\ import.api.library = import.library
  BY <1>2 DEF ImportIs
<1>4. SubSeq(text, 1, 4) = text /\ TextIsSound(text, disk, now)
  BY <1>3, TextOfApi DEF TextIsSound
<1> HIDE DEF text
<1>5. CacheIsSound'
  BY <1>1, <1>2, <1>4, CacheKeeps
<1>6. Defined(defs', disk, now)
  <2>1. CASE Imports!IsFresh(import.api)
    <3>1. Imports!Succeeds(import.api)
      BY <2>1 DEF Imports!Flush
    <3> QED BY <1>3, <2>1, <3>1, SuccessIsDefined
  <2>2. CASE ~ Imports!IsFresh(import.api)
    <3>1. defs' = [ok |-> FALSE, why |-> "stale", began |-> import.began]
      BY <2>2 DEF Imports!Flush
    <3>2. disk[import.library] # import.api.fingerprint
      BY <1>3, <2>2 DEF Imports!IsFresh, Imports!FingerprintNow
    <3>3. import.began \in Nat /\ import.began <= now /\ import.began < now
      BY <1>2, <3>2 DEF ImportIs
    <3>4. ~ defs'.ok /\ defs'.began = import.began
      BY <3>1
    <3> QED BY <3>3, <3>4 DEF Defined
  <2> QED BY <2>1, <2>2
<1>7. ImportIsSound' /\ Defined(defs', disk', now')
  BY <1>1, <1>6 DEF ImportIsSound, Imports!Idle
<1> QED BY <1>1, <1>5, <1>7, FilesRest, HeldRests DEF ImportInv

LEMMA DeathKeeps ==
  ASSUME ImportInv, Imports!Crash
  PROVE  ImportInv'
<1>1. /\ FilesAre /\ CacheIsSound /\ ImportIsSound /\ UNCHANGED <<disk, now>>
      /\ import.pc # "idle" /\ import' = Imports!Idle
      /\ held' = [schema |-> Missing, resolved |-> Missing] /\ defs' = Missing
  BY DEF ImportInv, Imports!Crash
<1>2. CacheIsSound'
  <2>1. CASE UNCHANGED cache
    BY <1>1, <2>1, CacheRests
  <2>2. CASE Imports!At("flush") /\ \E n \in 1 .. 3 : cache' = Imports!Written(n)
    <3> DEFINE text == Imports!EncodeResolvedApi(import.api)
    <3>1. PICK n \in 1 .. 3 :
            cache' = [cache EXCEPT ![Imports!CacheName] =
                        [mtime |-> now, text |-> SubSeq(text, 1, n)]]
      BY <2>2 DEF Imports!Written
    <3>2. /\ ImportIs(import, disk, now) /\ import.pc = "flush"
          /\ Imports!CacheName \in Imports!CacheNames
      BY <1>1, <2>2, OnTheWay
    <3>3. IsSound(import.api, disk, now)
      BY <3>2 DEF ImportIs
    <3>4. ~ Decodes(SubSeq(text, 1, n))
      BY <3>3, TextOfApi
    <3> HIDE DEF text
    <3>5. TextIsSound(SubSeq(text, 1, n), disk, now)
      BY <3>4 DEF TextIsSound
    <3> QED BY <1>1, <3>1, <3>2, <3>5, CacheKeeps
  <2> QED BY <2>1, <2>2 DEF Imports!Crash
<1>3. ImportIsSound' /\ HeldIsSound' /\ Defined(defs', disk', now')
  BY <1>1 DEF ImportIsSound, HeldIsSound, Defined, Imports!Idle
<1> QED BY <1>1, <1>2, <1>3, FilesRest DEF ImportInv

(* Steps a program takes between imports.                                  *)
LEMMA ParseJsonKeeps ==
  ASSUME Imports!ImportAssumption, ImportInv, NEW h \in Headers, Imports!ParseJson(h)
  PROVE  ImportInv'
<1>1. /\ FilesAre /\ CacheIsSound /\ ImportIsSound /\ HeldIsSound
      /\ Defined(defs, disk, now) /\ disk[h] # Missing
      /\ UNCHANGED <<disk, cache, now, loaded, import, defs>>
  BY DEF ImportInv, Imports!ParseJson
<1>2. PICK d \in Imports!ParseDescription(h) :
        held' = [held EXCEPT !.schema = Imports!EncodeParseDescription(d)]
  BY DEF Imports!ParseJson
<1>3. IsList(d) /\ Imports!DecodeParseDescription(Imports!EncodeParseDescription(d)) = d
  BY <1>1, ParsedIsList, DescriptionIsPassedOn
<1>4. /\ held'.schema = Imports!EncodeParseDescription(d) \/ held'.schema = held.schema
      /\ held'.resolved = held.resolved
  BY <1>2
<1>5. HeldIsSound'
  BY <1>1, <1>3, <1>4 DEF HeldIsSound
<1>6. Defined(defs', disk', now')
  BY <1>1
<1> QED BY <1>1, <1>5, <1>6, FilesRest, CacheRests, ImportRests DEF ImportInv

LEMMA MaterializeJsonKeeps ==
  ASSUME ImportInv, Imports!MaterializeJson
  PROVE  ImportInv'
<1> DEFINE d == Imports!DecodeParseDescription(held.schema)
<1>1. /\ FilesAre /\ CacheIsSound /\ ImportIsSound /\ HeldIsSound
      /\ UNCHANGED <<disk, cache, now, import, held>>
      /\ defs' = [ok |-> TRUE, library |-> Missing, checked |-> {},
                  table |-> Imports!Materialize(d)]
  BY DEF ImportInv, Imports!MaterializeJson
<1> HIDE DEF d
<1>2. \A name \in DOMAIN Imports!Materialize(d) :
        Imports!Materialize(d)[name].status # "resolved"
  BY DEF Imports!Materialize
<1>3. defs'.ok /\ defs'.table = Imports!Materialize(d)
  BY <1>1
<1>4. Defined(defs', disk', now')
  BY <1>2, <1>3 DEF Defined
<1> QED BY <1>1, <1>4, FilesRest, CacheRests, ImportRests, HeldRests DEF ImportInv

LEMMA ResolveJsonKeeps ==
  ASSUME ImportInv, NEW l \in Libraries, Imports!ResolveJson(l)
  PROVE  ImportInv'
<1> DEFINE d == Imports!DecodeParseDescription(held.schema)
           api == Imports!ResolveApiDescription(l, Imports!Fingerprint(l), d, disk[l].text)
           text == Imports!EncodeResolvedApi(api)
<1>1. /\ FilesAre /\ CacheIsSound /\ ImportIsSound /\ HeldIsSound
      /\ Defined(defs, disk, now) /\ disk[l] # Missing /\ held.schema # Missing
      /\ UNCHANGED <<disk, cache, now, loaded, import, defs>>
      /\ held' = [held EXCEPT !.resolved = text]
  BY DEF ImportInv, Imports!ResolveJson
<1>2. IsList(d)
  BY <1>1 DEF HeldIsSound
<1>3. WasThere(disk[l], now) /\ Imports!Fingerprint(l) = disk[l]
  BY <1>1 DEF FilesAre, Imports!Files, Imports!Fingerprint
<1>4. IsSound(api, disk, now)
  <2> HIDE DEF d
  <2> QED BY <1>2, <1>3, ResolvedIsSound
<1> HIDE DEF api
<1>5. Decodes(text) /\ TextIsSound(text, disk, now)
  BY <1>4, TextOfApi DEF TextIsSound
<1> HIDE DEF text
<1>6. held'.schema = held.schema /\ (held'.resolved = text \/ held'.resolved = held.resolved)
  BY <1>1
<1>7. HeldIsSound'
  BY <1>1, <1>5, <1>6 DEF HeldIsSound
<1>8. Defined(defs', disk', now')
  BY <1>1
<1> QED BY <1>1, <1>7, <1>8, FilesRest, CacheRests, ImportRests DEF ImportInv

LEMMA ImportResolvedJsonKeeps ==
  ASSUME ImportInv, Imports!ImportResolvedJson
  PROVE  ImportInv'
<1> DEFINE api == Imports!DecodeResolvedApi(held.resolved)
<1>1. /\ FilesAre /\ CacheIsSound /\ ImportIsSound /\ HeldIsSound
      /\ UNCHANGED <<disk, cache, now, import, held>> /\ held.resolved # Missing
      /\ \/ Imports!IsFresh(api) /\ Imports!Succeeds(api)
         \/ defs' = [ok |-> FALSE, why |-> "stale", began |-> 0]
  BY DEF ImportInv, Imports!ImportResolvedJson
<1>2. IsSound(api, disk, now)
  BY <1>1 DEF HeldIsSound, TextIsSound
<1> HIDE DEF api
<1>3. Defined(defs', disk, now)
  <2>1. CASE Imports!IsFresh(api) /\ Imports!Succeeds(api)
    BY <1>2, <2>1, SuccessIsDefined
  <2>2. CASE defs' = [ok |-> FALSE, why |-> "stale", began |-> 0]
    <3>1. ~ defs'.ok /\ defs'.began = 0
      BY <2>2
    <3>2. now \in Nat \ {0}
      BY <1>1 DEF FilesAre
    <3> QED BY <3>1, <3>2 DEF Defined
  <2> QED BY <1>1, <2>1, <2>2
<1>4. Defined(defs', disk', now')
  BY <1>1, <1>3
<1> QED BY <1>1, <1>4, FilesRest, CacheRests, ImportRests, HeldRests DEF ImportInv

LEMMA LoadKeeps ==
  ASSUME ImportInv, UNCHANGED <<disk, cache, now, import, held, defs>>
  PROVE  ImportInv'
<1>1. /\ FilesAre /\ CacheIsSound /\ ImportIsSound /\ HeldIsSound
      /\ Defined(defs, disk, now)
  BY DEF ImportInv
<1>2. Defined(defs', disk', now')
  BY <1>1
<1> QED BY <1>1, <1>2, FilesRest, CacheRests, ImportRests, HeldRests DEF ImportInv

LEMMA ImportsMean ==
  ASSUME ImportInv
  PROVE  ImportsMeanWhatTheySay
<1>1. Defined(defs, disk, now)
  BY DEF ImportInv
<1>2. Imports!ResolvedIsExported
  <2> SUFFICES ASSUME defs # Missing, defs.ok, NEW name \in DOMAIN defs.table,
                      Imports!Dispatched(defs.table[name], TRUE),
                      defs.table[name].status # "none"
               PROVE  name \in defs.checked
    BY DEF Imports!ResolvedIsExported, Imports!Imported
  <2>1. defs.table[name].status = "resolved"
    BY DEF Imports!Dispatched
  <2> QED BY <1>1, <2>1 DEF Defined
<1>3. Imports!FailureHasACause
  BY <1>1 DEF Defined, Imports!FailureHasACause
<1> QED BY <1>2, <1>3 DEF ImportsMeanWhatTheySay

(***************************************************************************)
(* Whatever libraries and headers there are, and however they change while *)
(* an import goes on, from a cache another library may have written or     *)
(* that a crash cut off, or step by step: what an import calls resolved    *)
(* the library exports as the import found it, and an import that fails    *)
(* had a file missing or a file change under it (op_IMPORT,                *)
(* validateResolvedArtifactFreshness).                                     *)
(***************************************************************************)
THEOREM ImportsStayMeaningful ==
  ASSUME Imports!ImportAssumption
  PROVE  Imports!Spec => []ImportsMeanWhatTheySay
<1>1. Imports!Init => ImportInv
  BY ImportInit
<1>2. ImportInv /\ [Imports!Next]_(Imports!vars) => ImportInv'
  <2> SUFFICES ASSUME ImportInv, [Imports!Next]_(Imports!vars) PROVE ImportInv'
    OBVIOUS
  <2>1. CASE \E f \in Imports!Files : Imports!Change(f)
    BY <2>1, ChangeKeeps
  <2>2. CASE Imports!Begin \/ Imports!Look \/ Imports!FromCache
    BY <2>2, BeginKeeps, LookKeeps, FromCacheKeeps
  <2>3. CASE Imports!Parse \/ Imports!Hash \/ Imports!Resolve
    BY <2>3, ParseKeeps, HashKeeps, ResolveKeeps
  <2>4. CASE Imports!Save \/ Imports!Flush
    BY <2>4, CacheSaveKeeps, FlushKeeps
  <2>5. CASE Imports!Crash
    BY <2>5, DeathKeeps
  <2>6. CASE Imports!MaterializeJson \/ Imports!ImportResolvedJson
    BY <2>6, MaterializeJsonKeeps, ImportResolvedJsonKeeps
  <2>7. CASE \E h \in Headers : Imports!ParseJson(h)
    BY <2>7, ParseJsonKeeps
  <2>8. CASE \E l \in Libraries : Imports!ResolveJson(l)
    BY <2>8, ResolveJsonKeeps
  <2>9. CASE (\E l \in Libraries : Imports!LoadLibrary(l)) \/ UNCHANGED Imports!vars
    BY <2>9, LoadKeeps DEF Imports!LoadLibrary, Imports!vars
  <2> QED BY <2>1, <2>2, <2>3, <2>4, <2>5, <2>6, <2>7, <2>8, <2>9
          DEF Imports!Next, Imports!Importing, Imports!StepByStep
<1>3. ImportInv => ImportsMeanWhatTheySay
  BY ImportsMean
<1> QED BY <1>1, <1>2, <1>3, PTL DEF Imports!Spec, Imports!vars, ImportsMeanWhatTheySay
=============================================================================
