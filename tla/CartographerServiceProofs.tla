---------------------- MODULE CartographerServiceProofs ----------------------
(***************************************************************************)
(* Proofs about CartographerService, for any number of services, of        *)
(* imports and of requests: what collect answers is the import it names,   *)
(* and the status of a request only goes forward.                          *)
(*                                                                         *)
(* The argument is about one service at a time.  Its table r, the bytes q  *)
(* to its child and f from it, the child c, the reader rd and the caller   *)
(* qu are parameters, so that each change of them is a lemma of its own    *)
(* and the steps of the specification only say which one they make.        *)
(***************************************************************************)
EXTENDS CartographerService, SequenceTheorems, TLAPS

Asked == [id : 1..MaxRequests, source : Sources]
Told  == [id : 1..MaxRequests, source : Sources, status : Statuses,
          description : Sources \cup {NoRequest}]

(* What is on the wire is about a request of the table; the table's reply  *)
(* is what it says of the request.                                         *)
Meant(r, q, f) ==
  /\ \A k \in 1..Len(q) : q[k].id \in 1..Len(r) /\ q[k].source = r[q[k].id].source
  /\ \A k \in 1..Len(f) :
       /\ f[k].id \in 1..Len(r) /\ f[k].source = r[f[k].id].source
       /\ f[k].status \in {"running", "ready", "import_failed"}
       /\ f[k].description = IF f[k].status = "ready" THEN f[k].source ELSE NoRequest
  /\ \A i \in 1..Len(r) :
       /\ r[i].reply.id = i /\ r[i].reply.source = r[i].source
       /\ r[i].reply.status = r[i].status
       /\ r[i].status = "ready" => r[i].description = r[i].source

(* The child is asked once, says that it runs, and then how it ended.      *)
Ordered(q, f, c) ==
  /\ \A j, k \in 1..Len(q) : q[j].id = q[k].id => j = k
  /\ \A j, k \in 1..Len(f) : j < k /\ f[j].id = f[k].id =>
       f[j].status = "running" /\ f[k].status # "running"
  /\ \A j \in 1..Len(f), k \in 1..Len(q) : f[j].id = q[k].id =>
       k = 1 /\ c # "idle" /\ f[j].status = "running"

(* The table is behind the wire: of a request that has ended nothing is on *)
(* its way, unless nobody is left to answer; of one that runs, its end.    *)
Stated(r, q, f, c) ==
  \A i \in 1..Len(r) :
    /\ r[i].status \notin Pending =>
         /\ \A j \in 1..Len(f) : f[j].id # i
         /\ \A k \in 1..Len(q) : q[k].id = i => c = "dead"
    /\ r[i].status = "running" =>
         /\ \A j \in 1..Len(f) : f[j].id = i => f[j].status # "running"
         /\ \A k \in 1..Len(q) : q[k].id = i => k = 1 /\ c # "idle"

(* A caller in queueDeferredImport has entered its request, and nobody     *)
(* else knows of it but the reader that swept the table.                   *)
Asking(r, q, f, rd, qu) ==
  qu # "no" =>
    /\ Len(r) >= 1
    /\ \A k \in 1..Len(q) : q[k].id # Len(r)
    /\ \A j \in 1..Len(f) : f[j].id # Len(r)
    /\ \/ r[Len(r)].status = "queued"
       \/ rd = "done" /\ r[Len(r)].status = "transport_failed"

Shaped(r, q, f) ==
  r \in Seq(Request) /\ Len(r) <= MaxRequests /\ q \in Seq(Asked) /\ f \in Seq(Told)

Fine(r, q, f, c, rd, qu) ==
  /\ Shaped(r, q, f) /\ Meant(r, q, f) /\ Ordered(q, f, c)
  /\ Stated(r, q, f, c) /\ Asking(r, q, f, rd, qu)

(* How far the life of a service has come, and its child and reader.       *)
Lives(s) ==
  /\ phase[s] \in {"new", "piped"} =>
       child[s] = "none" /\ reader[s] = "none" /\ requests[s] = <<>> /\ queueing[s] = "no"
  /\ phase[s] = "forked" => child[s] # "none" /\ reader[s] = "none"
  /\ phase[s] = "piped" => Host \in writers[s]
  /\ child[s] \in {"idle", "busy"} => s \in writers[s]
  /\ child[s] = "busy" => toChild[s] # <<>>
  /\ reader[s] = "reading" => child[s] # "none"
  /\ reader[s] = "done" => child[s] = "dead"

Types ==
  /\ phase \in [Services -> {"new", "piped", "forked", "open", "stopping", "gone"}]
  /\ writers \in [Services -> SUBSET (Services \cup {Host})]
  /\ child \in [Services -> {"none", "idle", "busy", "dead"}]
  /\ reader \in [Services -> {"none", "reading", "done"}]
  /\ queueing \in [Services -> {"no", "entered", "writes", "fails"}]
  /\ toChild \in [Services -> Seq(Asked)]
  /\ fromChild \in [Services -> Seq(Told)]
  /\ requests \in [Services -> Seq(Request)]

AnswerFits ==
  answer # NoRequest /\ answer.collected =>
     IF answer.status = "ready" THEN answer.definitions = answer.source
                                ELSE answer.definitions = NoRequest

Serves(s) ==
  /\ Lives(s)
  /\ Fine(requests[s], toChild[s], fromChild[s], child[s], reader[s], queueing[s])

ServiceInv == Types /\ AnswerFits /\ \A s \in Services : Serves(s)

-----------------------------------------------------------------------------
(* Sequences, one element at a time.                                       *)
LEMMA Appended ==
  ASSUME NEW S, NEW q \in Seq(S), NEW e \in S
  PROVE  /\ Append(q, e) \in Seq(S) /\ Len(q) \in Nat /\ Len(Append(q, e)) = Len(q) + 1
         /\ \A k \in 1..Len(q) : Append(q, e)[k] = q[k]
         /\ Append(q, e)[Len(q) + 1] = e
         /\ \A k \in 1..Len(Append(q, e)) : \/ k \in 1..Len(q) /\ Append(q, e)[k] = q[k]
                                            \/ k = Len(q) + 1 /\ Append(q, e)[k] = e
<1>1. Len(q) \in Nat
  BY LenProperties
<1>2. /\ Append(q, e) \in Seq(S) /\ Len(Append(q, e)) = Len(q) + 1
      /\ \A k \in 1..Len(q) : Append(q, e)[k] = q[k]
      /\ Append(q, e)[Len(q) + 1] = e
  BY <1>1
<1>3. \A k \in 1..(Len(q) + 1) : k \in 1..Len(q) \/ k = Len(q) + 1
  BY <1>1
<1>4. 1..Len(Append(q, e)) = 1..(Len(q) + 1)
  BY <1>2
<1>5. \A k \in 1..Len(Append(q, e)) : \/ k \in 1..Len(q) /\ Append(q, e)[k] = q[k]
                                      \/ k = Len(q) + 1 /\ Append(q, e)[k] = e
  <2> SUFFICES ASSUME NEW k \in 1..Len(Append(q, e))
               PROVE  \/ k \in 1..Len(q) /\ Append(q, e)[k] = q[k]
                      \/ k = Len(q) + 1 /\ Append(q, e)[k] = e
    OBVIOUS
  <2>1. k \in 1..Len(q) \/ k = Len(q) + 1
    BY <1>3, <1>4
  <2>2. CASE k \in 1..Len(q)
    BY <1>2, <2>2
  <2>3. CASE k = Len(q) + 1
    BY <1>2, <2>3
  <2> QED BY <2>1, <2>2, <2>3
<1> QED BY <1>1, <1>2, <1>5

LEMMA Beheaded ==
  ASSUME NEW S, NEW q \in Seq(S), q # <<>>
  PROVE  /\ Head(q) = q[1] /\ q[1] \in S /\ Tail(q) \in Seq(S) /\ Len(q) \in Nat \ {0}
         /\ 1 \in 1..Len(q)
         /\ \A k \in 1..Len(Tail(q)) : Tail(q)[k] = q[k + 1] /\ k + 1 \in 1..Len(q) /\ k + 1 > 1
<1>1. Len(q) \in Nat \ {0}
  BY EmptySeq
<1>2. 1 \in 1..Len(q)
  BY <1>1
<1>3. Head(q) = q[1] /\ q[1] \in S
  BY <1>2, ElementOfSeq
<1>4. /\ Tail(q) \in Seq(S) /\ Len(Tail(q)) = Len(q) - 1
      /\ \A k \in 1..Len(Tail(q)) : Tail(q)[k] = q[k + 1]
  BY HeadTailProperties
<1>5. \A k \in 1..Len(Tail(q)) : k + 1 \in 1..Len(q) /\ k + 1 > 1
  BY <1>1, <1>4
<1> QED BY <1>1, <1>2, <1>3, <1>4, <1>5

LEMMA TableShape ==
  ASSUME NEW r, NEW q, NEW f, Shaped(r, q, f)
  PROVE  /\ r \in Seq(Request) /\ q \in Seq(Asked) /\ f \in Seq(Told)
         /\ Len(r) \in Nat /\ Len(q) \in Nat /\ Len(f) \in Nat
         /\ \A i \in 1..Len(r) : r[i] \in Request
         /\ \A k \in 1..Len(q) : q[k] \in Asked
         /\ \A k \in 1..Len(f) : f[k] \in Told
<1>1. r \in Seq(Request) /\ q \in Seq(Asked) /\ f \in Seq(Told)
  BY DEF Shaped
<1>2. Len(r) \in Nat /\ Len(q) \in Nat /\ Len(f) \in Nat
  BY <1>1, LenProperties
<1>3. \A i \in 1..Len(r) : r[i] \in Request
  BY <1>1, ElementOfSeq
<1>4. \A k \in 1..Len(q) : q[k] \in Asked
  BY <1>1, ElementOfSeq
<1>5. \A k \in 1..Len(f) : f[k] \in Told
  BY <1>1, ElementOfSeq
<1> QED BY <1>1, <1>2, <1>3, <1>4, <1>5

(* What the child says of the request in its hands.                        *)
Says(q, status) ==
  EncodeImportStatus(q[1].id, q[1].source, status,
                     IF status = "ready" THEN q[1].source ELSE NoRequest)

LEMMA SaysOf ==
  ASSUME NEW r, NEW q, NEW f, Shaped(r, q, f), Meant(r, q, f), q # <<>>,
         NEW status \in {"running", "ready", "import_failed"}
  PROVE  /\ Says(q, status) \in Told /\ Says(q, status).id = q[1].id
         /\ Says(q, status).status = status /\ Says(q, status).source = q[1].source
         /\ Says(q, status).description = IF status = "ready" THEN q[1].source ELSE NoRequest
         /\ 1 \in 1..Len(q) /\ q[1].id \in 1..Len(r) /\ q[1].source = r[q[1].id].source
<1>1. 1 \in 1..Len(q) /\ q[1] \in Asked
  BY Beheaded DEF Shaped
<1>2. q[1].id \in 1..Len(r) /\ q[1].source = r[q[1].id].source
  BY <1>1 DEF Meant
<1>3. q[1].id \in 1..MaxRequests /\ q[1].source \in Sources
  BY <1>1 DEF Asked
<1>4. Says(q, status) \in Told
  BY <1>3 DEF Says, EncodeImportStatus, Told, Statuses, Pending, Failures
<1>5. /\ Says(q, status).id = q[1].id
      /\ Says(q, status).status = status /\ Says(q, status).source = q[1].source
      /\ Says(q, status).description = IF status = "ready" THEN q[1].source ELSE NoRequest
  BY DEF Says, EncodeImportStatus
<1> QED BY <1>1, <1>2, <1>4, <1>5

LEMMA FineTakes ==
  ASSUME NEW r, NEW q, NEW f, NEW rd, NEW qu, Fine(r, q, f, "idle", rd, qu), q # <<>>
  PROVE  Fine(r, q, Append(f, Says(q, "running")), "busy", rd, qu)
<1> DEFINE m == Says(q, "running")
           f2 == Append(f, m)
           n == Len(f)
<1>0. /\ Shaped(r, q, f) /\ Meant(r, q, f) /\ Ordered(q, f, "idle")
      /\ Stated(r, q, f, "idle") /\ Asking(r, q, f, rd, qu)
  BY DEF Fine
<1>1. /\ m \in Told /\ m.id = q[1].id /\ m.status = "running" /\ m.source = q[1].source
      /\ m.description = NoRequest
      /\ 1 \in 1..Len(q) /\ q[1].id \in 1..Len(r) /\ q[1].source = r[q[1].id].source
  BY <1>0, SaysOf
<1> HIDE DEF m
<1>2. /\ f2 \in Seq(Told) /\ n \in Nat /\ Len(f2) = n + 1
      /\ \A k \in 1..n : f2[k] = f[k]
      /\ f2[n + 1] = m
      /\ \A k \in 1..Len(f2) : \/ k \in 1..n /\ f2[k] = f[k]
                               \/ k = n + 1 /\ f2[k] = m
  BY <1>0, <1>1, Appended DEF Shaped
<1> HIDE DEF f2
<1>3. Shaped(r, q, f2)
  BY <1>0, <1>2 DEF Shaped
<1>4. \A k \in 1..Len(f2) : (k \in 1..n /\ f2[k] = f[k]) \/ (k = n + 1 /\ f2[k] = m)
  BY <1>2
<1>5. Meant(r, q, f2)
  <2>1. ASSUME NEW k \in 1..Len(f2)
        PROVE  /\ f2[k].id \in 1..Len(r) /\ f2[k].source = r[f2[k].id].source
               /\ f2[k].status \in {"running", "ready", "import_failed"}
               /\ f2[k].description = IF f2[k].status = "ready" THEN f2[k].source ELSE NoRequest
    <3>1. CASE k \in 1..n /\ f2[k] = f[k]
      BY <1>0, <3>1 DEF Meant
    <3>2. CASE f2[k] = m
      BY <1>1, <3>2
    <3> QED BY <1>4, <3>1, <3>2
  <2> QED BY <1>0, <2>1 DEF Meant
<1>6. \A j \in 1..n, k \in 1..Len(q) : f[j].id # q[k].id
  BY <1>0 DEF Ordered
<1>7. Ordered(q, f2, "busy")
  <2>1. ASSUME NEW j \in 1..Len(f2), NEW k \in 1..Len(f2), j < k, f2[j].id = f2[k].id
        PROVE  f2[j].status = "running" /\ f2[k].status # "running"
    <3>1. CASE k \in 1..n
      <4>1. j \in 1..n /\ f2[j] = f[j] /\ f2[k] = f[k]
        BY <1>2, <2>1, <3>1
      <4> QED BY <1>0, <2>1, <3>1, <4>1 DEF Ordered
    <3>2. CASE k = n + 1
      <4>1. j \in 1..n /\ f2[j] = f[j] /\ f2[k] = m
        BY <1>2, <2>1, <3>2
      <4> QED BY <1>1, <1>6, <2>1, <4>1
    <3> QED BY <1>4, <3>1, <3>2
  <2>2. ASSUME NEW j \in 1..Len(f2), NEW k \in 1..Len(q), f2[j].id = q[k].id
        PROVE  k = 1 /\ f2[j].status = "running"
    <3>1. f2[j] = m
      BY <1>4, <1>6, <2>2
    <3> QED BY <1>0, <1>1, <2>2, <3>1 DEF Ordered
  <2>3. \A j, k \in 1..Len(q) : q[j].id = q[k].id => j = k
    BY <1>0 DEF Ordered
  <2> QED BY <2>1, <2>2, <2>3 DEF Ordered
<1>8. Stated(r, q, f2, "busy")
  <2> SUFFICES ASSUME NEW i \in 1..Len(r)
               PROVE  /\ r[i].status \notin Pending =>
                           /\ \A j \in 1..Len(f2) : f2[j].id # i
                           /\ \A k \in 1..Len(q) : q[k].id = i => "busy" = "dead"
                      /\ r[i].status = "running" =>
                           /\ \A j \in 1..Len(f2) : f2[j].id = i => f2[j].status # "running"
                           /\ \A k \in 1..Len(q) : q[k].id = i => k = 1 /\ "busy" # "idle"
    BY DEF Stated
  <2>1. /\ r[i].status \notin Pending =>
             /\ \A j \in 1..n : f[j].id # i
             /\ \A k \in 1..Len(q) : q[k].id # i
        /\ r[i].status = "running" =>
             /\ \A j \in 1..n : f[j].id = i => f[j].status # "running"
             /\ \A k \in 1..Len(q) : q[k].id # i
    BY <1>0 DEF Stated
  <2> QED BY <1>1, <1>4, <2>1
<1>9. Asking(r, q, f2, rd, qu)
  BY <1>0, <1>1, <1>4 DEF Asking
<1> QED BY <1>3, <1>5, <1>7, <1>8, <1>9 DEF Fine, f2, m

(* The end of the request in the child's hands.                            *)
LEMMA FineAnswers ==
  ASSUME NEW r, NEW q, NEW f, NEW rd, NEW qu, Fine(r, q, f, "busy", rd, qu), q # <<>>,
         NEW status \in {"ready", "import_failed"}
  PROVE  Fine(r, Tail(q), Append(f, Says(q, status)), "idle", rd, qu)
<1> DEFINE m == Says(q, status)
           f2 == Append(f, m)
           q2 == Tail(q)
           n == Len(f)
<1>0. /\ Shaped(r, q, f) /\ Meant(r, q, f) /\ Ordered(q, f, "busy")
      /\ Stated(r, q, f, "busy") /\ Asking(r, q, f, rd, qu)
  BY DEF Fine
<1>1. /\ m \in Told /\ m.id = q[1].id /\ m.status = status /\ m.source = q[1].source
      /\ m.description = IF status = "ready" THEN q[1].source ELSE NoRequest
      /\ 1 \in 1..Len(q) /\ q[1].id \in 1..Len(r) /\ q[1].source = r[q[1].id].source
  BY <1>0, SaysOf
<1> HIDE DEF m
<1>2. /\ f2 \in Seq(Told) /\ n \in Nat /\ Len(f2) = n + 1
      /\ \A k \in 1..n : f2[k] = f[k]
      /\ f2[n + 1] = m
      /\ \A k \in 1..Len(f2) : \/ k \in 1..n /\ f2[k] = f[k]
                               \/ k = n + 1 /\ f2[k] = m
  BY <1>0, <1>1, Appended DEF Shaped
<1>3. /\ q2 \in Seq(Asked) /\ Len(q) \in Nat \ {0}
      /\ \A k \in 1..Len(q2) : q2[k] = q[k + 1] /\ k + 1 \in 1..Len(q) /\ k + 1 > 1
  BY <1>0, Beheaded DEF Shaped
<1>4. Len(q2) \in Nat
  BY <1>3, LenProperties
<1> HIDE DEF f2, q2
<1>5. Shaped(r, q2, f2)
  BY <1>0, <1>2, <1>3 DEF Shaped
<1>6. \A k \in 1..Len(f2) : (k \in 1..n /\ f2[k] = f[k]) \/ (k = n + 1 /\ f2[k] = m)
  BY <1>2
<1>7. \A k \in 1..Len(q2) : q2[k].id # q[1].id
  <2> SUFFICES ASSUME NEW k \in 1..Len(q2), q2[k].id = q[1].id
               PROVE  FALSE
    OBVIOUS
  <2>1. q2[k] = q[k + 1] /\ k + 1 \in 1..Len(q) /\ k + 1 > 1
    BY <1>3
  <2>2. k + 1 = 1
    BY <1>0, <1>1, <2>1 DEF Ordered
  <2> QED BY <2>1, <2>2
<1>8. Meant(r, q2, f2)
  <2>1. ASSUME NEW k \in 1..Len(f2)
        PROVE  /\ f2[k].id \in 1..Len(r) /\ f2[k].source = r[f2[k].id].source
               /\ f2[k].status \in {"running", "ready", "import_failed"}
               /\ f2[k].description = IF f2[k].status = "ready" THEN f2[k].source ELSE NoRequest
    <3>1. CASE k \in 1..n /\ f2[k] = f[k]
      BY <1>0, <3>1 DEF Meant
    <3>2. CASE f2[k] = m
      BY <1>1, <3>2
    <3> QED BY <1>6, <3>1, <3>2
  <2>2. \A k \in 1..Len(q2) : q2[k].id \in 1..Len(r) /\ q2[k].source = r[q2[k].id].source
    BY <1>0, <1>3 DEF Meant
  <2> QED BY <1>0, <2>1, <2>2 DEF Meant
<1>9. Ordered(q2, f2, "idle")
  <2>1. ASSUME NEW j \in 1..Len(f2), NEW k \in 1..Len(f2), j < k, f2[j].id = f2[k].id
        PROVE  f2[j].status = "running" /\ f2[k].status # "running"
    <3>1. CASE k \in 1..n
      <4>1. j \in 1..n /\ f2[j] = f[j] /\ f2[k] = f[k]
        BY <1>2, <2>1, <3>1
      <4> QED BY <1>0, <2>1, <3>1, <4>1 DEF Ordered
    <3>2. CASE k = n + 1
      <4>1. j \in 1..n /\ f2[j] = f[j] /\ f2[k] = m
        BY <1>2, <2>1, <3>2
      <4> QED BY <1>0, <1>1, <2>1, <4>1 DEF Ordered
    <3> QED BY <1>6, <3>1, <3>2
  <2>2. ASSUME NEW j \in 1..Len(f2), NEW k \in 1..Len(q2), f2[j].id = q2[k].id
        PROVE  FALSE
    <3>1. j \in 1..n /\ f2[j] = f[j]
      BY <1>1, <1>6, <1>7, <2>2
    <3>2. q2[k] = q[k + 1] /\ k + 1 \in 1..Len(q) /\ k + 1 > 1
      BY <1>3
    <3>3. k + 1 = 1
      BY <1>0, <2>2, <3>1, <3>2 DEF Ordered
    <3> QED BY <3>2, <3>3
  <2>3. ASSUME NEW j \in 1..Len(q2), NEW k \in 1..Len(q2), q2[j].id = q2[k].id
        PROVE  j = k
    <3>1. /\ q2[k] = q[k + 1] /\ k + 1 \in 1..Len(q)
          /\ q2[j] = q[j + 1] /\ j + 1 \in 1..Len(q)
      BY <1>3
    <3>2. j + 1 = k + 1
      BY <1>0, <2>3, <3>1 DEF Ordered
    <3> QED BY <1>4, <3>2
  <2> QED BY <2>1, <2>2, <2>3 DEF Ordered
<1>10. Stated(r, q2, f2, "idle")
  <2> SUFFICES ASSUME NEW i \in 1..Len(r)
               PROVE  /\ r[i].status \notin Pending =>
                           /\ \A j \in 1..Len(f2) : f2[j].id # i
                           /\ \A k \in 1..Len(q2) : q2[k].id # i
                      /\ r[i].status = "running" =>
                           /\ \A j \in 1..Len(f2) : f2[j].id = i => f2[j].status # "running"
                           /\ \A k \in 1..Len(q2) : q2[k].id # i
    BY DEF Stated
  <2>1. /\ r[i].status \notin Pending =>
             /\ \A j \in 1..n : f[j].id # i
             /\ \A k \in 1..Len(q) : q[k].id # i
        /\ r[i].status = "running" =>
             /\ \A j \in 1..n : f[j].id = i => f[j].status # "running"
             /\ \A k \in 1..Len(q) : q[k].id = i => k = 1
    BY <1>0 DEF Stated
  <2>2. ASSUME r[i].status \notin Pending
        PROVE  /\ \A j \in 1..Len(f2) : f2[j].id # i
               /\ \A k \in 1..Len(q2) : q2[k].id # i
    BY <1>1, <1>3, <1>6, <2>1, <2>2
  <2>3. ASSUME r[i].status = "running", NEW k \in 1..Len(q2)
        PROVE  q2[k].id # i
    <3>1. q2[k] = q[k + 1] /\ k + 1 \in 1..Len(q) /\ k + 1 > 1
      BY <1>3
    <3>2. q[k + 1].id = i => k + 1 = 1
      BY <2>1, <2>3, <3>1
    <3> QED BY <3>1, <3>2
  <2>4. ASSUME r[i].status = "running", NEW j \in 1..Len(f2), f2[j].id = i
        PROVE  f2[j].status # "running"
    BY <1>1, <1>6, <2>1, <2>4
  <2> QED BY <2>2, <2>3, <2>4
<1>11. Asking(r, q2, f2, rd, qu)
  <2> SUFFICES ASSUME qu # "no"
               PROVE  /\ Len(r) >= 1
                      /\ \A k \in 1..Len(q2) : q2[k].id # Len(r)
                      /\ \A j \in 1..Len(f2) : f2[j].id # Len(r)
                      /\ \/ r[Len(r)].status = "queued"
                         \/ rd = "done" /\ r[Len(r)].status = "transport_failed"
    BY DEF Asking
  <2>1. /\ Len(r) >= 1
        /\ \A k \in 1..Len(q) : q[k].id # Len(r)
        /\ \A j \in 1..n : f[j].id # Len(r)
        /\ \/ r[Len(r)].status = "queued"
           \/ rd = "done" /\ r[Len(r)].status = "transport_failed"
    BY <1>0 DEF Asking
  <2>2. \A k \in 1..Len(q2) : q2[k].id # Len(r)
    BY <1>3, <2>1
  <2>3. \A j \in 1..Len(f2) : f2[j].id # Len(r)
    BY <1>1, <1>6, <2>1
  <2> QED BY <2>1, <2>2, <2>3
<1> QED BY <1>5, <1>8, <1>9, <1>10, <1>11 DEF Fine, f2, q2, m

(* A status the reader applies changes one row, and not what it asks for.  *)
LEMMA AppliedRow ==
  ASSUME NEW r \in Seq(Request), NEW m \in Told, m.id \in 1..Len(r)
  PROVE  /\ Applied(r, m) \in Seq(Request) /\ Len(Applied(r, m)) = Len(r)
         /\ DOMAIN Applied(r, m) = 1..Len(r)
         /\ \A i \in 1..Len(r) : i # m.id => Applied(r, m)[i] = r[i]
         /\ Applied(r, m)[m.id].source = r[m.id].source
         /\ Applied(r, m)[m.id].status = m.status
         /\ Applied(r, m)[m.id].reply = m
         /\ Applied(r, m)[m.id].description = IF m.status = "ready" THEN m.description
                                                                    ELSE r[m.id].description
<1> DEFINE row == [r[m.id] EXCEPT !.status = m.status, !.reply = m,
                                  !.description = IF m.status = "ready" THEN m.description
                                                                        ELSE r[m.id].description]
<1>1. r[m.id] \in Request /\ DOMAIN r = 1..Len(r)
  BY ElementOfSeq, LenProperties
<1>2. row.status = m.status /\ row.reply = m /\ row.source = r[m.id].source
      /\ row.description = IF m.status = "ready" THEN m.description ELSE r[m.id].description
  BY <1>1 DEF Request
<1>3. row \in Request
  BY <1>1 DEF Request, Told
<1>4. Applied(r, m) = [r EXCEPT ![m.id] = row]
  BY <1>1 DEF Applied, Request
<1> HIDE DEF row
<1>5. [r EXCEPT ![m.id] = row] \in Seq(Request) /\ Len([r EXCEPT ![m.id] = row]) = Len(r)
      /\ DOMAIN [r EXCEPT ![m.id] = row] = 1..Len(r)
  BY <1>1, <1>3, ExceptSeq, LenProperties
<1>6. /\ \A i \in 1..Len(r) : i # m.id => [r EXCEPT ![m.id] = row][i] = r[i]
      /\ [r EXCEPT ![m.id] = row][m.id] = row
  BY <1>1
<1> QED BY <1>2, <1>4, <1>5, <1>6

LEMMA FineApplies ==
  ASSUME NEW r, NEW q, NEW f, NEW c, NEW qu, Fine(r, q, f, c, "reading", qu), f # <<>>
  PROVE  /\ Fine(Applied(r, Head(f)), q, Tail(f), c, "reading", qu)
         /\ Head(f).id \in DOMAIN r /\ DOMAIN Applied(r, Head(f)) = DOMAIN r
         /\ \A i \in DOMAIN r : Applied(r, Head(f))[i].status # r[i].status =>
              \/ r[i].status = "queued"
              \/ r[i].status = "running" /\ Applied(r, Head(f))[i].status # "queued"
<1> DEFINE m == f[1]
           g == Tail(f)
           r2 == Applied(r, m)
           a == m.id
<1>0. /\ Shaped(r, q, f) /\ Meant(r, q, f) /\ Ordered(q, f, c)
      /\ Stated(r, q, f, c) /\ Asking(r, q, f, "reading", qu)
  BY DEF Fine
<1>1. /\ Head(f) = f[1] /\ f[1] \in Told /\ g \in Seq(Told) /\ Len(f) \in Nat \ {0}
      /\ 1 \in 1..Len(f)
      /\ \A k \in 1..Len(g) : g[k] = f[k + 1] /\ k + 1 \in 1..Len(f) /\ k + 1 > 1
  BY <1>0, Beheaded DEF Shaped
<1>2. /\ r \in Seq(Request) /\ Len(r) \in Nat /\ DOMAIN r = 1..Len(r)
      /\ q \in Seq(Asked) /\ Len(r) <= MaxRequests
  BY <1>0, LenProperties DEF Shaped
<1>3. /\ m.id \in 1..Len(r) /\ m.source = r[m.id].source
      /\ m.status \in {"running", "ready", "import_failed"}
      /\ m.description = IF m.status = "ready" THEN m.source ELSE NoRequest
  BY <1>0, <1>1 DEF Meant
<1>4. /\ r2 \in Seq(Request) /\ Len(r2) = Len(r)
      /\ DOMAIN r2 = 1..Len(r)
      /\ \A i \in 1..Len(r) : i # m.id => r2[i] = r[i]
      /\ r2[m.id].source = r[m.id].source
      /\ r2[m.id].status = m.status
      /\ r2[m.id].reply = m
      /\ r2[m.id].description = IF m.status = "ready" THEN m.description
                                                      ELSE r[m.id].description
  BY <1>1, <1>2, <1>3, AppliedRow
<1>5. \A k \in 1..Len(g) : g[k].id = m.id => m.status = "running" /\ g[k].status # "running"
  <2> SUFFICES ASSUME NEW k \in 1..Len(g), g[k].id = m.id
               PROVE  m.status = "running" /\ g[k].status # "running"
    OBVIOUS
  <2>1. g[k] = f[k + 1] /\ k + 1 \in 1..Len(f) /\ 1 < k + 1
    BY <1>1
  <2> QED BY <1>0, <1>1, <2>1 DEF Ordered
<1>6. \A k \in 1..Len(q) : q[k].id = m.id => k = 1 /\ c # "idle" /\ m.status = "running"
  BY <1>0, <1>1 DEF Ordered
<1>7. \A i \in 1..Len(r) : r[i].status \notin Pending => i # m.id
  BY <1>0, <1>1 DEF Stated
<1>7a. r[m.id].status = "running" => m.status # "running"
  BY <1>0, <1>1, <1>3 DEF Stated
<1> HIDE DEF r2, g, m
<1>8. Shaped(r2, q, g)
  BY <1>1, <1>2, <1>4 DEF Shaped
<1>9. Meant(r2, q, g)
  <2>1. \A i \in 1..Len(r) : r2[i].source = r[i].source
    BY <1>3, <1>4
  <2>2. \A k \in 1..Len(q) : q[k].id \in 1..Len(r2) /\ q[k].source = r2[q[k].id].source
    BY <1>0, <1>4, <2>1 DEF Meant
  <2>3. ASSUME NEW k \in 1..Len(g)
        PROVE  /\ g[k].id \in 1..Len(r2) /\ g[k].source = r2[g[k].id].source
               /\ g[k].status \in {"running", "ready", "import_failed"}
               /\ g[k].description = IF g[k].status = "ready" THEN g[k].source ELSE NoRequest
    <3>1. g[k] = f[k + 1] /\ k + 1 \in 1..Len(f)
      BY <1>1
    <3>2. /\ g[k].id \in 1..Len(r) /\ g[k].source = r[g[k].id].source
          /\ g[k].status \in {"running", "ready", "import_failed"}
          /\ g[k].description = IF g[k].status = "ready" THEN g[k].source ELSE NoRequest
      BY <1>0, <3>1 DEF Meant
    <3> QED BY <1>4, <2>1, <3>2
  <2>4. ASSUME NEW i \in 1..Len(r2)
        PROVE  /\ r2[i].reply.id = i /\ r2[i].reply.source = r2[i].source
               /\ r2[i].reply.status = r2[i].status
               /\ r2[i].status = "ready" => r2[i].description = r2[i].source
    <3>1. CASE i = m.id
      BY <1>3, <1>4, <3>1
    <3>2. CASE i # m.id
      BY <1>0, <1>4, <2>4, <3>2 DEF Meant
    <3> QED BY <3>1, <3>2
  <2> QED BY <2>2, <2>3, <2>4 DEF Meant
<1>10. Ordered(q, g, c)
  <2>1. ASSUME NEW j \in 1..Len(g), NEW k \in 1..Len(g), j < k, g[j].id = g[k].id
        PROVE  g[j].status = "running" /\ g[k].status # "running"
    <3>1. /\ g[j] = f[j + 1] /\ j + 1 \in 1..Len(f)
          /\ g[k] = f[k + 1] /\ k + 1 \in 1..Len(f)
      BY <1>1
    <3>2. j + 1 < k + 1
      BY <2>1
    <3> QED BY <1>0, <2>1, <3>1, <3>2 DEF Ordered
  <2>2. ASSUME NEW j \in 1..Len(g), NEW k \in 1..Len(q), g[j].id = q[k].id
        PROVE  k = 1 /\ c # "idle" /\ g[j].status = "running"
    <3>1. g[j] = f[j + 1] /\ j + 1 \in 1..Len(f)
      BY <1>1
    <3> QED BY <1>0, <2>2, <3>1 DEF Ordered
  <2>3. \A j, k \in 1..Len(q) : q[j].id = q[k].id => j = k
    BY <1>0 DEF Ordered
  <2> QED BY <2>1, <2>2, <2>3 DEF Ordered
<1>11. Stated(r2, q, g, c)
  <2> SUFFICES ASSUME NEW i \in 1..Len(r)
               PROVE  /\ r2[i].status \notin Pending =>
                           /\ \A j \in 1..Len(g) : g[j].id # i
                           /\ \A k \in 1..Len(q) : q[k].id = i => c = "dead"
                      /\ r2[i].status = "running" =>
                           /\ \A j \in 1..Len(g) : g[j].id = i => g[j].status # "running"
                           /\ \A k \in 1..Len(q) : q[k].id = i => k = 1 /\ c # "idle"
    BY <1>4 DEF Stated
  <2>1. CASE i = m.id
    <3>1. r2[i].status = m.status
      BY <1>4, <2>1
    <3> QED BY <1>5, <1>6, <2>1, <3>1 DEF Pending
  <2>2. CASE i # m.id
    <3>1. r2[i] = r[i]
      BY <1>4, <2>2
    <3>2. \A j \in 1..Len(g) : g[j] = f[j + 1] /\ j + 1 \in 1..Len(f)
      BY <1>1
    <3>3. /\ r[i].status \notin Pending =>
                /\ \A j \in 1..Len(f) : f[j].id # i
                /\ \A k \in 1..Len(q) : q[k].id = i => c = "dead"
          /\ r[i].status = "running" =>
                /\ \A j \in 1..Len(f) : f[j].id = i => f[j].status # "running"
                /\ \A k \in 1..Len(q) : q[k].id = i => k = 1 /\ c # "idle"
      BY <1>0 DEF Stated
    <3> QED BY <3>1, <3>2, <3>3
  <2> QED BY <2>1, <2>2
<1>12. Asking(r2, q, g, "reading", qu)
  <2> SUFFICES ASSUME qu # "no"
               PROVE  /\ Len(r) >= 1
                      /\ \A k \in 1..Len(q) : q[k].id # Len(r)
                      /\ \A j \in 1..Len(g) : g[j].id # Len(r)
                      /\ r2[Len(r)].status = "queued"
    BY <1>4 DEF Asking
  <2>1. /\ Len(r) >= 1
        /\ \A k \in 1..Len(q) : q[k].id # Len(r)
        /\ \A j \in 1..Len(f) : f[j].id # Len(r)
        /\ r[Len(r)].status = "queued"
    BY <1>0 DEF Asking
  <2>2. \A j \in 1..Len(g) : g[j].id # Len(r)
    BY <1>1, <2>1
  <2>3. Len(r) # m.id
    BY <1>1, <2>1 DEF m
  <2>4. Len(r) \in 1..Len(r)
    BY <1>2, <2>1
  <2>5. r2[Len(r)] = r[Len(r)]
    BY <1>4, <2>3, <2>4
  <2> QED BY <2>1, <2>2, <2>5
<1>13. ASSUME NEW i \in 1..Len(r), r2[i].status # r[i].status
       PROVE  r[i].status = "queued" \/ (r[i].status = "running" /\ r2[i].status # "queued")
  <2>1. i = m.id
    BY <1>4, <1>13
  <2>2. r[i].status \in Pending
    BY <1>7, <2>1
  <2> QED BY <1>3, <1>4, <2>1, <2>2 DEF Pending
<1>14. Fine(r2, q, g, c, "reading", qu)
  BY <1>8, <1>9, <1>10, <1>11, <1>12 DEF Fine
<1>15. Head(f) = m
  BY <1>1 DEF m
<1> QED BY <1>2, <1>3, <1>4, <1>13, <1>14, <1>15 DEF r2, g

(* A request that fails is given an end and a reply that says so.          *)
LEMMA FailedRow ==
  ASSUME NEW row \in Request, NEW i \in 1..MaxRequests, NEW status \in Failures
  PROVE  /\ Failed(row, i, status) \in Request
         /\ Failed(row, i, status).source = row.source
         /\ Failed(row, i, status).status = status
         /\ Failed(row, i, status).description = row.description
         /\ Failed(row, i, status).reply.id = i
         /\ Failed(row, i, status).reply.source = row.source
         /\ Failed(row, i, status).reply.status = status
BY DEF Failed, Request, EncodeImportStatus, Statuses, Failures

LEMMA FineEnds ==
  ASSUME NEW r, NEW q, NEW qu, Fine(r, q, <<>>, "dead", "reading", qu)
  PROVE  /\ Fine(Swept(r), q, <<>>, "dead", "done", qu)
         /\ DOMAIN Swept(r) = DOMAIN r
         /\ \A i \in DOMAIN r : Swept(r)[i].status # r[i].status =>
              \/ r[i].status = "queued"
              \/ r[i].status = "running" /\ Swept(r)[i].status # "queued"
<1> DEFINE r2 == Swept(r)
           l == Len(r)
<1>0. /\ Shaped(r, q, <<>>) /\ Meant(r, q, <<>>) /\ Ordered(q, <<>>, "dead")
      /\ Stated(r, q, <<>>, "dead") /\ Asking(r, q, <<>>, "reading", qu)
  BY DEF Fine
<1>1. /\ r \in Seq(Request) /\ l \in Nat /\ DOMAIN r = 1..l /\ l <= MaxRequests
      /\ q \in Seq(Asked) /\ <<>> \in Seq(Told)
  BY <1>0, LenProperties DEF Shaped
<1>3. \A i \in 1..l : /\ r[i] \in Request
                      /\ i \in 1..MaxRequests
  <2>1. \A i \in 1..l : r[i] \in Request
    BY <1>1, ElementOfSeq
  <2>2. \A i \in 1..l : r[i].reply.id = i
    BY <1>0 DEF Meant
  <2> QED BY <2>1, <2>2 DEF Request
<1>4. /\ r2 = [i \in 1..l |-> IF r[i].status \in Pending
                              THEN Failed(r[i], i, "transport_failed") ELSE r[i]]
      /\ DOMAIN r2 = 1..l
  BY <1>1 DEF Swept
<1>5. \A i \in 1..l : r2[i] = IF r[i].status \in Pending
                              THEN Failed(r[i], i, "transport_failed") ELSE r[i]
  BY <1>4
<1>6. \A i \in 1..l : r[i].status \notin Pending => r2[i] = r[i]
  BY <1>5
<1>7. ASSUME NEW i \in 1..l, r[i].status \in Pending
      PROVE  /\ r2[i] \in Request /\ r2[i].source = r[i].source
             /\ r2[i].status = "transport_failed" /\ r2[i].reply.id = i
             /\ r2[i].reply.source = r[i].source /\ r2[i].reply.status = "transport_failed"
  <2>1. r2[i] = Failed(r[i], i, "transport_failed")
    BY <1>5, <1>7
  <2> QED BY <1>3, <2>1, FailedRow DEF Failures
<1>8. \A i \in 1..l : r2[i] \in Request /\ r2[i].source = r[i].source
  BY <1>3, <1>6, <1>7
<1> HIDE DEF r2, l
<1>9. r2 \in Seq(Request) /\ Len(r2) = l
  <2>1. r2 \in [1..l -> Request]
    BY <1>4, <1>8
  <2> QED BY <1>1, <2>1, SeqDef, LenProperties
<1>10. Shaped(r2, q, <<>>)
  BY <1>1, <1>9 DEF Shaped
<1>11. Meant(r2, q, <<>>)
  <2>1. \A k \in 1..Len(q) : q[k].id \in 1..l /\ q[k].source = r2[q[k].id].source
    BY <1>0, <1>8 DEF Meant, l
  <2>2. ASSUME NEW i \in 1..l
        PROVE  /\ r2[i].reply.id = i /\ r2[i].reply.source = r2[i].source
               /\ r2[i].reply.status = r2[i].status
               /\ r2[i].status = "ready" => r2[i].description = r2[i].source
    <3>1. CASE r[i].status \in Pending
      BY <1>8, <1>7, <3>1
    <3>2. CASE r[i].status \notin Pending
      BY <1>0, <1>6, <3>2 DEF Meant, l
    <3> QED BY <3>1, <3>2
  <2> QED BY <1>9, <2>1, <2>2 DEF Meant
<1>12. Stated(r2, q, <<>>, "dead")
  <2>1. \A i \in 1..l : r2[i].status # "running"
    BY <1>6, <1>7 DEF Pending
  <2> QED BY <1>9, <2>1 DEF Stated
<1>13. Asking(r2, q, <<>>, "done", qu)
  <2> SUFFICES ASSUME qu # "no"
               PROVE  /\ l >= 1
                      /\ \A k \in 1..Len(q) : q[k].id # l
                      /\ r2[l].status = "transport_failed"
    BY <1>9 DEF Asking
  <2>1. /\ l >= 1
        /\ \A k \in 1..Len(q) : q[k].id # l
        /\ r[l].status = "queued"
    BY <1>0 DEF Asking, l
  <2>2. l \in 1..l
    BY <1>1, <2>1
  <2> QED BY <1>7, <2>1, <2>2 DEF Pending
<1>14. \A i \in 1..l : r2[i].status # r[i].status =>
         (r[i].status = "queued" \/ (r[i].status = "running" /\ r2[i].status # "queued"))
  BY <1>6, <1>7 DEF Pending
<1>15. Fine(r2, q, <<>>, "dead", "done", qu)
  BY <1>0, <1>10, <1>11, <1>12, <1>13 DEF Fine
<1> QED BY <1>1, <1>4, <1>14, <1>15 DEF r2

(* The entry queueDeferredImport makes for an import.                      *)
Queued(i, source) ==
  [source |-> source, status |-> "queued", description |-> NoRequest,
   reply |-> EncodeImportStatus(i, source, "queued", NoRequest)]

LEMMA FineEnters ==
  ASSUME ServiceAssumption,
         NEW r, NEW q, NEW f, NEW c, NEW rd, Fine(r, q, f, c, rd, "no"),
         Len(r) < MaxRequests, NEW source \in Sources
  PROVE  Fine(Append(r, Queued(Len(r) + 1, source)), q, f, c, rd, "entered")
<1> DEFINE l == Len(r)
           row == Queued(l + 1, source)
           r2 == Append(r, row)
<1>0. /\ Shaped(r, q, f) /\ Meant(r, q, f) /\ Ordered(q, f, c) /\ Stated(r, q, f, c)
  BY DEF Fine
<1>1. /\ r \in Seq(Request) /\ l \in Nat /\ l < MaxRequests /\ MaxRequests \in Nat
      /\ q \in Seq(Asked) /\ f \in Seq(Told)
  BY <1>0, LenProperties DEF Shaped, ServiceAssumption
<1> HIDE DEF l
<1>2. /\ row \in Request /\ row.status = "queued" /\ row.source = source
      /\ row.reply.id = l + 1 /\ row.reply.source = source /\ row.reply.status = "queued"
  <2>1. l + 1 \in 1..MaxRequests
    BY <1>1
  <2> QED BY <2>1 DEF Queued, EncodeImportStatus, Request, Statuses, Pending
<1> HIDE DEF row
<1>3. /\ r2 \in Seq(Request) /\ Len(r2) = l + 1
      /\ \A k \in 1..l : r2[k] = r[k]
      /\ r2[l + 1] = row
  BY <1>1, <1>2, Appended DEF l
<1> HIDE DEF r2
<1>4. \A i \in 1..(l + 1) : i \in 1..l \/ i = l + 1
  BY <1>1
<1>5. 1..l \subseteq 1..(l + 1) /\ l + 1 \notin 1..l /\ l + 1 >= 1 /\ l + 1 <= MaxRequests
  BY <1>1
<1>6. /\ \A k \in 1..Len(q) : q[k].id \in 1..l /\ q[k].source = r[q[k].id].source
      /\ \A k \in 1..Len(f) :
           /\ f[k].id \in 1..l /\ f[k].source = r[f[k].id].source
           /\ f[k].status \in {"running", "ready", "import_failed"}
           /\ f[k].description = IF f[k].status = "ready" THEN f[k].source ELSE NoRequest
      /\ \A i \in 1..l :
           /\ r[i].reply.id = i /\ r[i].reply.source = r[i].source
           /\ r[i].reply.status = r[i].status
           /\ r[i].status = "ready" => r[i].description = r[i].source
  BY <1>0 DEF Meant, l
<1>7. Shaped(r2, q, f)
  BY <1>1, <1>3, <1>5 DEF Shaped
<1>8. Meant(r2, q, f)
  <2>1. \A k \in 1..Len(q) : q[k].id \in 1..Len(r2) /\ q[k].source = r2[q[k].id].source
    BY <1>3, <1>5, <1>6
  <2>2. \A k \in 1..Len(f) :
           /\ f[k].id \in 1..Len(r2) /\ f[k].source = r2[f[k].id].source
           /\ f[k].status \in {"running", "ready", "import_failed"}
           /\ f[k].description = IF f[k].status = "ready" THEN f[k].source ELSE NoRequest
    BY <1>3, <1>5, <1>6
  <2>3. ASSUME NEW i \in 1..Len(r2)
        PROVE  /\ r2[i].reply.id = i /\ r2[i].reply.source = r2[i].source
               /\ r2[i].reply.status = r2[i].status
               /\ r2[i].status = "ready" => r2[i].description = r2[i].source
    <3>1. CASE i \in 1..l
      BY <1>3, <1>6, <3>1
    <3>2. CASE i = l + 1
      BY <1>2, <1>3, <3>2
    <3> QED BY <1>3, <1>4, <3>1, <3>2
  <2> QED BY <2>1, <2>2, <2>3 DEF Meant
<1>9. Stated(r2, q, f, c)
  <2> SUFFICES ASSUME NEW i \in 1..Len(r2)
               PROVE  /\ r2[i].status \notin Pending =>
                           /\ \A j \in 1..Len(f) : f[j].id # i
                           /\ \A k \in 1..Len(q) : q[k].id = i => c = "dead"
                      /\ r2[i].status = "running" =>
                           /\ \A j \in 1..Len(f) : f[j].id = i => f[j].status # "running"
                           /\ \A k \in 1..Len(q) : q[k].id = i => k = 1 /\ c # "idle"
    BY DEF Stated
  <2>1. CASE i \in 1..l
    BY <1>0, <1>3, <2>1 DEF Stated, l
  <2>2. CASE i = l + 1
    BY <1>2, <1>3, <2>2 DEF Pending
  <2> QED BY <1>3, <1>4, <2>1, <2>2
<1>10. Asking(r2, q, f, rd, "entered")
  <2>1. /\ \A k \in 1..Len(q) : q[k].id # Len(r2)
        /\ \A j \in 1..Len(f) : f[j].id # Len(r2)
    BY <1>3, <1>5, <1>6
  <2>2. Len(r2) >= 1 /\ r2[Len(r2)].status = "queued"
    BY <1>2, <1>3, <1>5
  <2> QED BY <2>1, <2>2 DEF Asking
<1> QED BY <1>0, <1>7, <1>8, <1>9, <1>10 DEF Fine, r2, row, l

(* Where the caller is matters only while it is in queueDeferredImport.    *)
LEMMA FineLooks ==
  ASSUME NEW r, NEW q, NEW f, NEW c, NEW rd, NEW qu, Fine(r, q, f, c, rd, qu),
         NEW qu2, qu # "no" \/ qu2 = "no"
  PROVE  Fine(r, q, f, c, rd, qu2)
BY DEF Fine, Asking

LEMMA FineReads ==
  ASSUME NEW r, NEW q, NEW f, NEW c, NEW qu, Fine(r, q, f, c, "none", qu)
  PROVE  Fine(r, q, f, c, "reading", qu)
BY DEF Fine, Asking

LEMMA FineDies ==
  ASSUME NEW r, NEW q, NEW f, NEW c, NEW rd, NEW qu, Fine(r, q, f, c, rd, qu)
  PROVE  Fine(r, q, f, "dead", rd, qu)
<1>1. Ordered(q, f, "dead")
  BY DEF Fine, Ordered
<1>2. Stated(r, q, f, "dead")
  BY DEF Fine, Stated
<1> QED BY <1>1, <1>2 DEF Fine

(* Before the first request there is nothing on the wire.                  *)
LEMMA FineForks ==
  ASSUME NEW q, NEW f, NEW c, NEW rd, NEW qu, Fine(<<>>, q, f, c, rd, qu), NEW c2
  PROVE  Fine(<<>>, q, f, c2, rd, qu)
<1>1. Len(<<>>) = 0
  BY EmptySeq
<1>2. \A k \in 1..Len(<<>>) : FALSE
  BY <1>1
<1>3. (\A k \in 1..Len(q) : FALSE) /\ (\A k \in 1..Len(f) : FALSE)
  BY <1>2 DEF Fine, Meant
<1>4. Ordered(q, f, c2) /\ Stated(<<>>, q, f, c2)
  BY <1>2, <1>3 DEF Ordered, Stated
<1> QED BY <1>4 DEF Fine

(* The request goes to the child at last, and it is not there yet.         *)
LEMMA FineWrites ==
  ASSUME NEW r, NEW q, NEW f, NEW c, NEW rd, NEW qu, Fine(r, q, f, c, rd, qu),
         qu # "no", rd = "done" => c = "dead"
  PROVE  /\ Fine(r, Append(q, EncodeImportRequest(Len(r), r[Len(r)].source)), f, c, rd, "no")
         /\ Append(q, EncodeImportRequest(Len(r), r[Len(r)].source)) # <<>>
<1> DEFINE l == Len(r)
           n == Len(q)
           m == EncodeImportRequest(l, r[l].source)
           q2 == Append(q, m)
<1>0. /\ Shaped(r, q, f) /\ Meant(r, q, f) /\ Ordered(q, f, c) /\ Stated(r, q, f, c)
      /\ Asking(r, q, f, rd, qu)
  BY DEF Fine
<1>1. /\ l >= 1
      /\ \A k \in 1..n : q[k].id # l
      /\ \A j \in 1..Len(f) : f[j].id # l
      /\ r[l].status = "queued" \/ (rd = "done" /\ r[l].status = "transport_failed")
  BY <1>0 DEF Asking
<1>2. /\ r \in Seq(Request) /\ l \in Nat /\ n \in Nat
      /\ q \in Seq(Asked) /\ f \in Seq(Told)
  BY <1>0, LenProperties DEF Shaped
<1>3. l \in 1..l
  BY <1>1, <1>2
<1>4. r[l] \in Request /\ r[l].reply.id = l
  BY <1>0, <1>2, <1>3, ElementOfSeq DEF Meant
<1> HIDE DEF l, n
<1>5. m \in Asked /\ m.id = l /\ m.source = r[l].source
  BY <1>4 DEF Asked, EncodeImportRequest, Request
<1> HIDE DEF m
<1>6. /\ q2 \in Seq(Asked) /\ Len(q2) = n + 1
      /\ \A k \in 1..n : q2[k] = q[k]
      /\ q2[n + 1] = m /\ q2 # <<>>
  BY <1>2, <1>5, Appended, AppendProperties DEF n
<1> HIDE DEF q2
<1>7. \A k \in 1..Len(q2) : (k \in 1..n /\ q2[k] = q[k]) \/ (k = n + 1 /\ q2[k] = m)
  <2>1. \A k \in 1..(n + 1) : k \in 1..n \/ k = n + 1
    BY <1>2
  <2> QED BY <1>6, <2>1
<1>8. Shaped(r, q2, f)
  BY <1>0, <1>6 DEF Shaped
<1>9. Meant(r, q2, f)
  <2>1. ASSUME NEW k \in 1..Len(q2)
        PROVE  q2[k].id \in 1..Len(r) /\ q2[k].source = r[q2[k].id].source
    <3>1. CASE k \in 1..n /\ q2[k] = q[k]
      BY <1>0, <3>1 DEF Meant, n
    <3>2. CASE q2[k] = m
      BY <1>3, <1>5, <3>2 DEF l
    <3> QED BY <1>7, <3>1, <3>2
  <2> QED BY <1>0, <2>1 DEF Meant
<1>10. Ordered(q2, f, c)
  <2>1. ASSUME NEW j \in 1..Len(q2), NEW k \in 1..Len(q2), q2[j].id = q2[k].id
        PROVE  j = k
    <3>1. CASE j \in 1..n /\ q2[j] = q[j] /\ k \in 1..n /\ q2[k] = q[k]
      BY <1>0, <2>1, <3>1 DEF Ordered, n
    <3>2. CASE j = n + 1 /\ k = n + 1
      BY <3>2
    <3> QED BY <1>1, <1>5, <1>7, <2>1, <3>1, <3>2 DEF n
  <2>2. ASSUME NEW j \in 1..Len(f), NEW k \in 1..Len(q2), f[j].id = q2[k].id
        PROVE  k = 1 /\ c # "idle" /\ f[j].status = "running"
    <3>1. k \in 1..n /\ q2[k] = q[k]
      BY <1>1, <1>5, <1>7, <2>2
    <3> QED BY <1>0, <2>2, <3>1 DEF Ordered, n
  <2>3. \A j, k \in 1..Len(f) : j < k /\ f[j].id = f[k].id =>
          f[j].status = "running" /\ f[k].status # "running"
    BY <1>0 DEF Ordered
  <2> QED BY <2>1, <2>2, <2>3 DEF Ordered
<1>11. Stated(r, q2, f, c)
  <2> SUFFICES ASSUME NEW i \in 1..Len(r)
               PROVE  /\ r[i].status \notin Pending =>
                           /\ \A j \in 1..Len(f) : f[j].id # i
                           /\ \A k \in 1..Len(q2) : q2[k].id = i => c = "dead"
                      /\ r[i].status = "running" =>
                           /\ \A j \in 1..Len(f) : f[j].id = i => f[j].status # "running"
                           /\ \A k \in 1..Len(q2) : q2[k].id = i => k = 1 /\ c # "idle"
    BY DEF Stated
  <2>1. /\ r[i].status \notin Pending =>
             /\ \A j \in 1..Len(f) : f[j].id # i
             /\ \A k \in 1..n : q[k].id = i => c = "dead"
        /\ r[i].status = "running" =>
             /\ \A j \in 1..Len(f) : f[j].id = i => f[j].status # "running"
             /\ \A k \in 1..n : q[k].id = i => k = 1 /\ c # "idle"
    BY <1>0 DEF Stated, n
  <2>2. i = l => r[i].status # "running" /\ (r[i].status \notin Pending => c = "dead")
    BY <1>1 DEF Pending
  <2>3. ASSUME NEW k \in 1..Len(q2), q2[k].id = i
        PROVE  i = l \/ (k \in 1..n /\ q[k].id = i)
    BY <1>5, <1>7, <2>3
  <2> QED BY <2>1, <2>2, <2>3
<1>12. Asking(r, q2, f, rd, "no")
  BY DEF Asking
<1> QED BY <1>6, <1>8, <1>9, <1>10, <1>11, <1>12 DEF Fine, q2, m, l

(* The caller gives its request up; where the reader has swept the table   *)
(* before it, the request has the same end already.                        *)
LEMMA FineFails ==
  ASSUME ServiceAssumption,
         NEW r, NEW q, NEW f, NEW c, NEW rd, NEW qu, Fine(r, q, f, c, rd, qu),
         qu # "no", NEW status \in {"startup_failed", "transport_failed"},
         rd = "done" => status = "transport_failed"
  PROVE  LET r2 == [r EXCEPT ![Len(r)] = Failed(@, Len(r), status)]
         IN /\ Fine(r2, q, f, c, rd, "no")
            /\ DOMAIN r2 = DOMAIN r
            /\ \A i \in DOMAIN r : r2[i].status # r[i].status => r[i].status = "queued"
<1> DEFINE l == Len(r)
           row == Failed(r[l], l, status)
           r2 == [r EXCEPT ![l] = row]
<1>0. /\ Shaped(r, q, f) /\ Meant(r, q, f) /\ Ordered(q, f, c) /\ Stated(r, q, f, c)
      /\ Asking(r, q, f, rd, qu)
  BY DEF Fine
<1>1. /\ l >= 1
      /\ \A k \in 1..Len(q) : q[k].id # l
      /\ \A j \in 1..Len(f) : f[j].id # l
      /\ r[l].status = "queued" \/ (rd = "done" /\ r[l].status = "transport_failed")
  BY <1>0 DEF Asking
<1>2. /\ r \in Seq(Request) /\ l \in Nat /\ l <= MaxRequests /\ MaxRequests \in Nat
      /\ q \in Seq(Asked) /\ f \in Seq(Told) /\ DOMAIN r = 1..l
  BY <1>0, LenProperties DEF Shaped, ServiceAssumption
<1> HIDE DEF l
<1>3. l \in 1..l /\ l \in 1..MaxRequests
  BY <1>1, <1>2
<1>4. r[l] \in Request
  BY <1>2, <1>3, ElementOfSeq DEF l
<1>5. /\ row \in Request /\ row.source = r[l].source /\ row.status = status
      /\ row.reply.id = l /\ row.reply.source = r[l].source /\ row.reply.status = status
  BY <1>3, <1>4, FailedRow DEF Failures
<1> HIDE DEF row
<1>6. r2 \in Seq(Request) /\ Len(r2) = l /\ DOMAIN r2 = 1..l
  BY <1>2, <1>3, <1>5, ExceptSeq DEF l
<1>7. r2[l] = row /\ \A i \in 1..l : i # l => r2[i] = r[i]
  BY <1>2, <1>3
<1> HIDE DEF r2
<1>8. Shaped(r2, q, f)
  BY <1>2, <1>6 DEF Shaped
<1>9. \A i \in 1..l : r2[i].source = r[i].source
  BY <1>5, <1>7
<1>10. Meant(r2, q, f)
  <2>1. /\ \A k \in 1..Len(q) : q[k].id \in 1..Len(r2) /\ q[k].source = r2[q[k].id].source
        /\ \A k \in 1..Len(f) :
             /\ f[k].id \in 1..Len(r2) /\ f[k].source = r2[f[k].id].source
             /\ f[k].status \in {"running", "ready", "import_failed"}
             /\ f[k].description = IF f[k].status = "ready" THEN f[k].source ELSE NoRequest
    BY <1>0, <1>6, <1>9 DEF Meant, l
  <2>2. ASSUME NEW i \in 1..Len(r2)
        PROVE  /\ r2[i].reply.id = i /\ r2[i].reply.source = r2[i].source
               /\ r2[i].reply.status = r2[i].status
               /\ r2[i].status = "ready" => r2[i].description = r2[i].source
    <3>1. CASE i = l
      BY <1>5, <1>7, <3>1
    <3>2. CASE i # l
      <4>1. i \in 1..l /\ r2[i] = r[i]
        BY <1>6, <1>7, <2>2, <3>2
      <4>2. /\ r[i].reply.id = i /\ r[i].reply.source = r[i].source
            /\ r[i].reply.status = r[i].status
            /\ r[i].status = "ready" => r[i].description = r[i].source
        BY <1>0, <4>1 DEF Meant, l
      <4> QED BY <4>1, <4>2
    <3> QED BY <3>1, <3>2
  <2> QED BY <2>1, <2>2 DEF Meant
<1>11. Stated(r2, q, f, c)
  <2> SUFFICES ASSUME NEW i \in 1..Len(r2)
               PROVE  /\ r2[i].status \notin Pending =>
                           /\ \A j \in 1..Len(f) : f[j].id # i
                           /\ \A k \in 1..Len(q) : q[k].id = i => c = "dead"
                      /\ r2[i].status = "running" =>
                           /\ \A j \in 1..Len(f) : f[j].id = i => f[j].status # "running"
                           /\ \A k \in 1..Len(q) : q[k].id = i => k = 1 /\ c # "idle"
    BY DEF Stated
  <2>1. CASE i = l
    <3>1. r2[i].status # "running" /\ \A j \in 1..Len(f) : f[j].id # i
      BY <1>1, <1>5, <1>7, <2>1
    <3> QED BY <1>1, <2>1, <3>1
  <2>2. CASE i # l
    BY <1>0, <1>6, <1>7, <2>2 DEF Stated, l
  <2> QED BY <2>1, <2>2
<1>12. Asking(r2, q, f, rd, "no")
  BY DEF Asking
<1>13. \A i \in 1..l : r2[i].status # r[i].status => r[i].status = "queued"
  BY <1>1, <1>5, <1>7
<1>14. Fine(r2, q, f, c, rd, "no")
  BY <1>0, <1>8, <1>10, <1>11, <1>12 DEF Fine
<1>15. r2 = [r EXCEPT ![Len(r)] = Failed(@, Len(r), status)]
  BY <1>2 DEF r2, row, l
<1> QED BY <1>2, <1>6, <1>13, <1>14, <1>15

-----------------------------------------------------------------------------
(* The steps.  Each concerns one service; of the others it changes at most *)
(* who holds the ends of their pipes.                                      *)
Advances(s) ==
  \A i \in DOMAIN requests[s] :
    requests'[s][i].status # requests[s][i].status =>
      \/ requests[s][i].status = "queued"
      \/ requests[s][i].status = "running" /\ requests'[s][i].status # "queued"

Untouched(t) ==
  /\ phase'[t] = phase[t] /\ child'[t] = child[t] /\ reader'[t] = reader[t]
  /\ toChild'[t] = toChild[t] /\ fromChild'[t] = fromChild[t]
  /\ requests'[t] = requests[t] /\ queueing'[t] = queueing[t]

LEMMA Elsewhere ==
  ASSUME NEW t \in Services, Serves(t), Untouched(t),
         Host \in writers[t] => Host \in writers'[t],
         t \in writers[t] => t \in writers'[t]
  PROVE  Serves(t)' /\ Advances(t)
<1>1. Lives(t)'
  BY DEF Serves, Lives, Untouched
<1>2. Fine(requests'[t], toChild'[t], fromChild'[t], child'[t], reader'[t], queueing'[t])
  BY DEF Serves, Untouched
<1>3. Advances(t)
  BY DEF Advances, Untouched
<1> QED BY <1>1, <1>2, <1>3 DEF Serves

(* What is known of the service that moves.                                *)
LEMMA Here ==
  ASSUME ServiceInv, NEW s \in Services
  PROVE  /\ phase[s] \in {"new", "piped"} =>
              child[s] = "none" /\ reader[s] = "none" /\ requests[s] = <<>> /\ queueing[s] = "no"
         /\ phase[s] = "forked" => child[s] # "none" /\ reader[s] = "none"
         /\ phase[s] = "piped" => Host \in writers[s]
         /\ child[s] \in {"idle", "busy"} => s \in writers[s]
         /\ child[s] = "busy" => toChild[s] # <<>>
         /\ reader[s] = "reading" => child[s] # "none"
         /\ reader[s] = "done" => child[s] = "dead"
         /\ Fine(requests[s], toChild[s], fromChild[s], child[s], reader[s], queueing[s])
         /\ phase[s] \in {"new", "piped", "forked", "open", "stopping", "gone"}
         /\ child[s] \in {"none", "idle", "busy", "dead"}
         /\ reader[s] \in {"none", "reading", "done"}
         /\ writers[s] \subseteq Services \cup {Host}
         /\ requests[s] \in Seq(Request)
         /\ toChild[s] \in Seq(Asked)
         /\ fromChild[s] \in Seq(Told)
<1>1. Types /\ Lives(s)
      /\ Fine(requests[s], toChild[s], fromChild[s], child[s], reader[s], queueing[s])
  BY DEF ServiceInv, Serves
<1>2. /\ phase[s] \in {"new", "piped", "forked", "open", "stopping", "gone"}
      /\ child[s] \in {"none", "idle", "busy", "dead"}
      /\ reader[s] \in {"none", "reading", "done"}
      /\ writers[s] \subseteq Services \cup {Host}
      /\ requests[s] \in Seq(Request)
      /\ toChild[s] \in Seq(Asked)
      /\ fromChild[s] \in Seq(Told)
  BY <1>1 DEF Types
<1> QED BY <1>1, <1>2 DEF Lives

(* The constructor.                                                        *)
LEMMA ConstructKeeps ==
  ASSUME ServiceAssumption, ServiceInv, NEW s \in Services, Constructs(s)
  PROVE  ServiceInv' /\ \A t \in Services : Advances(t)
<1>0. Types /\ AnswerFits /\ (\A t \in Services : Serves(t)) /\ Host # s
  BY DEF ServiceInv, ServiceAssumption
<1>1. CASE MakePipes(s)
  <2>1. Types' /\ AnswerFits'
    BY <1>0, <1>1 DEF Types, AnswerFits, MakePipes
  <2>2. ASSUME NEW t \in Services, t # s PROVE Serves(t)' /\ Advances(t)
    <3>1. Untouched(t) /\ writers'[t] = writers[t]
      BY <1>0, <1>1, <2>2 DEF Types, MakePipes, Untouched
    <3> QED BY <1>0, <3>1, Elsewhere
  <2>3. Serves(s)' /\ Advances(s)
    <3>1. /\ phase'[s] = "piped" /\ child'[s] = child[s] /\ reader'[s] = reader[s]
          /\ toChild'[s] = toChild[s] /\ fromChild'[s] = fromChild[s]
          /\ requests'[s] = requests[s] /\ queueing'[s] = queueing[s]
          /\ writers'[s] = {Host} /\ phase[s] = "new"
      BY <1>0, <1>1 DEF Types, MakePipes
    <3>2. Lives(s)'
      BY <3>1, Here DEF Lives
    <3>3. Fine(requests'[s], toChild'[s], fromChild'[s], child'[s], reader'[s], queueing'[s])
      BY <3>1, Here
    <3> QED BY <3>1, <3>2, <3>3 DEF Serves, Advances
  <2> QED BY <2>1, <2>2, <2>3 DEF ServiceInv
<1>2. CASE StartupFails(s)
  <2>1. Types' /\ AnswerFits'
    BY <1>0, <1>2 DEF Types, AnswerFits, StartupFails
  <2>2. ASSUME NEW t \in Services, t # s PROVE Serves(t)' /\ Advances(t)
    <3>1. Untouched(t) /\ writers'[t] = writers[t]
      BY <1>0, <1>2, <2>2 DEF Types, StartupFails, Untouched
    <3> QED BY <1>0, <3>1, Elsewhere
  <2>3. Serves(s)' /\ Advances(s)
    <3>1. /\ phase'[s] = "open" /\ child'[s] = child[s] /\ reader'[s] = reader[s]
          /\ toChild'[s] = toChild[s] /\ fromChild'[s] = fromChild[s]
          /\ requests'[s] = requests[s] /\ queueing'[s] = queueing[s]
          /\ phase[s] \in {"new", "piped"}
      BY <1>0, <1>2 DEF Types, StartupFails
    <3>2. Lives(s)'
      BY <3>1, Here DEF Lives
    <3>3. Fine(requests'[s], toChild'[s], fromChild'[s], child'[s], reader'[s], queueing'[s])
      BY <3>1, Here
    <3> QED BY <3>1, <3>2, <3>3 DEF Serves, Advances
  <2> QED BY <2>1, <2>2, <2>3 DEF ServiceInv
<1>3. CASE Fork(s)
  <2>0. \A t \in Services : writers'[t] = IF Host \in writers[t] THEN writers[t] \cup {s}
                                                                 ELSE writers[t]
    BY <1>3 DEF Fork, Inherits
  <2>1. Types' /\ AnswerFits'
    <3>1. writers' \in [Services -> SUBSET (Services \cup {Host})]
      BY <1>0, <1>3 DEF Types, Fork, Inherits
    <3> QED BY <1>0, <1>3, <3>1 DEF Types, AnswerFits, Fork
  <2>2. ASSUME NEW t \in Services, t # s PROVE Serves(t)' /\ Advances(t)
    <3>1. Untouched(t)
      BY <1>0, <1>3, <2>2 DEF Types, Fork, Untouched
    <3> QED BY <1>0, <2>0, <3>1, Elsewhere
  <2>3. Serves(s)' /\ Advances(s)
    <3>1. /\ phase'[s] = "forked" /\ child'[s] = "idle" /\ reader'[s] = reader[s]
          /\ toChild'[s] = toChild[s] /\ fromChild'[s] = fromChild[s]
          /\ requests'[s] = requests[s] /\ queueing'[s] = queueing[s]
          /\ phase[s] = "piped"
      BY <1>0, <1>3 DEF Types, Fork
    <3>2. s \in writers'[s]
      BY <2>0, <3>1, Here
    <3>3. Lives(s)'
      BY <3>1, <3>2, Here DEF Lives
    <3>4. Fine(<<>>, toChild[s], fromChild[s], child[s], reader[s], queueing[s])
          /\ requests[s] = <<>>
      BY <3>1, Here
    <3>5. Fine(requests'[s], toChild'[s], fromChild'[s], child'[s], reader'[s], queueing'[s])
      BY <3>1, <3>4, FineForks
    <3> QED BY <3>1, <3>3, <3>5 DEF Serves, Advances
  <2> QED BY <2>1, <2>2, <2>3 DEF ServiceInv
<1>4. CASE StartReader(s)
  <2>1. Types' /\ AnswerFits'
    <3>1. writers' \in [Services -> SUBSET (Services \cup {Host})]
      BY <1>0, <1>4 DEF Types, StartReader
    <3> QED BY <1>0, <1>4, <3>1 DEF Types, AnswerFits, StartReader
  <2>2. ASSUME NEW t \in Services, t # s PROVE Serves(t)' /\ Advances(t)
    <3>1. Untouched(t) /\ writers'[t] = writers[t]
      BY <1>0, <1>4, <2>2 DEF Types, StartReader, Untouched
    <3> QED BY <1>0, <3>1, Elsewhere
  <2>3. Serves(s)' /\ Advances(s)
    <3>1. /\ phase'[s] = "open" /\ child'[s] = child[s] /\ reader'[s] = "reading"
          /\ toChild'[s] = toChild[s] /\ fromChild'[s] = fromChild[s]
          /\ requests'[s] = requests[s] /\ queueing'[s] = queueing[s]
          /\ phase[s] = "forked" /\ writers'[s] = writers[s] \ {Host}
      BY <1>0, <1>4 DEF Types, StartReader
    <3>2. Lives(s)'
      BY <1>0, <3>1, Here DEF Lives
    <3>3. Fine(requests[s], toChild[s], fromChild[s], child[s], "none", queueing[s])
      BY <3>1, Here
    <3>4. Fine(requests'[s], toChild'[s], fromChild'[s], child'[s], reader'[s], queueing'[s])
      BY <3>1, <3>3, FineReads
    <3> QED BY <3>1, <3>2, <3>4 DEF Serves, Advances
  <2> QED BY <2>1, <2>2, <2>3 DEF ServiceInv
<1> QED BY <1>1, <1>2, <1>3, <1>4 DEF Constructs

(* The child.                                                              *)
LEMMA DiesKeeps ==
  ASSUME ServiceAssumption, ServiceInv, NEW s \in Services, Dies(s), child[s] \in {"idle", "busy"}
  PROVE  ServiceInv' /\ \A t \in Services : Advances(t)
<1>0. Types /\ AnswerFits /\ (\A t \in Services : Serves(t)) /\ Host # s
  BY DEF ServiceInv, ServiceAssumption
<1>1. Types' /\ AnswerFits'
  <2>1. writers' \in [Services -> SUBSET (Services \cup {Host})]
    BY <1>0 DEF Types, Dies
  <2> QED BY <1>0, <2>1 DEF Types, AnswerFits, Dies
<1>2. \A t \in Services : writers'[t] = writers[t] \ {s}
  BY DEF Dies
<1>3. ASSUME NEW t \in Services, t # s PROVE Serves(t)' /\ Advances(t)
  <2>1. Untouched(t)
    BY <1>0, <1>3 DEF Types, Dies, Untouched
  <2> QED BY <1>0, <1>2, <1>3, <2>1, Elsewhere
<1>4. Serves(s)' /\ Advances(s)
  <2>1. /\ phase'[s] = phase[s] /\ child'[s] = "dead" /\ reader'[s] = reader[s]
        /\ toChild'[s] = toChild[s] /\ fromChild'[s] = fromChild[s]
        /\ requests'[s] = requests[s] /\ queueing'[s] = queueing[s]
    BY <1>0 DEF Types, Dies
  <2>2. Lives(s)'
    BY <1>0, <1>2, <2>1, Here DEF Lives
  <2>3. Fine(requests[s], toChild[s], fromChild[s], child[s], reader[s], queueing[s])
    BY Here
  <2>4. Fine(requests'[s], toChild'[s], fromChild'[s], child'[s], reader'[s], queueing'[s])
    BY <2>1, <2>3, FineDies
  <2> QED BY <2>1, <2>2, <2>4 DEF Serves, Advances
<1> QED BY <1>1, <1>3, <1>4 DEF ServiceInv

LEMMA ChildKeeps ==
  ASSUME ServiceAssumption, ServiceInv, NEW s \in Services, Child(s)
  PROVE  ServiceInv' /\ \A t \in Services : Advances(t)
<1>0. Types /\ AnswerFits /\ (\A t \in Services : Serves(t)) /\ Host # s
  BY DEF ServiceInv, ServiceAssumption
<1>a. Fine(requests[s], toChild[s], fromChild[s], child[s], reader[s], queueing[s])
  BY Here
<1>1. CASE ChildTakes(s)
  <2>1. /\ toChild[s] # <<>> /\ child[s] = "idle" /\ toChild[s] \in Seq(Asked)
        /\ fromChild[s] \in Seq(Told)
    BY <1>1, Here DEF ChildTakes
  <2>2. Head(toChild[s]) = toChild[s][1]
    BY <2>1, Beheaded
  <2>3. fromChild' = [fromChild EXCEPT ![s] = Append(@, Says(toChild[s], "running"))]
    BY <1>1, <2>2 DEF ChildTakes, Reply, Says
  <2>4. /\ phase'[s] = phase[s] /\ child'[s] = "busy" /\ reader'[s] = reader[s]
        /\ toChild'[s] = toChild[s]
        /\ fromChild'[s] = Append(fromChild[s], Says(toChild[s], "running"))
        /\ requests'[s] = requests[s] /\ queueing'[s] = queueing[s]
        /\ writers' = writers
    BY <1>0, <1>1, <2>3 DEF Types, ChildTakes, pipes
  <2>5. Fine(requests[s], toChild[s], fromChild[s], "idle", reader[s], queueing[s])
    BY <1>a, <2>1
  <2>6. Fine(requests'[s], toChild'[s], fromChild'[s], child'[s], reader'[s], queueing'[s])
    BY <2>1, <2>4, <2>5, FineTakes
  <2>7. Types' /\ AnswerFits'
    <3>1. fromChild'[s] \in Seq(Told)
      BY <2>6 DEF Fine, Shaped
    <3>2. fromChild' \in [Services -> Seq(Told)]
      BY <1>0, <2>3, <3>1 DEF Types
    <3>3. child' \in [Services -> {"none", "idle", "busy", "dead"}]
      BY <1>0, <1>1 DEF Types, ChildTakes
    <3> QED BY <1>0, <1>1, <3>2, <3>3 DEF Types, AnswerFits, ChildTakes, pipes
  <2>8. ASSUME NEW t \in Services, t # s PROVE Serves(t)' /\ Advances(t)
    <3>1. Untouched(t)
      BY <1>0, <1>1, <2>3, <2>8 DEF Types, ChildTakes, Untouched
    <3> QED BY <1>0, <2>4, <3>1, Elsewhere
  <2>9. Lives(s)'
    BY <1>0, <2>1, <2>4, Here DEF Lives
  <2> QED BY <2>4, <2>6, <2>7, <2>8, <2>9 DEF ServiceInv, Serves, Advances
<1>2. CASE ChildAnswers(s)
  <2>1. /\ toChild[s] # <<>> /\ child[s] = "busy" /\ toChild[s] \in Seq(Asked)
        /\ fromChild[s] \in Seq(Told)
    BY <1>2, Here DEF ChildAnswers
  <2>2. Head(toChild[s]) = toChild[s][1]
    BY <2>1, Beheaded
  <2>3. PICK status \in {"ready", "import_failed"} :
          Reply(s, status, Head(toChild[s]).source, Head(toChild[s]).id)
    BY <1>2 DEF ChildAnswers
  <2>4. fromChild' = [fromChild EXCEPT ![s] = Append(@, Says(toChild[s], status))]
    BY <2>2, <2>3 DEF Reply, Says
  <2>5. /\ phase'[s] = phase[s] /\ child'[s] = "idle" /\ reader'[s] = reader[s]
        /\ toChild'[s] = Tail(toChild[s])
        /\ fromChild'[s] = Append(fromChild[s], Says(toChild[s], status))
        /\ requests'[s] = requests[s] /\ queueing'[s] = queueing[s]
        /\ writers' = writers
    BY <1>0, <1>2, <2>4 DEF Types, ChildAnswers, pipes
  <2>6. Fine(requests[s], toChild[s], fromChild[s], "busy", reader[s], queueing[s])
    BY <1>a, <2>1
  <2>7. Fine(requests'[s], toChild'[s], fromChild'[s], child'[s], reader'[s], queueing'[s])
    BY <2>1, <2>5, <2>6, FineAnswers
  <2>8. Types' /\ AnswerFits'
    <3>1. fromChild'[s] \in Seq(Told) /\ toChild'[s] \in Seq(Asked)
      BY <2>7 DEF Fine, Shaped
    <3>2. fromChild' \in [Services -> Seq(Told)]
      BY <1>0, <2>4, <3>1 DEF Types
    <3>3. toChild' \in [Services -> Seq(Asked)]
      BY <1>0, <1>2, <3>1 DEF Types, ChildAnswers
    <3>4. child' \in [Services -> {"none", "idle", "busy", "dead"}]
      BY <1>0, <1>2 DEF Types, ChildAnswers
    <3> QED BY <1>0, <1>2, <3>2, <3>3, <3>4 DEF Types, AnswerFits, ChildAnswers, pipes
  <2>9. ASSUME NEW t \in Services, t # s PROVE Serves(t)' /\ Advances(t)
    <3>1. Untouched(t)
      BY <1>0, <1>2, <2>4, <2>9 DEF Types, ChildAnswers, Untouched
    <3> QED BY <1>0, <2>5, <3>1, Elsewhere
  <2>10. Lives(s)'
    BY <1>0, <2>1, <2>5, Here DEF Lives
  <2> QED BY <2>5, <2>7, <2>8, <2>9, <2>10 DEF ServiceInv, Serves, Advances
<1>3. CASE ChildCrashes(s)
  BY <1>3, DiesKeeps DEF ChildCrashes
<1>4. CASE ChildIsKilled(s)
  BY <1>4, DiesKeeps DEF ChildIsKilled
<1> QED BY <1>1, <1>2, <1>3, <1>4 DEF Child

(* The reader thread.                                                      *)
LEMMA ReaderKeeps ==
  ASSUME ServiceAssumption, ServiceInv, NEW s \in Services, Reader(s)
  PROVE  ServiceInv' /\ \A t \in Services : Advances(t)
<1>0. Types /\ AnswerFits /\ (\A t \in Services : Serves(t)) /\ Host # s
  BY DEF ServiceInv, ServiceAssumption
<1>a. Fine(requests[s], toChild[s], fromChild[s], child[s], reader[s], queueing[s])
  BY Here
<1>1. CASE ReaderApplies(s)
  <2> DEFINE m == Head(fromChild[s])
             r2 == Applied(requests[s], m)
  <2>1. fromChild[s] # <<>> /\ reader[s] = "reading"
    BY <1>1 DEF ReaderApplies
  <2>2. Fine(requests[s], toChild[s], fromChild[s], child[s], "reading", queueing[s])
    BY <1>a, <2>1
  <2>3. /\ Fine(r2, toChild[s], Tail(fromChild[s]), child[s], "reading", queueing[s])
        /\ m.id \in DOMAIN requests[s] /\ DOMAIN r2 = DOMAIN requests[s]
        /\ \A i \in DOMAIN requests[s] : r2[i].status # requests[s][i].status =>
             \/ requests[s][i].status = "queued"
             \/ requests[s][i].status = "running" /\ r2[i].status # "queued"
    BY <2>1, <2>2, FineApplies
  <2>4. requests' = [requests EXCEPT ![s] = r2]
        /\ fromChild' = [fromChild EXCEPT ![s] = Tail(@)]
    BY <1>1, <2>3 DEF ReaderApplies
  <2> HIDE DEF r2, m
  <2>5. /\ phase'[s] = phase[s] /\ child'[s] = child[s] /\ reader'[s] = reader[s]
        /\ toChild'[s] = toChild[s] /\ fromChild'[s] = Tail(fromChild[s])
        /\ requests'[s] = r2 /\ queueing'[s] = queueing[s]
        /\ writers' = writers
    BY <1>0, <1>1, <2>4 DEF Types, ReaderApplies, pipes
  <2>6. Fine(requests'[s], toChild'[s], fromChild'[s], child'[s], reader'[s], queueing'[s])
    BY <2>1, <2>3, <2>5
  <2>7. Types' /\ AnswerFits'
    <3>1. fromChild'[s] \in Seq(Told) /\ requests'[s] \in Seq(Request)
      BY <2>6 DEF Fine, Shaped
    <3>2. fromChild' \in [Services -> Seq(Told)]
      BY <1>0, <2>4, <3>1 DEF Types
    <3>3. requests' \in [Services -> Seq(Request)]
      BY <1>0, <2>4, <3>1 DEF Types
    <3> QED BY <1>0, <1>1, <3>2, <3>3 DEF Types, AnswerFits, ReaderApplies, pipes
  <2>8. ASSUME NEW t \in Services, t # s PROVE Serves(t)' /\ Advances(t)
    <3>1. Untouched(t)
      BY <1>0, <1>1, <2>4, <2>8 DEF Types, ReaderApplies, Untouched
    <3> QED BY <1>0, <2>5, <3>1, Elsewhere
  <2>9. Lives(s)'
    BY <1>0, <2>1, <2>5, Here DEF Lives
  <2>10. Advances(s)
    BY <2>3, <2>5 DEF Advances
  <2> QED BY <2>6, <2>7, <2>8, <2>9, <2>10 DEF ServiceInv, Serves
<1>2. CASE ReaderEnds(s)
  <2> DEFINE r2 == Swept(requests[s])
  <2>1. fromChild[s] = <<>> /\ reader[s] = "reading" /\ writers[s] = {}
    BY <1>2 DEF ReaderEnds
  <2>2. child[s] = "dead"
    BY <2>1, Here
  <2>3. Fine(requests[s], toChild[s], <<>>, "dead", "reading", queueing[s])
    BY <1>a, <2>1, <2>2
  <2>4. /\ Fine(r2, toChild[s], <<>>, "dead", "done", queueing[s])
        /\ DOMAIN r2 = DOMAIN requests[s]
        /\ \A i \in DOMAIN requests[s] : r2[i].status # requests[s][i].status =>
             \/ requests[s][i].status = "queued"
             \/ requests[s][i].status = "running" /\ r2[i].status # "queued"
    BY <2>3, FineEnds
  <2>5. requests' = [requests EXCEPT ![s] = r2]
    BY <1>2 DEF ReaderEnds
  <2> HIDE DEF r2
  <2>6. /\ phase'[s] = phase[s] /\ child'[s] = "dead" /\ reader'[s] = "done"
        /\ toChild'[s] = toChild[s] /\ fromChild'[s] = <<>>
        /\ requests'[s] = r2 /\ queueing'[s] = queueing[s]
        /\ writers' = writers /\ fromChild' = fromChild
    BY <1>0, <1>2, <2>1, <2>2, <2>5 DEF Types, ReaderEnds, pipes
  <2>7. Fine(requests'[s], toChild'[s], fromChild'[s], child'[s], reader'[s], queueing'[s])
    BY <2>4, <2>6
  <2>8. Types' /\ AnswerFits'
    <3>1. requests'[s] \in Seq(Request)
      BY <2>7 DEF Fine, Shaped
    <3>2. requests' \in [Services -> Seq(Request)]
      BY <1>0, <2>5, <3>1 DEF Types
    <3>3. reader' \in [Services -> {"none", "reading", "done"}]
      BY <1>0, <1>2 DEF Types, ReaderEnds
    <3> QED BY <1>0, <1>2, <3>2, <3>3 DEF Types, AnswerFits, ReaderEnds, pipes
  <2>9. ASSUME NEW t \in Services, t # s PROVE Serves(t)' /\ Advances(t)
    <3>1. Untouched(t)
      BY <1>0, <1>2, <2>5, <2>9 DEF Types, ReaderEnds, Untouched
    <3> QED BY <1>0, <2>6, <3>1, Elsewhere
  <2>10. Lives(s)'
    <3>1. phase[s] \notin {"new", "piped", "forked"}
      BY <2>1, Here
    <3> QED BY <2>6, <3>1 DEF Lives
  <2>11. Advances(s)
    BY <2>4, <2>6 DEF Advances
  <2> QED BY <2>7, <2>8, <2>9, <2>10, <2>11 DEF ServiceInv, Serves
<1> QED BY <1>1, <1>2 DEF Reader

(* The thread of the VM.                                                   *)
LEMMA EntersKeeps ==
  ASSUME ServiceAssumption, ServiceInv, NEW s \in Services, Enters(s)
  PROVE  ServiceInv' /\ \A t \in Services : Advances(t)
<1> DEFINE l == Len(requests[s])
<1>0. Types /\ AnswerFits /\ (\A t \in Services : Serves(t)) /\ Host # s
  BY DEF ServiceInv, ServiceAssumption
<1>1. /\ phase[s] = "open" /\ queueing[s] = "no" /\ l < MaxRequests
      /\ queueing' = [queueing EXCEPT ![s] = "entered"]
      /\ UNCHANGED <<phase, writers, toChild, fromChild, child, reader, answer>>
  BY DEF Enters, LastOf, pipes
<1>2. PICK source \in Sources :
        requests' = [requests EXCEPT ![s] = Append(@, Queued(l + 1, source))]
  BY DEF Enters, LastOf, Queued
<1>3. Fine(requests[s], toChild[s], fromChild[s], child[s], reader[s], "no")
      /\ requests[s] \in Seq(Request) /\ l \in Nat /\ DOMAIN requests[s] = 1..l
  BY <1>1, Here, LenProperties
<1>4. Fine(Append(requests[s], Queued(l + 1, source)), toChild[s], fromChild[s], child[s],
           reader[s], "entered")
  BY <1>1, <1>3, FineEnters
<1>5. requests'[s] = Append(requests[s], Queued(l + 1, source)) /\ queueing'[s] = "entered"
  BY <1>0, <1>1, <1>2 DEF Types
<1>6. Fine(requests'[s], toChild'[s], fromChild'[s], child'[s], reader'[s], queueing'[s])
  BY <1>1, <1>4, <1>5
<1>7. Types' /\ AnswerFits'
  <2>1. requests'[s] \in Seq(Request)
    BY <1>6 DEF Fine, Shaped
  <2>2. requests' \in [Services -> Seq(Request)]
    BY <1>0, <1>2, <2>1 DEF Types
  <2>3. queueing' \in [Services -> {"no", "entered", "writes", "fails"}]
    BY <1>0, <1>1 DEF Types
  <2> QED BY <1>0, <1>1, <2>2, <2>3 DEF Types, AnswerFits
<1>8. ASSUME NEW t \in Services, t # s PROVE Serves(t)' /\ Advances(t)
  <2>1. Untouched(t)
    BY <1>0, <1>1, <1>2, <1>8 DEF Types, Untouched
  <2> QED BY <1>0, <1>1, <2>1, Elsewhere
<1>9. Lives(s)'
  BY <1>1, Here DEF Lives
<1>10. Advances(s)
  <2>1. \A i \in 1..l : requests'[s][i] = requests[s][i]
    BY <1>3, <1>5
  <2> QED BY <1>3, <2>1 DEF Advances
<1> QED BY <1>6, <1>7, <1>8, <1>9, <1>10 DEF ServiceInv, Serves

LEMMA QueuesKeeps ==
  ASSUME ServiceAssumption, ServiceInv, NEW s \in Services, Queues(s)
  PROVE  ServiceInv' /\ \A t \in Services : Advances(t)
<1>0. Types /\ AnswerFits /\ (\A t \in Services : Serves(t)) /\ Host # s
  BY DEF ServiceInv, ServiceAssumption
<1>a. Fine(requests[s], toChild[s], fromChild[s], child[s], reader[s], queueing[s])
  BY Here
<1>1. ASSUME queueing[s] # "no", NEW next \in {"no", "entered", "writes", "fails"},
             queueing' = [queueing EXCEPT ![s] = next],
             UNCHANGED <<phase, writers, toChild, fromChild, child, reader, requests, answer>>
      PROVE  ServiceInv' /\ \A t \in Services : Advances(t)
  <2>1. Types' /\ AnswerFits'
    <3>1. queueing' \in [Services -> {"no", "entered", "writes", "fails"}]
      BY <1>0, <1>1 DEF Types
    <3> QED BY <1>0, <1>1, <3>1 DEF Types, AnswerFits
  <2>2. ASSUME NEW t \in Services, t # s PROVE Serves(t)' /\ Advances(t)
    <3>1. Untouched(t)
      BY <1>0, <1>1, <2>2 DEF Types, Untouched
    <3> QED BY <1>0, <1>1, <3>1, Elsewhere
  <2>3. queueing'[s] = next
    BY <1>0, <1>1 DEF Types
  <2>4. Fine(requests'[s], toChild'[s], fromChild'[s], child'[s], reader'[s], queueing'[s])
    BY <1>a, <1>1, <2>3, FineLooks
  <2>5. Lives(s)'
    BY <1>1, Here DEF Lives
  <2> QED BY <1>1, <2>1, <2>2, <2>4, <2>5 DEF ServiceInv, Serves, Advances
<1>2. CASE LooksForChild(s)
  <2>1. PICK next \in {"writes", "fails"} : queueing' = [queueing EXCEPT ![s] = next]
    BY <1>2 DEF LooksForChild
  <2> QED BY <1>1, <1>2, <2>1 DEF LooksForChild, pipes
<1>3. CASE Writes(s) /\ readers[s] = {}
  BY <1>1, <1>3 DEF Writes, pipes
<1>4. CASE Writes(s) /\ readers[s] # {}
  <2> DEFINE q2 == Append(toChild[s], EncodeImportRequest(Len(requests[s]),
                                        requests[s][Len(requests[s])].source))
  <2>1. /\ queueing[s] # "no"
        /\ toChild' = [toChild EXCEPT ![s] = q2]
        /\ queueing' = [queueing EXCEPT ![s] = "no"]
        /\ UNCHANGED <<phase, writers, fromChild, child, reader, requests, answer>>
    BY <1>4 DEF Writes, LastOf, pipes
  <2>2. Fine(requests[s], q2, fromChild[s], child[s], reader[s], "no") /\ q2 # <<>>
    BY <1>a, <2>1, Here, FineWrites
  <2>3. toChild'[s] = q2 /\ queueing'[s] = "no"
    BY <1>0, <2>1 DEF Types
  <2>4. Fine(requests'[s], toChild'[s], fromChild'[s], child'[s], reader'[s], queueing'[s])
    BY <2>1, <2>2, <2>3
  <2>5. Types' /\ AnswerFits'
    <3>1. toChild'[s] \in Seq(Asked)
      BY <2>4 DEF Fine, Shaped
    <3>2. toChild' \in [Services -> Seq(Asked)]
      BY <1>0, <2>1, <3>1 DEF Types
    <3>3. queueing' \in [Services -> {"no", "entered", "writes", "fails"}]
      BY <1>0, <2>1 DEF Types
    <3> QED BY <1>0, <2>1, <3>2, <3>3 DEF Types, AnswerFits
  <2>6. ASSUME NEW t \in Services, t # s PROVE Serves(t)' /\ Advances(t)
    <3>1. Untouched(t)
      BY <1>0, <2>1, <2>6 DEF Types, Untouched
    <3> QED BY <1>0, <2>1, <3>1, Elsewhere
  <2> HIDE DEF q2
  <2>7. Lives(s)'
    BY <2>1, <2>2, <2>3, Here DEF Lives
  <2> QED BY <2>1, <2>4, <2>5, <2>6, <2>7 DEF ServiceInv, Serves, Advances
<1>5. CASE Fails(s)
  <2> DEFINE status == IF child[s] = "none" THEN "startup_failed" ELSE "transport_failed"
             r2 == [requests[s] EXCEPT ![Len(requests[s])] =
                                         Failed(@, Len(requests[s]), status)]
  <2>1. /\ queueing[s] # "no"
        /\ requests' = [requests EXCEPT ![s] = r2]
        /\ queueing' = [queueing EXCEPT ![s] = "no"]
        /\ UNCHANGED <<phase, writers, toChild, fromChild, child, reader, answer>>
    BY <1>5 DEF Fails, LastOf, pipes
  <2>2. /\ status \in {"startup_failed", "transport_failed"}
        /\ reader[s] = "done" => status = "transport_failed"
    BY Here
  <2> HIDE DEF status
  <2>3. /\ Fine(r2, toChild[s], fromChild[s], child[s], reader[s], "no")
        /\ DOMAIN r2 = DOMAIN requests[s]
        /\ \A i \in DOMAIN requests[s] : r2[i].status # requests[s][i].status =>
             requests[s][i].status = "queued"
    BY <1>a, <2>1, <2>2, FineFails
  <2> HIDE DEF r2
  <2>4. requests'[s] = r2 /\ queueing'[s] = "no"
    BY <1>0, <2>1 DEF Types
  <2>5. Fine(requests'[s], toChild'[s], fromChild'[s], child'[s], reader'[s], queueing'[s])
    BY <2>1, <2>3, <2>4
  <2>6. Types' /\ AnswerFits'
    <3>1. requests'[s] \in Seq(Request)
      BY <2>5 DEF Fine, Shaped
    <3>2. requests' \in [Services -> Seq(Request)]
      BY <1>0, <2>1, <3>1 DEF Types
    <3>3. queueing' \in [Services -> {"no", "entered", "writes", "fails"}]
      BY <1>0, <2>1 DEF Types
    <3> QED BY <1>0, <2>1, <3>2, <3>3 DEF Types, AnswerFits
  <2>7. ASSUME NEW t \in Services, t # s PROVE Serves(t)' /\ Advances(t)
    <3>1. Untouched(t)
      BY <1>0, <2>1, <2>7 DEF Types, Untouched
    <3> QED BY <1>0, <2>1, <3>1, Elsewhere
  <2>8. Lives(s)'
    BY <2>1, <2>4, Here DEF Lives
  <2>9. Advances(s)
    BY <2>3, <2>4 DEF Advances
  <2> QED BY <2>5, <2>6, <2>7, <2>8, <2>9 DEF ServiceInv, Serves
<1> QED BY <1>2, <1>3, <1>4, <1>5 DEF Queues

(* What import_status and collect answer of an entry.                      *)
LEMMA AnswersOf ==
  ASSUME NEW r, NEW q, NEW f, Shaped(r, q, f), Meant(r, q, f), NEW id \in 1..Len(r)
  PROVE  /\ ~ImportStatus(r[id]).collected
         /\ IF Collected(r[id]).status = "ready"
            THEN Collected(r[id]).definitions = Collected(r[id]).source
            ELSE Collected(r[id]).definitions = NoRequest
<1>1. r[id] \in Request
  BY ElementOfSeq DEF Shaped
<1>2. /\ r[id].reply.source = r[id].source /\ r[id].reply.status = r[id].status
      /\ r[id].status = "ready" => r[id].description = r[id].source
  BY DEF Meant
<1>3. r[id].status \in Statuses
  BY <1>1 DEF Request
<1>4. /\ Collected(r[id]).source = r[id].source /\ Collected(r[id]).status = r[id].status
      /\ Collected(r[id]).definitions = IF r[id].status = "ready" THEN r[id].description
                                                                  ELSE NoRequest
  BY <1>2, <1>3 DEF Collected, DecodeImportStatus, Statuses, Pending, Failures
<1> QED BY <1>2, <1>4 DEF ImportStatus

LEMMA VMKeeps ==
  ASSUME ServiceAssumption, ServiceInv, NEW s \in Services, VM(s)
  PROVE  ServiceInv' /\ \A t \in Services : Advances(t)
<1>0. Types /\ AnswerFits /\ (\A t \in Services : Serves(t)) /\ Host # s
  BY DEF ServiceInv, ServiceAssumption
<1>1. CASE Collects(s)
  <2>1. UNCHANGED <<phase, writers, toChild, fromChild, child, reader, requests, queueing>>
    BY <1>1 DEF Collects, pipes
  <2>2. PICK id \in DOMAIN requests[s] : \/ answer' = Collected(requests[s][id])
                                         \/ answer' = ImportStatus(requests[s][id])
    BY <1>1 DEF Collects
  <2>3. /\ Shaped(requests[s], toChild[s], fromChild[s])
        /\ Meant(requests[s], toChild[s], fromChild[s])
        /\ DOMAIN requests[s] = 1..Len(requests[s])
    BY Here, LenProperties DEF Fine
  <2>4. /\ ~ImportStatus(requests[s][id]).collected
        /\ IF Collected(requests[s][id]).status = "ready"
           THEN Collected(requests[s][id]).definitions = Collected(requests[s][id]).source
           ELSE Collected(requests[s][id]).definitions = NoRequest
    BY <2>2, <2>3, AnswersOf
  <2>5. AnswerFits'
    BY <2>2, <2>4 DEF AnswerFits
  <2>6. Types'
    BY <1>0, <2>1 DEF Types
  <2>7. ASSUME NEW t \in Services PROVE Serves(t)' /\ Advances(t)
    BY <1>0, <2>1, Elsewhere DEF Untouched
  <2> QED BY <2>5, <2>6, <2>7 DEF ServiceInv
<1>2. ASSUME NEW p \in {"stopping", "gone"}, phase' = [phase EXCEPT ![s] = p],
             UNCHANGED <<writers, toChild, fromChild, child, reader, requests, answer, queueing>>
      PROVE  ServiceInv' /\ \A t \in Services : Advances(t)
  <2>1. Types' /\ AnswerFits'
    <3>1. phase' \in [Services -> {"new", "piped", "forked", "open", "stopping", "gone"}]
      BY <1>0, <1>2 DEF Types
    <3> QED BY <1>0, <1>2, <3>1 DEF Types, AnswerFits
  <2>2. ASSUME NEW t \in Services, t # s PROVE Serves(t)' /\ Advances(t)
    <3>1. Untouched(t)
      BY <1>0, <1>2, <2>2 DEF Types, Untouched
    <3> QED BY <1>0, <1>2, <3>1, Elsewhere
  <2>3. phase'[s] = p
    BY <1>0, <1>2 DEF Types
  <2>4. Lives(s)'
    BY <1>2, <2>3, Here DEF Lives
  <2>5. Fine(requests'[s], toChild'[s], fromChild'[s], child'[s], reader'[s], queueing'[s])
    BY <1>2, Here
  <2> QED BY <1>2, <2>1, <2>2, <2>4, <2>5 DEF ServiceInv, Serves, Advances
<1>3. CASE Terminates(s)
  BY <1>2, <1>3 DEF Terminates, pipes
<1>4. CASE Joins(s)
  BY <1>2, <1>4 DEF Joins, pipes
<1> QED BY <1>1, <1>3, <1>4, EntersKeeps, QueuesKeeps DEF VM

-----------------------------------------------------------------------------
LEMMA ServiceInit == ASSUME ServiceAssumption, Init PROVE ServiceInv
<1>1. \A S : <<>> \in Seq(S)
  OBVIOUS
<1>2. Types /\ AnswerFits
  BY <1>1 DEF Init, Types, AnswerFits
<1>3. ASSUME NEW s \in Services PROVE Serves(s)
  <2>1. /\ phase[s] = "new" /\ child[s] = "none" /\ reader[s] = "none"
        /\ requests[s] = <<>> /\ queueing[s] = "no" /\ toChild[s] = <<>>
        /\ fromChild[s] = <<>>
    BY DEF Init
  <2>2. Len(<<>>) = 0
    BY EmptySeq
  <2>3. \A k \in 1..Len(<<>>) : FALSE
    BY <2>2
  <2>4. Meant(<<>>, <<>>, <<>>) /\ Ordered(<<>>, <<>>, "none")
        /\ Stated(<<>>, <<>>, <<>>, "none")
    BY <2>3 DEF Meant, Ordered, Stated
  <2>5. Asking(<<>>, <<>>, <<>>, "none", "no")
    BY DEF Asking
  <2>6. Shaped(<<>>, <<>>, <<>>)
    BY <1>1, <2>2 DEF Shaped, ServiceAssumption
  <2>7. Fine(<<>>, <<>>, <<>>, "none", "none", "no")
    BY <2>4, <2>5, <2>6 DEF Fine
  <2>8. Lives(s)
    BY <2>1 DEF Lives
  <2> QED BY <2>1, <2>7, <2>8 DEF Serves
<1> QED BY <1>2, <1>3 DEF ServiceInv

LEMMA ServiceStep ==
  ASSUME ServiceAssumption, ServiceInv, [Next]_vars
  PROVE  ServiceInv' /\ \A t \in Services : Advances(t)
<1>1. CASE Next
  <2>1. PICK s \in Services : Constructs(s) \/ Child(s) \/ Reader(s) \/ VM(s)
    BY <1>1 DEF Next
  <2> QED BY <2>1, ConstructKeeps, ChildKeeps, ReaderKeeps, VMKeeps
<1>2. CASE UNCHANGED vars
  <2>1. UNCHANGED <<phase, writers, toChild, fromChild, child, reader, requests, queueing,
                    answer>>
    BY <1>2 DEF vars
  <2>2. Types' /\ AnswerFits'
    BY <2>1 DEF ServiceInv, Types, AnswerFits
  <2>3. ASSUME NEW t \in Services PROVE Serves(t)' /\ Advances(t)
    BY <2>1, Elsewhere DEF ServiceInv, Untouched
  <2> QED BY <2>2, <2>3 DEF ServiceInv
<1> QED BY <1>1, <1>2

(* The bytes in the two pipes, the table and the caller agree with each    *)
(* other in every state (runChild, readerLoop and queueDeferredImport,     *)
(* service.cpp), whatever services are forked and destroyed beside.        *)
THEOREM ServiceInvariant == ASSUME ServiceAssumption PROVE Spec => []ServiceInv
<1>1. Init => ServiceInv
  BY ServiceInit
<1>2. ServiceInv /\ [Next]_vars => ServiceInv'
  BY ServiceStep
<1> QED BY <1>1, <1>2, PTL DEF Spec

(* collect hands out the definitions of the import its answer names, and   *)
(* of none that is not ready; every row of the table answers for itself    *)
(* (processDeferredRequest and collect, service.cpp).                      *)
THEOREM AnswersAlwaysMatch == ASSUME ServiceAssumption PROVE Spec => []AnswersMatch
<1>1. ServiceInv => AnswersMatch
  <2> SUFFICES ASSUME ServiceInv PROVE AnswersMatch
    OBVIOUS
  <2>1. AnswerFits
    BY DEF ServiceInv
  <2>2. ASSUME NEW s \in Services, NEW i \in DOMAIN requests[s]
        PROVE  /\ requests[s][i] \in Request
               /\ requests[s][i].reply.id = i
               /\ requests[s][i].reply.source = requests[s][i].source
    <3>1. requests[s] \in Seq(Request)
          /\ Meant(requests[s], toChild[s], fromChild[s])
      BY Here DEF Fine
    <3>2. i \in 1..Len(requests[s])
      BY <3>1, <2>2, LenProperties
    <3>3. requests[s][i] \in Request
      BY <3>1, <3>2, ElementOfSeq
    <3>4. requests[s][i].reply.id = i /\ requests[s][i].reply.source = requests[s][i].source
      BY <3>1, <3>2 DEF Meant
    <3> QED BY <3>3, <3>4
  <2> QED BY <2>1, <2>2 DEF AnswersMatch, AnswerFits
<1> QED BY <1>1, ServiceInvariant, PTL

(* A status goes from queued over running to an end and never back: neither *)
(* the reader's sweep at the end of the pipe nor a write that failed takes  *)
(* an answer back (readerLoop and queueDeferredImport, service.cpp).        *)
THEOREM StatusesGoForward == ASSUME ServiceAssumption PROVE Spec => StatusesAdvance
<1> DEFINE Forward == \A s \in Services : \A i \in DOMAIN requests[s] :
                        LET old == requests[s][i].status
                            new == requests'[s][i].status
                        IN new # old => \/ old = "queued"
                                        \/ old = "running" /\ new # "queued"
<1>1. ServiceInv /\ [Next]_vars => [Forward]_vars
  <2> SUFFICES ASSUME ServiceInv, [Next]_vars PROVE Forward
    OBVIOUS
  <2> QED BY ServiceStep DEF Advances
<1> QED BY <1>1, ServiceInvariant, PTL DEF Spec, StatusesAdvance
=============================================================================
