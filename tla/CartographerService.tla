------------------------ MODULE CartographerService ------------------------
(***************************************************************************)
(* Deferred imports (src/cartographer/service.cpp).  Every EdictVM owns a  *)
(* CartographerService; each forks a child that loads libraries and parses *)
(* headers, is fed through one pipe and answers through another, and has a *)
(* reader thread that applies the answers to the table of requests.  Jobs  *)
(* create their VM in a thread of their own, so that the services of one   *)
(* process are created and destroyed in any order, and a fork copies what  *)
(* the process holds of the pipes of the others at that moment.            *)
(***************************************************************************)
EXTENDS Integers, Sequences, FiniteSets

CONSTANTS Services,       \* the services of one process
          Sources,        \* what may be imported: a library and its header
          Host,           \* the process itself, as the holder of a pipe's end
          NoRequest,      \* no entry, no description, nothing in hand
          Overlap,        \* whether two services may be under construction
          IgnoresPipe,    \* whether the program ignores SIGPIPE
          MaxRequests,    \* bound: deferred imports a service is asked for
          MaxAsked        \* bound: deferred imports all services are asked for

\* What an instance assumes of them.
ServiceAssumption ==
  /\ Host \notin Services /\ NoRequest \notin Sources
  /\ Overlap \in BOOLEAN /\ IgnoresPipe \in BOOLEAN
  /\ MaxRequests \in Nat \ {0} /\ MaxAsked \in Nat

VARIABLES phase,      \* how far a service's life has come
          writers,    \* who holds the write end of the reply pipe
          readers,    \* who holds the read end of the request pipe
          toChild, fromChild,   \* the bytes in the two pipes, as messages
          child,      \* the forked loop: none, idle, busy, dead
          reader,     \* the thread: none, reading, done
          requests,   \* Impl::requests, and the number of the next id
          available,  \* Impl::childAvailable
          queueing,   \* where the host is in queueDeferredImport
          answer,     \* what collect gave last
          signalled   \* SIGPIPE has ended the process

vars == <<phase, writers, readers, toChild, fromChild, child, reader,
          requests, available, queueing, answer, signalled>>

pipes == <<writers, readers>>

---------------------------------------------------------------------------
(* Status names and messages.                                              *)

Pending == {"queued", "running"}
Failures == {"import_failed", "startup_failed", "transport_failed"}
Statuses == Pending \cup Failures \cup {"ready"}

\* A request on the wire carries the import and its id.
EncodeImportRequest(id, source) == [id |-> id, source |-> source]

\* A status on the wire carries the id and import of the request it answers,
\* and the description only when there is one.
EncodeImportStatus(id, source, status, description) ==
  [id |-> id, source |-> source, status |-> status,
   description |-> description]

\* Reading it back: ok is not sent, it is what the status says.
DecodeImportStatus(m) ==
  [id |-> m.id, source |-> m.source, status |-> m.status,
   ok |-> m.status \in Pending \cup {"ready"},
   description |-> m.description]

Init ==
  /\ phase = [s \in Services |-> "new"]
  /\ writers = [s \in Services |-> {}]
  /\ readers = [s \in Services |-> {}]
  /\ toChild = [s \in Services |-> <<>>]
  /\ fromChild = [s \in Services |-> <<>>]
  /\ child = [s \in Services |-> "none"]
  /\ reader = [s \in Services |-> "none"]
  /\ requests = [s \in Services |-> <<>>]
  /\ available = [s \in Services |-> FALSE]
  /\ queueing = [s \in Services |-> "no"]
  /\ answer = NoRequest
  /\ signalled = FALSE

---------------------------------------------------------------------------
(* The constructor.                                                        *)

UnderConstruction == {s \in Services : phase[s] \in {"piped", "forked"}}

MakePipes(s) ==
  /\ phase[s] = "new"
  /\ Overlap \/ UnderConstruction = {}
  /\ phase' = [phase EXCEPT ![s] = "piped"]
  /\ writers' = [writers EXCEPT ![s] = {Host}]
  /\ readers' = [readers EXCEPT ![s] = {Host}]
  /\ UNCHANGED <<toChild, fromChild, child, reader, requests, available,
                 queueing, answer, signalled>>

\* pipe or fork failed: the constructor returns, and there is no child.
StartupFails(s) ==
  /\ phase[s] \in {"new", "piped"}
  /\ phase' = [phase EXCEPT ![s] = "open"]
  /\ writers' = [writers EXCEPT ![s] = {}]
  /\ readers' = [readers EXCEPT ![s] = {}]
  /\ UNCHANGED <<toChild, fromChild, child, reader, requests, available,
                 queueing, answer, signalled>>

\* The ends the process holds, its own and those of the others, are in the
\* child too; the child closes only the two of its own it has no use for.
Inherits(s, holders) ==
  [t \in Services |-> IF Host \in holders[t] THEN holders[t] \cup {s}
                                             ELSE holders[t]]

Fork(s) ==
  /\ phase[s] = "piped"
  /\ phase' = [phase EXCEPT ![s] = "forked"]
  /\ child' = [child EXCEPT ![s] = "idle"]
  /\ writers' = Inherits(s, writers)
  /\ readers' = Inherits(s, readers)
  /\ UNCHANGED <<toChild, fromChild, reader, requests, available, queueing,
                 answer, signalled>>

\* The parent closes the child's ends and starts the reader.
StartReader(s) ==
  /\ phase[s] = "forked"
  /\ phase' = [phase EXCEPT ![s] = "open"]
  /\ writers' = [writers EXCEPT ![s] = @ \ {Host}]
  /\ readers' = [readers EXCEPT ![s] = @ \ {Host}]
  /\ available' = [available EXCEPT ![s] = TRUE]
  /\ reader' = [reader EXCEPT ![s] = "reading"]
  /\ UNCHANGED <<toChild, fromChild, child, requests, queueing, answer,
                 signalled>>

---------------------------------------------------------------------------
(* The child.                                                              *)

Reply(s, status, source, id) ==
  fromChild' = [fromChild EXCEPT ![s] = Append(@,
    EncodeImportStatus(id, source, status,
                       IF status = "ready" THEN source ELSE NoRequest))]

\* The request in hand stays at the head of the pipe until it is answered.
ChildTakes(s) ==
  /\ child[s] = "idle" /\ toChild[s] # <<>>
  /\ child' = [child EXCEPT ![s] = "busy"]
  /\ Reply(s, "running", Head(toChild[s]).source, Head(toChild[s]).id)
  /\ UNCHANGED <<phase, pipes, toChild, reader, requests, available, queueing, answer,
                 signalled>>

ChildAnswers(s) ==
  /\ child[s] = "busy"
  /\ \E status \in {"ready", "import_failed"} :
       Reply(s, status, Head(toChild[s]).source, Head(toChild[s]).id)
  /\ child' = [child EXCEPT ![s] = "idle"]
  /\ toChild' = [toChild EXCEPT ![s] = Tail(@)]
  /\ UNCHANGED <<phase, pipes, reader, requests, available, queueing,
                 answer, signalled>>

\* A dead process holds no end of any pipe.
Dies(s) ==
  /\ child' = [child EXCEPT ![s] = "dead"]
  /\ writers' = [t \in Services |-> writers[t] \ {s}]
  /\ readers' = [t \in Services |-> readers[t] \ {s}]
  /\ UNCHANGED <<phase, toChild, fromChild, reader, requests, available,
                 queueing, answer, signalled>>

\* A header or a library's constructors may bring the child down.
ChildCrashes(s) == /\ child[s] \in {"idle", "busy"}
                   /\ phase[s] \in {"forked", "open"}
                   /\ Dies(s)

\* The signal terminateSubprocess sends.
ChildIsKilled(s) == /\ child[s] \in {"idle", "busy"}
                    /\ phase[s] = "stopping"
                    /\ Dies(s)

---------------------------------------------------------------------------
(* The reader thread; each of its steps holds the mutex.                   *)

\* The mistake of storing an answer without its description.
AppliedBare(table, m) ==
  [table EXCEPT ![m.id].status = m.status, ![m.id].reply = m]

\* The mistake of taking an answer to be for the last request.
AppliedToLast(table, m) ==
  [table EXCEPT ![Len(table)].status = m.status,
                ![Len(table)].reply = m,
                ![Len(table)].description =
                   IF m.status = "ready" THEN m.description ELSE @]

\* Statuses are applied as they come; the description only of a success.
Applied(table, m) ==
  [table EXCEPT ![m.id].status = m.status,
                ![m.id].reply = m,
                ![m.id].description =
                   IF m.status = "ready" THEN m.description ELSE @]

ReaderApplies(s) ==
  /\ reader[s] = "reading" /\ fromChild[s] # <<>>
  /\ LET m == Head(fromChild[s])
     IN requests' = IF m.id \in DOMAIN requests[s]
                    THEN [requests EXCEPT ![s] = Applied(@, m)]
                    ELSE requests
  /\ fromChild' = [fromChild EXCEPT ![s] = Tail(@)]
  /\ UNCHANGED <<phase, pipes, toChild, child, reader, available, queueing,
                 answer, signalled>>

Failed(entry, id, status) ==
  [entry EXCEPT !.status = status,
                !.reply = EncodeImportStatus(id, entry.source, status,
                                             NoRequest)]

\* The mistake of failing every request.
SweptAll(table) ==
  [i \in DOMAIN table |-> Failed(table[i], i, "transport_failed")]

\* The mistake of failing what was queued and forgetting what runs.
SweptQueued(table) ==
  [i \in DOMAIN table |-> IF table[i].status = "queued"
                          THEN Failed(table[i], i, "transport_failed")
                          ELSE table[i]]

\* When the pipe ends every request still pending fails.
Swept(table) ==
  [i \in DOMAIN table |-> IF table[i].status \in Pending
                          THEN Failed(table[i], i, "transport_failed")
                          ELSE table[i]]

ReaderEnds(s) ==
  /\ reader[s] = "reading" /\ fromChild[s] = <<>> /\ writers[s] = {}
  /\ reader' = [reader EXCEPT ![s] = "done"]
  /\ available' = [available EXCEPT ![s] = FALSE]
  /\ requests' = [requests EXCEPT ![s] = Swept(@)]
  /\ UNCHANGED <<phase, pipes, toChild, fromChild, child, queueing, answer,
                 signalled>>

---------------------------------------------------------------------------
(* The VM's thread.  Ids are the numbers nextRequestId draws; the entries  *)
(* of the table are never removed.                                         *)

LastOf(s) == Len(requests[s])

AskedFor == {a \in Services \X (1..MaxRequests) : a[2] \in DOMAIN requests[a[1]]}

IsPending(s, i) == /\ i \in DOMAIN requests[s]
                   /\ requests[s][i].status \in Pending

\* First step of queueDeferredImport, under the mutex.
Enters(s) ==
  /\ phase[s] = "open" /\ queueing[s] = "no"
  /\ LastOf(s) < MaxRequests /\ Cardinality(AskedFor) < MaxAsked
  /\ \E source \in Sources :
       requests' = [requests EXCEPT ![s] = Append(@,
         [source |-> source, status |-> "queued", description |-> NoRequest,
          reply |-> EncodeImportStatus(LastOf(s) + 1, source, "queued",
                                       NoRequest)])]
  /\ queueing' = [queueing EXCEPT ![s] = "entered"]
  /\ UNCHANGED <<phase, pipes, toChild, fromChild, child, reader, available,
                 answer, signalled>>

\* Second step: what it sees of the child is used after the mutex is given up.
LooksForChild(s) ==
  /\ queueing[s] = "entered"
  /\ queueing' = [queueing EXCEPT ![s] = IF available[s] THEN "writes"
                                                         ELSE "fails"]
  /\ UNCHANGED <<phase, pipes, toChild, fromChild, child, reader, requests,
                 available, answer, signalled>>

\* Third step: without a reader the write raises SIGPIPE, and fails with
\* EPIPE only where the program ignores the signal.
Writes(s) ==
  /\ queueing[s] = "writes"
  /\ IF readers[s] # {}
     THEN /\ toChild' = [toChild EXCEPT ![s] = Append(@,
                EncodeImportRequest(LastOf(s), requests[s][LastOf(s)].source))]
          /\ queueing' = [queueing EXCEPT ![s] = "no"]
          /\ UNCHANGED signalled
     ELSE /\ queueing' = [queueing EXCEPT ![s] = "fails"]
          /\ signalled' = ~IgnoresPipe
          /\ UNCHANGED toChild
  /\ UNCHANGED <<phase, pipes, fromChild, child, reader, requests, available,
                 answer>>

Fails(s) ==
  /\ queueing[s] = "fails"
  /\ LET status == IF child[s] = "none" THEN "startup_failed"
                                        ELSE "transport_failed"
     IN requests' = [requests EXCEPT
          ![s][LastOf(s)] = Failed(@, LastOf(s), status)]
  /\ queueing' = [queueing EXCEPT ![s] = "no"]
  /\ UNCHANGED <<phase, pipes, toChild, fromChild, child, reader, available,
                 answer, signalled>>

\* collect: the stored reply is decoded, and a ready one is materialised from
\* the stored description.
Collected(entry) ==
  LET reply == DecodeImportStatus(entry.reply)
      ok == reply.status \notin Pending /\ reply.ok
  IN [collected |-> TRUE, source |-> reply.source, status |-> reply.status,
      definitions |-> IF ok THEN entry.description ELSE NoRequest]

\* import_status only decodes.
ImportStatus(entry) ==
  LET reply == DecodeImportStatus(entry.reply)
  IN [collected |-> FALSE, source |-> reply.source, status |-> reply.status,
      definitions |-> NoRequest]

Collects(s) ==
  /\ phase[s] = "open" /\ queueing[s] = "no"
  /\ \E id \in DOMAIN requests[s] :
       \/ answer' = Collected(requests[s][id])
       \/ answer' = ImportStatus(requests[s][id])
  /\ UNCHANGED <<phase, pipes, toChild, fromChild, child, reader, requests,
                 available, queueing, signalled>>

---------------------------------------------------------------------------
(* terminateSubprocess, which the destructor runs.                         *)

Terminates(s) ==
  /\ phase[s] = "open" /\ queueing[s] = "no"
  /\ phase' = [phase EXCEPT ![s] = "stopping"]
  /\ UNCHANGED <<pipes, toChild, fromChild, child, reader, requests,
                 available, queueing, answer, signalled>>

Joins(s) ==
  /\ phase[s] = "stopping"
  /\ reader[s] \in {"none", "done"} /\ child[s] \in {"none", "dead"}
  /\ phase' = [phase EXCEPT ![s] = "gone"]
  /\ UNCHANGED <<pipes, toChild, fromChild, child, reader, requests,
                 available, queueing, answer, signalled>>

---------------------------------------------------------------------------

Constructs(s) == MakePipes(s) \/ StartupFails(s) \/ Fork(s) \/ StartReader(s)
Child(s) == ChildTakes(s) \/ ChildAnswers(s) \/ ChildCrashes(s)
            \/ ChildIsKilled(s)
Reader(s) == ReaderApplies(s) \/ ReaderEnds(s)
Queues(s) == LooksForChild(s) \/ Writes(s) \/ Fails(s)
VM(s) == Enters(s) \/ Queues(s) \/ Collects(s) \/ Terminates(s) \/ Joins(s)

Next == /\ ~signalled
        /\ \E s \in Services : Constructs(s) \/ Child(s) \/ Reader(s) \/ VM(s)

\* The kernel runs the processes and threads that can run; nobody is bound to
\* ask for an import, to collect one, or to destroy a service.
Fairness ==
  \A s \in Services :
    /\ WF_vars(~signalled /\ (Fork(s) \/ StartReader(s) \/ Queues(s) \/ Joins(s)))
    /\ WF_vars(~signalled /\ (ChildTakes(s) \/ ChildAnswers(s) \/ ChildIsKilled(s)))
    /\ WF_vars(~signalled /\ Reader(s))

Spec == Init /\ [][Next]_vars /\ Fairness

---------------------------------------------------------------------------
(* Properties.                                                             *)

Request == [source : Sources, status : Statuses,
            description : Sources \cup {NoRequest},
            reply : [id : 1..MaxRequests, source : Sources,
                     status : Statuses,
                     description : Sources \cup {NoRequest}]]

\* collect gives the definitions of the import its answer names, exactly when
\* that import is ready (processDeferredRequest, service.cpp:967); a success
\* in the table has its description and its reply (:546-556).
AnswersMatch ==
  /\ answer # NoRequest /\ answer.collected =>
       IF answer.status = "ready" THEN answer.definitions = answer.source
                                  ELSE answer.definitions = NoRequest
  /\ \A s \in Services : \A i \in DOMAIN requests[s] :
       /\ requests[s][i] \in Request
       /\ requests[s][i].reply.id = i
       /\ requests[s][i].reply.source = requests[s][i].source

\* A status only goes forward, from queued over running to an end.
StatusesAdvance ==
  [][\A s \in Services : \A i \in DOMAIN requests[s] :
       LET old == requests[s][i].status
           new == requests'[s][i].status
       IN new # old => \/ old = "queued"
                       \/ old = "running" /\ new # "queued"]_vars

\* Every deferred import gets an end, with or without its child, and one end
\* only: neither the reader's sweep nor a failed write takes back an answer.
\* A service that is destroyed is gone some time (terminateSubprocess joins the
\* reader), unless the process was ended by a signal.
ImportsEnd ==
  /\ StatusesAdvance
  /\ \A s \in Services :
       /\ \A i \in 1..MaxRequests :
            IsPending(s, i) ~> (~IsPending(s, i) \/ signalled)
       /\ phase[s] = "stopping" ~> (phase[s] = "gone" \/ signalled)
=============================================================================
