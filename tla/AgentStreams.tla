---------------------------- MODULE AgentStreams ----------------------------
(***************************************************************************)
(* A streamed request of the agent runtime: stream_request_json starts a   *)
(* detached thread (cpp-agent/runtime/core/runtime.cpp) that runs a        *)
(* provider (runtime/providers/), whose events become calls of the         *)
(* StreamManager (stream_manager.cpp), while the VM calls syncStream.      *)
(*                                                                         *)
(* Each call of the manager takes its locks again, so the thread has a     *)
(* list of calls it has yet to make and syncStream is three steps.  A      *)
(* token is the number of a piece of the reply; the server sends none      *)
(* after the mark that ends its reply, and of a Codex reply either all     *)
(* pieces as deltas or one piece with the finished item.                   *)
(***************************************************************************)
EXTENDS Naturals, Sequences

CONSTANTS Providers,   \* of "codex", "openai", "google"
          MaxTokens    \* bound on the pieces of a reply

VARIABLES job,     \* the detached thread and its provider
          stream,  \* the StreamState, that a caller of the manager may still hold
          listed,  \* does the manager's table hold it?
          reader,  \* where syncStream is
          got,     \* the tokens it has returned
          answer   \* how the stream ended for the VM

streamVars == <<job, stream, listed, reader, got, answer>>

NoStream == [tokens |-> <<>>, complete |-> FALSE, error |-> FALSE]
NoJob == [st |-> "none", said |-> 0, over |-> FALSE]
Started(p) == [st |-> "receiving", provider |-> p, said |-> 0, over |-> FALSE,
               broken |-> FALSE, emitted |-> FALSE, complete |-> FALSE,
               failed |-> FALSE, calls |-> <<>>]
PushCall(k) == [call |-> "push", token |-> k]
Complete == [call |-> "complete"]
Error == [call |-> "error"]
Running == job.st = "receiving" /\ job.calls = <<>>

---------------------------------------------------------------------------
(* What the thread does with an event of the provider.                     *)

MarkCompleteOnce(j) ==
  IF j.complete \/ j.failed THEN j
  ELSE [j EXCEPT !.complete = TRUE, !.calls = Append(@, Complete)]
MarkErrorOnce(j) ==
  IF j.failed THEN j ELSE [j EXCEPT !.failed = TRUE, !.calls = Append(@, Error)]
EmitFinalIfNeeded(j) ==
  IF j.emitted \/ j.said = 0 THEN j
  ELSE [j EXCEPT !.emitted = TRUE, !.calls = Append(@, PushCall(j.said))]

OnDelta(j) == [j EXCEPT !.said = @ + 1, !.emitted = TRUE,
                        !.calls = Append(@, PushCall(j.said + 1))]
\* EvDone, and the end of the stream that follows it.
\* The mistake of completing the stream before the rest of the text is in it.
OnDoneEarly(j) == EmitFinalIfNeeded(MarkCompleteOnce(j))
OnDone(j) == MarkCompleteOnce(EmitFinalIfNeeded(j))
OnFail(j) == MarkErrorOnce(j)

---------------------------------------------------------------------------
(* stream_request_json, or its hook for tests.  A request whose provider    *)
(* cannot be resolved leaves a stream nobody knows of in the table.        *)

CreateStream == /\ job = NoJob
                /\ listed' = TRUE /\ stream' = NoStream
                /\ UNCHANGED <<reader, got, answer>>
Request(p) == CreateStream /\ job' = Started(p)
Synthetic == /\ CreateStream
             /\ job' = [OnDone(OnDelta(Started("synthetic"))) EXCEPT !.over = TRUE]

---------------------------------------------------------------------------
(* The provider, fed by the parser of the server's lines.                  *)

Receive(j) == Running /\ job' = j /\ UNCHANGED <<stream, listed, reader, got, answer>>

Delta == /\ Running /\ ~job.over /\ job.said < MaxTokens
         /\ Receive(OnDelta(job))

\* Codex: the finished item has the text, if no delta had; the reply is over,
\* or the server reports an error and goes on.
CodexItem == /\ Running /\ job.provider = "codex" /\ ~job.over /\ job.said = 0
             /\ Receive([job EXCEPT !.said = 1, !.over = TRUE])
CodexOver == /\ Running /\ job.provider = "codex" /\ ~job.over
             /\ \E bad \in BOOLEAN :
                  Receive([job EXCEPT !.over = ~bad, !.broken = @ \/ bad])

\* OpenAI: [DONE].  Google: the chunk that has the reason to finish.
LastLine == /\ Running /\ job.provider \in {"openai", "google"} /\ ~job.over
            /\ ~(job.provider = "google" /\ job.broken)
            /\ Receive([OnDone(job) EXCEPT !.over = TRUE])
GoogleError == /\ Running /\ job.provider = "google" /\ ~job.over
               /\ Receive([OnFail(job) EXCEPT !.broken = TRUE])

\* The connection ends, the provider says how, and the thread returns.
Finished(j, ok) ==
  CASE ~ok -> OnFail(j)
    [] ok /\ j.provider = "codex" -> IF j.broken THEN OnFail(j) ELSE OnDone(j)
    [] ok /\ j.provider = "openai" -> OnDone(j)
    [] OTHER -> IF j.broken THEN j ELSE OnDone(j)
ConnectionEnds(ok) ==
  /\ Running
  /\ Receive([MarkCompleteOnce(Finished(job, ok)) EXCEPT !.st = "ended", !.over = TRUE])

---------------------------------------------------------------------------
(* The manager: pushToken, markComplete and markError of a stream that is  *)
(* in the table.                                                           *)

Done(s, c) == CASE c.call = "push" -> [s EXCEPT !.tokens = Append(@, c.token)]
                [] c.call = "complete" -> [s EXCEPT !.complete = TRUE]
                [] OTHER -> [s EXCEPT !.complete = TRUE, !.error = TRUE]
ManagerCall ==
  /\ job.st # "none" /\ job.calls # <<>>
  /\ job' = [job EXCEPT !.calls = Tail(@)]
  /\ stream' = IF listed THEN Done(stream, Head(job.calls)) ELSE stream
  /\ UNCHANGED <<listed, reader, got, answer>>

\* syncStream finds the stream, empties it, and removes it when it is over.
SyncFind ==
  /\ reader = "idle" /\ job.st # "none"
  /\ IF listed THEN reader' = "holds" /\ UNCHANGED answer
               ELSE UNCHANGED reader /\ answer' = "complete"
  /\ UNCHANGED <<job, stream, listed, got>>
SyncDrain ==
  /\ reader = "holds"
  /\ stream' = [stream EXCEPT !.tokens = <<>>]
  /\ IF stream.error
     THEN answer' = "error" /\ reader' = "idle" /\ UNCHANGED got
     ELSE /\ got' = got \o stream.tokens
          /\ reader' = IF stream.complete THEN "removes" ELSE "idle"
          /\ UNCHANGED answer
  /\ UNCHANGED <<job, listed>>
SyncRemove ==
  /\ reader = "removes"
  /\ listed' = FALSE /\ reader' = "idle" /\ answer' = "complete"
  /\ UNCHANGED <<job, stream, got>>

Init == /\ job = NoJob /\ stream = NoStream /\ listed = FALSE
        /\ reader = "idle" /\ got = <<>> /\ answer = "none"

Next == \/ \E p \in Providers : Request(p)
        \/ Synthetic
        \/ Delta \/ CodexItem \/ CodexOver \/ LastLine \/ GoogleError
        \/ \E ok \in BOOLEAN : ConnectionEnds(ok)
        \/ ManagerCall \/ SyncFind \/ SyncDrain \/ SyncRemove

Spec == Init /\ [][Next]_streamVars

(***************************************************************************)
(* What syncStream returns is the reply's text, in its order; a stream     *)
(* that it reports complete has been returned whole, and one it reports    *)
(* failed had a provider that failed.                                      *)
(***************************************************************************)
RepliesAreWhole ==
  /\ answer # "error" => \A i \in DOMAIN got : got[i] = i
  /\ answer = "complete" => Len(got) = job.said
  /\ answer = "error" => job.failed
=============================================================================
