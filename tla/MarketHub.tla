------------------------------ MODULE MarketHub ------------------------------
(***************************************************************************)
(* MarketHub (markethub/src/market_hub.cpp): events are stamped, cached,   *)
(* recorded in a history of buckets and handed to the subscribers under    *)
(* mutex_; the highlights a rule derives from them are published after it  *)
(* has been released, one by one.                                          *)
(*                                                                         *)
(* An entity is a type, symbol and contract; a quote has one field.  Only  *)
(* an underlying has no contract, so the key of staleAlreadyFlagged_, that *)
(* leaves the type out, tells entities apart as that of the cache does.    *)
(***************************************************************************)
EXTENDS Integers, Sequences, FiniteSets, SequencesExt

CONSTANTS Threads,                \* callers of publish and evaluateStaleness
          Entities, Values,       \* quotes
          Late,                   \* may a quote be older than the last one?
          Resolution, MaxSamples, \* HistoryPolicy
          Threshold, Lookback,    \* PriceMoveRule, the threshold in percent
          Freshness,              \* StaleQuoteRule
          FeedSize, MaxTime, MaxEvents    \* the two last are bounds

HubAssumption == /\ {Resolution, MaxSamples, FeedSize} \subseteq Nat \ {0}
                 /\ {Threshold, Lookback, Freshness, MaxTime} \subseteq Nat
                 /\ IsFiniteSet(Entities)

VARIABLES clock, sequence,
          latest,     \* QuoteCache: entity -> quote
          history,    \* HistoryStore: entity -> samples, oldest first
          flagged,    \* staleAlreadyFlagged_: entity -> sequence
          highlights, \* those a thread has yet to publish
          subscribed, \* is the delta feed subscribed?
          feed,       \* DeltaFeedSubscriber::events_
          log         \* everything published, for the properties

hubVars == <<clock, sequence, latest, history, flagged, highlights, subscribed,
             feed, log>>

None == [sequence |-> 0]
LastOf(s, n) == SubSeq(s, IF Len(s) > n THEN Len(s) - n + 1 ELSE 1, Len(s))

\* dispatch: the event reaches the subscribers as it gets its number.
Dispatch(e) ==
  /\ sequence' = sequence + 1
  /\ feed' = IF subscribed THEN LastOf(Append(feed, e.sequence), FeedSize) ELSE feed
  /\ log' = Append(log, e)

Bucket(q) == (q.at \div Resolution) * Resolution
Sample(q) == [bucket |-> Bucket(q), value |-> q.value, sequence |-> q.sequence,
              at |-> q.at]

\* The last write within a bucket wins, when the bucket is the last one.
Recorded(samples, q) ==
  IF samples # <<>> /\ Last(samples).bucket = Bucket(q)
  THEN [samples EXCEPT ![Len(samples)] = Sample(q)]
  ELSE LastOf(Append(samples, Sample(q)), MaxSamples)

\* The baseline of a price move is the oldest sample in the window.
\* The mistake of taking the oldest sample there is.
OldestOfAll(samples) == 1 .. Len(samples) - 1
InWindow(samples) ==
  {i \in DOMAIN samples :
     /\ samples[i].bucket >= Last(samples).bucket - Lookback
     /\ samples[i].sequence # Last(samples).sequence}
Moves(samples) ==
  IF InWindow(samples) = {} THEN <<>>
  ELSE LET from == samples[CHOOSE i \in InWindow(samples) :
                             \A j \in InWindow(samples) : i <= j]
           to == Last(samples)
           change == IF to.value > from.value THEN to.value - from.value
                                              ELSE from.value - to.value
       IN IF from.value = 0 \/ change * 100 < Threshold * from.value THEN <<>>
          ELSE <<[kind |-> "price_move", from |-> from, to |-> to, sequence |-> 0]>>

\* publish of a quote: received now, observed now or before.
Publish(t, entity, value, at) ==
  LET q == [kind |-> "quote", entity |-> entity, value |-> value, at |-> at,
            sequence |-> sequence + 1]
  IN /\ highlights[t] = <<>>
     /\ at <= clock
     /\ Late \/ at = clock
     /\ latest' = [latest EXCEPT ![entity] = q]
     /\ history' = [history EXCEPT ![entity] = Recorded(@, q)]
     /\ highlights' = [highlights EXCEPT ![t] = Moves(Recorded(history[entity], q))]
     /\ Dispatch(q)
     /\ UNCHANGED <<clock, flagged, subscribed>>

\* publish of a highlight, that has no number before: it feeds no history and
\* no rule.
PublishHighlight(t) ==
  /\ highlights[t] # <<>>
  /\ Dispatch([Head(highlights[t]) EXCEPT !.sequence = sequence + 1])
  /\ highlights' = [highlights EXCEPT ![t] = Tail(@)]
  /\ UNCHANGED <<clock, latest, history, flagged, subscribed>>

\* evaluateStaleness: staleHighlightsLocked flags a quote once.
Age(entity) == clock - latest[entity].at
\* The mistake of not noting which quote was flagged.
FlagNothing(entity) == flagged[entity]
Flag(entity) == latest[entity].sequence
EvaluateStaleness(t) ==
  LET cached == {e \in Entities : latest[e] # None}
      old == {e \in cached : Age(e) > Freshness}
      new == {e \in old : flagged[e] # latest[e].sequence}
  IN /\ highlights[t] = <<>>
     /\ flagged' = [e \in Entities |-> IF e \in new THEN Flag(e)
                                       ELSE IF e \in cached \ old THEN 0
                                       ELSE flagged[e]]
     /\ highlights' = [highlights EXCEPT ![t] =
          [i \in DOMAIN SetToSeq(new) |->
             [kind |-> "stale_quote", of |-> latest[SetToSeq(new)[i]], when |-> clock,
              sequence |-> 0]]]
     /\ UNCHANGED <<clock, sequence, latest, history, subscribed, feed, log>>

\* subscribe and unsubscribe of the delta feed, which keeps what it has.
ToggleFeed ==
  /\ subscribed' = ~subscribed
  /\ UNCHANGED <<clock, sequence, latest, history, flagged, highlights, feed, log>>

Tick == /\ clock < MaxTime
        /\ clock' = clock + 1
        /\ UNCHANGED <<sequence, latest, history, flagged, highlights, subscribed,
                       feed, log>>

Init == /\ clock = 0 /\ sequence = 0
        /\ latest = [e \in Entities |-> None]
        /\ history = [e \in Entities |-> <<>>]
        /\ flagged = [e \in Entities |-> 0]
        /\ highlights = [t \in Threads |-> <<>>]
        /\ subscribed = TRUE /\ feed = <<>> /\ log = <<>>

Next == \/ \E t \in Threads :
             \/ /\ sequence < MaxEvents
                /\ \/ \E e \in Entities, v \in Values, at \in 0..MaxTime :
                        Publish(t, e, v, at)
                   \/ PublishHighlight(t)
             \/ EvaluateStaleness(t)
        \/ ToggleFeed \/ Tick

Spec == Init /\ [][Next]_hubVars

Published(kind) == {i \in DOMAIN log : log[i].kind = kind}

(***************************************************************************)
(* A price_move highlight compares two quotes no further apart than the    *)
(* window (and what the buckets round off); a quote that went stale is     *)
(* flagged once, however many threads sweep, and was the freshest of its   *)
(* entity when it was; the feed hands over its events in their order.      *)
(***************************************************************************)
MovesAreInWindow ==
  \A i \in Published("price_move") :
    /\ log[i].to.at - log[i].from.at < Lookback + Resolution
    /\ log[i].from.at <= log[i].to.at
StaleIsFlaggedOnce ==
  \A i, j \in Published("stale_quote") : log[i].of = log[j].of => i = j
FlaggedIsFreshest ==
  \A i \in Published("stale_quote"), j \in Published("quote") :
    (log[j].entity = log[i].of.entity /\ j < log[i].of.sequence)
      => log[i].when - log[j].at > Freshness
HighlightsAreTrue ==
  /\ MovesAreInWindow /\ StaleIsFlaggedOnce /\ FlaggedIsFreshest
  /\ \A i, j \in DOMAIN feed : i < j => feed[i] < feed[j]
=============================================================================
