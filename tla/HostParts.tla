------------------------------ MODULE HostParts ------------------------------
(***************************************************************************)
(* Components a host program has beside its VMs, in one specification, for *)
(* any values of their constants: a behaviour is one of one part, chosen   *)
(* at the start, while the others rest in their initial states.            *)
(***************************************************************************)
EXTENDS TccService, Integers

CONSTANTS
  Owners, Callers, NoManifest, MaxLayer, MaxEpoch, MaxTick,          \* Root1Publications
  NumParticipants, NumResources, SlabKeys, Messages, RingSize, MaxId,  \* CoordinationSlab
  Members, MaxHandles, LastTick, Room,                               \* Root1Primitives
  Threads, Entities, Values, Late, Resolution, MaxSamples,           \* MarketHub
  Threshold, Lookback, Freshness, FeedSize, MaxTime, MaxEvents,
  Providers, MaxTokens,                                              \* AgentStreams
  RootProviders, MaxPrompts, MaxStarts,                              \* AgentHost
  Libraries, Headers, FileName, LibraryTexts, HeaderTexts,           \* ForeignImports
  UnsafeNames, AtFirst, Missing, MaxChanges,
  Cells, Null, MaxRefs                                               \* LtvHandles

VARIABLES part,
          leases, published, nextLayer, manifest, registering,
          slab, table, nextId, fired, mapping,
          known, created, holder, queue, terms, mail, ready, claims, lost,
          clock, sequence, latest, history, flagged, highlights, subscribed, feed, log,
          request, stream, listed, reader, got, answer,
          host, root, turn, saved, named, options, prompts, starts, since, sent,
          disk, cache, now, loaded, import, held, defs,
          refs, stack, owned, under, lent

pubVars == <<leases, published, nextLayer, manifest, registering>>
slabVars == <<slab, table, nextId, fired, mapping>>
wordVars == <<known, created, holder, queue, terms, mail, ready, claims, lost>>
hubVars == <<clock, sequence, latest, history, flagged, highlights, subscribed, feed, log>>
streamVars == <<request, stream, listed, reader, got, answer>>
hostVars == <<host, root, turn, saved, named, options, prompts, starts, since, sent>>
importVars == <<disk, cache, now, loaded, import, held, defs>>
handleVars == <<refs, stack, owned, under, lent>>
root1Vars == <<pubVars, slabVars, wordVars>>
agentVars == <<hubVars, streamVars, hostVars>>
foreignVars == <<importVars, handleVars>>

allVars == <<part, vars, root1Vars, agentVars, foreignVars>>

---------------------------------------------------------------------------
(* The parts of Root 1.                                                    *)

Pubs == INSTANCE Root1Publications
Coordination == INSTANCE CoordinationSlab WITH ResourceKeys <- SlabKeys
Words == INSTANCE Root1Primitives WITH leases <- terms

LayersShowOneSpan == Pubs!LayersShowOneSpan
MailFindsItsReader == Coordination!MailFindsItsReader
ClaimsAreTrue == Words!ClaimsAreTrue

Root1Runs ==
  /\ \/ part = "publications" /\ Pubs!Next /\ UNCHANGED <<slabVars, wordVars>>
     \/ part = "slab" /\ Coordination!Next /\ UNCHANGED <<pubVars, wordVars>>
     \/ part = "words" /\ Words!Next /\ UNCHANGED <<pubVars, slabVars>>
  /\ UNCHANGED <<vars, agentVars, foreignVars>>

---------------------------------------------------------------------------
(* The agent and the hub.                                                  *)

Hub == INSTANCE MarketHub
Streams == INSTANCE AgentStreams WITH job <- request
Agent == INSTANCE AgentHost WITH Providers <- RootProviders, disk <- saved

HighlightsAreTrue == Hub!HighlightsAreTrue
RepliesAreWhole == Streams!RepliesAreWhole
RequestsCarryTheSession == Agent!RequestsCarryTheSession

AgentRuns ==
  /\ \/ part = "hub" /\ Hub!Next /\ UNCHANGED <<streamVars, hostVars>>
     \/ part = "streams" /\ Streams!Next /\ UNCHANGED <<hubVars, hostVars>>
     \/ part = "agent" /\ Agent!Next /\ UNCHANGED <<hubVars, streamVars>>
  /\ UNCHANGED <<vars, root1Vars, foreignVars>>

---------------------------------------------------------------------------
(* What C code is to an Edict program: its libraries, workers, handles.    *)

Imports == INSTANCE ForeignImports
Handles == INSTANCE LtvHandles

\* What an import resolved is there, and one that fails has a reason to.
ImportsMeanWhatTheySay == Imports!ResolvedIsExported /\ Imports!FailureHasACause
ReferencesBalance == Handles!ReferencesBalance

ForeignRuns ==
  /\ \/ part = "imports" /\ Imports!Next /\ UNCHANGED <<vars, handleVars>>
     \/ part = "handles" /\ Handles!Next /\ UNCHANGED <<vars, importVars>>
     \/ part = "tcc" /\ Next /\ UNCHANGED foreignVars
  /\ UNCHANGED <<root1Vars, agentVars>>

---------------------------------------------------------------------------

HostInit ==
  /\ part \in {"tcc", "publications", "slab", "words", "hub", "streams", "agent",
               "imports", "handles"}
  /\ Init
  /\ Pubs!Init /\ Coordination!Init /\ Words!Init
  /\ Hub!Init /\ Streams!Init /\ Agent!Init
  /\ Imports!Init /\ Handles!Init

HostNext == UNCHANGED part /\ (Root1Runs \/ AgentRuns \/ ForeignRuns)

\* A part that rests in its initial state has no step it must take.
HostSpec == HostInit /\ [][HostNext]_allVars /\ Fairness
=============================================================================
