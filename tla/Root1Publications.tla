-------------------------- MODULE Root1Publications --------------------------
(***************************************************************************)
(* The publication registry of Root1ResourceBroker                         *)
(* (core/root1_resource_broker.{h,cpp}): a participant leases a layer id,  *)
(* publishes under it descriptors whose manifest is a file, and loses both *)
(* when it retires the layer or its lease runs out.                        *)
(*                                                                         *)
(* registerPublication reads and compares the manifest before it takes     *)
(* mutex_; every other method is one action.  Participants are never       *)
(* removed from the broker, so an owner that leased a layer stays valid.   *)
(***************************************************************************)
EXTENDS Naturals

CONSTANTS Owners,     \* registered participants
          Callers,    \* threads inside registerPublication
          NoManifest, \* a file that is not there
          MaxLayer, MaxEpoch, MaxTick    \* bounds

PublicationAssumption == /\ {MaxLayer, MaxEpoch, MaxTick} \subseteq Nat \ {0}
                         /\ "none" \notin Owners    \* the owner of no lease

VARIABLES leases,      \* publicationLeases_: layer -> owner and tick
          published,   \* publications_: layer -> descriptor
          nextLayer,   \* nextPublicationLayerId_
          manifest,    \* what the manifest file of a layer says
          registering  \* the validated descriptor of a caller

pubVars == <<leases, published, nextLayer, manifest, registering>>

Layers == 1..MaxLayer
NoLease == [owner |-> "none"]
Nothing == [epoch |-> 0]
Descriptors == [layer : Layers, owner : Owners, epoch : 1..MaxEpoch]

Lease(o, tick) == [owner |-> o, expires |-> tick]
Holds(l, o) == leases[l].owner = o

\* An owner writes the file of an epoch before it publishes it; nothing
\* stops it from writing it again afterwards.
WriteManifest(l, epoch) ==
  /\ manifest' = [manifest EXCEPT ![l] = epoch]
  /\ UNCHANGED <<leases, published, nextLayer, registering>>

LeaseLayer(o, tick) ==
  /\ nextLayer \in Layers
  /\ leases' = [leases EXCEPT ![nextLayer] = Lease(o, tick)]
  /\ nextLayer' = nextLayer + 1
  /\ UNCHANGED <<published, manifest, registering>>

RenewLease(l, o, tick) ==
  /\ Holds(l, o)
  /\ leases' = [leases EXCEPT ![l].expires = tick]
  /\ UNCHANGED <<published, nextLayer, manifest, registering>>

\* The file can be read, has the hash the caller gives and holds its fields.
Validated(d) == manifest[d.layer] = d.epoch
BeginRegister(c, d) ==
  /\ registering[c] = Nothing
  /\ Validated(d)
  /\ registering' = [registering EXCEPT ![c] = d]
  /\ UNCHANGED <<leases, published, nextLayer, manifest>>

\* The mistake of looking at the lease and at the last epoch without mutex_.
AcceptsLate(d) == TRUE
Accepts(d) == Holds(d.layer, d.owner) /\ published[d.layer].epoch < d.epoch
Register(c) ==
  LET d == registering[c] IN
  /\ d # Nothing
  /\ IF Accepts(d) THEN published' = [published EXCEPT ![d.layer] = d]
                   ELSE UNCHANGED published
  /\ registering' = [registering EXCEPT ![c] = Nothing]
  /\ UNCHANGED <<leases, nextLayer, manifest>>

Lookup(l) == IF leases[l] = NoLease THEN Nothing ELSE published[l]

Withdraw(ls) ==
  /\ leases' = [l \in Layers |-> IF l \in ls THEN NoLease ELSE leases[l]]
  /\ published' = [l \in Layers |-> IF l \in ls THEN Nothing ELSE published[l]]
  /\ UNCHANGED <<nextLayer, manifest, registering>>
Retire(l, o) == Holds(l, o) /\ Withdraw({l})
RecoverExpired(tick) ==
  Withdraw({l \in Layers : leases[l] # NoLease /\ leases[l].expires <= tick})

Init == /\ leases = [l \in Layers |-> NoLease]
        /\ published = [l \in Layers |-> Nothing]
        /\ nextLayer = 1
        /\ manifest = [l \in Layers |-> NoManifest]
        /\ registering = [c \in Callers |-> Nothing]

Next == \/ \E l \in Layers, epoch \in 1..MaxEpoch : WriteManifest(l, epoch)
        \/ \E o \in Owners, tick \in 1..MaxTick : LeaseLayer(o, tick)
        \/ \E l \in Layers, o \in Owners, tick \in 1..MaxTick : RenewLease(l, o, tick)
        \/ \E c \in Callers, d \in Descriptors : BeginRegister(c, d)
        \/ \E c \in Callers : Register(c)
        \/ \E l \in Layers, o \in Owners : Retire(l, o)
        \/ \E tick \in 1..MaxTick : RecoverExpired(tick)

Spec == Init /\ [][Next]_pubVars

(***************************************************************************)
(* What lookupPublication shows of a layer is nothing, then epochs that    *)
(* never fall, of the participant that leased it, then nothing for ever:   *)
(* a registerPublication that validated its manifest before the layer was  *)
(* retired, swept or given a later epoch shows nothing afterwards.         *)
(***************************************************************************)
LayersShowOneSpan ==
  [][\A l \in Layers :
       /\ Lookup(l)' # Nothing => leases'[l].owner = Lookup(l)'.owner
       /\ Lookup(l) # Nothing /\ Lookup(l)' # Nothing =>
            Lookup(l)'.epoch >= Lookup(l).epoch
       /\ l < nextLayer /\ leases[l] = NoLease =>
            leases'[l] = NoLease /\ published'[l] = Nothing]_pubVars
=============================================================================
