------------------------------ MODULE Network ------------------------------
(***************************************************************************)
(* An AtlasNetworkContainer and an AtlasNetworkPeering that refers to it   *)
(* by name, each with a controller of its own, against one Atlas.  The     *)
(* peering needs the container's object, the id in it and the container in *)
(* Atlas; Atlas keeps a container that a peering uses.                     *)
(***************************************************************************)
EXTENDS Naturals

CONSTANTS
  MaxOps, MaxFaults, Ops,
  Policies   \* the deletion policies to consider

VARIABLES
  cobj, cqueued, crec, container,
  pobj, pqueued, prec, peer,
  project, budget

cvars == <<cobj, cqueued, crec, container>>
pvars == <<pobj, pqueued, prec, peer>>

C == INSTANCE NetworkContainer WITH
       obj <- cobj, queued <- cqueued, rec <- crec, inUse <- peer.phase # "none"

\* getContainer: the object is there, has an id, and Atlas has the container.
getContainer == cobj.exists /\ (cobj.given \/ cobj.seen) /\ container.present

P == INSTANCE NetworkPeering WITH
       obj <- pobj, queued <- pqueued, rec <- prec, reachable <- getContainer

\* What exists already may be taken over by the ids in the specs.
NetworkInit ==
  /\ \E given \in {"nothing", "both"}, keep \in Policies :
       /\ keep => given = "both"
       /\ cobj = C!NewObject(given # "nothing", keep)
       /\ pobj = P!NewObject(given = "both", keep)
       /\ container = [present |-> given # "nothing", cidr |-> IF given = "nothing" THEN 0 ELSE 1]
       /\ peer = IF given = "both" THEN [phase |-> "available", spec |-> 1] ELSE P!NoPeer
  /\ crec = C!Idle /\ prec = P!Idle
  /\ cqueued = TRUE /\ pqueued = TRUE
  /\ project = TRUE
  /\ budget = [ops |-> MaxOps, faults |-> MaxFaults, lagged |-> FALSE]

\* networkPeeringForContainerByIDMapFunc: every change of the container's
\* object, once it is in the cache, wakes the peering.
PeeringWakes == pqueued' = (pqueued \/ pobj.exists)

\* A step of the container's object, as the peering's watch sees it.
Watched == IF cobj' = cobj THEN UNCHANGED pqueued ELSE PeeringWakes

ContainerUser == C!User /\ Watched /\ UNCHANGED <<container, pobj, prec, peer>>
ContainerSync == C!CacheSync /\ Watched /\ UNCHANGED <<container, pobj, prec, peer>>
ContainerLoop == C!ContainerLoop /\ Watched /\ UNCHANGED <<pobj, prec, peer>>
ContainerRestart == C!Restart /\ UNCHANGED <<container, pvars>>
ContainerVanish == C!Vanish /\ UNCHANGED pvars

PeeringUser == P!User /\ UNCHANGED <<cvars, peer>>
PeeringSync == P!CacheSync /\ UNCHANGED <<cvars, peer>>
PeeringLoop == P!PeeringLoop /\ UNCHANGED cvars
PeeringRestart == P!Restart /\ UNCHANGED <<cvars, peer>>
AtlasFinishes == P!AtlasFinishes /\ UNCHANGED cvars
PeeringVanish == P!Vanish /\ UNCHANGED cvars

\* The AtlasProject goes, and its watch wakes both.
ProjectGoes ==
  /\ C!ProjectGoes
  /\ PeeringWakes
  /\ UNCHANGED <<container, pobj, prec, peer>>

NetworkNext ==
  \/ ContainerUser \/ ContainerSync \/ ContainerLoop \/ ContainerRestart \/ ContainerVanish
  \/ PeeringUser \/ PeeringSync \/ PeeringLoop \/ PeeringRestart \/ PeeringVanish
  \/ AtlasFinishes \/ ProjectGoes

----------------------------------------------------------------------------
(* Properties.                                                             *)

NetworkTypeOK ==
  /\ cobj \in C!Objects /\ pobj \in P!Objects
  /\ crec \in C!Passes /\ prec \in P!Passes
  /\ cqueued \in BOOLEAN /\ pqueued \in BOOLEAN
  /\ container \in [present : BOOLEAN, cidr : Nat]
  /\ peer \in [phase : {"none", "pending", "available", "failed", "closing"}, spec : Nat]

\* A controller that has nothing to do has brought Atlas to the spec and
\* holds the object, unless somebody removed the thing in Atlas.
AtRestMeansApplied ==
  /\ C!AtRest => cobj.fin /\ (container.present => container.cidr = cobj.gen)
  /\ P!AtRest => pobj.fin /\ (peer.phase \in {"pending", "available"} => peer.spec = pobj.gen)

\* What is said to be ready is held by its finalizer as long as its
\* AtlasProject is there, so that its deletion does not pass unseen.
ReadyIsHeld ==
  /\ cobj.exists /\ cobj.ready /\ project => cobj.fin
  /\ pobj.exists /\ pobj.ready /\ project => pobj.fin

\* Without a keep policy an object whose id has been noted goes only when
\* Atlas does not have its thing any more, or when the reconcile that lets it
\* go has read it as skipped; as long as no reconcile has read a lagging cache.
NoOrphan ==
  project /\ C!FreshReads =>
    /\ cobj.exists /\ cobj.id /\ ~cobj.keep /\ ~cobj'.exists =>
         crec.snap.skip \/ ~container.present
    /\ pobj.exists /\ pobj.id /\ ~pobj.keep /\ ~pobj'.exists =>
         prec.snap.skip \/ peer.phase = "none"

\* A deletion that is not done, although nothing holds it up: a container can
\* wait for its peering or, when Atlas does not have it any more, for ever; a
\* peering for its container or, when its status never had the id of the
\* peering that its spec names, for ever.
Undeleted ==
  \/ cobj.exists /\ cobj.deleting /\ peer.phase = "none" /\ container.present
  \/ pobj.exists /\ pobj.deleting /\ getContainer /\ (pobj.given => pobj.id)
=============================================================================
