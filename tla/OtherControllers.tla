-------------------------- MODULE OtherControllers --------------------------
(***************************************************************************)
(* The controllers outside the unified state machine, side by side: those  *)
(* built on ResourceReconciler, and ConnectionSecret.  They share code and *)
(* no state, so that a behaviour has one of five systems: a container with *)
(* its peering, an access list, a private endpoint, an AtlasDatabaseUser,  *)
(* or the connection Secrets of a generated user.                          *)
(***************************************************************************)
EXTENDS Naturals

CONSTANTS
  Systems,   \* those to consider
  MaxOps, MaxFaults, Ops, Policies,
  Names      \* of entries of a list, interfaces of an endpoint, or clusters

ASSUME SystemsAreKnown == Systems \subseteq {"network", "list", "endpoint", "account", "secrets"}
ASSUME PoliciesAreKnown == Policies \subseteq BOOLEAN
ASSUME BoundsAreNat == MaxOps \in Nat /\ MaxFaults \in Nat
ASSUME OpsAreKnown ==
  Ops \subseteq {"edit", "delete", "skip", "project", "resync", "vanish", "expire"}

VARIABLES
  system,                            \* which of them
  cobj, cqueued, crec, container,    \* the container's
  pobj, pqueued, prec,               \* the peering's, or the only object's
  peer,
  wanted, taken, list,               \* the entries, or interfaces, in the
  expired, service,                  \* spec and in Atlas
  project,
  noted, users, cluster,             \* the AtlasDatabaseUser's
  user, password, group, targets,    \* what the connection Secrets come from
  secrets, cond, pass,
  budget

containerVars == <<cobj, cqueued, crec, container>>
endpointVars == <<wanted, taken, list, service>>
userVars == <<user, password, group, targets, secrets, cond, pass>>
accountVars == <<noted, users, cluster>>
olderVars == <<containerVars, pobj, prec, peer, endpointVars, expired, project, accountVars>>
allVars == <<system, olderVars, userVars, pqueued, budget>>

N == INSTANCE Network
L == INSTANCE IPAccessList WITH
       obj <- pobj, queued <- pqueued, rec <- prec, Entries <- Names
E == INSTANCE PrivateEndpoint WITH
       obj <- pobj, queued <- pqueued, rec <- prec, Interfaces <- Names, interfaces <- list
U == INSTANCE AtlasDatabaseUser WITH
       obj <- pobj, queued <- pqueued, rec <- prec,
       want <- wanted
S == INSTANCE ConnectionSecret WITH
       project <- group, queued <- pqueued, Targets <- Names,
       Ops <- {"scope", "rotate", "expire", "target", "rename", "group", "drop", "tamper"}

NoNetwork ==
  /\ cobj = N!C!NewObject(FALSE, FALSE) /\ crec = N!C!Idle /\ cqueued = FALSE
  /\ container = N!C!NoContainer
  /\ peer = N!P!NoPeer

OneObject(keep) ==
  /\ pobj = L!NewObject(FALSE, keep) /\ prec = L!Idle
  /\ project = TRUE

NoTargets ==
  /\ user = S!NewUser /\ pass = S!Idle /\ cond = "none"
  /\ group = S!NewGroup /\ targets = [n \in Names |-> "absent"]

NoUser == NoTargets /\ password = 1 /\ secrets = {}

NoAccount ==
  noted = U!Nothing /\ users = [n \in U!UserNames |-> U!NoUser] /\ cluster = "none"

NothingRead == taken = {} /\ expired = {}

NoList ==
  wanted = {} /\ list = [n \in Names |-> "none"] /\ service = "none"

FullBudget == budget = [ops |-> MaxOps, faults |-> MaxFaults, lagged |-> FALSE]

\* A list or a service may be there before the object is.
OtherInit ==
  /\ system \in Systems
  /\ pqueued = TRUE
  /\ FullBudget
  /\ \/ /\ system = "network"
        /\ N!NetworkInit
        /\ NoList /\ NothingRead /\ NoAccount /\ NoUser
     \/ /\ system = "list"
        /\ NoNetwork /\ OneObject(FALSE) /\ NothingRead /\ NoAccount /\ NoUser
        /\ wanted \in SUBSET Names
        /\ list \in [Names -> {"absent", "active"}] /\ service = "none"
     \/ /\ system = "endpoint"
        /\ NoNetwork /\ NothingRead /\ NoAccount /\ NoUser
        /\ wanted \in SUBSET Names
        /\ service \in {"none", "available"}
        /\ list \in [Names -> {"none", "available"}]
        /\ service = "none" => list = [n \in Names |-> "none"]
        /\ \E keep \in Policies :
             OneObject(keep) /\ (keep => service = "available" /\ wanted = Names)
     \/ /\ system = "account"
        /\ NoNetwork /\ NoTargets /\ list = [n \in Names |-> "none"] /\ service = "none"
        /\ U!DatabaseUserInit
        /\ \E keep \in Policies : OneObject(keep) /\ (keep => wanted.scopes = "all")
     \/ /\ system = "secrets"
        /\ NoNetwork /\ OneObject(FALSE) /\ NoList /\ NothingRead /\ NoAccount
        /\ S!SecretInit

Network(step) ==
  system = "network" /\ step
    /\ UNCHANGED <<system, endpointVars, expired, accountVars, userVars>>
List(step) ==
  system = "list" /\ step
    /\ UNCHANGED <<system, containerVars, peer, service, accountVars, userVars>>
Endpoint(step) ==
  system = "endpoint" /\ step
    /\ UNCHANGED <<system, containerVars, peer, expired, accountVars, userVars>>
Account(step) ==
  system = "account" /\ step
    /\ UNCHANGED <<system, containerVars, peer, list, service, user, group, targets, cond, pass>>
Secrets(step) ==
  system = "secrets" /\ step /\ UNCHANGED <<system, olderVars>>

OtherNext ==
  \/ Network(N!NetworkNext) \/ List(L!ListNext)
  \/ Endpoint(E!EndpointNext) \/ Account(U!DatabaseUserNext) \/ Secrets(S!SecretNext)

Worker ==
  \/ Network(N!ContainerLoop) \/ List(L!ListLoop)
  \/ Endpoint(E!EndpointLoop) \/ Account(U!UserLoop) \/ Secrets(S!Reconcile)

\* What goes on by itself: Atlas, caches, the controller of the user and the
\* garbage collector.
Environment ==
  \/ Network(N!AtlasFinishes) \/ Network(N!ContainerSync) \/ Network(N!PeeringSync)
  \/ List(L!AtlasActivates)
  \/ Endpoint(E!ServiceSettles) \/ Endpoint(E!EndpointSync)
  \/ Account(U!AtlasApplies) \/ Account(U!UserSync)
  \/ Secrets(S!CollectGarbage) \/ Secrets(S!UserSettles)

OtherSpec == OtherInit /\ [][OtherNext]_allVars

\* A behaviour has one system, so that Worker is one action of it.  The change
\* of an interface comes in the end although a reconcile is often between two
\* calls, where the model counts it as a race.
FairOtherSpec ==
  /\ OtherSpec
  /\ WF_allVars(Worker) /\ WF_allVars(Environment)
  /\ WF_allVars(Network(N!PeeringLoop))
  /\ \A n \in Names : SF_allVars(Endpoint(E!InterfaceSettles(n)))

----------------------------------------------------------------------------
(* Properties, each of the system at hand.                                 *)

OtherTypeOK ==
  /\ system = "network" => N!NetworkTypeOK
  /\ system = "list" => L!ListTypeOK
  /\ system = "endpoint" => E!EndpointTypeOK
  /\ system = "account" => U!DatabaseUserTypeOK
  /\ system = "secrets" => S!SecretTypeOK

\* A controller that has nothing to do has brought Atlas to the spec.
AtRestMeansApplied ==
  /\ system = "network" => N!AtRestMeansApplied
  /\ system = "list" => L!AtRestMeansApplied
  /\ system = "endpoint" => E!AtRestMeansApplied
  /\ system = "account" => U!AtRestMeansApplied

\* An object that is said to be Ready is held by its finalizer; an expired user
\* loses the one before the other.
ReadyIsHeld == system # "account" => N!ReadyIsHeld

\* A container or peering is gone in Atlas before its object is.
NoNetworkOrphan == [][system = "network" => N!NoOrphan]_allVars

\* The finalizers of the others go after what they hold in Atlas.
HeldUntilGone ==
  [][/\ system = "list" => L!NoOrphan
     /\ system = "endpoint" => E!NoOrphan
     /\ system = "account" => U!NoOrphan]_allVars

Undeleted ==
  \/ system = "network" /\ N!Undeleted
  \/ system = "list" /\ L!Undeleted
  \/ system = "endpoint" /\ E!Undeleted
  \/ system = "account" /\ U!Undeleted

\* The e2e test "Removing private endpoint", taken at its word: the object is
\* gone in the end.
RemovedEndpointGoes == (pobj.exists /\ pobj.deleting) ~> ~pobj.exists

\* The connection Secrets follow the clusters, the scopes and the password.
QuiescentSecretsAreRight == system = "secrets" => S!QuiescentSecretsAreRight

\* No deletion that nothing holds up goes on for ever.  Nor do connection
\* Secrets stay behind for good: not those of a cluster or user that is gone,
\* nor for a cluster that lacks the password in use.
NothingStaysBehind == []<>~(Undeleted \/ (system = "secrets" /\ S!SecretsBehind))
=============================================================================
