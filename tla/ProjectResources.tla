-------------------------- MODULE ProjectResources --------------------------
(***************************************************************************)
(* A project and what is kept in it besides clusters: the controllers of   *)
(* Group, DatabaseUser and AtlasThirdPartyIntegration, side by side.  A    *)
(* behaviour is one of the three, with what its users can do to it.        *)
(***************************************************************************)
EXTENDS StateHandler

VARIABLES
  kind,
  atlas,   \* the project, the user or the integration
  secret,  \* the Secret of the last two
  found,   \* their project can be found
  marks,   \* what refers to the Group, or the expiry dates of the user
  flag     \* occupied, elapsed or abandoned

G == INSTANCE GroupProofs WITH
       project <- atlas, occupied <- flag, refs <- marks,
       MaxOps <- 2, Externals <- {"none", "full"}, Periods <- {"valid", "invalid"},
       Ops <- {"edit", "delete", "resync", "occupy", "refer"}
U == INSTANCE DatabaseUserProofs WITH
       user <- atlas, group <- found, dates <- marks, elapsed <- flag,
       MaxOps <- 1, Externals <- {"none", "full", "partial"}, Periods <- {"valid"},
       Ops <- {"edit", "delete", "rotate", "date", "resync", "group", "expire"}
T == INSTANCE ThirdPartyIntegrationProofs WITH
       integration <- atlas, project <- found, abandoned <- flag,
       MaxOps <- 2, Externals <- {"none"}, Periods <- {"none"},
       Ops <- {"edit", "delete", "rotate", "vanish", "resync", "group", "refer"}

resourceVars == <<atlas, secret, found, marks, flag>>
allVars == <<handlerVars, resourceVars, kind>>

ResourcesInit ==
  \/ kind = "Group" /\ G!GroupInit /\ secret = 0 /\ found = TRUE
  \/ kind = "DatabaseUser" /\ U!UserInit
  \/ kind = "Integration" /\ T!IntegrationInit /\ marks = {}

ForGroup(step) == kind = "Group" /\ step /\ UNCHANGED <<secret, found, kind>>
ForUser(step) == kind = "DatabaseUser" /\ step /\ UNCHANGED kind
ForIntegration(step) == kind = "Integration" /\ step /\ UNCHANGED <<marks, kind>>

ResourcesNext == ForGroup(G!GroupNext) \/ ForUser(U!UserNext) \/ ForIntegration(T!IntegrationNext)

\* What the framework does for any of them.
Framework(step) == step /\ UNCHANGED <<call, resourceVars, kind>>

\* The loop and the handler of one worker are never enabled together.
Worker ==
  \/ Framework(Loop)
  \/ ForGroup(G!GroupHandler) \/ ForUser(U!UserHandler) \/ ForIntegration(T!IntegrationHandler)

\* The watch of each of them has its own predicates.
ObjectWatch ==
  \/ kind # "Integration" /\ Framework(CacheSync)
  \/ ForIntegration(T!ObjectSync)

\* The watches, the worker and Atlas make progress, and the manager resyncs
\* its cache from time to time (SyncPeriod): of the three, only the user needs
\* the resync, and the predicates of the integration drop it.
FairResourcesSpec ==
  /\ ResourcesInit /\ [][ResourcesNext]_allVars
  /\ WF_allVars(kind = "DatabaseUser" /\ Framework(Resync))
  /\ WF_allVars(ObjectWatch)
  /\ WF_allVars(ForUser(U!SecretSync) \/ ForIntegration(T!SecretSync))
  /\ WF_allVars(Worker)
  /\ WF_allVars(ForGroup(G!ProjectGone) \/ ForUser(U!AtlasApplies))

----------------------------------------------------------------------------
(* Properties.                                                             *)

\* The state of each resource stays in its bounds.
ResourcesTypeOK ==
  CASE kind = "Group" -> G!GroupTypeOK
    [] kind = "DatabaseUser" -> U!UserTypeOK
    [] kind = "Integration" -> T!IntegrationTypeOK

\* A settled Group or user that is behind what its user asks for is due for
\* an update: the reconcile in which an edit or a rotation lands hides neither.
ChangesAreDetected ==
  CASE kind = "Group" -> G!GenerationChangeIsDetected
    [] kind = "DatabaseUser" -> U!ChangesAreDetected
    [] kind = "Integration" -> TRUE

\* Deleting the resource deletes it in Atlas, but for what the policy keeps
\* and for what each of the handlers lets go of.
NoOrphan ==
  CASE kind = "Group" -> G!NoOrphan
    [] kind = "DatabaseUser" -> U!DeletionReachesAtlas
    [] kind = "Integration" -> T!NoOrphan

\* No sequence of events leads to a handler that panics.
NeverPanics ==
  CASE kind = "Group" -> G!NeverPanics
    [] kind = "DatabaseUser" -> TRUE
    [] kind = "Integration" -> T!NeverPanics

\* No deletion that nothing holds up goes on for ever.
Undeleted ==
  CASE kind = "Group" -> G!Undeleted
    [] kind = "DatabaseUser" -> U!Undeleted
    [] kind = "Integration" -> T!Undeleted
DeletionCompletes == []<>~Undeleted

\* Edits and rotations reach Atlas.  An integration that was sent its spec and
\* then vanished in Atlas is not counted: no event tells of it.
Unsent ==
  CASE kind = "Group" -> G!Unsent
    [] kind = "DatabaseUser" -> U!Unsent
    [] kind = "Integration" -> T!Unsent
ChangesReachAtlas == []<>~Unsent
=============================================================================
