------------------------ MODULE ProjectResourcesProofs -------------------------
(***************************************************************************)
(* A behaviour of a project is one of its three controllers, with what its *)
(* users do to it, so that what is proved of each of them is proved of the *)
(* project.                                                                *)
(***************************************************************************)
EXTENDS ProjectResources, TLAPS

\* The constants leave room for everything a handler may answer or write.
Room == States \subseteq Answers /\ {"recorded", "tracker"} \subseteq Writes

----------------------------------------------------------------------------
(* Each behaviour is one of a controller.                                  *)

LEMMA KindStays ==
  /\ ResourcesInit => kind \in {"Group", "DatabaseUser", "Integration"}
  /\ [ResourcesNext]_allVars => kind' = kind
BY DEF ResourcesInit, ResourcesNext, ForGroup, ForUser, ForIntegration, allVars

LEMMA Unfair == FairResourcesSpec => ResourcesInit /\ [][ResourcesNext]_allVars
BY PTL DEF FairResourcesSpec

LEMMA OneKind ==
  FairResourcesSpec => kind = "Group" \/ kind = "DatabaseUser" \/ kind = "Integration"
BY KindStays, Unfair

LEMMA GroupRuns ==
  FairResourcesSpec /\ kind = "Group" => [](kind = "Group") /\ G!GroupSpec
<1> DEFINE P == kind = "Group"
<1>1. ResourcesInit /\ P => G!GroupInit
  BY DEF ResourcesInit
<1>2. P /\ [ResourcesNext]_allVars => [G!GroupNext]_(G!allVars) /\ P'
  BY KindStays
     DEF ResourcesNext, ForGroup, ForUser, ForIntegration, allVars, resourceVars,
         handlerVars, vars, G!allVars, G!handlerVars, G!vars, G!groupVars
<1> HIDE DEF P
<1>3. FairResourcesSpec /\ P => []P /\ G!GroupSpec
  BY <1>1, <1>2, Unfair, PTL DEF G!GroupSpec
<1> QED
  BY <1>3 DEF P

LEMMA UserRuns ==
  FairResourcesSpec /\ kind = "DatabaseUser" => [](kind = "DatabaseUser") /\ U!UserSpec
<1> DEFINE P == kind = "DatabaseUser"
<1>1. ResourcesInit /\ P => U!UserInit
  BY DEF ResourcesInit
<1>2. P /\ [ResourcesNext]_allVars => [U!UserNext]_(U!allVars) /\ P'
  BY KindStays
     DEF ResourcesNext, ForGroup, ForUser, ForIntegration, allVars, resourceVars,
         handlerVars, vars, U!allVars, U!handlerVars, U!vars, U!userVars
<1> HIDE DEF P
<1>3. FairResourcesSpec /\ P => []P /\ U!UserSpec
  BY <1>1, <1>2, Unfair, PTL DEF U!UserSpec
<1> QED
  BY <1>3 DEF P

LEMMA IntegrationRuns ==
  FairResourcesSpec /\ kind = "Integration" => [](kind = "Integration") /\ T!IntegrationSpec
<1> DEFINE P == kind = "Integration"
<1>1. ResourcesInit /\ P => T!IntegrationInit
  BY DEF ResourcesInit
<1>2. P /\ [ResourcesNext]_allVars => [T!IntegrationNext]_(T!allVars) /\ P'
  BY KindStays
     DEF ResourcesNext, ForGroup, ForUser, ForIntegration, allVars, resourceVars,
         handlerVars, vars, T!allVars, T!handlerVars, T!vars, T!integrationVars
<1> HIDE DEF P
<1>3. FairResourcesSpec /\ P => []P /\ T!IntegrationSpec
  BY <1>1, <1>2, Unfair, PTL DEF T!IntegrationSpec
<1> QED
  BY <1>3 DEF P

----------------------------------------------------------------------------
(* What is proved of the controllers holds with the constants they have    *)
(* here: their assumptions do.                                             *)

LEMMA SharedAssumptions ==
  /\ 1 \in Nat /\ MaxFaults \in Nat /\ MaxStale \in Nat
  /\ 2 \in Nat /\ MaxFaults \in Nat /\ MaxStale \in Nat
  /\ Writes \subseteq {"recorded", "tracker"}
  /\ Policies \subseteq BOOLEAN
BY BoundsAreNatural, WritesAreKnown, PoliciesAreBoolean

LEMMA GroupProved ==
  ASSUME Room
  PROVE  /\ G!GroupSpec => []G!GroupTypeOK
         /\ G!GroupSpec => []G!GenerationChangeIsDetected
         /\ G!GroupSpec => []G!NoOrphan
         /\ G!GroupSpec => []G!NeverPanics
<1>1. 2 \in Nat /\ MaxFaults \in Nat /\ MaxStale \in Nat
  BY SharedAssumptions
<1>2. {"edit", "delete", "resync", "occupy", "refer"}
        \subseteq {"edit", "delete", "skip", "keep", "foreign", "resync", "period", "group",
                   "vanish", "occupy", "refer", "rotate", "date", "expire", "repair"}
  OBVIOUS
<1>3. Answers \subseteq G!States \cup {""}
  BY AnswersAreStates DEF States, Settled, Polled, G!States, G!Settled, G!Polled
<1>4. Writes \subseteq {"recorded", "tracker"} /\ Policies \subseteq BOOLEAN
  BY SharedAssumptions
<1>5. {"none", "full"} \subseteq {"none", "full", "partial"}
  OBVIOUS
<1>6. {"valid", "invalid"} \subseteq {"none", "valid", "invalid"}
  OBVIOUS
<1>7. G!RoomForHandlers
  BY DEF Room, G!RoomForHandlers, States, Settled, Polled, G!States, G!Settled, G!Polled
<1> QED
  BY <1>1, <1>2, <1>3, <1>4, <1>5, <1>6, <1>7,
     G!GroupTyped, G!EditsAreDetected, G!NothingIsOrphaned, G!HandlersNeverPanic

LEMMA UserProved ==
  /\ U!UserSpec => []U!UserTypeOK
  /\ U!UserSpec => []U!ChangesAreDetected
  /\ U!UserSpec => []U!DeletionReachesAtlas
<1>1. 1 \in Nat /\ MaxFaults \in Nat /\ MaxStale \in Nat
  BY SharedAssumptions
<1>2. {"edit", "delete", "rotate", "date", "resync", "group", "expire"}
        \subseteq {"edit", "delete", "skip", "keep", "foreign", "resync", "period", "group",
                   "vanish", "occupy", "refer", "rotate", "date", "expire", "repair"}
  OBVIOUS
<1>3. Answers \subseteq U!States \cup {""}
  BY AnswersAreStates DEF States, Settled, Polled, U!States, U!Settled, U!Polled
<1>4. Writes \subseteq {"recorded", "tracker"} /\ Policies \subseteq BOOLEAN
  BY SharedAssumptions
<1>5. {"none", "full", "partial"} \subseteq {"none", "full", "partial"}
  OBVIOUS
<1>6. {"valid"} \subseteq {"none", "valid", "invalid"}
  OBVIOUS
<1>7. "keep" \notin {"edit", "delete", "rotate", "date", "resync", "group", "expire"}
  OBVIOUS
<1> QED
  BY <1>1, <1>2, <1>3, <1>4, <1>5, <1>6, <1>7,
     U!UserTypes, U!UpdatesAreDetected, U!UserGoesWithObject

LEMMA IntegrationProved ==
  /\ T!IntegrationSpec => []T!IntegrationTypeOK
  /\ T!IntegrationSpec => []T!NoOrphan
  /\ T!IntegrationSpec => []T!NeverPanics
<1>1. 2 \in Nat /\ MaxFaults \in Nat /\ MaxStale \in Nat
  BY SharedAssumptions
<1>2. {"edit", "delete", "rotate", "vanish", "resync", "group", "refer"}
        \subseteq {"edit", "delete", "skip", "keep", "foreign", "resync", "period", "group",
                   "vanish", "occupy", "refer", "rotate", "date", "expire", "repair"}
  OBVIOUS
<1>3. Answers \subseteq T!States \cup {""}
  BY AnswersAreStates DEF States, Settled, Polled, T!States, T!Settled, T!Polled
<1>4. Writes \subseteq {"recorded", "tracker"} /\ Policies \subseteq BOOLEAN
  BY SharedAssumptions
<1>5. {"none"} \subseteq {"none", "full", "partial"}
  OBVIOUS
<1>6. {"none"} \subseteq {"none", "valid", "invalid"}
  OBVIOUS
<1>7. T!NoAnnotations
  BY DEF T!NoAnnotations
<1> QED
  BY <1>1, <1>2, <1>3, <1>4, <1>5, <1>6, <1>7,
     T!IntegrationTypes, T!NothingIsOrphaned, T!OnlyHandlersThatExist

----------------------------------------------------------------------------

\* The state of the resources of a project stays in its bounds.
THEOREM ResourcesTyped ==
  ASSUME Room
  PROVE  FairResourcesSpec => []ResourcesTypeOK
<1>1. /\ kind = "Group" /\ G!GroupTypeOK => ResourcesTypeOK
      /\ kind = "DatabaseUser" /\ U!UserTypeOK => ResourcesTypeOK
      /\ kind = "Integration" /\ T!IntegrationTypeOK => ResourcesTypeOK
  BY DEF ResourcesTypeOK
<1> QED
  BY <1>1, OneKind, GroupRuns, UserRuns, IntegrationRuns, GroupProved, UserProved,
     IntegrationProved, PTL

\* Neither the edit of a Group nor the edit or the rotation of a user is
\* taken for what Atlas has, for any number of faults and crashes.
THEOREM ChangesDetected ==
  ASSUME Room
  PROVE  FairResourcesSpec => []ChangesAreDetected
<1>1. /\ kind = "Group" /\ G!GenerationChangeIsDetected => ChangesAreDetected
      /\ kind = "DatabaseUser" /\ U!ChangesAreDetected => ChangesAreDetected
      /\ kind = "Integration" => ChangesAreDetected
  BY DEF ChangesAreDetected
<1> QED
  BY <1>1, OneKind, GroupRuns, UserRuns, IntegrationRuns, GroupProved, UserProved, PTL

\* No project, user or integration outlives its object, unless it was to be
\* kept or its handler lets go of it, for any number of faults and crashes.
THEOREM NoneIsOrphaned ==
  ASSUME Room
  PROVE  FairResourcesSpec => []NoOrphan
<1>1. /\ kind = "Group" /\ G!NoOrphan => NoOrphan
      /\ kind = "DatabaseUser" /\ U!DeletionReachesAtlas => NoOrphan
      /\ kind = "Integration" /\ T!NoOrphan => NoOrphan
  BY DEF NoOrphan
<1> QED
  BY <1>1, OneKind, GroupRuns, UserRuns, IntegrationRuns, GroupProved, UserProved,
     IntegrationProved, PTL

\* No handler of the three is run in a state it panics in, for any number of
\* faults and crashes and of reconciles that read a lagging cache.
THEOREM NonePanics ==
  ASSUME Room
  PROVE  FairResourcesSpec => []NeverPanics
<1>1. /\ kind = "Group" /\ G!NeverPanics => NeverPanics
      /\ kind = "DatabaseUser" => NeverPanics
      /\ kind = "Integration" /\ T!NeverPanics => NeverPanics
  BY DEF NeverPanics
<1> QED
  BY <1>1, OneKind, GroupRuns, UserRuns, IntegrationRuns, GroupProved, IntegrationProved, PTL
================================================================================
