-------------------------- MODULE FlexClusterProofs ---------------------------
(***************************************************************************)
(* The FlexCluster controller implements the reconcile loop with an        *)
(* arbitrary handler, so that it inherits what StateReconcilerProofs       *)
(* proves of it; and it creates nothing in Atlas that a deletion of the    *)
(* object could miss.                                                      *)
(***************************************************************************)
EXTENDS FlexCluster, StateReconcilerProofs

Clusters == [present : BOOLEAN, phase : Phases, spec : Nat]

AtlasTyped == atlas \in Clusters

FlexInv == TypeOK /\ CallKnown /\ AtlasTyped

LEMMA InitFlexInv == FlexInit => ReconcilerInit /\ FlexInv
<1> SUFFICES ASSUME FlexInit PROVE ReconcilerInit /\ FlexInv
  OBVIOUS
<1>1. ReconcilerInit /\ TypeOK
  BY InitTyped DEF FlexInit
<1>2. atlas = [NoCluster EXCEPT !.present = (obj.external # "none")] /\ group = TRUE
  BY DEF FlexInit
<1>3. AtlasTyped
  BY <1>2 DEF AtlasTyped, Clusters, NoCluster, Phases
<1>4. CallKnown
  BY NoCallKnown DEF FlexInit, CallKnown
<1> QED
  BY <1>1, <1>3, <1>4 DEF FlexInv

\* What the handlers and Atlas do to the cluster keeps its shape.
LEMMA AtlasStepTyped ==
  ASSUME FlexInv,
         \/ CreateInAtlas \/ UpdateInAtlas \/ DeleteInAtlas \/ UNCHANGED atlas
         \/ AtlasFinishes \/ AtlasVanishes
  PROVE  atlas' \in Clusters
<1>1. rec.snap.gen \in Nat /\ atlas \in Clusters
  BY GenNat DEF FlexInv, TypeOK, Records, AtlasTyped, Clusters
<1>2. CASE CreateInAtlas
  BY <1>1, <1>2 DEF CreateInAtlas, Clusters, Phases
<1>3. CASE UpdateInAtlas
  BY <1>1, <1>3 DEF UpdateInAtlas, Clusters, Phases
<1>4. CASE DeleteInAtlas
  BY <1>1, <1>4 DEF DeleteInAtlas, Clusters, Phases
<1>5. CASE AtlasFinishes
  BY <1>1, <1>5 DEF AtlasFinishes, NoCluster, Clusters, Phases
<1>6. CASE AtlasVanishes
  BY <1>1, <1>6 DEF AtlasVanishes, NoCluster, Clusters, Phases
<1> QED
  BY <1>1, <1>2, <1>3, <1>4, <1>5, <1>6

\* Each handler is a sequence of such steps.
LEMMA PollSteps ==
  ASSUME RoomForHandlers, TypeOK, InHandler, NEW settles \in Patient, NEW back \in Patient,
         Poll(settles, back)
  PROVE  HandlerStep
<1>1. CASE Fail(back) \/ Fault(back)
  BY <1>1, StatesOfHandlers, FailSteps
<1>2. CASE Continue({"status", "tracker"},
                    IF atlas.phase \in {"CREATING", "UPDATING"} THEN back ELSE settles, back)
  BY <1>2, ContinueSteps
<1> QED
  BY <1>1, <1>2 DEF Poll

LEMMA HandlersStep ==
  ASSUME RoomForHandlers, TypeOK, CallKnown, FlexHandler,
         ~(HandlerCommon /\ UNCHANGED <<atlas, group>>)
  PROVE  HandlerStep
<1> DEFINE d == Dispatch(rec.snap)
<1>0. /\ {"Initial"} \subseteq States \ Unsupported /\ {"ImportRequested"} \subseteq States \ Unsupported
      /\ {"Creating"} \subseteq States \ Unsupported /\ {"Updating"} \subseteq States \ Unsupported
      /\ Settled \subseteq States \ Unsupported
      /\ {"DeletionRequested"} \subseteq States \ Unsupported
      /\ {"Deleting"} \subseteq States \ Unsupported
      /\ {"Initial", "Creating", "Updating", "Deleting"} \cup Settled \subseteq States \ Unsupported
  BY DEF States, Settled, Polled, Unsupported
<1>1. CASE HandleInitial
  <2>1. InHandler
    BY <1>0, <1>1, HandlingStates DEF HandleInitial
  <2>2. CASE Continue({"status"}, "Creating", "Initial")
    BY <2>1, <2>2, StatesOfHandlers, ContinueSteps
  <2>3. CASE Fail("Initial") \/ Fault("Initial")
    BY <2>1, <2>3, StatesOfHandlers, FailSteps
  <2> QED
    BY <1>1, <2>2, <2>3 DEF HandleInitial, LostCall
<1>2. CASE HandleImportRequested
  <2>1. InHandler
    BY <1>0, <1>2, HandlingStates DEF HandleImportRequested
  <2>2. CASE Continue({"status", "tracker"}, "Imported", "ImportRequested")
    BY <2>1, <2>2, StatesOfHandlers, ContinueSteps
  <2>3. CASE Fail("ImportRequested") \/ Fault("ImportRequested")
    BY <2>1, <2>3, StatesOfHandlers, FailSteps
  <2> QED
    BY <1>2, <2>2, <2>3 DEF HandleImportRequested
<1>3. CASE HandleCreating
  BY <1>0, <1>3, HandlingStates, StatesOfHandlers, PollSteps DEF HandleCreating
<1>4. CASE HandleUpdating
  BY <1>0, <1>4, HandlingStates, StatesOfHandlers, PollSteps DEF HandleUpdating
<1>5. CASE HandleIdle
  <2> DEFINE current == IdleState(d)
  <2>1. InHandler /\ current \in Settled
    BY <1>0, <1>5, HandlingStates DEF HandleIdle, IdleState, Settled
  <2>2. current \in Patient
    BY <2>1, StatesOfHandlers
  <2>3. CASE Reply(current)
    BY <2>1, <2>2, <2>3, StatesOfHandlers, ReplySteps
  <2>4. CASE Fail(current) \/ Fault(current) \/ FailForGood(current)
    BY <2>1, <2>2, <2>4, StatesOfHandlers, FailSteps
  <2>5. CASE Continue({"status", "tracker"}, "Updating", current)
    BY <2>1, <2>2, <2>5, StatesOfHandlers, ContinueSteps
  <2> QED
    BY <1>5, <2>3, <2>4, <2>5 DEF HandleIdle, LostCall
<1>6. CASE HandleDeletionRequested
  <2>1. InHandler /\ d \in Deletion
    BY <1>0, <1>6, HandlingStates DEF HandleDeletionRequested, Deletion
  <2>2. CASE Reply("Deleted") \/ Reply("Deleting")
    BY <2>1, <2>2, StatesOfHandlers, ReplySteps DEF Deletion
  <2>3. CASE Fail("DeletionRequested") \/ Fault("DeletionRequested")
    BY <2>1, <2>3, StatesOfHandlers, FailSteps DEF Deletion
  <2> QED
    BY <1>6, <2>2, <2>3 DEF HandleDeletionRequested, LostCall
<1>7. CASE HandleDeleting
  <2>1. InHandler /\ d \in Deletion
    BY <1>0, <1>7, HandlingStates DEF HandleDeleting, Deletion
  <2>2. CASE Reply("Deleting") \/ Reply("Deleted")
    BY <2>1, <2>2, StatesOfHandlers, ReplySteps DEF Deletion
  <2>3. CASE Fault("DeletionRequested")
    BY <2>1, <2>3, StatesOfHandlers, FailSteps DEF Deletion
  <2> QED
    BY <1>7, <2>2, <2>3 DEF HandleDeleting
<1>8. CASE NoDependencies
  <2> DEFINE current == IdleState(d)
  <2>1. InHandler /\ d \in {"Initial", "Creating", "Updating", "Deleting"} \cup Settled
    BY <1>0, <1>8, HandlingStates DEF NoDependencies
  <2>2. current \in States \ {"Deleted"} /\ (current \in Deletion => d \in Deletion)
    BY <2>1 DEF IdleState, States, Settled, Polled, Deletion
  <2>3. Fail(current)
    BY <1>8 DEF NoDependencies
  <2> QED
    BY <2>1, <2>2, <2>3, FailSteps
<1> QED
  BY <1>1, <1>2, <1>3, <1>4, <1>5, <1>6, <1>7, <1>8 DEF FlexHandler

\* The variables of the handlers keep their shape.
LEMMA AtlasSteps ==
  ASSUME FlexInv, FlexNext
  PROVE  AtlasTyped'
<1>2. \/ CreateInAtlas \/ UpdateInAtlas \/ DeleteInAtlas \/ UNCHANGED atlas
      \/ AtlasFinishes \/ AtlasVanishes
  BY DEF FlexNext, FlexHandler, HandleInitial, HandleImportRequested, HandleCreating,
         HandleUpdating, Poll, HandleIdle, HandleDeletionRequested, HandleDeleting,
         NoDependencies, GroupVanishes, LostCall
<1>3. atlas' \in Clusters
  BY <1>2, AtlasStepTyped
<1> QED
  BY <1>3 DEF AtlasTyped

LEMMA FlexStep ==
  ASSUME RoomForHandlers, FlexInv, [FlexNext]_allVars
  PROVE  [ReconcilerNext]_vars /\ FlexInv'
<1>1. CASE UNCHANGED allVars
  <2>1. UNCHANGED vars /\ CallKnown' /\ AtlasTyped'
    BY <1>1 DEF allVars, handlerVars, vars, FlexInv, CallKnown, AtlasTyped
  <2> QED
    BY <2>1, StepTyped DEF FlexInv
<1>2. CASE FlexNext
  <2>1. [ReconcilerNext]_vars /\ CallKnown'
    <3>1. CASE Around
      BY <3>1, AroundKnown DEF FlexInv
    <3>2. CASE HandlerCommon
      BY <3>2, HandlerCommonReturns DEF FlexInv, ReconcilerNext
    <3>3. CASE FlexHandler /\ ~HandlerCommon
      <4>1. HandlerStep
        BY <3>3, HandlersStep DEF FlexInv
      <4> QED
        BY <4>1 DEF HandlerStep, ReconcilerNext
    <3>4. CASE AtlasFinishes \/ AtlasVanishes
      <4>1. UNCHANGED vars /\ UNCHANGED call
        BY <3>4 DEF AtlasFinishes, AtlasVanishes, handlerVars
      <4> QED
        BY <4>1 DEF FlexInv, CallKnown, vars
    <3>5. CASE GroupVanishes
      <4>1. CASE queued' = queued
        <5>1. UNCHANGED vars /\ UNCHANGED call
          BY <3>5, <4>1 DEF GroupVanishes, vars
        <5> QED
          BY <5>1 DEF FlexInv, CallKnown, vars
      <4>2. CASE queued' # queued
        <5>1. Resync /\ UNCHANGED call /\ rec' = rec
          BY <3>5, <4>2 DEF GroupVanishes, Resync, RoomForHandlers, FlexInv, TypeOK
        <5> QED
          BY <5>1 DEF FlexInv, CallKnown, ReconcilerNext, Environment
      <4> QED
        BY <4>1, <4>2
    <3> QED
      BY <1>2, <3>1, <3>2, <3>3, <3>4, <3>5 DEF FlexNext
  <2>2. TypeOK'
    BY <2>1, StepTyped DEF FlexInv
  <2>3. AtlasTyped'
    BY <1>2, AtlasSteps
  <2> QED
    BY <2>1, <2>2, <2>3 DEF FlexInv
<1> QED
  BY <1>1, <1>2

\* The Group may only go away.
LEMMA GroupStays == FlexNext => group' = group \/ group' = FALSE
BY DEF FlexNext, FlexHandler, HandleInitial, HandleImportRequested, HandleCreating,
       HandleUpdating, Poll, HandleIdle, HandleDeletionRequested, HandleDeleting,
       NoDependencies, AtlasFinishes, AtlasVanishes, GroupVanishes

\* What else may happen where there is more than a FlexCluster.
LEMMA InitNoCluster ==
  ReconcilerInit /\ atlas = NoCluster /\ call = NoCall => FlexInv
BY InitTyped, NoCallKnown DEF FlexInv, CallKnown, AtlasTyped, Clusters, NoCluster, Phases

LEMMA WokenStep ==
  ASSUME FlexInv, queued' \in BOOLEAN, UNCHANGED <<obj, cache, rec, budget, handled, call, atlas>>
  PROVE  FlexInv'
BY DEF FlexInv, TypeOK, CallKnown, AtlasTyped

LEMMA RejectedStep ==
  ASSUME RoomForHandlers, FlexInv, Handling({"Initial"}), Fail("Initial"), UNCHANGED atlas
  PROVE  FlexInv'
<1>1. InHandler
  BY HandlingStates DEF States, Settled, Polled, Unsupported
<1>2. HandlerStep
  BY <1>1, StatesOfHandlers, FailSteps DEF FlexInv
<1>3. [ReconcilerNext]_vars /\ CallKnown'
  BY <1>2 DEF HandlerStep, ReconcilerNext
<1> QED
  BY <1>3, StepTyped DEF FlexInv, AtlasTyped

\* Every behaviour of the FlexCluster controller is one of the reconcile loop
\* with an arbitrary handler.
THEOREM FlexImplementsReconciler ==
  ASSUME RoomForHandlers
  PROVE  FlexSpec => ReconcilerSpec
<1>1. FlexInit => ReconcilerInit /\ FlexInv
  BY InitFlexInv
<1>2. FlexInv /\ [FlexNext]_allVars => [ReconcilerNext]_vars /\ FlexInv'
  BY FlexStep
<1> QED
  BY <1>1, <1>2, PTL DEF FlexSpec, ReconcilerSpec

\* The object, the handler in progress and the cluster in Atlas keep their
\* shape.
THEOREM FlexTyped ==
  ASSUME RoomForHandlers
  PROVE  FlexSpec => []FlexTypeOK
<1> DEFINE Shaped == FlexInv /\ group \in BOOLEAN
<1>1. FlexInit => Shaped
  BY InitFlexInv DEF FlexInit
<1>2. Shaped /\ [FlexNext]_allVars => Shaped'
  BY FlexStep, GroupStays DEF allVars
<1>3. Shaped => FlexTypeOK
  BY KnownIsTyped DEF FlexInv, AtlasTyped, Clusters, FlexTypeOK
<1> HIDE DEF Shaped
<1> QED
  BY <1>1, <1>2, <1>3, PTL DEF FlexSpec

----------------------------------------------------------------------------
(* Nothing is created behind the back of a deletion.                       *)

\* A cluster appears in Atlas only out of the handler of state Initial.
LEMMA OnlyInitialCreates ==
  ASSUME FlexInv, [FlexNext]_allVars, atlas'.present, ~atlas.present
  PROVE  rec.pc = "handler"
<1>0. /\ atlas \in Clusters /\ atlas' # atlas
      /\ \A phase : [atlas EXCEPT !.phase = phase].present = atlas.present
  BY DEF FlexInv, AtlasTyped, Clusters
<1>1. CASE HandleInitial
  BY <1>1 DEF HandleInitial, Handling
<1>2. ~(UpdateInAtlas \/ DeleteInAtlas \/ AtlasFinishes \/ AtlasVanishes)
  BY <1>0 DEF UpdateInAtlas, DeleteInAtlas, AtlasFinishes, AtlasVanishes
<1> QED
  BY <1>0, <1>1, <1>2
     DEF FlexNext, FlexHandler, allVars, HandleImportRequested, HandleCreating,
         HandleUpdating, Poll, HandleIdle, HandleDeletionRequested, HandleDeleting,
         NoDependencies, GroupVanishes, LostCall

LEMMA CreateStep ==
  ASSUME FlexInv, UnderFinalizer, [FlexNext]_allVars
  PROVE  FreshReads /\ atlas'.present /\ ~atlas.present => obj.exists /\ Ours \in obj.fin
<1> SUFFICES ASSUME FreshReads, atlas'.present, ~atlas.present
             PROVE  obj.exists /\ Ours \in obj.fin
  OBVIOUS
<1>1. rec.pc = "handler"
  BY OnlyInitialCreates
<1>2. Ours \in obj.fin
  BY <1>1 DEF UnderFinalizer
<1> QED
  BY <1>2 DEF UnderFinalizer

\* As long as no reconcile has read a lagging cache, a create is sent to
\* Atlas only while the finalizer of the operator holds the object.
THEOREM CreatesUnderFinalizer ==
  ASSUME RoomForHandlers
  PROVE  FlexSpec => CreateOnlyUnderFinalizer
<1>1. FlexInit => FlexInv /\ UnderFinalizer
  BY InitFlexInv, InitUnderFinalizer
<1>2. FlexInv /\ UnderFinalizer /\ [FlexNext]_allVars => (FlexInv /\ UnderFinalizer)'
  BY FlexStep, StepUnderFinalizer DEF FlexInv
<1>3. FlexInv /\ UnderFinalizer /\ [FlexNext]_allVars
        => [FreshReads /\ atlas'.present /\ ~atlas.present
              => obj.exists /\ Ours \in obj.fin]_allVars
  BY CreateStep
<1> QED
  BY <1>1, <1>2, <1>3, PTL DEF FlexSpec, CreateOnlyUnderFinalizer

----------------------------------------------------------------------------
(* The cluster of an object whose policy is keep is left alone.            *)

LEMMA DeletionStep ==
  ASSUME FlexInv, DeletionKnown, KeepKnown, [FlexNext]_allVars,
         atlas'.phase = "DELETING", atlas.phase # "DELETING"
  PROVE  ~obj.keep
<1>0. atlas \in Clusters /\ rec.snap \in Objects /\ atlas' # atlas
  BY DEF FlexInv, AtlasTyped, TypeOK, Records
<1>1. ~(CreateInAtlas \/ UpdateInAtlas \/ AtlasFinishes \/ AtlasVanishes)
  <2>1. ~CreateInAtlas
    BY DEF CreateInAtlas
  <2>2. ~UpdateInAtlas
    BY <1>0 DEF UpdateInAtlas, Clusters
  <2>3. ~AtlasFinishes
    BY <1>0 DEF AtlasFinishes, NoCluster, Clusters
  <2>4. ~AtlasVanishes
    BY DEF AtlasVanishes, NoCluster
  <2> QED
    BY <2>1, <2>2, <2>3, <2>4
<1>2. HandleDeletionRequested
  BY <1>0, <1>1
     DEF FlexNext, FlexHandler, allVars, HandleInitial, HandleImportRequested, HandleCreating,
         HandleUpdating, Poll, HandleIdle, HandleDeleting, NoDependencies, GroupVanishes,
         LostCall
<1>3. ~rec.snap.keep /\ Dispatch(rec.snap) \in Deletion
  BY <1>0, <1>2 DEF HandleDeletionRequested, Unmanaged, Handling, Deletion
<1>4. rec.snap.deleting
  BY <1>0, <1>3, DispatchAsked DEF DeletionKnown, Asked
<1> QED
  BY <1>3, <1>4 DEF KeepKnown, SameKeep

\* The cluster of an object whose policy is keep is never deleted:
\* HandleDeletionRequested reads the policy from a snapshot that may be old,
\* but not older than the request of the deletion.
THEOREM KeepRespected ==
  ASSUME RoomForHandlers
  PROVE  FlexSpec => KeepIsRespected
<1>1. FlexInit => FlexInv /\ DeletionKnown /\ KeepKnown
  BY InitFlexInv, InitDeletionKnown, InitKeepKnown
<1>2. FlexInv /\ DeletionKnown /\ KeepKnown /\ [FlexNext]_allVars
        => (FlexInv /\ DeletionKnown /\ KeepKnown)'
  BY FlexStep, StepDeletionKnown, StepKeepKnown DEF FlexInv
<1>3. FlexInv /\ DeletionKnown /\ KeepKnown /\ [FlexNext]_allVars
        => [atlas'.phase = "DELETING" /\ atlas.phase # "DELETING" => ~obj.keep]_allVars
  BY DeletionStep
<1> QED
  BY <1>1, <1>2, <1>3, PTL DEF FlexSpec, KeepIsRespected

----------------------------------------------------------------------------
(* The steps on the object.                                                *)

\* The first step of a handler writes nothing on the object.
LEMMA FirstSteps ==
  ASSUME FlexHandler, ~(HandlerCommon /\ UNCHANGED <<atlas, group>>)
  PROVE  FirstStep
BY AnswerIsFirst, ContinueIsFirst
   DEF FlexHandler, FirstStep, Handling, HandleInitial, HandleImportRequested, HandleCreating,
       HandleUpdating, Poll, HandleIdle, HandleDeletionRequested, HandleDeleting,
       NoDependencies, LostCall

LEMMA FlexIsController == [FlexNext]_allVars => ControllerStep
BY FirstSteps
   DEF FlexNext, ControllerStep, AtlasFinishes, AtlasVanishes, GroupVanishes, allVars,
       handlerVars, vars

----------------------------------------------------------------------------
(* A settled resource has its cluster.                                     *)

\* A cluster is there, or somebody took it away.
Live == atlas.present \/ atlas.phase = "VANISHED"

HasCluster ==
  ~obj.deleting => /\ atlas.phase # "DELETING"
                   /\ ClaimsSettled => Live

LEMMA InitHasCluster == FlexInit => HasCluster
<1> SUFFICES ASSUME FlexInit PROVE HasCluster
  OBVIOUS
<1>1. ReconcilerInit /\ call = NoCall /\ atlas.phase = "IDLE"
  BY DEF FlexInit, NoCluster
<1>2. obj.state = "Initial" /\ cache = obj /\ rec = Idle
  BY <1>1 DEF ReconcilerInit, NewObject
<1>3. "Initial" \notin Settled
  BY DEF Settled
<1> QED
  BY <1>1, <1>2, <1>3, IdleFields DEF HasCluster, ClaimsSettled, Answering, NoCall

\* While no deletion was asked for, nothing but a stranger takes it away.
LEMMA StepLive ==
  ASSUME FlexInv, DeletionKnown, HasCluster, [FlexNext]_allVars, ~obj.deleting
  PROVE  atlas'.phase # "DELETING" /\ (Live => Live')
<1>0. atlas \in Clusters /\ rec.snap \in Objects /\ atlas.phase # "DELETING"
  BY DEF FlexInv, AtlasTyped, TypeOK, Records, HasCluster
<1>1. ~HandleDeletionRequested
  <2>1. Dispatch(rec.snap) \notin Deletion
    BY <1>0, DispatchAsked DEF DeletionKnown, Asked
  <2> QED
    BY <2>1 DEF HandleDeletionRequested, Handling, Deletion
<1>2. \/ CreateInAtlas \/ UpdateInAtlas \/ UNCHANGED atlas \/ AtlasFinishes \/ AtlasVanishes
  BY <1>1 DEF FlexNext, FlexHandler, HandleInitial, HandleImportRequested, HandleCreating,
         HandleUpdating, Poll, HandleIdle, HandleDeleting, NoDependencies, GroupVanishes,
         LostCall, allVars
<1>3. CASE CreateInAtlas
  BY <1>3 DEF CreateInAtlas, Live
<1>4. CASE UpdateInAtlas
  BY <1>0, <1>4 DEF UpdateInAtlas, Live, Clusters
<1>5. CASE AtlasFinishes
  BY <1>0, <1>5 DEF AtlasFinishes, Live, Clusters
<1>6. CASE AtlasVanishes
  BY <1>6 DEF AtlasVanishes, NoCluster, Live
<1> QED
  BY <1>0, <1>2, <1>3, <1>4, <1>5, <1>6 DEF Live

\* The first step of a handler claims nothing new without a cluster.
LEMMA FirstStepClaims ==
  ASSUME FlexInv, FlexHandler, ~HandlerCommon, ClaimsSettled'
  PROVE  ClaimsSettled \/ atlas.present
<1> SUFFICES ASSUME ~ClaimsSettled, ~atlas.present PROVE FALSE
  OBVIOUS
<1>0. /\ rec.snap \in Objects
      /\ {"Initial", "ImportRequested", "Creating", "Updating", "DeletionRequested", "Deleting",
          "Deleted"} \subseteq States \ Settled
      /\ Settled \subseteq States
  BY DEF FlexInv, TypeOK, Records, States, Settled, Polled
<1>1. ASSUME NEW state \in States \ Settled,
             Reply(state) \/ Fail(state) \/ Fault(state) \/ FailForGood(state)
      PROVE  FALSE
  BY <1>1, AnswersClaim DEF FlexInv
<1>2. ~HandleInitial
  <2>1. ~Continue({"status"}, "Creating", "Initial")
    BY <1>0, ContinueClaims
  <2> QED
    BY <1>0, <1>1, <2>1 DEF HandleInitial, LostCall
<1>3. ~HandleImportRequested
  BY <1>0, <1>1 DEF HandleImportRequested
<1>4. ~HandleCreating /\ ~HandleUpdating
  BY <1>0, <1>1 DEF HandleCreating, HandleUpdating, Poll
<1>5. ~HandleIdle
  BY <1>0, SettledDispatch DEF HandleIdle, IdleState, Handling, ClaimsSettled
<1>6. ~HandleDeletionRequested /\ ~HandleDeleting
  BY <1>0, <1>1 DEF HandleDeletionRequested, HandleDeleting, LostCall
<1>7. ~NoDependencies
  <2>1. Dispatch(rec.snap) \notin Settled
    BY <1>0, SettledDispatch DEF ClaimsSettled
  <2>2. NoDependencies => \E state \in States \ Settled : Fail(state)
    BY <1>0, <2>1 DEF NoDependencies, Handling, IdleState
  <2> QED
    BY <1>1, <2>2
<1> QED
  BY <1>2, <1>3, <1>4, <1>5, <1>6, <1>7 DEF FlexHandler

LEMMA StepHasCluster ==
  FlexInv /\ DeletionKnown /\ HasCluster /\ [ReconcilerNext]_vars /\ [FlexNext]_allVars
    => HasCluster'
<1> SUFFICES ASSUME FlexInv, DeletionKnown, HasCluster, [ReconcilerNext]_vars,
                    [FlexNext]_allVars, ~obj'.deleting
             PROVE  atlas'.phase # "DELETING" /\ (ClaimsSettled' => Live')
  BY DEF HasCluster
<1>1. ~obj.deleting
  BY StepMoves DEF FlexInv, Forward
<1>2. ASSUME ClaimsSettled' PROVE ClaimsSettled \/ atlas.present
  <2>1. CASE Around
    BY <1>2, <2>1, AroundClaims DEF FlexInv
  <2>2. CASE HandlerCommon
    BY <1>2, <2>2, CommonClaims, KnownIsShaped DEF FlexInv
  <2>3. CASE FlexHandler /\ ~HandlerCommon
    BY <1>2, <2>3, FirstStepClaims
  <2>4. CASE UNCHANGED <<obj, cache, rec, call>>
    BY <1>2, <2>4 DEF ClaimsSettled, Answering
  <2> QED
    BY <2>1, <2>2, <2>3, <2>4
       DEF FlexNext, AtlasFinishes, AtlasVanishes, GroupVanishes, allVars, handlerVars, vars
<1>3. ClaimsSettled \/ atlas.present => Live
  BY <1>1 DEF HasCluster, Live
<1> QED
  BY <1>1, <1>2, <1>3, StepLive

\* A resource that says it is settled has a cluster in Atlas that is not
\* being deleted, unless somebody deleted it there: every answer that says
\* so was given in sight of a cluster, or repeats an earlier one, and the
\* operator deletes no cluster before the deletion of the object is asked
\* for, however far the cache lags and whatever fails.
THEOREM SettledMeansCluster ==
  ASSUME RoomForHandlers
  PROVE  FlexSpec => []SettledHasCluster
<1>1. FlexInit => FlexInv /\ DeletionKnown /\ HasCluster
  BY InitFlexInv, InitDeletionKnown, InitHasCluster
<1>2. FlexInv /\ DeletionKnown /\ HasCluster /\ [FlexNext]_allVars
        => (FlexInv /\ DeletionKnown /\ HasCluster)'
  BY FlexStep, StepDeletionKnown, StepHasCluster DEF FlexInv
<1>3. HasCluster => SettledHasCluster
  BY DEF HasCluster, ClaimsSettled, Live, SettledHasCluster
<1> QED
  BY <1>1, <1>2, <1>3, PTL DEF FlexSpec

----------------------------------------------------------------------------
(* What the two invariants about creations share.                          *)

\* A cluster appears in Atlas with an answer in store, or behind a failure.
LEMMA CreateContinues ==
  ASSUME FlexInv, [FlexNext]_allVars, atlas'.present, ~atlas.present, ~Spend("faults")
  PROVE  Handling({"Initial"}) /\ Continue({"status"}, "Creating", "Initial")
<1>0. /\ atlas \in Clusters /\ atlas' # atlas
      /\ \A phase : [atlas EXCEPT !.phase = phase].present = atlas.present
  BY DEF FlexInv, AtlasTyped, Clusters
<1>1. ~(UpdateInAtlas \/ DeleteInAtlas \/ AtlasFinishes \/ AtlasVanishes)
  BY <1>0 DEF UpdateInAtlas, DeleteInAtlas, AtlasFinishes, AtlasVanishes
<1> QED
  BY <1>0, <1>1
     DEF FlexNext, FlexHandler, allVars, HandleInitial, HandleImportRequested, HandleCreating,
         HandleUpdating, Poll, HandleIdle, HandleDeletionRequested, HandleDeleting,
         NoDependencies, GroupVanishes, LostCall, Fault

----------------------------------------------------------------------------
(* What was created is not created again.                                  *)

\* The handler that created the cluster is on its way to say so.
CreateUnderWay ==
  \/ rec.pc = "handler" /\ call.busy /\ call.to = "Creating"
  \/ Answering /\ rec.next = "Creating"

\* No copy that matters is in state Initial any more, and none is to come.
PastInitial ==
  /\ obj.state # "Initial"
  /\ rec.pc \in {"finalizer", "handler"} => rec.snap.state # "Initial"
  /\ call.busy => call.to # "Initial" /\ call.back # "Initial"
  /\ Answering => rec.next # "Initial"

CreatedKnown ==
  Calm /\ obj.external = "none" /\ atlas.present => CreateUnderWay \/ PastInitial

LEMMA InitCreatedKnown == FlexInit => CreatedKnown
<1> SUFFICES ASSUME FlexInit, obj.external = "none" PROVE ~atlas.present
  BY DEF CreatedKnown
<1> QED
  BY DEF FlexInit, NoCluster

LEMMA AnswerPast ==
  ASSUME FlexInv, PastInitial, NEW state \in States \ {"Initial"},
         Reply(state) \/ Fail(state) \/ Fault(state) \/ FailForGood(state)
  PROVE  PastInitial'
<1>1. PICK outcome \in Outcomes : Answer(state, outcome)
  BY OutcomesKnown DEF Reply, Fail, Fault, FailForGood
<1>2. /\ rec'.pc = "reapply" /\ rec'.next = state /\ call' = NoCall /\ obj' = obj
  BY <1>1, AnswerFields DEF FlexInv
<1> QED
  BY <1>2, NoCallKnown DEF PastInitial

LEMMA ContinuePast ==
  ASSUME PastInitial, NEW todo, NEW to, NEW back, Continue(todo, to, back),
         to # "Initial", back # "Initial"
  PROVE  PastInitial'
BY DEF Continue, PastInitial, vars, Answering

LEMMA UnderWayAround ==
  ASSUME FlexInv, LoopInv, FreshReads, CreateUnderWay, Around, ~Spend("faults")
  PROVE  CreateUnderWay' \/ PastInitial'
<1>0. rec \in Records /\ "Creating" \notin Settled
  BY DEF FlexInv, TypeOK, Settled
<1>1. CASE call.busy
  <2>1. rec'.pc = "handler" /\ call' = call /\ rec.pc = "handler"
    BY <1>1, BusyAround DEF FlexInv, CallKnown
  <2> QED
    BY <1>1, <2>1 DEF CreateUnderWay, Answering
<1>2. CASE ~call.busy
  <2>1. Answering /\ rec.next = "Creating"
    BY <1>2 DEF CreateUnderWay
  <2>2. obj.exists
    BY <2>1, HeldExists DEF LoopInv, Answering
  <2>3. ~Crash /\ ~GiveUp
    BY DEF Crash, GiveUp
  <2>4. CASE PatchStatus
    <3>1. obj'.state = "Creating" /\ rec' = Idle
      BY <2>1, <2>2, <2>4, PatchStatusFields DEF FlexInv
    <3>2. ~call'.busy
      BY <1>2, NoCallKnown DEF Around
    <3> QED
      BY <3>1, <3>2, IdleFields DEF PastInitial, Answering
  <2>5. CASE ~PatchStatus
    <3>1. ~Start /\ ~EnsureFinalizers /\ ~RejectState /\ ~UnsetFinalizers
      BY <2>1 DEF Start, EnsureFinalizers, RejectState, UnsetFinalizers, Answering
    <3>2. CASE PeriodElapses
      BY <1>0, <2>1, <3>2 DEF PeriodElapses, Records, CreateUnderWay, Answering
    <3>3. CASE Reapply
      BY <1>0, <2>1, <3>3 DEF Reapply, StampNeeded, Records, CreateUnderWay, Answering
    <3>4. CASE rec' = rec
      BY <2>1, <3>4 DEF CreateUnderWay, Answering
    <3> QED
      BY <2>3, <2>5, <3>1, <3>2, <3>3, <3>4 DEF Around, Loop, CacheSync, Resync, User
  <2> QED
    BY <2>4, <2>5
<1> QED
  BY <1>1, <1>2

LEMMA UnderWayCommon ==
  ASSUME FlexInv, LoopInv, FreshReads, CreateUnderWay, HandlerCommon, ~Spend("faults")
  PROVE  CreateUnderWay'
<1>0. /\ rec.pc = "handler" /\ call.busy /\ call.to = "Creating" /\ obj.exists
      /\ "Creating" \in States
  <2>1. rec.pc = "handler"
    BY DEF HandlerCommon, NoHandler, Handling, PatcherStatus, PatcherTracker, Patching, HandlerEnds
  <2> QED
    BY <2>1, HeldExists DEF CreateUnderWay, Answering, LoopInv, States, Polled
<1>1. ~NoHandler
  BY <1>0 DEF NoHandler, Handling
<1>2. ASSUME NEW name \in {"status", "tracker"}, NEW kind \in {"recorded", "tracker"},
             Patching(name, Written(kind))
      PROVE  CreateUnderWay'
  <2>1. rec' = rec /\ call'.busy /\ call'.to = call.to
    BY <1>0, <1>2, PatchingFields, KnownIsShaped DEF Fault, FlexInv
  <2> QED
    BY <1>0, <2>1 DEF CreateUnderWay
<1>3. CASE PatcherStatus
  BY <1>2, <1>3 DEF PatcherStatus, Written
<1>4. CASE PatcherTracker
  BY <1>2, <1>4 DEF PatcherTracker, Written
<1>5. CASE HandlerEnds
  <2>1. Answer("Creating", "ok")
    BY <1>0, <1>5 DEF HandlerEnds, Reply
  <2>2. rec'.pc = "reapply" /\ rec'.next = "Creating"
    BY <1>0, <2>1, AnswerFields, OutcomesKnown DEF FlexInv
  <2> QED
    BY <2>2 DEF CreateUnderWay, Answering
<1> QED
  BY <1>1, <1>3, <1>4, <1>5 DEF HandlerCommon

LEMMA PastAround ==
  ASSUME FlexInv, LoopInv, FreshReads', PastInitial, Around
  PROVE  PastInitial'
<1>0. rec.snap \in Objects
  BY DEF FlexInv, TypeOK, Records
<1>1. [ReconcilerNext]_vars
  BY DEF Around, ReconcilerNext, Environment
<1>2. obj'.state # "Initial"
  <2>1. CASE PatchStatus /\ obj' # obj
    <3>1. obj' = WithStatus(obj) /\ Answering
      BY <2>1 DEF PatchStatus, GiveUp, Answering
    <3>2. obj'.state = rec.next
      BY <3>1, WithStatusForward DEF FlexInv, TypeOK
    <3> QED
      BY <3>1, <3>2 DEF PastInitial
  <2> QED
    BY <1>1, <2>1, StepMoves DEF SameStatus, PastInitial, FlexInv
<1>3. Aged(rec.snap).state = rec.snap.state
  BY <1>0, AgedForward DEF SameStatus
<1>4. Start => cache = obj
  BY <1>1, StepStale DEF LoopInv, FlexInv
<1>5. rec'.pc \in {"finalizer", "handler"} => rec'.snap.state # "Initial"
  BY <1>1, <1>2, <1>3, <1>4, StepToFinalizer, StepToHandler DEF PastInitial, FlexInv
<1>6. call'.busy => call'.to # "Initial" /\ call'.back # "Initial"
  BY NoCallKnown DEF Around, PastInitial
<1>7. Answering' => rec'.next # "Initial"
  BY AroundAnswers DEF PastInitial, FlexInv
<1> QED
  BY <1>2, <1>5, <1>6, <1>7 DEF PastInitial

LEMMA PastCommon ==
  ASSUME FlexInv, PastInitial, HandlerCommon, ~Spend("faults")
  PROVE  PastInitial'
<1>0. call.to \in States /\ call.back \in States
  BY DEF FlexInv, CallKnown, Patient
<1>1. ~NoHandler
  BY DEF NoHandler, Fault
<1>2. ASSUME NEW name \in {"status", "tracker"}, NEW kind \in {"recorded", "tracker"},
             Patching(name, Written(kind))
      PROVE  PastInitial'
  <2>1. CASE Fail(call.back)
    BY <1>0, <1>2, <2>1, PatchingFields, KnownIsShaped, AnswerPast DEF PastInitial, FlexInv
  <2>2. CASE /\ SameStatus(obj, obj') /\ rec' = rec
             /\ call'.busy /\ call'.to = call.to /\ call'.back = call.back
    BY <1>2, <2>2, PatchingFields, KnownIsShaped DEF PastInitial, SameStatus, Answering, FlexInv
  <2> QED
    BY <1>2, <2>1, <2>2, PatchingFields, KnownIsShaped DEF Fault, FlexInv
<1>3. CASE PatcherStatus
  BY <1>2, <1>3 DEF PatcherStatus, Written
<1>4. CASE PatcherTracker
  BY <1>2, <1>4 DEF PatcherTracker, Written
<1>5. CASE HandlerEnds
  BY <1>0, <1>5, AnswerPast DEF HandlerEnds, PastInitial
<1> QED
  BY <1>1, <1>3, <1>4, <1>5 DEF HandlerCommon

LEMMA PastFirstStep ==
  ASSUME FlexInv, PastInitial, FlexHandler,
         ~(HandlerCommon /\ UNCHANGED <<atlas, group>>)
  PROVE  PastInitial'
<1>0. /\ {"ImportRequested", "Creating", "Updating", "DeletionRequested", "Deleting", "Deleted"}
            \subseteq States \ {"Initial"}
      /\ Settled \subseteq States \ {"Initial"}
      /\ "Imported" \in Settled /\ "Created" \in Settled /\ "Updated" \in Settled
  BY DEF States, Settled, Polled
<1>1. rec.snap \in Objects /\ rec.pc = "handler"
  BY FirstSteps DEF FirstStep, FlexInv, TypeOK, Records
<1>2. rec.snap.state # "Initial" /\ Dispatch(rec.snap) # "Initial"
  BY <1>1 DEF PastInitial, Dispatch
<1>3. ASSUME NEW state \in States \ {"Initial"},
             Reply(state) \/ Fail(state) \/ Fault(state) \/ FailForGood(state)
      PROVE  PastInitial'
  BY <1>3, AnswerPast
<1>4. ASSUME NEW todo, NEW to \in States \ {"Initial"}, NEW back \in States \ {"Initial"},
             Continue(todo, to, back)
      PROVE  PastInitial'
  BY <1>4, ContinuePast
<1>5. ~HandleInitial
  BY <1>2 DEF HandleInitial, Handling
<1>6. CASE HandleImportRequested
  BY <1>0, <1>3, <1>4, <1>6 DEF HandleImportRequested
<1>7. ASSUME NEW settles \in States \ {"Initial"}, NEW back \in States \ {"Initial"},
             Poll(settles, back)
      PROVE  PastInitial'
  BY <1>3, <1>4, <1>7 DEF Poll
<1>8. CASE HandleCreating \/ HandleUpdating
  BY <1>0, <1>7, <1>8 DEF HandleCreating, HandleUpdating
<1>9. CASE HandleIdle
  <2> DEFINE current == IdleState(Dispatch(rec.snap))
  <2>1. current \in States \ {"Initial"}
    BY <1>0, <1>9 DEF HandleIdle, Handling, IdleState
  <2> QED
    BY <1>0, <1>3, <1>4, <1>9, <2>1 DEF HandleIdle, LostCall
<1>10. CASE HandleDeletionRequested \/ HandleDeleting
  BY <1>0, <1>3, <1>10 DEF HandleDeletionRequested, HandleDeleting, LostCall
<1>11. CASE NoDependencies
  <2> DEFINE current == IdleState(Dispatch(rec.snap))
  <2>1. current \in States \ {"Initial"} /\ Fail(current)
    BY <1>0, <1>2, <1>11 DEF NoDependencies, Handling, IdleState
  <2> QED
    BY <1>3, <2>1
<1> QED
  BY <1>5, <1>6, <1>8, <1>9, <1>10, <1>11 DEF FlexHandler

LEMMA StepCreatedKnown ==
  FlexInv /\ LoopInv /\ CreatedKnown /\ [ReconcilerNext]_vars /\ [FlexNext]_allVars
    => CreatedKnown'
<1> SUFFICES ASSUME FlexInv, LoopInv, CreatedKnown, [ReconcilerNext]_vars, [FlexNext]_allVars,
                    Calm', obj'.external = "none", atlas'.present
             PROVE  CreateUnderWay' \/ PastInitial'
  BY DEF CreatedKnown
<1>1. Calm /\ ~Spend("faults") /\ FreshReads /\ FreshReads' /\ obj.external = "none"
  BY StepCalm, StepWork DEF FlexInv, LoopInv, Calm
<1>2. CASE ~atlas.present
  <2>1. Handling({"Initial"}) /\ Continue({"status"}, "Creating", "Initial")
    BY <1>1, <1>2, CreateContinues
  <2> QED
    BY <2>1 DEF Handling, Continue, vars, CreateUnderWay
<1>3. CASE atlas.present /\ CreateUnderWay
  <2>1. CASE Around
    BY <1>1, <1>3, <2>1, UnderWayAround
  <2>2. CASE HandlerCommon
    BY <1>1, <1>3, <2>2, UnderWayCommon
  <2>3. ~(FlexHandler /\ ~HandlerCommon)
    BY <1>3, FirstSteps DEF FirstStep, CreateUnderWay, Answering
  <2>4. CASE UNCHANGED <<rec, call>>
    BY <1>3, <2>4 DEF CreateUnderWay, Answering
  <2> QED
    BY <2>1, <2>2, <2>3, <2>4
       DEF FlexNext, AtlasFinishes, AtlasVanishes, GroupVanishes, allVars, handlerVars, vars
<1>4. CASE PastInitial
  <2>1. CASE Around
    BY <1>1, <1>4, <2>1, PastAround
  <2>2. CASE HandlerCommon
    BY <1>1, <1>4, <2>2, PastCommon
  <2>3. CASE FlexHandler /\ ~HandlerCommon
    BY <1>4, <2>3, PastFirstStep
  <2>4. CASE UNCHANGED <<obj, rec, call>>
    BY <1>4, <2>4 DEF PastInitial, Answering
  <2> QED
    BY <2>1, <2>2, <2>3, <2>4
       DEF FlexNext, AtlasFinishes, AtlasVanishes, GroupVanishes, allVars, handlerVars, vars
<1> QED
  BY <1>1, <1>2, <1>3, <1>4 DEF CreatedKnown

\* The operator never sends a create for a cluster it has created already,
\* unless a failure or a lagging cache hid the first one from it: from the
\* create on, either the reconcile that sent it is about to write Creating,
\* or the state Initial is behind the object and all copies that matter.
THEOREM CreatesOnce ==
  ASSUME RoomForHandlers
  PROVE  FlexSpec => []NeverCreatesTwice
<1>1. FlexInit => FlexInv /\ LoopInv /\ CreatedKnown
  BY InitFlexInv, InitLoopInv, InitCreatedKnown
<1>2. FlexInv /\ LoopInv /\ CreatedKnown /\ [FlexNext]_allVars
        => (FlexInv /\ LoopInv /\ CreatedKnown)'
  BY FlexStep, StepLoopInv, StepCreatedKnown DEF FlexInv
<1>3. FlexInv /\ LoopInv /\ CreatedKnown => NeverCreatesTwice
  <2> SUFFICES ASSUME FlexInv, LoopInv, CreatedKnown, Calm, rec.pc = "handler", ~call.busy,
                      Dispatch(rec.snap) = "Initial"
               PROVE  ~atlas.present
    BY DEF NeverCreatesTwice
  <2>1. rec.snap.state = "Initial" /\ rec.snap.external = "none"
    BY DEF FlexInv, TypeOK, Records, Objects, Dispatch
  <2>2. obj.external = "none"
    BY <2>1 DEF LoopInv, ExternalKnown
  <2> QED
    BY <2>1, <2>2 DEF CreatedKnown, CreateUnderWay, PastInitial, Answering
<1> QED
  BY <1>1, <1>2, <1>3, PTL DEF FlexSpec

----------------------------------------------------------------------------
(* What the object leaves behind when it goes.                             *)

\* A cluster that nothing records was created by the handler in progress.
Recorded ==
  Calm /\ obj.external = "none" /\ atlas.present /\ ~obj.recorded
    => rec.pc = "handler" /\ "status" \in call.todo

\* What may be left in Atlas.
Abandoned == ~obj.recorded /\ (Calm => obj.external # "none")

\* A reconcile that is about to let the object go abandons nothing else.
Released ==
  FreshReads /\ Answering /\ rec.next = "Deleted" /\ atlas.present /\ ~obj.keep => Abandoned

\* Nor does an object that nothing holds.
Unheld ==
  FreshReads /\ Ours \notin obj.fin /\ atlas.present /\ (obj.deleting => ~obj.keep)
    => Abandoned

OrphanInv == Copied /\ Recorded /\ Released /\ Unheld

LEMMA InitOrphanInv == FlexInit => OrphanInv
<1> SUFFICES ASSUME FlexInit PROVE OrphanInv
  OBVIOUS
<1>1. ReconcilerInit /\ atlas.present = (obj.external # "none")
  BY DEF FlexInit, NoCluster
<1>2. rec = Idle /\ ~obj.recorded
  BY <1>1 DEF ReconcilerInit, NewObject
<1> QED
  BY <1>1, <1>2, IdleFields
     DEF OrphanInv, Copied, Undecided, Recorded, Released, Unheld, Abandoned, Answering

LEMMA StepRecorded ==
  FlexInv /\ LoopInv /\ Recorded /\ [ReconcilerNext]_vars /\ [FlexNext]_allVars => Recorded'
<1> SUFFICES ASSUME FlexInv, LoopInv, Recorded, [ReconcilerNext]_vars, [FlexNext]_allVars,
                    Calm', obj'.external = "none", atlas'.present, ~obj'.recorded
             PROVE  rec'.pc = "handler" /\ "status" \in call'.todo
  BY DEF Recorded
<1>0. obj \in Objects
  BY DEF FlexInv, TypeOK
<1>1. Calm /\ ~Spend("faults") /\ FreshReads /\ obj.external = "none" /\ ~obj.recorded
  BY StepCalm, StepWork DEF FlexInv, LoopInv, Calm
<1>2. CASE ~atlas.present
  <2>1. Handling({"Initial"}) /\ Continue({"status"}, "Creating", "Initial")
    BY <1>1, <1>2, CreateContinues
  <2> QED
    BY <2>1 DEF Handling, Continue, vars
<1>3. CASE atlas.present
  <2>1. rec.pc = "handler" /\ "status" \in call.todo /\ call.busy /\ obj.exists
    BY <1>1, <1>3, HeldExists DEF Recorded, LoopInv, FlexInv, CallKnown
  <2>2. CASE Around
    BY <1>1, <2>1, <2>2, BusyAround DEF FlexInv
  <2>3. ~HandlerCommon
    <3>1. ~NoHandler /\ ~PatcherTracker /\ ~HandlerEnds
      BY <2>1 DEF NoHandler, Handling, PatcherTracker, HandlerEnds
    <3>2. ~PatcherStatus
      <4>1. PatcherStatus => Patching("status", Written("recorded"))
        BY DEF PatcherStatus, Written
      <4>2. Written("recorded").recorded = TRUE
        BY WrittenWork DEF FlexInv
      <4> QED
        BY <1>1, <2>1, <4>1, <4>2, PatchingFields, KnownIsShaped DEF Fault, FlexInv
    <3> QED
      BY <3>1, <3>2 DEF HandlerCommon
  <2>4. ~(FlexHandler /\ ~HandlerCommon)
    BY <2>1, FirstSteps DEF FirstStep
  <2>5. CASE UNCHANGED <<rec, call>>
    BY <2>1, <2>5
  <2> QED
    BY <2>2, <2>3, <2>4, <2>5
       DEF FlexNext, AtlasFinishes, AtlasVanishes, GroupVanishes, allVars, handlerVars, vars
<1> QED
  BY <1>2, <1>3

\* What is abandoned stays abandoned until a handler takes it up.
LEMMA StepAbandoned ==
  ASSUME FlexInv, LoopInv, [ReconcilerNext]_vars, [FlexNext]_allVars, rec.pc # "handler",
         Abandoned
  PROVE  Abandoned'
<1>1. obj'.recorded = obj.recorded
  BY FlexIsController, WorkMoves, KnownIsShaped DEF PatcherStatus, Patching, FlexInv
<1>2. Calm' => Calm
  BY StepCalm DEF FlexInv, LoopInv
<1> QED
  BY <1>1, <1>2, StepWork DEF Abandoned, FlexInv

\* Deleted is the answer of a handler of a deletion, which has either seen
\* no cluster, or not been asked to delete one.
LEMMA DeletedAnswer ==
  ASSUME FlexInv, LoopInv, FlexHandler, ~(HandlerCommon /\ UNCHANGED <<atlas, group>>),
         Answering', rec'.next = "Deleted", atlas'.present
  PROVE  Unmanaged(rec.snap) /\ Dispatch(rec.snap) \in Deletion /\ ~call.busy
<1>0. /\ {"Initial", "ImportRequested", "Creating", "Updating", "DeletionRequested", "Deleting"}
            \subseteq States \ {"Deleted"}
      /\ Settled \subseteq States \ {"Deleted"}
      /\ "Imported" \in Settled /\ "Created" \in Settled /\ "Updated" \in Settled
  BY DEF States, Settled, Polled
<1>1. rec.pc = "handler" /\ ~call.busy
  BY FirstSteps DEF FirstStep
<1>2. ASSUME NEW state \in States \ {"Deleted"},
             Reply(state) \/ Fail(state) \/ Fault(state) \/ FailForGood(state)
      PROVE  FALSE
  <2>1. PICK outcome \in Outcomes : Answer(state, outcome)
    BY <1>2, OutcomesKnown DEF Reply, Fail, Fault, FailForGood
  <2> QED
    BY <2>1, AnswerFields DEF FlexInv
<1>3. ASSUME NEW todo, NEW to, NEW back, Continue(todo, to, back) PROVE FALSE
  BY <1>1, <1>3 DEF Continue, vars, Answering
<1>4. ~HandleInitial /\ ~HandleImportRequested
  BY <1>0, <1>2, <1>3 DEF HandleInitial, HandleImportRequested, LostCall
<1>5. ~HandleCreating /\ ~HandleUpdating
  BY <1>0, <1>2, <1>3 DEF HandleCreating, HandleUpdating, Poll
<1>6. ~HandleIdle
  <2> DEFINE current == IdleState(Dispatch(rec.snap))
  <2>1. HandleIdle => current \in States \ {"Deleted"}
    BY <1>0 DEF HandleIdle, Handling, IdleState
  <2> QED
    BY <1>0, <1>2, <1>3, <2>1 DEF HandleIdle, LostCall
<1>7. ~HandleDeleting
  BY <1>0, <1>2 DEF HandleDeleting
<1>8. ~NoDependencies
  <2> DEFINE current == IdleState(Dispatch(rec.snap))
  <2>1. NoDependencies => current \in States \ {"Deleted"} /\ Fail(current)
    BY <1>0 DEF NoDependencies, Handling, IdleState
  <2> QED
    BY <1>2, <2>1
<1>9. HandleDeletionRequested
  BY <1>4, <1>5, <1>6, <1>7, <1>8 DEF FlexHandler
<1>10. Unmanaged(rec.snap)
  BY <1>0, <1>2, <1>9 DEF HandleDeletionRequested, LostCall
<1> QED
  BY <1>1, <1>9, <1>10 DEF HandleDeletionRequested, Handling, Deletion

LEMMA StepReleased ==
  FlexInv /\ LoopInv /\ OrphanInv /\ [ReconcilerNext]_vars /\ [FlexNext]_allVars => Released'
<1> SUFFICES ASSUME FlexInv, LoopInv, OrphanInv, [ReconcilerNext]_vars, [FlexNext]_allVars,
                    FreshReads', Answering', rec'.next = "Deleted", atlas'.present, ~obj'.keep
             PROVE  Abandoned'
  BY DEF Released
<1>0. FreshReads /\ TypeOK /\ rec.snap \in Objects
  BY StepStale DEF FlexInv, LoopInv, TypeOK, Records
<1>1. CASE Answering /\ rec.next = "Deleted"
  <2>1. rec.pc # "handler"
    BY <1>1 DEF Answering
  <2>2. atlas.present
    BY <2>1, OnlyInitialCreates
  <2>3. obj.deleting
    BY <1>1 DEF LoopInv, DeletionKnown, Asked
  <2>4. Abandoned
    BY <1>0, <1>1, <2>2, <2>3, StepPolicy DEF OrphanInv, Released
  <2> QED
    BY <2>1, <2>4, StepAbandoned
<1>2. CASE FlexHandler /\ ~(HandlerCommon /\ UNCHANGED <<atlas, group>>)
  <2>1. Unmanaged(rec.snap) /\ Dispatch(rec.snap) \in Deletion /\ ~call.busy
    BY <1>2, DeletedAnswer
  <2>2. rec.snap.deleting /\ obj.deleting
    BY <1>0, <2>1, DispatchAsked DEF LoopInv, DeletionKnown, Asked
  <2>3. rec.snap.keep = obj.keep /\ ~obj.keep
    BY <1>0, <2>2, StepPolicy DEF LoopInv, KeepKnown, SameKeep
  <2>4. obj' = obj /\ rec.pc = "handler"
    BY <1>2, FirstSteps DEF FirstStep
  <2>5. ~obj.recorded
    BY <1>0, <2>1, <2>3, <2>4 DEF Unmanaged, OrphanInv, Copied, Undecided
  <2>6. ASSUME Calm' PROVE obj.external # "none"
    <3>1. Calm /\ ~Spend("faults")
      BY <1>0, <2>6, StepCalm DEF LoopInv
    <3>2. atlas.present
      <4>1. SUFFICES ASSUME ~atlas.present PROVE FALSE
        OBVIOUS
      <4> QED
        BY <2>4, <3>1, <4>1, CreateContinues DEF Continue, vars, Answering
    <3>3. "status" \notin call.todo
      BY <2>1 DEF FlexInv, CallKnown
    <3> QED
      BY <2>5, <3>1, <3>2, <3>3 DEF OrphanInv, Recorded
  <2> QED
    BY <2>4, <2>5, <2>6 DEF Abandoned
<1>3. CASE Around
  BY <1>0, <1>1, <1>3, AroundAnswers
<1>4. ~HandlerCommon
  BY CommonNotDeleted DEF FlexInv
<1>5. CASE rec' = rec
  BY <1>1, <1>5 DEF Answering
<1> QED
  BY <1>2, <1>3, <1>4, <1>5
     DEF FlexNext, AtlasFinishes, AtlasVanishes, GroupVanishes, allVars, handlerVars, vars

LEMMA StepUnheld ==
  FlexInv /\ LoopInv /\ OrphanInv /\ [ReconcilerNext]_vars /\ [FlexNext]_allVars => Unheld'
<1> SUFFICES ASSUME FlexInv, LoopInv, OrphanInv, [ReconcilerNext]_vars, [FlexNext]_allVars,
                    FreshReads', Ours \notin obj'.fin, atlas'.present,
                    obj'.deleting => ~obj'.keep
             PROVE  Abandoned'
  BY DEF Unheld
<1>0. FreshReads /\ TypeOK
  BY StepStale DEF FlexInv, LoopInv
<1>1. obj.deleting => ~obj.keep
  BY <1>0, StepMoves, StepPolicy DEF Forward
<1>2. CASE Ours \in obj.fin
  <2>1. UnsetFinalizers
    BY <1>0, <1>2, OursLeaves
  <2>2. Answering /\ rec.next = "Deleted" /\ rec.pc # "handler"
    BY <2>1 DEF UnsetFinalizers, Answering
  <2>3. obj.deleting /\ atlas.present
    BY <2>2, OnlyInitialCreates DEF LoopInv, DeletionKnown, Asked
  <2>4. Abandoned
    BY <1>0, <1>1, <2>2, <2>3 DEF OrphanInv, Released
  <2> QED
    BY <2>2, <2>4, StepAbandoned
<1>3. CASE Ours \notin obj.fin
  <2>1. rec.pc # "handler"
    BY <1>0, <1>3 DEF LoopInv, Held
  <2>2. atlas.present
    BY <2>1, OnlyInitialCreates
  <2>3. Abandoned
    BY <1>0, <1>1, <1>3, <2>2 DEF OrphanInv, Unheld
  <2> QED
    BY <2>1, <2>3, StepAbandoned
<1> QED
  BY <1>2, <1>3

\* Once the object is gone the cluster is gone, unless the policy was to
\* keep it or the operator had never recorded that it manages one; and the
\* record is missing only after a failure or a read of a lagging cache.
THEOREM NothingIsOrphaned ==
  ASSUME RoomForHandlers
  PROVE  FlexSpec => []NoOrphan
<1>1. FlexInit => FlexInv /\ LoopInv /\ OrphanInv
  BY InitFlexInv, InitLoopInv, InitOrphanInv
<1>2. FlexInv /\ LoopInv /\ OrphanInv /\ [FlexNext]_allVars
        => (FlexInv /\ LoopInv /\ OrphanInv)'
  <2> SUFFICES ASSUME FlexInv, LoopInv, OrphanInv, [FlexNext]_allVars
               PROVE  (FlexInv /\ LoopInv /\ OrphanInv)'
    OBVIOUS
  <2>1. [ReconcilerNext]_vars /\ FlexInv' /\ LoopInv'
    BY FlexStep, StepLoopInv DEF FlexInv
  <2>2. Copied'
    BY <2>1, FlexIsController, StepCopied, KnownIsShaped, ContractIsAny DEF LoopInv, OrphanInv, FlexInv
  <2> QED
    BY <2>1, <2>2, StepRecorded, StepReleased, StepUnheld DEF OrphanInv
<1>3. LoopInv /\ OrphanInv => NoOrphan
  <2> SUFFICES ASSUME LoopInv, OrphanInv, ~obj.exists, atlas.present, ~obj.keep, FreshReads
               PROVE  Abandoned
    BY DEF NoOrphan, Abandoned
  <2>1. Ours \notin obj.fin
    BY DEF LoopInv, UnderFinalizer
  <2> QED
    BY <2>1 DEF OrphanInv, Unheld
<1> QED
  BY <1>1, <1>2, <1>3, PTL DEF FlexSpec
=============================================================================
