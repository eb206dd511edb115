------------------------- MODULE AtlasClustersProofs -------------------------
(***************************************************************************)
(* The controllers of clusters keep their promises, in every instance: the *)
(* Cluster, whose handlers answer with what Atlas says and so are outside  *)
(* the contract of StateReconciler, and the composition with the other two *)
(* kinds.                                                                  *)
(***************************************************************************)
EXTENDS AtlasClusters, StateReconcilerProofs

----------------------------------------------------------------------------
(* The shape of the state of a Cluster.                                    *)

Clusters == [present : BOOLEAN, phase : Phases, spec : Nat]

ClusterTyped ==
  /\ atlas \in Clusters
  /\ group \in BOOLEAN
  /\ elsewhere \in BOOLEAN

ClusterInv == TypeOK /\ CallShaped /\ ClusterTyped

LEMMA FlexInitially == Flex!FlexInit => ReconcilerInit /\ call = NoCall
BY DEF Flex!FlexInit, Flex!ReconcilerInit, ReconcilerInit, Flex!NewObject, NewObject, Flex!Idle,
       Idle, Flex!NoCall, NoCall

LEMMA InitClusterInv == ClusterInit => ReconcilerInit /\ ClusterInv /\ ~elsewhere
<1> SUFFICES ASSUME ClusterInit PROVE ReconcilerInit /\ ClusterInv /\ ~elsewhere
  OBVIOUS
<1>1. ReconcilerInit /\ TypeOK /\ call = NoCall /\ ~elsewhere
  BY FlexInitially, InitTyped DEF ClusterInit
<1>2. CallShaped
  BY <1>1, NoCallShaped DEF CallShaped
<1>3. ClusterTyped
  BY DEF ClusterInit, Flex!FlexInit, Flex!NoCluster, ClusterTyped, Clusters, Phases
<1> QED
  BY <1>1, <1>2, <1>3 DEF ClusterInv

----------------------------------------------------------------------------
(* What the first step of a handler does in Atlas, and what it answers.    *)

Current == Dispatch(rec.snap)
Patches == {"status", "tracker"}

Creates ==
  /\ Current = "Initial"
  /\ Flex!CreateInAtlas
  /\ Continue(Patches, "Creating", "Initial") \/ Fault("Initial")

Updates ==
  /\ Current \in Settled
  /\ Flex!UpdateInAtlas
  /\ Continue(Patches, "Updating", Current) \/ Fault(Current)

Deletes ==
  /\ Current = "DeletionRequested"
  /\ ~(rec.snap.keep \/ ~rec.snap.recorded)
  /\ Flex!DeleteInAtlas
  /\ Reply("Deleting") \/ Fault("DeletionRequested")

\* The handler lets the object go.
LetsGo ==
  /\ \/ Current = "DeletionRequested" /\ (rec.snap.keep \/ ~rec.snap.recorded)
     \/ Current \in Deletion /\ ~atlas.present
  /\ Reply("Deleted")
  /\ UNCHANGED atlas

\* The state is what it was, or the deletion is tried again.
Stays ==
  /\ Replies(Current) \/ (Current = "Deleting" /\ Replies("DeletionRequested"))
  /\ UNCHANGED atlas

Imports ==
  /\ Current = "ImportRequested" /\ rec.snap.external = "full"
  /\ atlas.present
  /\ Continue(Patches, "Imported", "ImportRequested")
  /\ UNCHANGED atlas

Polls ==
  /\ atlas.present
  /\ \E p \in {<<"Creating", "Created">>, <<"Updating", "Updated">>, <<"Deleting", "Deleted">>} :
       Current = p[1] /\ Continue(Patches, StateInAtlas(p[2]), p[1])
  /\ UNCHANGED atlas

Decides ==
  /\ InHandler /\ ~call.busy
  /\ UNCHANGED <<group, elsewhere>>
  /\ Creates \/ Updates \/ Deletes \/ LetsGo \/ Stays \/ Imports \/ Polls

\* The handlers of FlexCluster are written with the same steps.
LEMMA FlexSteps ==
  /\ \A state : /\ Flex!Fail(state) <=> Fail(state)
                /\ Flex!Fault(state) <=> Fault(state)
                /\ Flex!Reply(state) <=> Reply(state)
  /\ \A todo, to, back : Flex!Continue(todo, to, back) <=> Continue(todo, to, back)
  /\ \A states : Flex!Handling(states) <=> Handling(states)
<1>1. \A state, outcome : Flex!Answer(state, outcome) <=> Answer(state, outcome)
  BY DEF Flex!Answer, Answer, Flex!Returned, Returned, Flex!NoCall, NoCall, Flex!envVars, envVars
<1>2. \A kind_ : Flex!Spend(kind_) <=> Spend(kind_)
  BY DEF Flex!Spend, Spend
<1>3. Flex!Dispatch(rec.snap) = Dispatch(rec.snap)
  BY DEF Flex!Dispatch, Dispatch
<1> QED
  BY <1>1, <1>2, <1>3
     DEF Flex!Fail, Fail, Flex!Fault, Fault, Flex!Reply, Reply, Flex!Continue, Continue,
         Flex!Handling, Handling, Flex!vars, vars

LEMMA ClusterStates ==
  /\ Settled \cup {"Initial", "ImportRequested", "Imported", "Creating", "Created", "Updating",
                   "Updated", "DeletionRequested", "Deleting"} \subseteq States \ Unsupported
  /\ "Deleted" \in States
BY DEF States, Settled, Polled, Unsupported

LEMMA HandlersDecide ==
  ASSUME ClusterHandler, ~(HandlerCommon /\ UNCHANGED clusterVars)
  PROVE  Decides
<1>1. ASSUME NEW states \in SUBSET (States \ Unsupported), Handling(states)
      PROVE  InHandler /\ ~call.busy /\ Current \in states
  BY <1>1 DEF Handling, InHandler, Current
<1>2. CASE HandleInitial
  BY <1>1, <1>2, ClusterStates, FlexSteps
     DEF HandleInitial, Flex!LostCall, Decides, Creates, Stays, Replies, Patches
<1>3. CASE Flex!HandleImportRequested /\ UNCHANGED elsewhere
  BY <1>1, <1>3, ClusterStates, FlexSteps
     DEF Flex!HandleImportRequested, Decides, Imports, Stays, Replies, Patches
<1>4. CASE HandleUpserting
  <2>1. PICK p \in {<<"Creating", "Created">>, <<"Updating", "Updated">>} :
          /\ Handling({p[1]})
          /\ \/ handleAtlasClusterState(p[1], p[2])
             \/ ~atlas.present /\ Fail(p[1])
             \/ Fault(p[1])
    BY <1>4 DEF HandleUpserting
  <2>2. p[1] \in States \ Unsupported
    BY <2>1, ClusterStates
  <2>3. InHandler /\ ~call.busy /\ Current = p[1]
    BY <1>1, <2>1, <2>2
  <2> QED
    BY <1>4, <2>1, <2>3
       DEF HandleUpserting, handleAtlasClusterState, Decides, Polls, Stays, Replies, Patches,
           clusterVars
<1>5. CASE HandleUpserted
  <2>1. InHandler /\ ~call.busy /\ Current \in Settled
    BY <1>1, <1>5, ClusterStates DEF HandleUpserted
  <2> QED
    BY <1>5, <2>1, FlexSteps
       DEF HandleUpserted, Flex!LostCall, Decides, Updates, Stays, Replies, Patches, Current
<1>6. CASE HandleDeleting
  BY <1>1, <1>6, ClusterStates
     DEF HandleDeleting, handleAtlasClusterState, Decides, Polls, LetsGo, Stays, Replies, Patches,
         clusterVars, Deletion
<1>7. CASE Flex!HandleDeletionRequested /\ UNCHANGED elsewhere
  BY <1>1, <1>7, ClusterStates, FlexSteps
     DEF Flex!HandleDeletionRequested, Flex!LostCall, Flex!Unmanaged, Decides, Deletes, LetsGo,
         Stays, Replies, Deletion
<1>8. CASE NoDependencies
  <2>1. {"Initial", "Creating", "Updating", "Deleting"} \cup Settled \subseteq States \ Unsupported
    BY ClusterStates
  <2>2. InHandler /\ ~call.busy /\ Fail(Current)
    BY <1>1, <1>8, <2>1 DEF NoDependencies, Current
  <2> QED
    BY <1>8, <2>2 DEF NoDependencies, Decides, Stays, Replies, clusterVars
<1> QED
  BY <1>2, <1>3, <1>4, <1>5, <1>6, <1>7, <1>8 DEF ClusterHandler

LEMMA PolledStates == \A ready \in States : StateInAtlas(ready) \in States
BY ClusterStates DEF StateInAtlas

LEMMA CurrentState ==
  ASSUME TypeOK, InHandler
  PROVE  Current \in States
<1>1. rec.snap.state \in States \cup {""}
  BY DEF TypeOK, Records, Objects
<1> QED
  BY <1>1, ClusterStates DEF InHandler, Current, Dispatch, Unsupported

\* To the loop each of them is an answer, or nothing yet.
LEMMA DecidesIsAny ==
  ASSUME TypeOK, CallShaped, Decides
  PROVE  AnyNext /\ CallShaped' /\ obj' = obj /\ cache' = cache
<1>1. ASSUME NEW state \in States, Replies(state)
      PROVE  AnyNext /\ CallShaped' /\ obj' = obj /\ cache' = cache
  BY <1>1, RepliesAreAny DEF Decides
<1>2. ASSUME NEW to \in States, NEW back \in States, Continue(Patches, to, back)
      PROVE  AnyNext /\ CallShaped' /\ obj' = obj /\ cache' = cache
  BY <1>2, ContinueIsAny DEF Decides, Patches, vars
<1>3. CASE Creates
  BY <1>1, <1>2, <1>3, ClusterStates DEF Creates, Replies
<1>4. CASE Updates
  BY <1>1, <1>2, <1>4, ClusterStates DEF Updates, Replies
<1>5. CASE Deletes \/ LetsGo
  BY <1>1, <1>5, ClusterStates DEF Deletes, LetsGo, Replies
<1>6. CASE Stays
  BY <1>1, <1>6, ClusterStates, CurrentState DEF Stays, Decides
<1>7. CASE Imports
  BY <1>2, <1>7, ClusterStates DEF Imports
<1>8. CASE Polls
  BY <1>2, <1>8, ClusterStates, PolledStates DEF Polls
<1> QED
  BY <1>3, <1>4, <1>5, <1>6, <1>7, <1>8 DEF Decides

\* The steps that follow leave Atlas alone.
Follows == HandlerCommon /\ UNCHANGED clusterVars

LEMMA FollowsIsAny ==
  ASSUME TypeOK, CallShaped, HandlerCommon
  PROVE  AnyNext /\ CallShaped'
<1>0. rec.snap.gen \in Nat /\ call.to \in States /\ call.back \in States
  BY GenNat DEF TypeOK, Records, CallShaped, Calls
<1>1. CASE PatcherStatus
  BY <1>1, PatchIsAny DEF PatcherStatus
<1>2. CASE PatcherTracker
  BY <1>0, <1>2, PatchIsAny DEF PatcherTracker, StateTracker
<1>3. CASE HandlerEnds
  BY <1>0, <1>3, RepliesAreAny DEF HandlerEnds, Replies, CallShaped
<1>4. CASE NoHandler
  <2>1. InHandler /\ Dispatch(rec.snap) \in States /\ Replies(Dispatch(rec.snap))
    BY <1>4 DEF NoHandler, Handling, InHandler, Replies
  <2> QED
    BY <2>1, RepliesAreAny
<1> QED
  BY <1>1, <1>2, <1>3, <1>4 DEF HandlerCommon

----------------------------------------------------------------------------
(* The other steps.                                                        *)

\* In Atlas, and with the Group.
Beyond ==
  \/ AtlasSide \/ AtlasRepairs \/ AtlasDeletes
  \/ Flex!GroupVanishes /\ UNCHANGED elsewhere

LEMMA BeyondIsAny ==
  ASSUME ClusterInv, Beyond
  PROVE  AnyNext /\ CallShaped' /\ UNCHANGED <<obj, cache, rec, call>>
<1>1. UNCHANGED <<obj, cache, rec, call>>
  BY DEF Beyond, AtlasSide, AtlasRepairs, AtlasDeletes, Flex!AtlasFinishes, Flex!GroupVanishes,
         Flex!handlerVars, Flex!vars, handlerVars, vars, envVars
<1>2. cache.exists \in BOOLEAN /\ queued \in BOOLEAN
  BY DEF ClusterInv, TypeOK, Objects
<1>3. Elsewhere
  BY <1>2 DEF Beyond, AtlasSide, AtlasRepairs, AtlasDeletes, Flex!AtlasFinishes,
              Flex!GroupVanishes, Flex!handlerVars, Flex!vars, handlerVars, vars, envVars,
              Elsewhere
<1> QED
  BY <1>1, <1>3 DEF AnyNext, ClusterInv, CallShaped, InHandler

\* A step is one of these, or nothing happens.
Stutters == UNCHANGED <<handlerVars, clusterVars>>

LEMMA ClusterSteps ==
  ASSUME ClusterNext
  PROVE  (Around /\ UNCHANGED clusterVars) \/ Decides \/ Follows \/ Beyond
BY HandlersDecide DEF ClusterNext, Beyond, Follows

LEMMA ClusterIsAny ==
  ASSUME ClusterInv, ClusterNext \/ Stutters
  PROVE  AnyNext /\ CallShaped'
<1>1. CASE Stutters
  BY <1>1 DEF Stutters, handlerVars, vars, ClusterInv, CallShaped, InHandler, AnyNext, Elsewhere
<1> QED
  BY <1>1, ClusterSteps, AroundIsAny, DecidesIsAny, FollowsIsAny, BeyondIsAny
     DEF ClusterInv, Follows

LEMMA ClusterIsController ==
  ASSUME ClusterInv, ClusterNext \/ Stutters
  PROVE  ControllerStep
BY ClusterSteps, DecidesIsAny, BeyondIsAny
   DEF ControllerStep, FirstStep, Decides, InHandler, Follows, Stutters, handlerVars, vars,
       ClusterInv

\* What happens to the cluster in Atlas.
ClusterMoves ==
  \/ UNCHANGED <<atlas, elsewhere>>
  \/ Decides /\ (Creates \/ Updates \/ Deletes)
  \/ /\ atlas.present /\ UNCHANGED elsewhere
     /\ \/ atlas.phase = "DELETING" /\ atlas' = Flex!NoCluster
        \/ atlas.phase # "DELETING" /\ atlas' = [atlas EXCEPT !.phase = "IDLE"]
        \/ atlas.phase = "IDLE" /\ atlas' = [atlas EXCEPT !.phase = "REPAIRING"]
  \/ Flex!DeleteInAtlas /\ elsewhere'

LEMMA ClusterStep ==
  ASSUME ClusterNext \/ Stutters
  PROVE  ClusterMoves
<1>1. CASE Decides
  BY <1>1 DEF Decides, LetsGo, Stays, Imports, Polls, ClusterMoves
<1>2. CASE Beyond
  BY <1>2 DEF Beyond, AtlasSide, AtlasRepairs, AtlasDeletes, Flex!AtlasFinishes,
              Flex!GroupVanishes, ClusterMoves
<1> QED
  BY <1>1, <1>2, ClusterSteps DEF Follows, Stutters, clusterVars, ClusterMoves

LEMMA StepClusterInv ==
  ASSUME ClusterInv, ClusterNext \/ Stutters
  PROVE  AnyNext /\ ClusterInv' /\ (elsewhere => elsewhere')
<1>0. rec.snap.gen \in Nat /\ atlas \in Clusters /\ elsewhere \in BOOLEAN
  BY GenNat DEF ClusterInv, TypeOK, Records, ClusterTyped
<1>1. AnyNext /\ CallShaped' /\ TypeOK'
  BY ClusterIsAny, AnyTyped DEF ClusterInv
<1>2. atlas' \in Clusters /\ elsewhere' \in BOOLEAN /\ (elsewhere => elsewhere')
  <2>1. atlas' \in Clusters
    <3>1. {"CREATING", "IDLE", "UPDATING", "REPAIRING", "DELETING"} = Phases
      BY DEF Phases
    <3>2. CASE Flex!CreateInAtlas
      BY <1>0, <3>1, <3>2 DEF Flex!CreateInAtlas, Clusters
    <3>3. CASE Flex!UpdateInAtlas
      BY <1>0, <3>1, <3>3 DEF Flex!UpdateInAtlas, Clusters
    <3>4. CASE Flex!DeleteInAtlas
      BY <1>0, <3>1, <3>4 DEF Flex!DeleteInAtlas, Clusters
    <3>5. CASE atlas' = Flex!NoCluster
      BY <3>1, <3>5 DEF Flex!NoCluster, Clusters
    <3>6. ASSUME NEW phase \in Phases, atlas' = [atlas EXCEPT !.phase = phase]
          PROVE  atlas' \in Clusters
      BY <1>0, <3>6 DEF Clusters
    <3> QED
      BY <1>0, <3>1, <3>2, <3>3, <3>4, <3>5, <3>6, ClusterStep
         DEF ClusterMoves, Creates, Updates, Deletes
  <2>2. elsewhere' \in {elsewhere, TRUE}
    BY DEF ClusterNext, Stutters, clusterVars, ClusterHandler, HandleInitial, HandleUpserting,
           HandleDeleting, HandleUpserted, NoDependencies, AtlasSide, AtlasRepairs, AtlasDeletes
  <2> QED
    BY <1>0, <2>1, <2>2
<1>3. group' \in BOOLEAN
  BY ClusterSteps DEF Decides, Follows, Beyond, AtlasSide, AtlasRepairs, AtlasDeletes,
     Flex!AtlasFinishes, Flex!GroupVanishes, clusterVars, Stutters, ClusterInv, ClusterTyped
<1> QED
  BY <1>1, <1>2, <1>3 DEF ClusterInv, ClusterTyped

----------------------------------------------------------------------------
(* Where the answers come from.                                            *)

\* The steps the handlers share answer with what is in store, or repeat the
\* state they were called in, or write on the object.
LEMMA FollowsCases ==
  ASSUME TypeOK, CallShaped, HandlerCommon
  PROVE  /\ InHandler
         /\ \/ ~call.busy /\ Current \in States /\ Replies(Current)
            \/ call.busy /\ \E state \in {call.to, call.back} : state \in States /\ Replies(state)
            \/ /\ call.busy /\ AnyWrite /\ rec' = rec /\ cache' = cache
               /\ call'.busy /\ call'.to = call.to /\ call'.back = call.back
<1>0. rec.snap.gen \in Nat /\ call \in Calls /\ call.to \in States /\ call.back \in States
  BY GenNat DEF TypeOK, Records, CallShaped, Calls
<1>1. CASE PatcherStatus
  BY <1>0, <1>1, PatchIsAny DEF PatcherStatus, Calls
<1>2. CASE PatcherTracker
  BY <1>0, <1>2, PatchIsAny DEF PatcherTracker, StateTracker, Calls
<1>3. CASE HandlerEnds
  BY <1>0, <1>3 DEF HandlerEnds, Replies, CallShaped
<1>4. CASE NoHandler
  BY <1>4 DEF NoHandler, Handling, InHandler, Replies, Current
<1> QED
  BY <1>1, <1>2, <1>3, <1>4 DEF HandlerCommon

\* What a reconcile that has just got its answer may have been told.
Told ==
  /\ InHandler /\ obj' = obj /\ rec'.snap = rec.snap /\ call' = NoCall
  /\ \/ rec'.next = Current /\ ~call.busy
     \/ rec'.next = "DeletionRequested" /\ Current \in Deletion /\ ~call.busy
     \/ rec'.next = "Deleting" /\ Deletes /\ ~call.busy
     \/ rec'.next = "Deleted" /\ LetsGo /\ ~call.busy
     \/ rec'.next \in {call.to, call.back} /\ call.busy /\ UNCHANGED atlas

LEMMA DecidesTold ==
  ASSUME TypeOK, CallShaped, Decides, Answering'
  PROVE  Told
<1>0. InHandler /\ ~call.busy
  BY DEF Decides
<1>1. ASSUME NEW state \in States, Replies(state)
      PROVE  rec'.next = state /\ obj' = obj /\ rec'.snap = rec.snap /\ call' = NoCall
  BY <1>0, <1>1, RepliesAreAny
<1>2. ASSUME NEW to, NEW back, Continue(Patches, to, back)
      PROVE  FALSE
  BY <1>0, <1>2 DEF Continue, vars, Answering, InHandler
<1>3. CASE Creates
  BY <1>0, <1>1, <1>2, <1>3, ClusterStates DEF Creates, Replies, Told
<1>4. CASE Updates
  BY <1>0, <1>1, <1>2, <1>4, ClusterStates DEF Updates, Replies, Told
<1>5. CASE Deletes
  BY <1>0, <1>1, <1>5, ClusterStates DEF Deletes, Replies, Told
<1>6. CASE LetsGo
  BY <1>0, <1>1, <1>6, ClusterStates DEF LetsGo, Replies, Told
<1>7. CASE Stays
  BY <1>0, <1>1, <1>7, ClusterStates, CurrentState DEF Stays, Told, Deletion
<1>8. ~Imports /\ ~Polls
  BY <1>2 DEF Imports, Polls
<1> QED
  BY <1>3, <1>4, <1>5, <1>6, <1>7, <1>8 DEF Decides

LEMMA NewAnswers ==
  ASSUME ClusterInv, ClusterNext \/ Stutters, Answering', ~(Answering /\ rec'.next = rec.next)
  PROVE  rec'.next = "" \/ Told
<1>1. CASE Around
  BY <1>1, AroundAnswers DEF ClusterInv
<1>2. CASE Follows
  <2>1. ASSUME NEW state \in States, Replies(state)
        PROVE  rec'.next = state /\ obj' = obj /\ rec'.snap = rec.snap /\ call' = NoCall
    BY <1>2, <2>1, FollowsCases, RepliesAreAny DEF ClusterInv, Follows
  <2>2. ~(rec' = rec)
    BY DEF Answering
  <2> QED
    BY <1>2, <2>1, <2>2, FollowsCases DEF Follows, ClusterInv, Told, clusterVars
<1>3. CASE Decides
  BY <1>3, DecidesTold DEF ClusterInv
<1>4. CASE rec' = rec
  BY <1>4 DEF Answering
<1> QED
  BY <1>1, <1>2, <1>3, <1>4, ClusterSteps, BeyondIsAny DEF Stutters, handlerVars, vars

\* A first step ends the handler, or leaves something of it.
LEMMA DecidesEnd ==
  ASSUME TypeOK, CallShaped, Decides
  PROVE  Answering' \/ call'.busy
<1>1. ASSUME NEW state \in States, Replies(state) PROVE Answering'
  BY <1>1, RepliesAreAny DEF Decides
<1>2. ASSUME NEW to, NEW back, Continue(Patches, to, back) PROVE call'.busy
  BY <1>2 DEF Continue
<1>3. CASE Stays
  BY <1>1, <1>3, ClusterStates, CurrentState DEF Stays, Decides
<1> QED
  BY <1>1, <1>2, <1>3, ClusterStates
     DEF Decides, Creates, Updates, Deletes, LetsGo, Imports, Polls, Replies

\* What a handler that goes on to its patches has in store.
InStore ==
  \/ Creates /\ call'.to = "Creating" /\ call'.back = "Initial"
  \/ Updates /\ call'.to = "Updating" /\ call'.back = Current
  \/ Imports /\ call'.to = "Imported" /\ call'.back = "ImportRequested"
  \/ Polls /\ call'.back = Current
     /\ \/ Current = "Creating" /\ call'.to = StateInAtlas("Created")
        \/ Current = "Updating" /\ call'.to = StateInAtlas("Updated")
        \/ Current = "Deleting" /\ call'.to = StateInAtlas("Deleted")

LEMMA NewCalls ==
  ASSUME ClusterInv, ClusterNext \/ Stutters, call'.busy
  PROVE  \/ call.busy /\ call'.to = call.to /\ call'.back = call.back
         \/ Decides /\ UNCHANGED vars /\ InStore
<1>1. CASE Around
  BY <1>1, AroundIsAny DEF ClusterInv
<1>2. CASE Follows
  <2>1. ASSUME NEW state \in States, Replies(state) PROVE FALSE
    BY <1>2, <2>1, FollowsCases, RepliesAreAny, NoCallShaped DEF ClusterInv, Follows
  <2> QED
    BY <1>2, <2>1, FollowsCases DEF Follows, ClusterInv
<1>3. CASE Decides
  <2>1. ASSUME NEW state \in States, Replies(state) PROVE FALSE
    BY <1>3, <2>1, RepliesAreAny, NoCallShaped DEF ClusterInv, Decides
  <2>2. ASSUME NEW to, NEW back, Continue(Patches, to, back)
        PROVE  UNCHANGED vars /\ call'.to = to /\ call'.back = back
    BY <2>2 DEF Continue
  <2>3. ~Deletes /\ ~LetsGo /\ ~Stays
    BY <1>3, <2>1, ClusterStates, CurrentState
       DEF Deletes, LetsGo, Stays, Replies, ClusterInv, Decides
  <2>4. CASE Creates
    BY <1>3, <2>1, <2>2, <2>4, ClusterStates DEF Creates, Replies, InStore
  <2>5. CASE Updates
    BY <1>3, <2>1, <2>2, <2>5, ClusterStates DEF Updates, Replies, InStore
  <2>6. CASE Imports
    BY <1>3, <2>2, <2>6 DEF Imports, InStore
  <2>7. CASE Polls
    BY <1>3, <2>2, <2>7 DEF Polls, InStore
  <2> QED
    BY <1>3, <2>3, <2>4, <2>5, <2>6, <2>7 DEF Decides
<1>4. CASE call' = call
  BY <1>4
<1> QED
  BY <1>1, <1>2, <1>3, <1>4, ClusterSteps, BeyondIsAny DEF Stutters, handlerVars

----------------------------------------------------------------------------
(* As long as nobody else deletes it in Atlas.                             *)

\* A handler in progress answers with a state of a deletion only after the
\* deletion was asked for.
Asks ==
  call.busy /\ {call.to, call.back} \cap (Deletion \cup {"Deleted"}) # {} => obj.deleting

\* What the cluster in Atlas is to an object nobody deletes: it is not being
\* deleted, and it is there, and done, when somebody says so.
HasCluster ==
  ~obj.deleting =>
    /\ atlas.phase # "DELETING"
    /\ obj.external # "none" => atlas.phase # "CREATING"
    /\ ClaimsSettled => atlas.present /\ atlas.phase # "CREATING"

CarefulInv == ~elsewhere => LoopInv /\ Asks /\ HasCluster

LEMMA InitCareful == ClusterInit => CarefulInv
<1> SUFFICES ASSUME ClusterInit PROVE LoopInv /\ Asks /\ HasCluster
  BY DEF CarefulInv
<1>1. ReconcilerInit /\ call = NoCall
  BY FlexInitially DEF ClusterInit
<1>2. atlas.phase = "IDLE"
  BY DEF ClusterInit, Flex!FlexInit, Flex!NoCluster
<1>3. obj.state = "Initial" /\ cache = obj /\ rec = Idle
  BY <1>1 DEF ReconcilerInit, NewObject
<1>4. ~ClaimsSettled
  BY <1>1, <1>3, IdleFields, NoCallShaped DEF ClaimsSettled, Answering, Settled
<1> QED
  BY <1>1, <1>2, <1>4, InitLoopInv, NoCallShaped DEF Asks, HasCluster

\* What is asked of Atlas, and what a handler promises, is what the object
\* asks for.
LEMMA CurrentAsked ==
  ASSUME TypeOK, DeletionKnown, Current \in Deletion
  PROVE  obj.deleting
<1>1. rec.snap \in Objects
  BY DEF TypeOK, Records
<1> QED
  BY <1>1, DispatchAsked DEF Current, DeletionKnown, Asked

LEMMA StepAsksFirst ==
  ASSUME ClusterInv, DeletionKnown, Asks, ClusterNext \/ Stutters
  PROVE  AsksFirst
<1> SUFFICES ASSUME rec.pc = "handler", Answering', rec'.next \in Deletion \cup {"Deleted"}
             PROVE  obj.deleting
  BY DEF AsksFirst
<1>1. Told
  BY NewAnswers DEF Answering, Deletion
<1>2. Current # "Deleted"
  BY <1>1 DEF Told, InHandler, Current, Unsupported
<1>3. CASE Current \in Deletion
  BY <1>3, CurrentAsked DEF ClusterInv
<1>4. CASE call.busy
  BY <1>1, <1>4 DEF Told, Asks
<1> QED
  BY <1>1, <1>2, <1>3, <1>4 DEF Told, Deletes, LetsGo, Deletion

LEMMA StepAsks ==
  ASSUME ClusterInv, DeletionKnown, Asks, HasCluster, ClusterNext \/ Stutters
  PROVE  Asks'
<1> SUFFICES ASSUME call'.busy, {call'.to, call'.back} \cap (Deletion \cup {"Deleted"}) # {}
             PROVE  obj'.deleting
  BY DEF Asks
<1>1. obj.deleting => obj'.deleting
  BY ClusterIsAny, AnyMoves DEF ClusterInv, Forward
<1>2. CASE call.busy /\ call'.to = call.to /\ call'.back = call.back
  BY <1>1, <1>2 DEF Asks
<1>3. CASE Decides /\ InStore
  <2>1. Current # "Deleted"
    BY <1>3 DEF Decides, InHandler, Current, Unsupported
  <2>2. CASE Current \in Deletion
    BY <1>1, <2>2, CurrentAsked DEF ClusterInv
  <2>3. CASE Current \notin Deletion
    <3>1. atlas.phase = "DELETING"
      BY <1>3, <2>1, <2>3 DEF InStore, Deletion, StateInAtlas
    <3> QED
      BY <1>1, <3>1 DEF HasCluster
  <2> QED
    BY <2>2, <2>3
<1> QED
  BY <1>2, <1>3, NewCalls

\* No new claim is made without a cluster that is done.
LEMMA StepClaims ==
  ASSUME ClusterInv, DeletionKnown, ExternalKnown, HasCluster, ClusterNext \/ Stutters,
         ~obj.deleting, ClaimsSettled'
  PROVE  ClaimsSettled \/ (atlas.present /\ atlas.phase # "CREATING")
<1>0. rec.snap \in Objects /\ "" \notin Settled /\ Deletion \cap Settled = {} /\ "Deleted" \notin Settled
  BY DEF ClusterInv, TypeOK, Records, Settled, Deletion
<1>1. CASE Around
  BY <1>1, AroundClaims DEF ClusterInv
<1>2. CASE Follows
  BY <1>2, CommonClaims DEF ClusterInv, Follows
<1>3. CASE UNCHANGED <<obj, cache, rec, call>>
  BY <1>3 DEF ClaimsSettled, Answering
<1>4. CASE Decides
  <2>1. Current \in Settled => ClaimsSettled
    BY <1>0, SettledDispatch DEF Current, ClaimsSettled
  <2>2. CASE call'.busy
    <3>1. UNCHANGED vars /\ InStore
      BY <1>4, <2>2, NewCalls DEF Decides
    <3>2. CASE call'.to \notin Settled /\ call'.back \notin Settled
      BY <3>1, <3>2 DEF vars, ClaimsSettled, Answering
    <3>3. CASE Imports
      BY <1>4, <3>3 DEF Imports, Decides, InHandler, ExternalKnown, HasCluster
    <3> QED
      BY <2>1, <3>1, <3>2, <3>3 DEF InStore, Settled, Polls, StateInAtlas
  <2>3. CASE Answering'
    <3>1. Told /\ ~call.busy
      BY <1>4, <2>3, DecidesTold DEF ClusterInv, Decides
    <3>2. rec'.next \in Settled => Current \in Settled
      BY <1>0, <3>1 DEF Told, Deletion
    <3>3. obj' = obj /\ cache' = cache /\ rec'.snap = rec.snap /\ call' = NoCall
      BY <1>4, <3>1, DecidesIsAny DEF ClusterInv, Told
    <3> QED
      BY <2>1, <3>2, <3>3, NoCallShaped DEF ClaimsSettled
  <2> QED
    BY <1>4, <2>2, <2>3, DecidesEnd DEF ClusterInv
<1> QED
  BY <1>1, <1>2, <1>3, <1>4, ClusterSteps, BeyondIsAny DEF Stutters, handlerVars, vars


\* While no deletion is asked for, the cluster is created at most once, and
\* nothing takes it away.
LEMMA StepHasCluster ==
  ASSUME ClusterInv, DeletionKnown, ExternalKnown, HasCluster, ClusterNext \/ Stutters, ~elsewhere'
  PROVE  HasCluster'
<1> SUFFICES ASSUME ~obj'.deleting
             PROVE  /\ atlas'.phase # "DELETING"
                    /\ obj'.external # "none" => atlas'.phase # "CREATING"
                    /\ ClaimsSettled' => atlas'.present /\ atlas'.phase # "CREATING"
  BY DEF HasCluster
<1>0. /\ ~obj.deleting /\ obj'.external = obj.external
      /\ atlas \in Clusters /\ rec.snap \in Objects
  BY ClusterIsAny, AnyMoves, AnyWork DEF ClusterInv, Forward, ClusterTyped, TypeOK, Records
<1>1. atlas.phase # "DELETING" /\ (obj.external # "none" => atlas.phase # "CREATING")
  BY <1>0 DEF HasCluster
<1>2. ClaimsSettled' => atlas.present /\ atlas.phase # "CREATING"
  BY <1>0, StepClaims DEF HasCluster
<1>3. ~Deletes
  BY <1>0, CurrentAsked DEF Deletes, Deletion, ClusterInv
<1>4. CASE Decides /\ Creates
  <2>1. obj.external = "none"
    BY <1>0, <1>4 DEF Creates, Current, Dispatch, Decides, InHandler, ExternalKnown
  <2> QED
    BY <1>0, <1>2, <1>4, <2>1 DEF Creates, Flex!CreateInAtlas
<1>5. CASE Updates
  BY <1>0, <1>5 DEF Updates, Flex!UpdateInAtlas, Clusters
<1>6. ASSUME NEW phase \in {"IDLE", "REPAIRING"}, atlas' = [atlas EXCEPT !.phase = phase]
      PROVE  atlas'.present = atlas.present /\ atlas'.phase = phase
  BY <1>0, <1>6 DEF Clusters
<1> QED
  BY <1>1, <1>2, <1>3, <1>4, <1>5, <1>6, <1>0, ClusterStep DEF ClusterMoves

LEMMA StepCareful ==
  ASSUME ClusterInv, CarefulInv, ClusterNext \/ Stutters
  PROVE  CarefulInv'
<1> SUFFICES ASSUME ~elsewhere' PROVE LoopInv' /\ Asks' /\ HasCluster'
  BY DEF CarefulInv
<1>1. LoopInv /\ Asks /\ HasCluster /\ DeletionKnown /\ ExternalKnown
  BY StepClusterInv DEF CarefulInv, LoopInv
<1>2. LoopInv'
  BY <1>1, StepAsksFirst, ClusterIsAny, AnyLoopInv DEF ClusterInv
<1> QED
  BY <1>1, <1>2, StepAsks, StepHasCluster

\* A live object keeps its finalizer, and no deletion is sent for it.
LEMMA KeepsLive ==
  ASSUME ClusterInv, CarefulInv, ClusterNext \/ Stutters
  PROVE  LetsLive
<1> SUFFICES ASSUME ~obj.deleting, ~elsewhere'
             PROVE  /\ Ours \notin obj.fin \ obj'.fin
                    /\ ~(atlas'.phase = "DELETING" /\ atlas.phase # "DELETING")
  BY DEF LetsLive
<1>0. DeletionKnown /\ atlas \in Clusters
  BY StepClusterInv DEF CarefulInv, LoopInv, ClusterInv, ClusterTyped
<1>1. ~UnsetFinalizers
  BY <1>0 DEF UnsetFinalizers, DeletionKnown, Answering
<1>2. ~Deletes
  BY <1>0, CurrentAsked DEF Deletes, Deletion, ClusterInv
<1>3. atlas'.phase = "DELETING" => atlas.phase = "DELETING"
  <2>1. ASSUME NEW phase \in {"IDLE", "REPAIRING"}, atlas' = [atlas EXCEPT !.phase = phase]
        PROVE  atlas'.phase = phase
    BY <1>0, <2>1 DEF Clusters
  <2>2. Creates => atlas'.phase # "DELETING"
    BY DEF Creates, Flex!CreateInAtlas
  <2>3. Updates => atlas'.phase # "DELETING"
    BY <1>0 DEF Updates, Flex!UpdateInAtlas, Clusters
  <2> QED
    BY <1>2, <2>1, <2>2, <2>3, ClusterStep DEF ClusterMoves
<1> QED
  BY <1>1, <1>3, ClusterIsAny, AnyOursLeaves DEF ClusterInv

LEMMA SettledIsThere == ClusterInv /\ CarefulInv => SettledHasCluster
BY DEF CarefulInv, HasCluster, ClaimsSettled, SettledHasCluster

----------------------------------------------------------------------------
(* What the object leaves behind when it goes.                             *)

\* Until a reconcile decides, its snapshot is in the state of the object.
SameState == FreshReads /\ Undecided => rec.snap.state = obj.state

\* Some copy of the object, or an answer, says that the cluster goes.
ClaimsDeleting ==
  \/ obj.state = "Deleting"
  \/ Answering /\ rec.next = "Deleting"
  \/ call.busy /\ "Deleting" \in {call.to, call.back}

\* Then it does.
GoesOrGone == ~atlas.present \/ atlas.phase = "DELETING"
Doomed == FreshReads /\ ClaimsDeleting => GoesOrGone

\* No handler has the end of the deletion in store.
NotDeletedYet == FreshReads /\ call.busy => "Deleted" \notin {call.to, call.back}

\* A reconcile that is about to let the object go leaves no recorded cluster.
Released ==
  FreshReads /\ Answering /\ rec.next = "Deleted" /\ atlas.present /\ ~obj.keep => ~obj.recorded

\* Nor does an object that nothing holds.
Unheld ==
  FreshReads /\ Ours \notin obj.fin /\ atlas.present /\ (obj.deleting => ~obj.keep)
    => ~obj.recorded

OrphanParts == Copied /\ SameState /\ Doomed /\ NotDeletedYet /\ Released /\ Unheld

OrphanInv == ~elsewhere => OrphanParts

LEMMA InitOrphanInv == ClusterInit => OrphanInv
<1> SUFFICES ASSUME ClusterInit PROVE OrphanParts
  BY DEF OrphanInv
<1>1. ReconcilerInit /\ call = NoCall
  BY FlexInitially DEF ClusterInit
<1>2. rec = Idle /\ ~obj.recorded /\ obj.state = "Initial"
  BY <1>1 DEF ReconcilerInit, NewObject
<1> QED
  BY <1>1, <1>2, IdleFields, NoCallShaped
     DEF OrphanParts, Copied, Undecided, SameState, Doomed, ClaimsDeleting, NotDeletedYet,
         Released, Unheld, Answering

\* What the lemmas of this section need to know of a step.
Steps ==
  ClusterInv /\ LoopInv /\ OrphanParts /\ (ClusterNext \/ Stutters) /\ ~elsewhere' /\ FreshReads'

LEMMA StepFacts ==
  ASSUME Steps
  PROVE  /\ TypeOK /\ AnyNext /\ ControllerStep /\ FreshReads
         /\ rec.snap \in Objects /\ atlas \in Clusters
BY ClusterIsAny, ClusterIsController, AnyStale
   DEF Steps, ClusterInv, LoopInv, TypeOK, Records, ClusterTyped

LEMMA StepSameState ==
  ASSUME Steps
  PROVE  SameState'
<1> SUFFICES ASSUME Undecided' PROVE rec'.snap.state = obj'.state
  BY DEF SameState
<1>1. CASE rec'.snap = obj'
  BY <1>1
<1>2. CASE Undecided /\ rec'.snap \in {rec.snap, Aged(rec.snap)}
  <2>1. obj'.state = obj.state
    BY <1>2, StepFacts, AnyState DEF Undecided, Answering
  <2>2. Aged(rec.snap).state = rec.snap.state
    BY StepFacts, AgedForward DEF SameStatus
  <2> QED
    BY <1>2, <2>1, <2>2, StepFacts DEF Steps, OrphanParts, SameState
<1> QED
  BY <1>1, <1>2, StepFacts, StepUndecided DEF Steps, ClusterInv, LoopInv

\* A handler that starts knows the state of the object.
LEMMA CurrentKnown ==
  ASSUME Steps, InHandler, ~call.busy
  PROVE  /\ rec.snap.state = obj.state /\ rec.snap.recorded = obj.recorded
         /\ Current = "Deleting" => obj.state = "Deleting"
         /\ Current # "Deleted"
<1>1. rec.snap.state = obj.state /\ rec.snap.recorded = obj.recorded
  BY StepFacts DEF Steps, OrphanParts, SameState, Copied, Undecided, InHandler
<1> QED
  BY <1>1 DEF Current, Dispatch, InHandler, Unsupported

\* It is a handler of the deletion that says so first, or one that has seen it.
LEMMA StepClaimsDeleting ==
  ASSUME Steps, ClaimsDeleting'
  PROVE  ClaimsDeleting \/ GoesOrGone \/ Deletes
<1>1. obj'.state = "Deleting" => ClaimsDeleting
  BY StepFacts, AnyState DEF ClaimsDeleting
<1>2. ASSUME Answering', rec'.next = "Deleting"
      PROVE  ClaimsDeleting \/ Deletes
  <2>1. CASE Answering /\ rec'.next = rec.next
    BY <1>2, <2>1 DEF ClaimsDeleting
  <2>2. CASE Told
    BY <1>2, <2>2, CurrentKnown DEF Told, ClaimsDeleting, Deletes
  <2> QED
    BY <1>2, <2>1, <2>2, NewAnswers DEF Steps
<1>3. ASSUME call'.busy, "Deleting" \in {call'.to, call'.back}
      PROVE  ClaimsDeleting \/ GoesOrGone
  <2>1. CASE call.busy /\ call'.to = call.to /\ call'.back = call.back
    BY <1>3, <2>1 DEF ClaimsDeleting
  <2>2. CASE Decides /\ InStore
    <3>1. Current # "Deleting" \/ obj.state = "Deleting"
      BY <2>2, CurrentKnown DEF Decides
    <3>2. Updates => Current # "Deleting"
      BY DEF Updates, Settled
    <3> QED
      BY <1>3, <2>2, <3>1, <3>2 DEF InStore, StateInAtlas, ClaimsDeleting, GoesOrGone
  <2> QED
    BY <1>3, <2>1, <2>2, NewCalls DEF Steps
<1> QED
  BY <1>1, <1>2, <1>3 DEF ClaimsDeleting

\* Nothing is created on behalf of an object that says so.
LEMMA CreatesElsewhere ==
  ASSUME Steps, Decides, Creates
  PROVE  ~ClaimsDeleting'
<1>0. Current = "Initial" /\ InHandler /\ ~call.busy
  BY DEF Decides, Creates
<1>1. obj'.state # "Deleting"
  <2>1. obj.state # "Deleting" /\ obj' = obj
    BY <1>0, CurrentKnown, DecidesIsAny, StepFacts DEF Current, Dispatch, Steps, ClusterInv
  <2> QED
    BY <2>1
<1>2. Answering' => rec'.next # "Deleting"
  BY <1>0, DecidesTold DEF Told, Deletes, Steps, ClusterInv
<1>3. call'.busy => call'.to # "Deleting" /\ call'.back # "Deleting"
  BY <1>0, NewCalls DEF Steps, InStore, Polls, Updates, Imports, Settled
<1> QED
  BY <1>1, <1>2, <1>3 DEF ClaimsDeleting

LEMMA StepDoomed ==
  ASSUME Steps
  PROVE  Doomed'
<1> SUFFICES ASSUME ClaimsDeleting' PROVE GoesOrGone'
  BY DEF Doomed
<1>0. atlas \in Clusters /\ FreshReads
  BY StepFacts
<1>1. CASE Deletes
  BY <1>0, <1>1 DEF Deletes, Flex!DeleteInAtlas, Clusters, GoesOrGone
<1>2. CASE ~Deletes
  <2>1. GoesOrGone
    BY <1>0, <1>2, StepClaimsDeleting DEF Steps, OrphanParts, Doomed
  <2>2. ~(Decides /\ Creates) /\ ~Updates
    BY <2>1, CreatesElsewhere DEF Updates, Flex!UpdateInAtlas, GoesOrGone
  <2> QED
    BY <1>2, <2>1, <2>2, ClusterStep DEF ClusterMoves, Steps, GoesOrGone, Flex!NoCluster
<1> QED
  BY <1>1, <1>2

LEMMA StepNotDeletedYet ==
  ASSUME Steps
  PROVE  NotDeletedYet'
<1> SUFFICES ASSUME call'.busy PROVE "Deleted" \notin {call'.to, call'.back}
  BY DEF NotDeletedYet
<1>1. CASE call.busy /\ call'.to = call.to /\ call'.back = call.back
  BY <1>1, StepFacts DEF Steps, OrphanParts, NotDeletedYet
<1>2. CASE Decides /\ InStore
  <2>1. Current # "Deleted" /\ (Current = "Deleting" => GoesOrGone)
    BY <1>2, CurrentKnown, StepFacts DEF Decides, Steps, OrphanParts, Doomed, ClaimsDeleting
  <2> QED
    BY <1>2, <2>1 DEF InStore, StateInAtlas, Polls, GoesOrGone
<1> QED
  BY <1>1, <1>2, NewCalls DEF Steps

\* A cluster appears by the hand of the operator only.
LEMMA OnlyCreates ==
  ASSUME Steps, atlas'.present, rec.pc # "handler"
  PROVE  atlas.present /\ obj'.recorded = obj.recorded
<1>1. atlas.present
  <2>1. ~Decides
    BY DEF Decides, InHandler
  <2>2. ASSUME NEW phase, atlas' = [atlas EXCEPT !.phase = phase] PROVE atlas'.present = atlas.present
    BY <2>2, StepFacts DEF Clusters
  <2> QED
    BY <2>1, <2>2, ClusterStep DEF ClusterMoves, Steps, Flex!DeleteInAtlas
<1>2. ~PatcherStatus
  BY DEF PatcherStatus, Patching
<1> QED
  BY <1>1, <1>2, StepFacts, WorkMoves DEF Steps, ClusterInv

LEMMA StepReleased ==
  ASSUME Steps
  PROVE  Released'
<1> SUFFICES ASSUME Answering', rec'.next = "Deleted", atlas'.present, ~obj'.keep
             PROVE  ~obj'.recorded
  BY DEF Released
<1>1. CASE Answering /\ rec.next = "Deleted"
  <2>1. rec.pc # "handler"
    BY <1>1 DEF Answering
  <2>2. obj.deleting
    BY <1>1 DEF Steps, LoopInv, DeletionKnown, Deletion
  <2>3. ~obj.keep
    BY <2>2, StepFacts, AnyKeep DEF SameKeep
  <2> QED
    BY <1>1, <2>1, <2>3, OnlyCreates, StepFacts DEF Steps, OrphanParts, Released
<1>2. CASE Told
  <2>1. ~call.busy
    BY <1>2, StepFacts DEF Told, Steps, OrphanParts, NotDeletedYet
  <2>2. InHandler /\ obj' = obj /\ rec.snap.recorded = obj.recorded /\ LetsGo
    BY <1>2, <2>1, CurrentKnown DEF Told
  <2>3. Current \in Deletion /\ (rec.snap.keep \/ ~rec.snap.recorded)
    BY <2>2 DEF LetsGo, Deletion
  <2>4. rec.snap.deleting
    BY <2>3, StepFacts, DispatchAsked DEF Current, Steps, LoopInv, DeletionKnown, Asked
  <2>5. rec.snap.keep = obj.keep
    BY <2>4 DEF Steps, LoopInv, KeepKnown, SameKeep
  <2> QED
    BY <2>2, <2>3, <2>5
<1> QED
  BY <1>1, <1>2, NewAnswers DEF Steps

LEMMA StepUnheld ==
  ASSUME Steps
  PROVE  Unheld'
<1> SUFFICES ASSUME Ours \notin obj'.fin, atlas'.present, obj'.deleting => ~obj'.keep
             PROVE  ~obj'.recorded
  BY DEF Unheld
<1>1. obj.deleting => ~obj.keep
  BY StepFacts, AnyMoves, AnyKeep DEF Forward, SameKeep
<1>2. CASE Ours \in obj.fin
  <2>1. Answering /\ rec.next = "Deleted" /\ rec.pc # "handler"
    BY <1>2, StepFacts, AnyOursLeaves DEF UnsetFinalizers, Answering
  <2>2. obj.deleting
    BY <2>1 DEF Steps, LoopInv, DeletionKnown
  <2> QED
    BY <1>1, <2>1, <2>2, OnlyCreates, StepFacts DEF Steps, OrphanParts, Released
<1>3. CASE Ours \notin obj.fin
  <2>1. rec.pc # "handler"
    BY <1>3, StepFacts DEF Steps, LoopInv, Held
  <2> QED
    BY <1>1, <1>3, <2>1, OnlyCreates, StepFacts DEF Steps, OrphanParts, Unheld
<1> QED
  BY <1>2, <1>3

LEMMA StepOrphanInv ==
  ASSUME ClusterInv, CarefulInv, OrphanInv, ClusterNext \/ Stutters
  PROVE  OrphanInv'
<1> SUFFICES ASSUME ~elsewhere' PROVE OrphanParts'
  BY DEF OrphanInv
<1>1. LoopInv /\ OrphanParts
  BY StepClusterInv DEF CarefulInv, OrphanInv
<1>2. CASE FreshReads'
  <2>1. Steps
    BY <1>1, <1>2 DEF Steps
  <2>2. Copied'
    BY <1>1, <2>1, StepFacts, StepCopied DEF OrphanParts, LoopInv, ClusterInv
  <2> QED
    BY <2>1, <2>2, StepSameState, StepDoomed, StepNotDeletedYet, StepReleased, StepUnheld
       DEF OrphanParts
<1>3. CASE ~FreshReads'
  BY <1>3 DEF OrphanParts, Copied, SameState, Doomed, NotDeletedYet, Released, Unheld
<1> QED
  BY <1>2, <1>3

LEMMA NothingIsLeft == ClusterInv /\ CarefulInv /\ OrphanInv => NoOrphan
<1> SUFFICES ASSUME CarefulInv, OrphanInv, ~elsewhere, FreshReads, ~obj.exists, atlas.present,
                    ~obj.keep
             PROVE  ~obj.recorded
  BY DEF NoOrphan
<1>1. Ours \notin obj.fin
  BY DEF CarefulInv, LoopInv, UnderFinalizer
<1> QED
  BY <1>1 DEF OrphanInv, OrphanParts, Unheld
----------------------------------------------------------------------------
(* The composition.                                                        *)

\* All that is known of a Cluster, when the behaviour is one.
AllInv == kind = "Cluster" => ClusterInv /\ CarefulInv /\ OrphanInv

LEMMA InitAllInv == ClustersInit => AllInv
<1> SUFFICES ASSUME ClustersInit, kind = "Cluster"
             PROVE  ClusterInv /\ CarefulInv /\ OrphanInv
  BY DEF AllInv
<1>1. ClusterInit
  BY DEF ClustersInit, ClusterInit
<1> QED
  BY <1>1, InitClusterInv, InitCareful, InitOrphanInv

\* The other two kinds leave a Cluster alone.
LEMMA ClusterRuns ==
  ASSUME [ClustersNext]_allVars
  PROVE  /\ kind' = kind
         /\ kind = "Cluster" => ClusterNext \/ Stutters
BY DEF ClustersNext, AsFlexCluster, AsCluster, Grouped, allVars, handlerVars, clusterVars, vars,
       Stutters

LEMMA StepAllInv == AllInv /\ [ClustersNext]_allVars => AllInv'
BY ClusterRuns, StepClusterInv, StepCareful, StepOrphanInv DEF AllInv

LEMMA Unfair == FairClustersSpec => ClustersInit /\ [][ClustersNext]_allVars
BY PTL DEF FairClustersSpec

LEMMA AllHolds == FairClustersSpec => []AllInv
BY InitAllInv, StepAllInv, Unfair, PTL

\* A live Cluster keeps its finalizer and the operator sends no deletion for
\* its cluster, whatever Atlas says of it, for any number of faults, crashes
\* and edits and of reconciles that read a lagging cache, unless somebody
\* else deletes the cluster.
THEOREM LiveClusterStays == FairClustersSpec => LiveUntilDeleted
<1>1. AllInv /\ [ClustersNext]_allVars => [kind = "Cluster" => LetsLive]_allVars
  BY ClusterRuns, KeepsLive DEF AllInv
<1> QED
  BY <1>1, AllHolds, Unfair, PTL DEF LiveUntilDeleted

\* A Cluster that says it is settled has a cluster that is neither being
\* created nor deleted, unless somebody else deleted it, although the state
\* is the answer to a poll that Atlas gave some time ago.
THEOREM SettledMeansCluster == FairClustersSpec => []SettledClusterIsThere
<1>1. AllInv => SettledClusterIsThere
  BY SettledIsThere DEF AllInv, SettledClusterIsThere
<1> QED
  BY <1>1, AllHolds, PTL

\* No cluster outlives its Cluster, unless it was to be kept or the operator
\* had never recorded that it manages it, although a poll may find a deletion
\* nobody asked for in Kubernetes.
THEOREM NoClusterIsOrphaned == FairClustersSpec => []ClusterGoesToo
<1>1. AllInv => ClusterGoesToo
  BY NothingIsLeft DEF AllInv, ClusterGoesToo
<1> QED
  BY <1>1, AllHolds, PTL
----------------------------------------------------------------------------
(* The shape of the state of the three.                                    *)

\* The constants leave room for everything a handler may answer or write, and
\* a Group that may vanish wakes its clusters.
Room ==
  /\ States \subseteq Answers
  /\ {"recorded", "tracker"} \subseteq Writes
  /\ "group" \in Ops => "resync" \in Ops

\* A FlexCluster in its Group has fewer users than one alone.
LEMMA GroupedAssumptions ==
  /\ 1 \in Nat /\ 0 \in Nat
  /\ {"delete"}
       \subseteq {"edit", "delete", "skip", "keep", "foreign", "resync", "period", "group",
                  "vanish", "occupy", "refer", "rotate", "date", "expire", "repair"}
  /\ Answers \subseteq G!F!States \cup {""}
  /\ Writes \subseteq {"recorded", "tracker"}
  /\ Policies \subseteq BOOLEAN
  /\ {"none"} \subseteq {"none", "full", "partial"}
  /\ Periods \subseteq {"none", "valid", "invalid"}
BY AnswersAreStates, WritesAreKnown, PoliciesAreBoolean, PeriodsAreKnown
   DEF States, Settled, Polled, G!F!States, G!F!Settled, G!F!Polled

LEMMA AloneAssumptions ==
  /\ MaxOps \in Nat /\ MaxFaults \in Nat /\ MaxStale \in Nat
  /\ Ops \subseteq {"edit", "delete", "skip", "keep", "foreign", "resync", "period", "group",
                    "vanish", "occupy", "refer", "rotate", "date", "expire", "repair"}
  /\ Answers \subseteq Flex!States \cup {""}
  /\ Writes \subseteq {"recorded", "tracker"}
  /\ Policies \subseteq BOOLEAN
  /\ Externals \subseteq {"none", "full", "partial"}
  /\ Periods \subseteq {"none", "valid", "invalid"}
BY BoundsAreNatural, OpsAreKnown, AnswersAreStates, WritesAreKnown, PoliciesAreBoolean,
   ExternalsAreKnown, PeriodsAreKnown
   DEF States, Settled, Polled, Flex!States, Flex!Settled, Flex!Polled

LEMMA RoomForBoth == Room => Flex!RoomForHandlers /\ G!F!RoomForHandlers
BY DEF Room, Flex!RoomForHandlers, G!F!RoomForHandlers, States, Settled, Polled,
       Flex!States, Flex!Settled, Flex!Polled, G!F!States, G!F!Settled, G!F!Polled

\* What the Group does to the FlexCluster is to wake it.
LEMMA GroupedStep ==
  ASSUME Room, G!F!FlexInv, G!GroupAndFlexNext
  PROVE  G!F!FlexInv'
<1>1. CASE G!GroupSync \/ G!GroupUser \/ G!GroupLoop \/ G!GroupHandles \/ G!ProjectGone
  <2>1. /\ queued' \in {queued, queued \/ cache.exists}
        /\ UNCHANGED <<obj, cache, rec, budget, handled, call, atlas>>
    BY <1>1 DEF G!GroupSync, G!GroupUser, G!GroupLoop, G!GroupHandles, G!ProjectGone, G!fvars
  <2>2. queued' \in BOOLEAN
    BY <2>1 DEF G!F!FlexInv, G!F!TypeOK
  <2> QED
    BY <2>1, <2>2, GroupedAssumptions, G!F!WokenStep
<1>2. CASE G!FlexUser \/ G!FlexSync \/ G!FlexLoop \/ G!AtlasDone
  <2>1. G!F!FlexNext
    BY <1>2 DEF G!FlexUser, G!FlexSync, G!FlexLoop, G!AtlasDone, G!gvars, G!F!FlexNext,
                G!F!Around
  <2> QED
    BY <2>1, RoomForBoth, GroupedAssumptions, G!F!FlexStep
<1>3. CASE G!FlexHandles
  <2>1. CASE G!F!FlexHandler
    <3>1. G!F!FlexNext
      BY <2>1 DEF G!F!FlexNext
    <3> QED
      BY <3>1, RoomForBoth, GroupedAssumptions, G!F!FlexStep
  <2>2. CASE G!CreateRejected
    BY <2>2, RoomForBoth, GroupedAssumptions, G!F!RejectedStep DEF G!CreateRejected
  <2> QED
    BY <1>3, <2>1, <2>2 DEF G!FlexHandles
<1> QED
  BY <1>1, <1>2, <1>3 DEF G!GroupAndFlexNext

AllTyped ==
  /\ kind \in {"FlexCluster", "Cluster", "Group"}
  /\ group \in BOOLEAN
  /\ kind = "FlexCluster" => Flex!FlexInv
  /\ kind = "Group" => G!F!FlexInv

LEMMA InitAllTyped == ClustersInit => AllTyped
<1> SUFFICES ASSUME ClustersInit PROVE AllTyped
  OBVIOUS
<1>1. kind = "FlexCluster" => Flex!FlexInv
  BY AloneAssumptions, Flex!InitFlexInv DEF ClustersInit
<1>2. kind = "Group" => G!F!FlexInv
  BY GroupedAssumptions, G!F!InitNoCluster DEF ClustersInit, G!GroupAndFlexInit
<1>3. group = TRUE /\ kind \in {"FlexCluster", "Cluster", "Group"}
  BY DEF ClustersInit, Flex!FlexInit
<1> QED
  BY <1>1, <1>2, <1>3 DEF AllTyped

LEMMA StepAllTyped ==
  ASSUME Room, AllInv, AllTyped, [ClustersNext]_allVars
  PROVE  AllTyped'
<1>0. kind' = kind
  BY ClusterRuns
<1>1. CASE UNCHANGED allVars
  <2>1. kind = "FlexCluster" => Flex!FlexInv'
    BY <1>1, RoomForBoth, AloneAssumptions, Flex!FlexStep
       DEF AllTyped, allVars, handlerVars, clusterVars, vars, Flex!allVars, Flex!handlerVars,
           Flex!vars
  <2>2. kind = "Group" => G!F!FlexInv'
    BY <1>1, GroupedAssumptions, G!F!WokenStep
       DEF AllTyped, allVars, handlerVars, clusterVars, vars, G!F!FlexInv, G!F!TypeOK
  <2> QED
    BY <1>0, <1>1, <2>1, <2>2 DEF AllTyped, allVars, clusterVars
<1>2. CASE AsFlexCluster(Flex!FlexNext)
  <2>1. Flex!FlexInv'
    BY <1>2, RoomForBoth, AloneAssumptions, Flex!FlexStep DEF AsFlexCluster, AllTyped
  <2>2. group' \in BOOLEAN
    BY <1>2, AloneAssumptions, Flex!GroupStays DEF AsFlexCluster, AllTyped
  <2> QED
    BY <1>0, <1>2, <2>1, <2>2 DEF AllTyped, AsFlexCluster
<1>3. CASE AsCluster(ClusterNext)
  <2>1. group' \in BOOLEAN
    BY <1>3, ClusterRuns, StepClusterInv DEF AsCluster, AllInv, ClusterInv, ClusterTyped
  <2> QED
    BY <1>0, <1>3, <2>1 DEF AllTyped, AsCluster
<1>4. CASE Grouped(G!GroupAndFlexNext)
  <2>1. G!F!FlexInv'
    BY <1>4, GroupedStep DEF Grouped, AllTyped
  <2> QED
    BY <1>0, <1>4, <2>1 DEF AllTyped, Grouped
<1> QED
  BY <1>1, <1>2, <1>3, <1>4 DEF ClustersNext

LEMMA AllTypedTypes == AllInv /\ AllTyped => ClustersTypeOK
<1> SUFFICES ASSUME AllInv, AllTyped PROVE ClustersTypeOK
  OBVIOUS
<1>1. CASE kind = "Cluster"
  BY <1>1 DEF AllInv, ClusterInv, CallShaped, ClusterTyped, Clusters, ClustersTypeOK,
              ClusterTypeOK
<1>2. CASE kind = "FlexCluster"
  BY <1>2, AloneAssumptions, Flex!KnownIsTyped
     DEF AllTyped, ClustersTypeOK, Flex!FlexTypeOK, Flex!FlexInv, Flex!AtlasTyped, Flex!Clusters
<1>3. CASE kind = "Group"
  <2>1. G!F!TypeOK /\ call \in G!F!Calls /\ atlas \in G!F!Clusters /\ group \in BOOLEAN
    BY <1>3, GroupedAssumptions, G!F!KnownIsTyped DEF AllTyped, G!F!FlexInv, G!F!AtlasTyped
  <2>2. G!F!TypeOK => Flex!TypeOK
    <3>1. G!F!States = Flex!States /\ G!F!Outcomes = Flex!Outcomes
      BY DEF G!F!Outcomes, Flex!Outcomes, G!F!States, Flex!States, G!F!Settled, Flex!Settled,
             G!F!Polled, Flex!Polled
    <3>2. G!F!Finalizers = Flex!Finalizers
      BY DEF G!F!Finalizers, Flex!Finalizers, G!F!Ours, Flex!Ours, G!F!Foreign, Flex!Foreign
    <3>3. G!F!Objects = Flex!Objects
      BY <3>1, <3>2, Zenon DEF G!F!Objects, Flex!Objects
    <3>4. G!F!Records = Flex!Records
      BY <3>1, <3>3 DEF G!F!Records, Flex!Records
    <3> QED
      BY <3>3, <3>4 DEF G!F!TypeOK, Flex!TypeOK
  <2>3. G!F!Calls = Flex!Calls /\ G!F!Clusters = Flex!Clusters
    BY DEF G!F!Calls, Flex!Calls, G!F!Clusters, Flex!Clusters, G!F!Phases, Flex!Phases,
           G!F!States, Flex!States, G!F!Settled, Flex!Settled, G!F!Polled, Flex!Polled
  <2> QED
    BY <1>3, <2>1, <2>2, <2>3 DEF ClustersTypeOK, Flex!FlexTypeOK, Flex!Clusters
<1> QED
  BY <1>1, <1>2, <1>3 DEF AllTyped

\* The object of either resource, the handler in progress and the cluster in
\* Atlas keep their shape, for a FlexCluster alone, a Cluster, and a
\* FlexCluster in a Group.
THEOREM ClustersTyped ==
  ASSUME Room
  PROVE  FairClustersSpec => []ClustersTypeOK
<1>1. AllInv /\ AllTyped /\ [ClustersNext]_allVars => AllTyped'
  BY StepAllTyped
<1> QED
  BY <1>1, InitAllTyped, AllTypedTypes, AllHolds, Unfair, PTL
=============================================================================
