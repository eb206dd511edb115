------------------------------ MODULE GroupProofs ------------------------------
(***************************************************************************)
(* The Group controller is a handler within the contract of                *)
(* StateReconciler, and what that contract leaves open: its handlers that  *)
(* panic are not reached, the project goes with the object, and no edit    *)
(* is taken for one that Atlas has.                                        *)
(***************************************************************************)
EXTENDS Group, StateReconcilerProofs

Projects == [present : BOOLEAN, deleting : BOOLEAN, spec : Nat]

ProjectTyped == project \in Projects /\ occupied \in BOOLEAN /\ refs \in SUBSET Resources

GroupInv == TypeOK /\ CallKnown /\ ProjectTyped

LEMMA InitGroupInv == GroupInit => ReconcilerInit /\ GroupInv
<1> SUFFICES ASSUME GroupInit PROVE ReconcilerInit /\ GroupInv
  OBVIOUS
<1>1. ReconcilerInit /\ TypeOK
  BY InitTyped DEF GroupInit
<1>2. ProjectTyped
  BY DEF GroupInit, ProjectTyped, Projects, NoProject
<1>3. CallKnown
  BY NoCallKnown DEF GroupInit, CallKnown
<1> QED
  BY <1>1, <1>2, <1>3 DEF GroupInv

\* The states in which a handler answers at once, or goes on to a patch.
LEMMA UpsertedStates ==
  /\ {"Initial"} \subseteq States \ Unsupported /\ {"ImportRequested"} \subseteq States \ Unsupported
  /\ Settled \subseteq States \ Unsupported
  /\ {"DeletionRequested"} \subseteq States \ Unsupported
  /\ {"Deleting"} \subseteq States \ Unsupported
  /\ "Imported" \in Settled /\ "Created" \in Settled /\ "Updated" \in Settled
BY DEF States, Settled, Polled, Unsupported

LEMMA HandlersStep ==
  ASSUME RoomForHandlers, TypeOK, CallKnown, GroupHandler,
         ~(HandlerCommon /\ UNCHANGED groupVars)
  PROVE  HandlerStep
<1> DEFINE d == Dispatch(rec.snap)
<1>1. CASE HandleInitial
  <2>1. InHandler
    BY <1>1, UpsertedStates, HandlingStates DEF HandleInitial
  <2>2. CASE Continue({"status", "tracker"}, "Created", "Initial")
    BY <2>1, <2>2, StatesOfHandlers, ContinueSteps
  <2>3. CASE Fail("Initial") \/ Fault("Initial")
    BY <2>1, <2>3, StatesOfHandlers, FailSteps
  <2> QED
    BY <1>1, <2>2, <2>3 DEF HandleInitial, LostCall
<1>2. CASE HandleImportRequested
  <2>1. InHandler
    BY <1>2, UpsertedStates, HandlingStates DEF HandleImportRequested
  <2>2. CASE Continue({"status", "tracker"}, "Imported", "ImportRequested")
    BY <2>1, <2>2, StatesOfHandlers, ContinueSteps
  <2>3. CASE Fail("ImportRequested") \/ Fault("ImportRequested")
    BY <2>1, <2>3, StatesOfHandlers, FailSteps
  <2> QED
    BY <1>2, <2>2, <2>3 DEF HandleImportRequested
<1>3. CASE HandleUpserted
  <2>1. InHandler /\ d \in Settled
    BY <1>3, UpsertedStates, HandlingStates DEF HandleUpserted
  <2>2. d \in Patient
    BY <2>1, StatesOfHandlers
  <2>3. CASE Reply(d)
    BY <2>1, <2>2, <2>3, StatesOfHandlers, ReplySteps
  <2>4. CASE Fail(d) \/ Fault(d) \/ FailForGood(d)
    BY <2>1, <2>2, <2>4, StatesOfHandlers, FailSteps
  <2>5. CASE Continue({"status", "tracker"}, "Updated", d)
    BY <2>1, <2>2, <2>5, StatesOfHandlers, ContinueSteps
  <2> QED
    BY <1>3, <2>3, <2>4, <2>5 DEF HandleUpserted, LostCall
<1>4. CASE HandleDeletionRequested
  <2>1. InHandler /\ d \in Deletion
    BY <1>4, UpsertedStates, HandlingStates DEF HandleDeletionRequested, Deletion
  <2>2. CASE Reply("DeletionRequested") \/ Reply("Deleted") \/ Reply("Deleting")
    BY <2>1, <2>2, StatesOfHandlers, ReplySteps DEF Deletion
  <2>3. CASE Fail("DeletionRequested") \/ Fault("DeletionRequested")
    BY <2>1, <2>3, StatesOfHandlers, FailSteps DEF Deletion
  <2> QED
    BY <1>4, <2>2, <2>3 DEF HandleDeletionRequested, LostCall
<1>5. CASE HandleDeleting
  <2>1. InHandler /\ d \in Deletion
    BY <1>5, UpsertedStates, HandlingStates DEF HandleDeleting, Deletion
  <2>2. CASE Reply("Deleting") \/ Reply("Deleted")
    BY <2>1, <2>2, StatesOfHandlers, ReplySteps DEF Deletion
  <2>3. CASE Fault("DeletionRequested")
    BY <2>1, <2>3, StatesOfHandlers, FailSteps DEF Deletion
  <2> QED
    BY <1>5, <2>2, <2>3 DEF HandleDeleting
<1> QED
  BY <1>1, <1>2, <1>3, <1>4, <1>5 DEF GroupHandler

\* What can happen to the project: a call of the handler of the right state
\* reaches Atlas, or Atlas is done with a deletion.
LEMMA ProjectMoves ==
  ASSUME [GroupNext]_allVars
  PROVE  \/ UNCHANGED project
         \/ CreateProject /\ Handling({"Initial"})
         \/ UpdateProject /\ Handling(Settled)
         \/ DeleteProject /\ Handling({"DeletionRequested"})
         \/ ProjectGone
BY DEF GroupNext, GroupHandler, groupVars, allVars, HandleInitial, HandleImportRequested,
       HandleUpserted, HandleDeletionRequested, HandleDeleting, Occupy, Refer, LostCall

LEMMA ProjectSteps ==
  ASSUME GroupInv, [GroupNext]_allVars
  PROVE  ProjectTyped'
<1>0. project \in Projects /\ rec.snap.gen \in Nat
  BY GenNat DEF GroupInv, ProjectTyped, TypeOK, Records
<1>1. project' \in Projects
  <2>1. CASE UNCHANGED project
    BY <1>0, <2>1
  <2>2. CASE CreateProject
    BY <1>0, <2>2 DEF CreateProject, Projects
  <2>3. CASE UpdateProject
    BY <1>0, <2>3 DEF UpdateProject, Projects
  <2>4. CASE DeleteProject
    BY <1>0, <2>4 DEF DeleteProject, Projects
  <2>5. CASE ProjectGone
    BY <2>5 DEF ProjectGone, NoProject, Projects
  <2> QED
    BY <2>1, <2>2, <2>3, <2>4, <2>5, ProjectMoves
<1>2. occupied' \in BOOLEAN /\ refs' \in SUBSET Resources
  BY DEF GroupInv, ProjectTyped, GroupNext, GroupHandler, groupVars, allVars, HandleInitial,
         HandleImportRequested, HandleUpserted, HandleDeletionRequested, HandleDeleting,
         Occupy, Refer, ProjectGone
<1> QED
  BY <1>1, <1>2 DEF ProjectTyped

LEMMA GroupStep ==
  ASSUME RoomForHandlers, GroupInv, [GroupNext]_allVars
  PROVE  [ReconcilerNext]_vars /\ GroupInv'
<1>1. [ReconcilerNext]_vars /\ CallKnown'
  <2>1. CASE UNCHANGED handlerVars
    <3>1. UNCHANGED vars /\ UNCHANGED call
      BY <2>1 DEF handlerVars
    <3> QED
      BY <3>1 DEF GroupInv, CallKnown, vars
  <2>2. CASE Around
    BY <2>2, AroundKnown DEF GroupInv
  <2>3. CASE HandlerCommon
    BY <2>3, HandlerCommonReturns DEF GroupInv, ReconcilerNext
  <2>4. CASE GroupHandler /\ ~HandlerCommon
    <3>1. HandlerStep
      BY <2>4, HandlersStep DEF GroupInv
    <3> QED
      BY <3>1 DEF HandlerStep, ReconcilerNext
  <2> QED
    BY <2>1, <2>2, <2>3, <2>4 DEF GroupNext, ProjectGone, Occupy, Refer, allVars
<1>2. TypeOK'
  BY <1>1, StepTyped DEF GroupInv
<1> QED
  BY <1>1, <1>2, ProjectSteps DEF GroupInv

\* Every behaviour of the Group controller is one of the reconcile loop with
\* an arbitrary handler.
THEOREM GroupImplementsReconciler ==
  ASSUME RoomForHandlers
  PROVE  GroupSpec => ReconcilerSpec
<1>1. GroupInit => ReconcilerInit /\ GroupInv
  BY InitGroupInv
<1>2. GroupInv /\ [GroupNext]_allVars => [ReconcilerNext]_vars /\ GroupInv'
  BY GroupStep
<1> QED
  BY <1>1, <1>2, PTL DEF GroupSpec, ReconcilerSpec

\* The object, the handler in progress and the project keep their shape.
THEOREM GroupTyped ==
  ASSUME RoomForHandlers
  PROVE  GroupSpec => []GroupTypeOK
<1>1. GroupInit => GroupInv
  BY InitGroupInv
<1>2. GroupInv /\ [GroupNext]_allVars => GroupInv'
  BY GroupStep
<1>3. GroupInv => GroupTypeOK
  BY KnownIsTyped DEF GroupInv, ProjectTyped, Projects, GroupTypeOK
<1> QED
  BY <1>1, <1>2, <1>3, PTL DEF GroupSpec

----------------------------------------------------------------------------
(* The steps on the object.                                                *)

\* The first step of a handler writes nothing on the object.
LEMMA FirstSteps ==
  ASSUME GroupHandler, ~(HandlerCommon /\ UNCHANGED groupVars)
  PROVE  FirstStep
BY AnswerIsFirst, ContinueIsFirst
   DEF GroupHandler, FirstStep, Handling, HandleInitial, HandleImportRequested,
       HandleUpserted, HandleDeletionRequested, HandleDeleting, LostCall

LEMMA GroupIsController == [GroupNext]_allVars => ControllerStep
BY FirstSteps
   DEF GroupNext, ControllerStep, ProjectGone, Occupy, Refer, allVars, handlerVars, vars

----------------------------------------------------------------------------
(* The handlers that panic are not reached.                                *)

\* The states whose handlers panic, and those whose handlers need the id.
Never == {"Creating", "Updating"}
Backed == Settled \cup {"Deleting"}

\* A copy of the object that says it needs the id has it.
Sound(o) == o.state \notin Never /\ (o.state \in Backed => o.recorded)

\* A state that is about to be written finds the id there.
Due(state) == state \notin Never /\ (state \in Backed => obj.recorded)

SoundCopies ==
  /\ Sound(obj) /\ Sound(cache) /\ Sound(rec.snap)
  /\ cache.recorded \/ rec.snap.recorded => obj.recorded

SoundAnswers ==
  /\ Answering => Due(rec.next)
  /\ call.busy =>
       /\ call.to \notin Never
       /\ call.to \in Backed => "status" \in call.todo \/ obj.recorded
       /\ Due(call.back)

LEMMA StatesApart ==
  /\ "Initial" \notin Never \cup Backed /\ "ImportRequested" \notin Never \cup Backed
  /\ "DeletionRequested" \notin Never \cup Backed /\ "Deleted" \notin Never \cup Backed
  /\ "" \notin Never \cup Backed
  /\ Settled \subseteq Backed /\ "Deleting" \in Backed /\ Never \cap Backed = {}
BY DEF Never, Backed, Settled

LEMMA InitSound == GroupInit => SoundCopies /\ SoundAnswers
<1> SUFFICES ASSUME GroupInit PROVE SoundCopies /\ SoundAnswers
  OBVIOUS
<1>1. /\ obj.state = "Initial" /\ ~obj.recorded /\ cache = obj /\ rec = Idle /\ call = NoCall
  BY DEF GroupInit, ReconcilerInit, NewObject
<1>2. Idle.pc = "idle" /\ Idle.snap.state = "Initial" /\ ~Idle.snap.recorded
  BY IdleFields DEF Idle, NewObject
<1> QED
  BY <1>1, <1>2, StatesApart, NoCallKnown
     DEF SoundCopies, SoundAnswers, Sound, Answering

\* The id is never taken back, and copies are copies.
LEMMA StepSoundCopies ==
  GroupInv /\ SoundCopies /\ SoundAnswers /\ [ReconcilerNext]_vars => SoundCopies'
<1> SUFFICES ASSUME GroupInv, SoundCopies, SoundAnswers, [ReconcilerNext]_vars
             PROVE  SoundCopies'
  OBVIOUS
<1>0. cache \in Objects /\ rec.snap \in Objects
  BY DEF GroupInv, TypeOK, Records
<1>1. obj'.recorded = obj.recorded \/ obj'.recorded = TRUE
  BY StepWork DEF GroupInv
<1>2. Sound(obj')
  <2>1. CASE obj'.state = obj.state
    BY <1>1, <2>1 DEF SoundCopies, Sound
  <2>2. CASE Answering /\ obj'.state = rec.next
    BY <1>1, <2>2 DEF SoundAnswers, Due, Sound
  <2> QED
    BY <2>1, <2>2, StepState DEF GroupInv
<1>3. /\ Sound(Aged(cache)) /\ Aged(cache).recorded = cache.recorded
      /\ Sound(Aged(rec.snap)) /\ Aged(rec.snap).recorded = rec.snap.recorded
  BY <1>0, AgedForward, CopyWork DEF SoundCopies, Sound, SameStatus, SameWork
<1>4. Sound(Idle.snap) /\ ~Idle.snap.recorded
  BY StatesApart DEF Sound, Idle, NewObject
<1>5. CopiesMove
  BY StepMoves DEF GroupInv
<1> QED
  BY <1>1, <1>2, <1>3, <1>4, <1>5 DEF CopiesMove, SoundCopies

LEMMA DispatchBacked ==
  \A o \in Objects : Dispatch(o) \in Never \cup Backed => o.state = Dispatch(o)
BY DEF Dispatch, Never, Backed, Settled

\* So a handler may answer with the state it was called for.
LEMMA DispatchDue ==
  GroupInv /\ SoundCopies => Due(Dispatch(rec.snap))
BY DispatchBacked DEF GroupInv, TypeOK, Records, SoundCopies, Sound, Due

\* A first step may answer, or have an answer in store, only with these.
LEMMA AnswerSound ==
  ASSUME GroupInv, SoundAnswers, NEW state \in States, Due(state),
         Reply(state) \/ Fail(state) \/ Fault(state) \/ FailForGood(state)
  PROVE  SoundAnswers'
<1>1. PICK outcome \in Outcomes : Answer(state, outcome)
  BY OutcomesKnown DEF Reply, Fail, Fault, FailForGood
<1>2. rec'.next = state /\ call' = NoCall /\ obj' = obj
  BY <1>1, AnswerFields DEF GroupInv
<1> QED
  BY <1>2, NoCallKnown DEF SoundAnswers, Due

LEMMA ContinueSound ==
  ASSUME SoundAnswers, NEW todo, NEW to, NEW back, Continue(todo, to, back),
         "status" \in todo, to \notin Never, Due(back)
  PROVE  SoundAnswers'
BY DEF Continue, SoundAnswers, Due, Answering, vars

LEMMA AroundSound ==
  ASSUME GroupInv, SoundAnswers, Around
  PROVE  SoundAnswers'
<1>1. [ReconcilerNext]_vars
  BY DEF Around, ReconcilerNext, Environment
<1>2. obj'.recorded = obj.recorded \/ obj'.recorded = TRUE
  BY <1>1, StepWork DEF GroupInv
<1>3. ASSUME Answering' PROVE Due(rec.next)'
  <2>1. CASE Answering /\ rec'.next = rec.next
    BY <1>2, <2>1 DEF SoundAnswers, Due
  <2>2. CASE rec'.next = ""
    BY <2>2, StatesApart DEF Due
  <2> QED
    BY <1>3, <2>1, <2>2, AroundAnswers DEF GroupInv
<1>4. call' = call \/ ~call'.busy
  BY NoCallKnown DEF Around
<1> QED
  BY <1>2, <1>3, <1>4 DEF SoundAnswers, Due

LEMMA CommonSound ==
  ASSUME GroupInv, SoundCopies, SoundAnswers, HandlerCommon
  PROVE  SoundAnswers'
<1>0. call.to \in States /\ call.back \in States
  BY DEF GroupInv, CallKnown, Patient
<1>1. CASE NoHandler
  <2>1. Dispatch(rec.snap) \in States /\ Fault(Dispatch(rec.snap))
    BY <1>1 DEF NoHandler, Handling
  <2> QED
    BY <2>1, DispatchDue, AnswerSound
<1>2. ASSUME NEW name \in {"status", "tracker"}, NEW kind \in {"recorded", "tracker"},
             Patching(name, Written(kind)), name = "status" => kind = "recorded"
      PROVE  SoundAnswers'
  <2>1. CASE Fail(call.back) \/ Fault(call.back)
    <3>1. Due(call.back)
      BY <1>2, PatchingFields, KnownIsShaped DEF SoundAnswers, GroupInv
    <3> QED
      BY <1>0, <2>1, <3>1, AnswerSound
  <2>2. CASE ~(Fail(call.back) \/ Fault(call.back))
    <3>1. /\ obj' = Written(kind) /\ rec' = rec /\ rec.pc = "handler"
          /\ call'.busy /\ call'.to = call.to /\ call'.back = call.back
          /\ call'.todo = call.todo \ {name} /\ call.busy
      BY <1>2, <2>2, PatchingFields, KnownIsShaped DEF GroupInv
    <3>2. /\ obj'.recorded = obj.recorded \/ obj'.recorded = TRUE
          /\ name = "status" => obj'.recorded = TRUE
      BY <1>2, <3>1, WrittenWork DEF GroupInv
    <3> QED
      BY <3>1, <3>2 DEF SoundAnswers, Due, Answering
  <2> QED
    BY <2>1, <2>2
<1>3. CASE PatcherStatus
  BY <1>2, <1>3 DEF PatcherStatus, Written
<1>4. CASE PatcherTracker
  BY <1>2, <1>4 DEF PatcherTracker, Written
<1>5. CASE HandlerEnds
  BY <1>0, <1>5, AnswerSound DEF HandlerEnds, SoundAnswers, Due
<1> QED
  BY <1>1, <1>3, <1>4, <1>5 DEF HandlerCommon

LEMMA FirstSound ==
  ASSUME GroupInv, SoundCopies, SoundAnswers, GroupHandler,
         ~(HandlerCommon /\ UNCHANGED groupVars)
  PROVE  SoundAnswers'
<1> DEFINE d == Dispatch(rec.snap)
<1>0. /\ {"Initial", "ImportRequested", "DeletionRequested", "Deleting", "Deleted"}
            \subseteq States
      /\ Settled \subseteq States /\ "Imported" \in Settled /\ "Created" \in Settled
      /\ "Updated" \in Settled
  BY DEF States, Settled, Polled
<1>1. /\ Due("Initial") /\ Due("ImportRequested") /\ Due("DeletionRequested") /\ Due("Deleted")
      /\ Due(d)
  BY StatesApart, DispatchDue DEF Due
<1>2. rec.snap.recorded => obj.recorded
  BY DEF SoundCopies
<1>3. CASE HandleInitial
  BY <1>0, <1>1, <1>3, StatesApart, AnswerSound, ContinueSound DEF HandleInitial, LostCall
<1>4. CASE HandleImportRequested
  BY <1>0, <1>1, <1>4, StatesApart, AnswerSound, ContinueSound DEF HandleImportRequested
<1>5. CASE HandleUpserted
  <2>1. d \in States
    BY <1>0, <1>5 DEF HandleUpserted, Handling
  <2> QED
    BY <1>0, <1>1, <1>5, <2>1, StatesApart, AnswerSound, ContinueSound
       DEF HandleUpserted, LostCall
<1>6. CASE HandleDeletionRequested
  <2>1. Reply("Deleting") => rec.snap.recorded
    <3>1. rec \in Records
      BY DEF GroupInv, TypeOK
    <3>2. "Deleting" # "Deleted" /\ "Deleting" # "DeletionRequested"
      OBVIOUS
    <3>3. ASSUME NEW state \in States, Reply(state) PROVE rec'.next = state
      BY <3>3, AnswerFields, OutcomesKnown DEF Reply, GroupInv
    <3>4. ASSUME NEW state \in States, Fail(state) \/ Fault(state) PROVE rec'.next = state
      BY <3>4, AnswerFields, OutcomesKnown DEF Fail, Fault, GroupInv
    <3> QED
      BY <1>0, <1>6, <3>2, <3>3, <3>4 DEF HandleDeletionRequested, LostCall
  <2>2. Reply("Deleting") => Due("Deleting")
    BY <1>2, <2>1, StatesApart DEF Due
  <2> QED
    BY <1>0, <1>1, <1>6, <2>2, AnswerSound DEF HandleDeletionRequested, LostCall
<1>7. CASE HandleDeleting
  <2>1. Due("Deleting")
    BY <1>1, <1>7 DEF HandleDeleting, Handling
  <2> QED
    BY <1>0, <1>1, <1>7, <2>1, AnswerSound DEF HandleDeleting
<1> QED
  BY <1>3, <1>4, <1>5, <1>6, <1>7 DEF GroupHandler

LEMMA StepSound ==
  GroupInv /\ SoundCopies /\ SoundAnswers /\ [ReconcilerNext]_vars /\ [GroupNext]_allVars
    => SoundCopies' /\ SoundAnswers'
<1> SUFFICES ASSUME GroupInv, SoundCopies, SoundAnswers, [ReconcilerNext]_vars,
                    [GroupNext]_allVars
             PROVE  SoundAnswers'
  BY StepSoundCopies
<1>1. CASE UNCHANGED <<obj, cache, rec, call>>
  BY <1>1 DEF SoundAnswers, Due, Answering
<1>2. CASE GroupHandler /\ ~(HandlerCommon /\ UNCHANGED groupVars)
  BY <1>2, FirstSound
<1> QED
  BY <1>1, <1>2, AroundSound, CommonSound
     DEF GroupNext, ProjectGone, Occupy, Refer, allVars, handlerVars, vars

\* No sequence of events, failures and lagging reads included, leads to a
\* handler of the Group that panics: its states are never written, and the
\* status is patched before any state that relies on the project id in it.
THEOREM HandlersNeverPanic ==
  ASSUME RoomForHandlers
  PROVE  GroupSpec => []NeverPanics
<1>1. GroupInit => GroupInv /\ SoundCopies /\ SoundAnswers
  BY InitGroupInv, InitSound
<1>2. GroupInv /\ SoundCopies /\ SoundAnswers /\ [GroupNext]_allVars
        => (GroupInv /\ SoundCopies /\ SoundAnswers)'
  BY GroupStep, StepSound
<1>3. GroupInv /\ SoundCopies => NeverPanics
  <2> SUFFICES ASSUME GroupInv, SoundCopies PROVE NeverPanics
    OBVIOUS
  <2>1. rec.snap \in Objects
    BY DEF GroupInv, TypeOK, Records
  <2> QED
    BY <2>1, DispatchBacked DEF NeverPanics, SoundCopies, Sound, Never, Backed
<1> QED
  BY <1>1, <1>2, <1>3, PTL DEF GroupSpec

----------------------------------------------------------------------------
(* The project goes with the object.                                       *)

\* A reconcile that is about to let the object go leaves a project only when
\* it is to be kept or was never recorded.
Released ==
  FreshReads /\ Answering /\ rec.next = "Deleted" /\ project.present /\ ~obj.keep
    => ~obj.recorded

\* Nor does an object that nothing holds.
Unheld ==
  FreshReads /\ Ours \notin obj.fin /\ project.present /\ (obj.deleting => ~obj.keep)
    => ~obj.recorded

OrphanInv == Copied /\ Released /\ Unheld

LEMMA InitOrphanInv == GroupInit => OrphanInv
<1> SUFFICES ASSUME GroupInit PROVE OrphanInv
  OBVIOUS
<1>1. ReconcilerInit
  BY DEF GroupInit
<1>2. rec = Idle /\ ~obj.recorded
  BY <1>1 DEF ReconcilerInit, NewObject
<1> QED
  BY <1>1, <1>2, IdleFields, InitCopied DEF OrphanInv, Released, Unheld, Answering

\* A project appears only out of the handler of state Initial.
LEMMA OnlyInitialCreates ==
  ASSUME GroupInv, [GroupNext]_allVars, project'.present, ~project.present
  PROVE  Handling({"Initial"})
<1>1. project \in Projects
  BY DEF GroupInv, ProjectTyped
<1> QED
  BY <1>1, ProjectMoves DEF Projects, UpdateProject, DeleteProject, ProjectGone

\* Outside a handler nothing is created and nothing is recorded.
LEMMA NothingNew ==
  ASSUME GroupInv, [GroupNext]_allVars, rec.pc # "handler"
  PROVE  obj'.recorded = obj.recorded /\ (project'.present => project.present)
<1>1. obj'.recorded = obj.recorded
  BY GroupIsController, WorkMoves, KnownIsShaped DEF PatcherStatus, Patching, GroupInv
<1> QED
  BY <1>1, OnlyInitialCreates DEF Handling

\* Deleted is the answer of a handler of a deletion, which has either seen
\* no project, or not been asked to delete one.
LEMMA DeletedAnswer ==
  ASSUME GroupInv, GroupHandler, ~(HandlerCommon /\ UNCHANGED groupVars),
         Answering', rec'.next = "Deleted", project'.present
  PROVE  (rec.snap.keep \/ ~rec.snap.recorded) /\ Dispatch(rec.snap) \in Deletion
<1> DEFINE d == Dispatch(rec.snap)
<1>0. /\ {"Initial", "ImportRequested", "DeletionRequested", "Deleting"} \subseteq States \ {"Deleted"}
      /\ Settled \subseteq States \ {"Deleted"}
  BY DEF States, Settled, Polled
<1>1. rec.pc = "handler"
  BY FirstSteps DEF FirstStep
<1>2. ASSUME NEW state \in States \ {"Deleted"},
             Reply(state) \/ Fail(state) \/ Fault(state) \/ FailForGood(state)
      PROVE  FALSE
  <2>1. PICK outcome \in Outcomes : Answer(state, outcome)
    BY <1>2, OutcomesKnown DEF Reply, Fail, Fault, FailForGood
  <2> QED
    BY <2>1, AnswerFields DEF GroupInv
<1>3. ASSUME NEW todo, NEW to, NEW back, Continue(todo, to, back) PROVE FALSE
  BY <1>1, <1>3 DEF Continue, vars, Answering
<1>4. ~HandleInitial /\ ~HandleImportRequested
  BY <1>0, <1>2, <1>3 DEF HandleInitial, HandleImportRequested, LostCall
<1>5. ~HandleUpserted
  <2>1. HandleUpserted => d \in States \ {"Deleted"}
    BY <1>0 DEF HandleUpserted, Handling
  <2> QED
    BY <1>2, <1>3, <2>1 DEF HandleUpserted, LostCall
<1>6. ~HandleDeleting
  BY <1>0, <1>2 DEF HandleDeleting, groupVars
<1>7. HandleDeletionRequested
  BY <1>4, <1>5, <1>6 DEF GroupHandler
<1>8. rec.snap.keep \/ ~rec.snap.recorded
  BY <1>0, <1>2, <1>7 DEF HandleDeletionRequested, LostCall, getDependents
<1> QED
  BY <1>7, <1>8 DEF HandleDeletionRequested, Handling, Deletion

LEMMA StepReleased ==
  GroupInv /\ LoopInv /\ OrphanInv /\ [ReconcilerNext]_vars /\ [GroupNext]_allVars => Released'
<1> SUFFICES ASSUME GroupInv, LoopInv, OrphanInv, [ReconcilerNext]_vars, [GroupNext]_allVars,
                    FreshReads', Answering', rec'.next = "Deleted", project'.present, ~obj'.keep
             PROVE  ~obj'.recorded
  BY DEF Released
<1>0. FreshReads /\ TypeOK /\ rec.snap \in Objects
  BY StepStale DEF GroupInv, LoopInv, TypeOK, Records
<1>1. CASE Answering /\ rec.next = "Deleted"
  <2>1. rec.pc # "handler"
    BY <1>1 DEF Answering
  <2>2. obj.deleting
    BY <1>1 DEF LoopInv, DeletionKnown, Asked
  <2>3. ~obj.keep
    BY <1>0, <2>2, StepPolicy
  <2> QED
    BY <1>0, <1>1, <2>1, <2>3, NothingNew DEF OrphanInv, Released
<1>2. CASE GroupHandler /\ ~(HandlerCommon /\ UNCHANGED groupVars)
  <2>1. (rec.snap.keep \/ ~rec.snap.recorded) /\ Dispatch(rec.snap) \in Deletion
    BY <1>2, DeletedAnswer
  <2>2. rec.snap.deleting /\ obj.deleting
    BY <1>0, <2>1, DispatchAsked DEF LoopInv, DeletionKnown, Asked
  <2>3. rec.snap.keep = obj.keep /\ ~obj.keep
    BY <1>0, <2>2, StepPolicy DEF LoopInv, KeepKnown, SameKeep
  <2>4. obj' = obj /\ rec.pc = "handler" /\ ~call.busy
    BY <1>2, FirstSteps DEF FirstStep
  <2> QED
    BY <1>0, <2>1, <2>3, <2>4 DEF OrphanInv, Copied, Undecided
<1>3. CASE Around
  BY <1>0, <1>1, <1>3, AroundAnswers
<1>4. ~HandlerCommon
  BY CommonNotDeleted DEF GroupInv
<1>5. CASE rec' = rec
  BY <1>1, <1>5 DEF Answering
<1> QED
  BY <1>2, <1>3, <1>4, <1>5
     DEF GroupNext, ProjectGone, Occupy, Refer, allVars, handlerVars, vars

LEMMA StepUnheld ==
  GroupInv /\ LoopInv /\ OrphanInv /\ [ReconcilerNext]_vars /\ [GroupNext]_allVars => Unheld'
<1> SUFFICES ASSUME GroupInv, LoopInv, OrphanInv, [ReconcilerNext]_vars, [GroupNext]_allVars,
                    FreshReads', Ours \notin obj'.fin, project'.present,
                    obj'.deleting => ~obj'.keep
             PROVE  ~obj'.recorded
  BY DEF Unheld
<1>0. FreshReads /\ TypeOK
  BY StepStale DEF GroupInv, LoopInv
<1>1. obj.deleting => ~obj.keep
  BY <1>0, StepMoves, StepPolicy DEF Forward
<1>2. CASE Ours \in obj.fin
  <2>1. UnsetFinalizers
    BY <1>0, <1>2, OursLeaves
  <2>2. Answering /\ rec.next = "Deleted" /\ rec.pc # "handler"
    BY <2>1 DEF UnsetFinalizers, Answering
  <2>3. obj.deleting
    BY <2>2 DEF LoopInv, DeletionKnown, Asked
  <2> QED
    BY <1>0, <1>1, <2>2, <2>3, NothingNew DEF OrphanInv, Released
<1>3. CASE Ours \notin obj.fin
  <2>1. rec.pc # "handler"
    BY <1>0, <1>3 DEF LoopInv, Held
  <2> QED
    BY <1>0, <1>1, <1>3, <2>1, NothingNew DEF OrphanInv, Unheld
<1> QED
  BY <1>2, <1>3

LEMMA StepOrphanInv ==
  GroupInv /\ LoopInv /\ OrphanInv /\ [ReconcilerNext]_vars /\ [GroupNext]_allVars => OrphanInv'
<1> SUFFICES ASSUME GroupInv, LoopInv, OrphanInv, [ReconcilerNext]_vars, [GroupNext]_allVars
             PROVE  OrphanInv'
  OBVIOUS
<1>1. Copied'
  BY GroupIsController, StepCopied, KnownIsShaped, ContractIsAny DEF LoopInv, OrphanInv, GroupInv
<1> QED
  BY <1>1, StepReleased, StepUnheld DEF OrphanInv

\* The object that is gone is held by nobody.
LEMMA OrphanInvHolds == LoopInv /\ OrphanInv => NoOrphan
<1> SUFFICES ASSUME LoopInv, OrphanInv, ~obj.exists, project.present, ~obj.keep, FreshReads
             PROVE  ~obj.recorded
  BY DEF NoOrphan
<1>1. Ours \notin obj.fin
  BY DEF LoopInv, UnderFinalizer
<1> QED
  BY <1>1 DEF OrphanInv, Unheld

\* Once the object is gone the project is gone, unless the policy was to keep
\* it or the operator had never recorded its id, whatever fails, as long as
\* no reconcile has read a lagging cache.
THEOREM NothingIsOrphaned ==
  ASSUME RoomForHandlers
  PROVE  GroupSpec => []NoOrphan
<1>1. GroupInit => GroupInv /\ LoopInv /\ OrphanInv
  BY InitGroupInv, InitLoopInv, InitOrphanInv
<1>2. GroupInv /\ LoopInv /\ OrphanInv /\ [GroupNext]_allVars
        => (GroupInv /\ LoopInv /\ OrphanInv)'
  BY GroupStep, StepLoopInv, StepOrphanInv DEF GroupInv
<1>3. LoopInv /\ OrphanInv => NoOrphan
  BY OrphanInvHolds
<1> QED
  BY <1>1, <1>2, <1>3, PTL DEF GroupSpec

----------------------------------------------------------------------------
(* No edit is taken for one that Atlas has.                                *)

\* A handler that goes on to a patch was not called for a deletion.
LiveCalls == call.busy => ~rec.snap.deleting

\* The tracker is a generation of the object, and none from after the request
\* of its deletion.
TrackerBehind ==
  /\ obj.tracker <= obj.gen
  /\ obj.deleting => obj.tracker < obj.gen

\* As long as the handler has sent nothing, its snapshot is not older than
\* the tracker.
SnapshotAhead == FreshReads /\ Undecided => obj.tracker <= rec.snap.gen

\* The project was last sent what the tracker says, or what the tracker is
\* about to say.
Sent ==
  ~obj.deleting =>
    /\ ~project.deleting
    /\ FreshReads /\ obj.external = "none" =>
         /\ obj.tracker <= project.spec
         /\ "tracker" \in call.todo => rec.snap.gen <= project.spec

SentInv == AgesKnown /\ LiveCalls /\ TrackerBehind /\ SnapshotAhead /\ Sent

LEMMA InitSentInv == GroupInit => SentInv
<1> SUFFICES ASSUME GroupInit PROVE SentInv
  OBVIOUS
<1>1. ReconcilerInit /\ AgesKnown
  BY InitAgesKnown DEF GroupInit
<1>2. /\ obj.tracker = 0 /\ obj.gen = 1 /\ ~obj.deleting /\ rec.pc = "idle"
      /\ ~call.busy /\ call.todo = {} /\ ~project.deleting /\ project.spec = 0
  BY <1>1, IdleFields, NoCallKnown DEF GroupInit, ReconcilerInit, NewObject, NoProject
<1> QED
  BY <1>1, <1>2 DEF SentInv, LiveCalls, TrackerBehind, SnapshotAhead, Sent, Undecided

LEMMA DispatchLive == \A o \in Objects : Dispatch(o) \notin Deletion => ~o.deleting
BY DEF Dispatch, Deletion

\* A handler goes on to a patch only after it has sent its snapshot to Atlas,
\* or found what it was told to import.
LEMMA FirstContinues ==
  ASSUME GroupInv, GroupHandler, ~(HandlerCommon /\ UNCHANGED groupVars), call'.busy
  PROVE  /\ UNCHANGED vars /\ ~rec.snap.deleting
         /\ project'.spec = rec.snap.gen \/ rec.snap.external = "full"
<1>0. rec.snap \in Objects /\ project \in Projects
  BY DEF GroupInv, TypeOK, Records, ProjectTyped
<1>1. ASSUME NEW state, Reply(state) \/ Fail(state) \/ Fault(state) \/ FailForGood(state)
      PROVE  FALSE
  BY <1>1, NoCallKnown DEF Reply, Fail, Fault, FailForGood, Answer
<1>2. ASSUME NEW states, Handling(states), states \cap Deletion = {}
      PROVE  ~rec.snap.deleting
  BY <1>0, <1>2, DispatchLive DEF Handling
<1>3. (CreateProject \/ UpdateProject) => project'.spec = rec.snap.gen
  BY <1>0 DEF CreateProject, UpdateProject, Projects
<1>4. ASSUME NEW todo, NEW to, NEW back, Continue(todo, to, back)
      PROVE  UNCHANGED vars
  BY <1>4 DEF Continue
<1>5. CASE HandleInitial
  BY <1>1, <1>2, <1>3, <1>4, <1>5 DEF HandleInitial, LostCall, Deletion
<1>6. CASE HandleImportRequested
  BY <1>1, <1>2, <1>4, <1>6 DEF HandleImportRequested, Deletion
<1>7. CASE HandleUpserted
  <2>1. Settled \cap Deletion = {}
    BY DEF Settled, Deletion
  <2> QED
    BY <1>1, <1>2, <1>3, <1>4, <1>7, <2>1 DEF HandleUpserted, LostCall
<1>8. ~HandleDeletionRequested /\ ~HandleDeleting
  BY <1>1 DEF HandleDeletionRequested, HandleDeleting, LostCall
<1> QED
  BY <1>5, <1>6, <1>7, <1>8 DEF GroupHandler

\* The other steps continue nothing new.
LEMMA BusyMoves ==
  ASSUME GroupInv, GroupInv', [ReconcilerNext]_vars, [GroupNext]_allVars, call'.busy,
         ~(GroupHandler /\ ~(HandlerCommon /\ UNCHANGED groupVars))
  PROVE  /\ call.busy /\ call'.todo \subseteq call.todo
         /\ rec'.snap.gen = rec.snap.gen /\ rec'.snap.deleting = rec.snap.deleting
<1>0. rec.snap \in Objects /\ rec'.pc = "handler"
  BY DEF GroupInv, CallKnown, TypeOK, Records
<1>1. CASE UNCHANGED call
  BY <1>0, <1>1, StepToHandler, AgedForward DEF GroupInv, CallKnown
<1>2. CASE HandlerCommon
  <2>1. ASSUME NEW state, Reply(state) \/ Fail(state) \/ Fault(state)
        PROVE  FALSE
    BY <2>1, NoCallKnown DEF Reply, Fail, Fault, Answer
  <2>2. ~NoHandler /\ ~HandlerEnds
    BY <2>1 DEF NoHandler, HandlerEnds
  <2>3. ASSUME NEW name, NEW result, Patching(name, result)
        PROVE  call'.todo \subseteq call.todo /\ call.busy /\ rec' = rec
    BY <2>1, <2>3 DEF Patching, GroupInv, CallKnown
  <2> QED
    BY <1>2, <2>2, <2>3 DEF HandlerCommon, PatcherStatus, PatcherTracker
<1>3. ~(Crash /\ call' = NoCall)
  BY NoCallKnown
<1> QED
  BY <1>1, <1>2, <1>3
     DEF GroupNext, Around, ProjectGone, Occupy, Refer, allVars, handlerVars

LEMMA StepLiveCalls ==
  ASSUME GroupInv, GroupInv', LiveCalls, [ReconcilerNext]_vars, [GroupNext]_allVars
  PROVE  LiveCalls'
<1> SUFFICES ASSUME call'.busy PROVE ~rec'.snap.deleting
  BY DEF LiveCalls
<1>1. CASE GroupHandler /\ ~(HandlerCommon /\ UNCHANGED groupVars)
  BY <1>1, FirstContinues DEF vars
<1> QED
  BY <1>1, BusyMoves DEF LiveCalls

\* A patch of the tracker that goes through.
LEMMA TrackerMoves ==
  ASSUME GroupInv, [GroupNext]_allVars, obj'.tracker # obj.tracker
  PROVE  /\ obj' = Written("tracker") /\ obj'.tracker = rec.snap.gen
         /\ obj'.gen = obj.gen /\ obj'.deleting = obj.deleting
         /\ call.busy /\ "tracker" \in call.todo /\ UNCHANGED groupVars
<1>0. obj \in Objects
  BY DEF GroupInv, TypeOK
<1>1. PatcherTracker
  BY GroupIsController, WorkMoves, KnownIsShaped DEF GroupInv
<1>2. Patching("tracker", Written("tracker"))
  BY <1>1 DEF PatcherTracker, Written
<1>3. ~Fail(call.back) /\ ~Fault(call.back)
  BY AnswerIsFirst
<1>4. obj' = Written("tracker") /\ call.busy /\ "tracker" \in call.todo
  BY <1>2, <1>3, PatchingFields, KnownIsShaped DEF GroupInv
<1>5. obj'.tracker = rec.snap.gen
  BY <1>4, WrittenWork DEF GroupInv
<1>6. obj'.gen = obj.gen /\ obj'.deleting = obj.deleting
  BY <1>0, <1>4 DEF Written, Objects
<1>7. UNCHANGED groupVars
  <2>1. ~(GroupHandler /\ ~(HandlerCommon /\ UNCHANGED groupVars))
    BY <1>4, FirstSteps DEF FirstStep
  <2> QED
    BY <2>1 DEF GroupNext, ProjectGone, Occupy, Refer, allVars, handlerVars, vars
<1> QED
  BY <1>4, <1>5, <1>6, <1>7

LEMMA StepTrackerBehind ==
  ASSUME GroupInv, AgesKnown, LiveCalls, TrackerBehind, [ReconcilerNext]_vars,
         [GroupNext]_allVars
  PROVE  TrackerBehind'
<1>1. obj \in Objects /\ obj' \in Objects /\ rec.snap \in Objects
  BY StepTyped DEF GroupInv, TypeOK, Records
<1>2. /\ obj.gen \in Nat /\ obj'.gen \in Nat /\ rec.snap.gen \in Nat
      /\ obj.tracker \in Nat /\ obj'.tracker \in Nat
  BY <1>1 DEF Objects
<1>3. CASE obj'.tracker = obj.tracker
  <2>1. obj.gen <= obj'.gen /\ (obj'.deleting => obj.deleting \/ obj.gen < obj'.gen)
    BY StepMoves, StepRequest DEF GroupInv, Forward
  <2> QED
    BY <1>2, <1>3, <2>1 DEF TrackerBehind
<1>4. CASE obj'.tracker # obj.tracker
  <2>1. /\ obj'.tracker = rec.snap.gen /\ obj'.gen = obj.gen /\ obj'.deleting = obj.deleting
        /\ ~rec.snap.deleting
    BY <1>4, TrackerMoves DEF LiveCalls
  <2> QED
    BY <1>2, <2>1 DEF AgesKnown, Older, TrackerBehind
<1> QED
  BY <1>3, <1>4

LEMMA StepSnapshotAhead ==
  ASSUME GroupInv, LoopInv, TrackerBehind', SnapshotAhead, [ReconcilerNext]_vars,
         [GroupNext]_allVars
  PROVE  SnapshotAhead'
<1> SUFFICES ASSUME FreshReads', Undecided' PROVE obj'.tracker <= rec'.snap.gen
  BY DEF SnapshotAhead
<1>1. rec.snap \in Objects
  BY DEF GroupInv, TypeOK, Records
<1>2. Aged(rec.snap).gen = rec.snap.gen
  BY <1>1, AgedForward
<1>3. FreshReads
      /\ \/ rec'.snap = obj'
         \/ Undecided /\ rec'.snap \in {rec.snap, Aged(rec.snap)} /\ obj'.tracker = obj.tracker
  BY GroupIsController, StepUndecided, KnownIsShaped, ContractIsAny DEF LoopInv, GroupInv
<1> QED
  BY <1>2, <1>3 DEF TrackerBehind, SnapshotAhead

LEMMA StepSent ==
  ASSUME GroupInv, GroupInv', LoopInv, SnapshotAhead, Sent, [ReconcilerNext]_vars,
         [GroupNext]_allVars
  PROVE  Sent'
<1> SUFFICES ASSUME ~obj'.deleting PROVE Sent'
  BY DEF Sent
<1>0. /\ ~obj.deleting /\ ~project.deleting /\ project \in Projects
      /\ rec.snap \in Objects
  BY StepMoves DEF GroupInv, ProjectTyped, Forward, Sent, TypeOK, Records
<1>1. \/ project' = project
      \/ CreateProject /\ Handling({"Initial"})
      \/ UpdateProject /\ Handling(Settled)
  <2>1. ~Handling({"DeletionRequested"})
    BY <1>0, DispatchAsked DEF Handling, Deletion, LoopInv, DeletionKnown, Asked
  <2> QED
    BY <1>0, <2>1, ProjectMoves DEF ProjectGone
<1>2. ~project'.deleting
  BY <1>0, <1>1 DEF CreateProject, UpdateProject, Projects
<1> SUFFICES ASSUME FreshReads', obj'.external = "none"
             PROVE  /\ obj'.tracker <= project'.spec
                    /\ "tracker" \in call'.todo => rec'.snap.gen <= project'.spec
  BY <1>2 DEF Sent
<1>3. FreshReads /\ obj.external = "none"
  BY StepStale, StepWork DEF GroupInv, LoopInv
<1>4. /\ obj.tracker <= project.spec
      /\ "tracker" \in call.todo => rec.snap.gen <= project.spec
  BY <1>0, <1>3 DEF Sent
<1>5. CASE project' = project
  <2>1. obj'.tracker <= project'.spec
    BY <1>4, <1>5, TrackerMoves
  <2>2. ASSUME "tracker" \in call'.todo PROVE rec'.snap.gen <= project'.spec
    <3>1. call'.busy
      BY <2>2 DEF GroupInv, CallKnown
    <3>2. CASE GroupHandler /\ ~(HandlerCommon /\ UNCHANGED groupVars)
      <4>1. rec' = rec /\ (project'.spec = rec.snap.gen \/ rec.snap.external = "full")
        BY <3>1, <3>2, FirstContinues DEF vars
      <4>2. rec.snap.external # "full"
        BY <1>3, <3>2, FirstSteps DEF FirstStep, LoopInv, ExternalKnown
      <4>3. rec.snap.gen \in Nat
        BY <1>0, GenNat
      <4> QED
        BY <4>1, <4>2, <4>3
    <3>3. CASE ~(GroupHandler /\ ~(HandlerCommon /\ UNCHANGED groupVars))
      BY <1>4, <1>5, <2>2, <3>1, <3>3, BusyMoves
    <3> QED
      BY <3>2, <3>3
  <2> QED
    BY <2>1, <2>2
<1>6. CASE (CreateProject \/ UpdateProject) /\ project' # project
  <2>1. project'.spec = rec.snap.gen /\ rec.snap.gen \in Nat
    BY <1>0, <1>6, GenNat DEF CreateProject, UpdateProject, Projects
  <2>2. Undecided
    BY <1>1, <1>6 DEF Handling, Undecided
  <2>3. GroupHandler /\ ~(HandlerCommon /\ UNCHANGED groupVars)
    BY <1>0, <1>6 DEF GroupNext, groupVars, allVars, ProjectGone, Occupy, Refer
  <2>4. obj' = obj
    BY <2>3, FirstSteps DEF FirstStep
  <2>5. "tracker" \in call'.todo => rec' = rec
    <3>1. "tracker" \in call'.todo => call'.busy
      BY DEF GroupInv, CallKnown
    <3> QED
      BY <2>3, <3>1, FirstContinues DEF vars
  <2> QED
    BY <1>3, <2>1, <2>2, <2>4, <2>5 DEF SnapshotAhead
<1> QED
  BY <1>1, <1>5, <1>6

LEMMA StepSentInv ==
  GroupInv /\ GroupInv' /\ LoopInv /\ SentInv /\ [ReconcilerNext]_vars /\ [GroupNext]_allVars
    => SentInv'
<1> SUFFICES ASSUME GroupInv, GroupInv', LoopInv, SentInv, [ReconcilerNext]_vars,
                    [GroupNext]_allVars
             PROVE  SentInv'
  OBVIOUS
<1>1. AgesKnown'
  BY StepAgesKnown DEF SentInv, GroupInv
<1>2. LiveCalls'
  BY StepLiveCalls DEF SentInv
<1>3. TrackerBehind'
  BY StepTrackerBehind DEF SentInv
<1>4. SnapshotAhead'
  BY <1>3, StepSnapshotAhead DEF SentInv
<1>5. Sent'
  BY StepSent DEF SentInv
<1> QED
  BY <1>1, <1>2, <1>3, <1>4, <1>5 DEF SentInv

\* What Atlas was not sent is not in the tracker.
LEMMA SentInvHolds == GroupInv /\ SentInv => GenerationChangeIsDetected
<1> SUFFICES ASSUME GroupInv, SentInv, FreshReads, obj.external = "none", project.spec < obj.gen
             PROVE  obj.tracker # obj.gen
  BY DEF GenerationChangeIsDetected, ShouldUpdate, StateTracker
<1>1. obj.gen \in Nat /\ obj.tracker \in Nat /\ project.spec \in Nat
  BY DEF GroupInv, TypeOK, Objects, ProjectTyped, Projects
<1> QED
  BY <1>1 DEF SentInv, TrackerBehind, Sent

\* A settled project that was last sent an older generation is due for an
\* update: the tracker never runs ahead of what was sent, although it is
\* patched after the call and the object may be edited or its deletion
\* requested in between, as long as no reconcile has read a lagging cache.
THEOREM EditsAreDetected ==
  ASSUME RoomForHandlers
  PROVE  GroupSpec => []GenerationChangeIsDetected
<1>1. GroupInit => GroupInv /\ LoopInv /\ SentInv
  BY InitGroupInv, InitLoopInv, InitSentInv
<1>2. GroupInv /\ LoopInv /\ SentInv /\ [GroupNext]_allVars
        => (GroupInv /\ LoopInv /\ SentInv)'
  BY GroupStep, StepLoopInv, StepSentInv DEF GroupInv
<1>3. GroupInv /\ SentInv => GenerationChangeIsDetected
  BY SentInvHolds
<1> QED
  BY <1>1, <1>2, <1>3, PTL DEF GroupSpec
================================================================================
