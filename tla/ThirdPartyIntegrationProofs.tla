---------------------- MODULE ThirdPartyIntegrationProofs ----------------------
(***************************************************************************)
(* The handler of AtlasThirdPartyIntegration keeps to no contract of       *)
(* StateReconciler: it may panic, and it takes the response of a patch for *)
(* its copy of the object.  It is a handler all the same, and what is      *)
(* known of any handler carries its properties.                            *)
(***************************************************************************)
EXTENDS ThirdPartyIntegration, StateReconcilerProofs

IntegrationSpec == IntegrationInit /\ [][IntegrationNext]_allVars

\* A handler in progress works on a live resource, and will say it is one.
IntegrationCall ==
  /\ call \in [busy : BOOLEAN, todo : SUBSET Steps, to : Upserting, back : Upserting]
  /\ call.todo # {} => call.busy
  /\ call.busy => rec.pc = "handler" /\ Dispatch(rec.snap) \in Upserting

IntegrationTyped ==
  /\ integration \in [present : BOOLEAN, spec : Nat, keys : Nat]
  /\ secret \in [server : Copies, cache : Copies, read : Nat]
  /\ project \in BOOLEAN
  /\ abandoned \in BOOLEAN

IntegrationInv == TypeOK /\ IntegrationCall /\ IntegrationTyped

\* What the handlers answer.
Answered == Upserting \cup {"DeletionRequested", "Deleted"}

LEMMA IntegrationStates ==
  /\ Upserting \subseteq Answered /\ Answered \subseteq States
  /\ Upserting \cap (Unsupported \cup Deletion \cup {"Deleted"}) = {}
  /\ "Initial" \in Upserting /\ "Created" \in Upserting /\ "Updated" \in Upserting
  /\ "DeletionRequested" \notin Unsupported \cup Upserting
BY DEF Upserting, Answered, States, Settled, Polled, Unsupported, Deletion

LEMMA NoIntegrationCall ==
  /\ NoCall \in [busy : BOOLEAN, todo : SUBSET Steps, to : Upserting, back : Upserting]
  /\ ~NoCall.busy /\ NoCall.todo = {}
BY DEF NoCall, Upserting

LEMMA InitIntegrationInv == IntegrationInit => ReconcilerInit /\ IntegrationInv
<1> SUFFICES ASSUME IntegrationInit PROVE ReconcilerInit /\ IntegrationInv
  OBVIOUS
<1>1. ReconcilerInit /\ TypeOK
  BY InitTyped DEF IntegrationInit
<1>2. IntegrationCall
  BY NoIntegrationCall DEF IntegrationInit, IntegrationCall
<1>3. [value |-> 1, hash |-> 0] \in Copies
  BY DEF Copies
<1>4. integration \in [present : BOOLEAN, spec : Nat, keys : Nat]
  <2>1. NoIntegration \in [present : BOOLEAN, spec : Nat, keys : Nat]
    BY DEF NoIntegration
  <2> QED
    BY <2>1 DEF IntegrationInit
<1>5. secret \in [server : Copies, cache : Copies, read : Nat]
  BY <1>3 DEF IntegrationInit
<1>6. IntegrationTyped
  BY <1>4, <1>5 DEF IntegrationInit, IntegrationTyped
<1> QED
  BY <1>1, <1>2, <1>6 DEF IntegrationInv

----------------------------------------------------------------------------
(* The steps of the handlers, as the loop sees them.                       *)

\* The handler answers: with a deletion only when it is called for one.
Answers1(state) ==
  /\ state \in Answered
  /\ state \notin Upserting => Dispatch(rec.snap) = "DeletionRequested"
  /\ \/ Reply(state) \/ Fail(state) \/ Fault(state)
     \/ Answer(state, "ok") /\ Spend("faults")

\* It goes on to another of its steps.
Proceeds ==
  /\ UNCHANGED vars
  /\ Dispatch(rec.snap) \in Upserting
  /\ call'.busy
  /\ call' \in [busy : BOOLEAN, todo : SUBSET Steps, to : Upserting, back : Upserting]

\* It notes the id, in the object and in its snapshot.
Notes ==
  /\ obj = rec.snap
  /\ obj' = [obj EXCEPT !.recorded = TRUE]
  /\ rec' = [rec EXCEPT !.snap = obj']
  /\ Dispatch(rec.snap) \in Upserting
  /\ call.busy /\ call' = [call EXCEPT !.todo = call.todo \ {"status"}]
  /\ UNCHANGED <<cache, queued, handled, budget>>

\* It panics.
Panics ==
  /\ (Done(TRUE) /\ UNCHANGED <<obj, cache, handled, budget>>) \/ GiveUp
  /\ call' = NoCall

IntegrationHandles ==
  /\ InHandler
  /\ (\E state \in States : Answers1(state)) \/ Proceeds \/ Notes \/ Panics

\* A step that is left to do belongs to a handler of a live resource.
LEMMA StepOfUpserting ==
  ASSUME IntegrationInv, NEW kind \in Steps, Step(kind)
  PROVE  /\ InHandler /\ Dispatch(rec.snap) \in Upserting /\ call.busy
         /\ call.back \in Upserting /\ call.back \in States
BY IntegrationStates DEF IntegrationInv, IntegrationCall, Step, InHandler

LEMMA GoesProceeds ==
  ASSUME IntegrationInv, call.busy, NEW todo \in SUBSET Steps, Goes(todo), UNCHANGED <<obj, rec>>
  PROVE  Proceeds
BY DEF IntegrationInv, IntegrationCall, Goes, Proceeds, vars

LEMMA SecretChangedMoves ==
  ASSUME IntegrationInv, NEW kind \in Steps, Step(kind),
         NEW noted \in SUBSET Steps, NEW unchanged \in SUBSET Steps,
         SecretChanged(noted, unchanged)
  PROVE  IntegrationHandles
<1>1. /\ InHandler /\ call.busy /\ call.back \in Upserting /\ call.back \in States
      /\ call.back \in Answered
  BY StepOfUpserting, IntegrationStates
<1>2. CASE Fail(call.back) \/ Fault(call.back)
  BY <1>1, <1>2 DEF IntegrationHandles, Answers1
<1>3. CASE (Goes(noted) \/ Goes(unchanged)) /\ UNCHANGED <<obj, rec>>
  BY <1>1, <1>3, GoesProceeds DEF IntegrationHandles
<1> QED
  BY <1>2, <1>3 DEF SecretChanged

LEMMA StepsMove ==
  ASSUME IntegrationInv, RecordId \/ EnsureSecretHash \/ Compare \/ Update
  PROVE  IntegrationHandles
<1>0. /\ "status" \in Steps /\ "hash" \in Steps /\ "compare" \in Steps /\ "update" \in Steps
      /\ call \in [busy : BOOLEAN, todo : SUBSET Steps, to : Upserting, back : Upserting]
  BY DEF Steps, IntegrationInv, IntegrationCall
<1>1. CASE RecordId
  <2>1. /\ InHandler /\ Dispatch(rec.snap) \in Upserting /\ call.busy
        /\ call.back \in Answered /\ call.back \in States /\ call.back \in Upserting
    BY <1>0, <1>1, StepOfUpserting, IntegrationStates DEF RecordId
  <2>2. CASE Fail(call.back) \/ Fault(call.back)
    BY <2>1, <2>2 DEF IntegrationHandles, Answers1
  <2>3. CASE /\ obj = rec.snap
             /\ obj' = [obj EXCEPT !.recorded = TRUE]
             /\ rec' = [rec EXCEPT !.snap = obj']
             /\ Goes(call.todo \ {"status"})
    BY <2>1, <2>3 DEF IntegrationHandles, Notes, Goes
  <2> QED
    BY <1>1, <2>2, <2>3 DEF RecordId
<1>2. CASE EnsureSecretHash
  BY <1>0, <1>2, SecretChangedMoves DEF EnsureSecretHash
<1>3. CASE Compare
  BY <1>0, <1>3, SecretChangedMoves DEF Compare
<1>4. CASE Update
  <2>1. /\ InHandler /\ Dispatch(rec.snap) \in Upserting /\ call.busy
        /\ call.back \in Answered /\ call.back \in States /\ call.back \in Upserting
    BY <1>0, <1>4, StepOfUpserting, IntegrationStates DEF Update
  <2>2. CASE UpdateFails \/ UpdateFaults
    BY <2>1, <2>2 DEF UpdateFails, UpdateFaults, IntegrationHandles, Answers1, Panics
  <2>3. CASE /\ call' = [call EXCEPT !.todo = IF rec.snap.recorded THEN {} ELSE {"status"},
                                     !.to = "Updated"]
             /\ UNCHANGED vars
    BY <1>0, <2>1, <2>3, IntegrationStates DEF IntegrationHandles, Proceeds
  <2> QED
    BY <1>4, <2>2, <2>3 DEF Update
<1> QED
  BY <1>1, <1>2, <1>3, <1>4

LEMMA ContinueProceeds ==
  ASSUME Dispatch(rec.snap) \in Upserting, NEW todo \in SUBSET Steps, NEW to \in Upserting,
         Continue(todo, to, Dispatch(rec.snap))
  PROVE  Proceeds
BY DEF Continue, Proceeds

LEMMA HandlersMove ==
  ASSUME IntegrationInv, IntegrationHandler
  PROVE  IntegrationHandles
<1> DEFINE d == Dispatch(rec.snap)
<1>1. CASE HandlerEnds
  <2>1. /\ InHandler /\ call.to \in Upserting
    BY <1>1, IntegrationStates DEF HandlerEnds, IntegrationInv, IntegrationCall, InHandler
  <2> QED
    BY <1>1, <2>1, IntegrationStates DEF HandlerEnds, IntegrationHandles, Answers1
<1>2. ASSUME Handling(Upserting)
      PROVE  InHandler /\ d \in Upserting /\ d \in Answered /\ d \in States
  BY <1>2, IntegrationStates DEF Handling, InHandler
<1>3. CASE NoRequest
  BY <1>2, <1>3 DEF NoRequest, IntegrationHandles, Answers1
<1>4. CASE Create
  <2>1. Continue({"status", "hash"}, "Created", d) \/ Fault(d)
    BY <1>4 DEF Create, LostCall
  <2>2. {"status", "hash"} \in SUBSET Steps
    BY DEF Steps
  <2>3. Handling(Upserting)
    BY <1>4 DEF Create
  <2>4. CASE Fault(d)
    BY <1>2, <2>3, <2>4 DEF IntegrationHandles, Answers1
  <2>5. CASE Continue({"status", "hash"}, "Created", d)
    BY <1>2, <2>2, <2>3, <2>5, ContinueProceeds, IntegrationStates DEF IntegrationHandles
  <2> QED
    BY <2>1, <2>4, <2>5
<1>5. CASE Find
  <2>1. PICK todo \in {{"compare"}, {"compare", "update"}}, to \in {"Created", "Updated"} :
          Continue(todo, to, d)
    BY <1>5 DEF Find
  <2>2. todo \in SUBSET Steps /\ to \in Upserting
    BY <2>1, IntegrationStates DEF Steps
  <2> QED
    BY <1>2, <1>5, <2>1, <2>2, ContinueProceeds DEF Find, IntegrationHandles
<1>6. CASE HandleDeletionRequested
  <2>1. InHandler /\ d = "DeletionRequested"
    BY <1>6, IntegrationStates DEF HandleDeletionRequested, Handling, InHandler
  <2>2. "Deleted" \in Answered /\ "DeletionRequested" \in Answered
    BY DEF Answered
  <2>3. \/ Reply("Deleted")
        \/ Answer("Deleted", "ok") /\ Spend("faults")
        \/ Fault("DeletionRequested")
    BY <1>6 DEF HandleDeletionRequested, LostCall
  <2>4. Answers1("Deleted") \/ Answers1("DeletionRequested")
    BY <2>1, <2>2, <2>3 DEF Answers1
  <2> QED
    BY <2>1, <2>2, <2>4, IntegrationStates DEF IntegrationHandles
<1> QED
  BY <1>1, <1>3, <1>4, <1>5, <1>6, StepsMove DEF IntegrationHandler

\* For the loop these are steps of any handler.
LEMMA MovesAreAny ==
  ASSUME IntegrationInv, IntegrationHandles
  PROVE  AnyNext /\ IntegrationCall'
<1>0. /\ InHandler /\ rec \in Records /\ obj \in Objects /\ rec.snap \in Objects
      /\ call \in [busy : BOOLEAN, todo : SUBSET Steps, to : Upserting, back : Upserting]
  BY DEF IntegrationHandles, IntegrationInv, IntegrationCall, TypeOK, Records
<1>1. ASSUME NEW state \in States, Answers1(state)
      PROVE  AnyNext /\ IntegrationCall'
  <2>1. PICK outcome \in Outcomes :
          Answer(state, outcome) /\ (UNCHANGED budget \/ Spend("faults"))
    BY <1>1, OutcomesKnown DEF Answers1, Reply, Fail, Fault
  <2>2. AnyAnswer
    BY <2>1 DEF AnyAnswer, Answer, envVars
  <2> QED
    BY <1>0, <2>1, <2>2, NoIntegrationCall
       DEF AnyNext, AnyHandler, InHandler, Answer, envVars, IntegrationCall
<1>2. CASE Proceeds
  BY <1>0, <1>2 DEF Proceeds, AnyNext, Elsewhere, vars, IntegrationCall, InHandler
<1>3. CASE Notes
  <2>1. AnyNext
    BY <1>0, <1>3 DEF Notes, AnyWrite, AnyHandler, InHandler, AnyNext
  <2>2. rec'.pc = "handler" /\ rec'.snap = obj' /\ Dispatch(obj') = Dispatch(rec.snap)
    BY <1>0, <1>3 DEF Notes, Records, InHandler, Dispatch, Objects
  <2>3. /\ call' \in [busy : BOOLEAN, todo : SUBSET Steps, to : Upserting, back : Upserting]
        /\ call'.busy
    BY <1>0, <1>3 DEF Notes
  <2> QED
    BY <1>3, <2>1, <2>2, <2>3 DEF Notes, IntegrationCall
<1>4. CASE Panics
  BY <1>0, <1>4, NoIntegrationCall
     DEF Panics, GiveUp, Panic, AnyHandler, InHandler, AnyNext, IntegrationCall
<1> QED
  BY <1>1, <1>2, <1>3, <1>4 DEF IntegrationHandles

\* The steps around the handler, and those of Atlas and of the Secret.
LEMMA AroundAny ==
  ASSUME IntegrationInv, Around
  PROVE  AnyNext /\ IntegrationCall'
<1>1. AnyNext
  BY DEF Around, AnyNext, Environment
<1>2. CASE call' = NoCall
  BY <1>1, <1>2, NoIntegrationCall DEF IntegrationCall
<1>3. CASE call' = call /\ (CacheSync \/ Resync \/ User \/ PeriodElapses \/ Loop)
  <2>1. CASE ~call.busy
    BY <1>1, <1>3, <2>1 DEF IntegrationInv, IntegrationCall
  <2>2. CASE call.busy
    <3>1. rec.pc = "handler" /\ Dispatch(rec.snap) \in Upserting /\ rec \in Records
      BY <2>2 DEF IntegrationInv, IntegrationCall, TypeOK
    <3>2. ~Loop
      BY <3>1, IntegrationStates
         DEF Loop, Start, EnsureFinalizers, RejectState, Reapply, UnsetFinalizers, PatchStatus
    <3>3. rec' = rec \/ rec' = [rec EXCEPT !.snap = Aged(@)]
      BY <1>3, <3>2 DEF CacheSync, Resync, User, PeriodElapses
    <3>4. rec'.pc = "handler" /\ Dispatch(rec'.snap) = Dispatch(rec.snap)
      BY <3>1, <3>3, AgedDispatch DEF Records
    <3> QED
      BY <1>1, <1>3, <3>1, <3>4 DEF IntegrationInv, IntegrationCall
  <2> QED
    BY <2>1, <2>2
<1> QED
  BY <1>1, <1>2, <1>3 DEF Around

\* The watch on the object has other predicates; the rest is as in any loop.
LEMMA AroundIsAround == IntegrationAround => Around /\ UNCHANGED integrationVars
BY DEF IntegrationAround, Around

LEMMA ElsewhereAny ==
  ASSUME IntegrationInv,
         ObjectSync \/ Vanishes \/ Rotate \/ SharerHashes \/ SecretSync \/ ProjectGoes
  PROVE  AnyNext /\ IntegrationCall'
<1>1. call' = call /\ rec' = rec
  BY DEF ObjectSync, Vanishes, Rotate, SharerHashes, SecretSync, ProjectGoes, handlerVars, vars
<1>2. cache.exists \in BOOLEAN /\ queued \in BOOLEAN
  BY DEF IntegrationInv, TypeOK, Objects
<1>3. Elsewhere
  BY <1>2 DEF ObjectSync, Vanishes, Rotate, SharerHashes, SecretSync, ProjectGoes, handlerVars, vars,
              envVars, Elsewhere
<1> QED
  BY <1>1, <1>3 DEF AnyNext, IntegrationInv, IntegrationCall

\* What happens to the integration: it is sent, it goes, or it stays.
IntegrationMoves ==
  \/ UNCHANGED integration
  \/ integration' = NoIntegration
  \/ integration' = [integration EXCEPT !.present = FALSE]
  \/ Send(secret.cache.value) /\ rec.pc = "handler"
  \/ Send(secret.read) /\ integration.present

LEMMA IntegrationStep ==
  ASSUME IntegrationInv, IntegrationNext
  PROVE  IntegrationMoves
BY AroundIsAround
   DEF IntegrationNext, IntegrationHandler, IntegrationMoves, integrationVars, RecordId,
       EnsureSecretHash, NoRequest, Create, Find, Compare, Update, HandleDeletionRequested,
       LostCall, Delete, Handling, ObjectSync, Vanishes, Rotate, SharerHashes, SecretSync, ProjectGoes

\* What happens to the Secret.
LEMMA SecretStep ==
  ASSUME IntegrationInv, IntegrationNext
  PROVE  secret' \in [server : Copies, cache : Copies, read : Nat]
<1>0. /\ secret \in [server : Copies, cache : Copies, read : Nat]
      /\ secret.server \in Copies /\ secret.cache \in Copies
      /\ secret.server.value \in Nat /\ secret.cache.value \in Nat
  BY DEF IntegrationInv, IntegrationTyped, Copies
<1>1. CASE secret' = [secret EXCEPT !.server.value = @ + 1]
  BY <1>0, <1>1 DEF Copies
<1>2. CASE \E value \in Nat : secret' = [secret EXCEPT !.server.hash = value]
  BY <1>0, <1>2 DEF Copies
<1>3. CASE secret' = [secret EXCEPT !.cache = secret.server]
  BY <1>0, <1>3
<1>4. CASE secret' = [secret EXCEPT !.read = secret.cache.value]
  BY <1>0, <1>4
<1>5. CASE UNCHANGED secret
  BY <1>0, <1>5
<1>6. ASSUME NEW noted, NEW unchanged, SecretChanged(noted, unchanged)
      PROVE  UNCHANGED secret \/ secret' = [secret EXCEPT !.server.hash = secret.cache.value]
  BY <1>6 DEF SecretChanged
<1>7. (EnsureSecretHash \/ Compare) =>
         UNCHANGED secret \/ secret' = [secret EXCEPT !.server.hash = secret.cache.value]
  BY <1>6 DEF EnsureSecretHash, Compare
<1>8. \/ UNCHANGED secret
      \/ secret' = [secret EXCEPT !.server.value = @ + 1]
      \/ secret' = [secret EXCEPT !.server.hash = secret.server.value]
      \/ secret' = [secret EXCEPT !.server.hash = secret.cache.value]
      \/ secret' = [secret EXCEPT !.cache = secret.server]
      \/ secret' = [secret EXCEPT !.read = secret.cache.value]
  BY <1>7, AroundIsAround
          DEF IntegrationNext, IntegrationHandler, integrationVars, RecordId,
              NoRequest, Create, Find, Update, HandleDeletionRequested,
              ObjectSync, Vanishes, Rotate, SharerHashes, SecretSync, ProjectGoes
<1> QED
  BY <1>0, <1>1, <1>2, <1>3, <1>4, <1>5, <1>8

\* Once something was let go without a call to Atlas, that is known for good.
LEMMA FlagsStep ==
  ASSUME IntegrationInv, IntegrationNext
  PROVE  project' \in BOOLEAN /\ abandoned' \in BOOLEAN /\ (abandoned => abandoned')
BY AroundIsAround
   DEF IntegrationInv, IntegrationTyped, IntegrationNext, IntegrationHandler, integrationVars,
       RecordId, EnsureSecretHash, NoRequest, Create, Find, Compare, Update,
       HandleDeletionRequested, ObjectSync, Vanishes, Rotate, SharerHashes, SecretSync, ProjectGoes

LEMMA IntegrationStepInv ==
  ASSUME IntegrationInv, [IntegrationNext]_allVars
  PROVE  AnyNext /\ IntegrationInv'
<1>1. CASE IntegrationNext
  <2>1. AnyNext /\ IntegrationCall'
    BY <1>1, HandlersMove, MovesAreAny, AroundIsAround, AroundAny, ElsewhereAny
       DEF IntegrationNext
  <2>2. TypeOK'
    BY <2>1, AnyTyped DEF IntegrationInv
  <2>3. integration' \in [present : BOOLEAN, spec : Nat, keys : Nat]
    <3>1. /\ rec.snap.gen \in Nat /\ secret.cache.value \in Nat /\ secret.read \in Nat
          /\ integration \in [present : BOOLEAN, spec : Nat, keys : Nat]
      BY GenNat DEF IntegrationInv, TypeOK, Records, IntegrationTyped, Copies
    <3>2. NoIntegration \in [present : BOOLEAN, spec : Nat, keys : Nat]
      BY DEF NoIntegration
    <3>3. ASSUME NEW keys \in Nat, Send(keys)
          PROVE  integration' \in [present : BOOLEAN, spec : Nat, keys : Nat]
      BY <3>1, <3>3 DEF Send
    <3> QED
      BY <1>1, <3>1, <3>2, <3>3, IntegrationStep DEF IntegrationMoves
  <2>4. IntegrationTyped'
    BY <1>1, <2>3, SecretStep, FlagsStep DEF IntegrationTyped
  <2> QED
    BY <2>1, <2>2, <2>4 DEF IntegrationInv
<1>2. CASE UNCHANGED allVars
  BY <1>2 DEF allVars, handlerVars, vars, integrationVars, IntegrationInv, TypeOK,
              IntegrationCall, IntegrationTyped, AnyNext, Elsewhere
<1> QED
  BY <1>1, <1>2

\* The object, the handler in progress, the integration and the Secret keep
\* their shape.
THEOREM IntegrationTypes == IntegrationSpec => []IntegrationTypeOK
<1>1. IntegrationInit => IntegrationInv
  BY InitIntegrationInv
<1>2. IntegrationInv /\ [IntegrationNext]_allVars => IntegrationInv'
  BY IntegrationStepInv
<1>3. IntegrationInv => IntegrationTypeOK
  BY IntegrationStates
     DEF IntegrationInv, IntegrationCall, IntegrationTyped, IntegrationTypeOK
<1> QED
  BY <1>1, <1>2, <1>3, PTL DEF IntegrationSpec
----------------------------------------------------------------------------
(* The handlers that panic are not reached.                                *)

\* A copy of the object that one of the three handlers, or that of a
\* deletion, answers to.
Handled(o) ==
  /\ o.state \in Upserting \cup {"DeletionRequested"}
  /\ o.external = "none" /\ o.period = "none"

HandledCopies ==
  /\ Handled(obj) /\ Handled(cache) /\ Handled(rec.snap)
  /\ Answering => rec.next \in Answered

\* Without an annotation to import or to reapply it.
NoAnnotations == Externals \subseteq {"none"} /\ Periods \subseteq {"none"}

LEMMA InitHandledCopies == NoAnnotations /\ IntegrationInit => HandledCopies
<1> SUFFICES ASSUME NoAnnotations, IntegrationInit PROVE HandledCopies
  OBVIOUS
<1>1. /\ obj.state = "Initial" /\ obj.external = "none" /\ obj.period = "none"
      /\ cache = obj /\ rec = Idle
  BY DEF IntegrationInit, ReconcilerInit, NewObject, NoAnnotations
<1>2. Handled(Idle.snap) /\ Idle.pc = "idle"
  BY DEF Idle, NewObject, Handled, Upserting
<1> QED
  BY <1>1, <1>2 DEF HandledCopies, Handled, Upserting, Answering

LEMMA HandledDispatch ==
  \A o \in Objects : Handled(o) => Dispatch(o) \in Upserting \cup {"DeletionRequested"}
BY DEF Dispatch, Handled, Upserting

\* The loop makes up no answer for such an object.
LEMMA LoopAnswersHandled ==
  ASSUME TypeOK, Environment \/ Loop, Answering', Handled(rec.snap)
  PROVE  Answering /\ rec'.next = rec.next
<1>0. rec \in Records /\ rec.snap \in Objects
  BY DEF TypeOK, Records
<1>1. rec' # Idle
  BY IdleFields DEF Answering
<1>2. ~RejectState
  BY <1>0, HandledDispatch, IntegrationStates DEF RejectState
<1>3. ~StampNeeded
  BY DEF StampNeeded, Handled
<1>4. CASE Environment
  BY <1>0, <1>1, <1>4
     DEF Environment, CacheSync, Resync, User, PeriodElapses, Crash, Records, Answering
<1>5. CASE Start \/ EnsureFinalizers
  BY <1>0, <1>1, <1>5, IdleFields
     DEF Start, EnsureFinalizers, GiveUp, Done, Records, Answering, Idle
<1>6. CASE Reapply
  BY <1>0, <1>3, <1>6 DEF Reapply, Records, Answering
<1>7. ~UnsetFinalizers /\ ~PatchStatus
  BY <1>1 DEF UnsetFinalizers, PatchStatus, GiveUp, Done
<1> QED
  BY <1>2, <1>4, <1>5, <1>6, <1>7 DEF Loop

\* What a handler that takes a step answers.
LEMMA MovesAnswer ==
  ASSUME IntegrationInv, IntegrationHandles, Answering'
  PROVE  /\ rec'.next \in Answered
         /\ rec'.next \notin Upserting => Dispatch(rec.snap) = "DeletionRequested"
<1>0. rec \in Records /\ rec.pc = "handler"
  BY DEF IntegrationInv, TypeOK, IntegrationHandles, InHandler
<1>1. ASSUME NEW state \in States, Answers1(state)
      PROVE  rec'.next = state
  <2>1. PICK outcome \in Outcomes : Answer(state, outcome)
    BY <1>1, OutcomesKnown DEF Answers1, Reply, Fail, Fault
  <2> QED
    BY <2>1, AnswerFields DEF IntegrationInv
<1>2. ~Proceeds /\ ~Notes
  BY <1>0 DEF Proceeds, Notes, Answering, vars, Records
<1>3. ~Panics
  BY IdleFields DEF Panics, Done, GiveUp, Answering
<1> QED
  BY <1>1, <1>2, <1>3 DEF IntegrationHandles, Answers1

LEMMA StepHandledCopies ==
  ASSUME NoAnnotations, IntegrationInv, HandledCopies, [IntegrationNext]_allVars
  PROVE  HandledCopies'
<1>0. /\ AnyNext /\ TypeOK /\ obj \in Objects /\ cache \in Objects /\ rec.snap \in Objects
  BY IntegrationStepInv DEF IntegrationInv, TypeOK, Records
<1>1. Answering' => rec'.next \in Answered
  <2>1. CASE IntegrationHandler
    BY <2>1, HandlersMove, MovesAnswer
  <2>2. CASE Around
    BY <1>0, <2>2, LoopAnswersHandled DEF Around, Environment, HandledCopies
  <2>3. CASE rec' = rec
    BY <2>3 DEF HandledCopies, Answering
  <2> QED
    BY <2>1, <2>2, <2>3, AroundIsAround
       DEF IntegrationNext, ObjectSync, Vanishes, Rotate, SharerHashes, SecretSync, ProjectGoes,
           allVars, handlerVars, vars
<1>2. Handled(obj')
  <2>1. /\ obj'.external = obj.external /\ obj'.period \in {obj.period} \cup Periods
        /\ PatchStatus \/ SameStatus(obj, obj')
    BY <1>0, AnyWork, AnyPeriod, AnyMoves
  <2>2. obj'.state \in Upserting \cup {"DeletionRequested"}
    <3>1. CASE obj'.state = obj.state
      BY <3>1 DEF HandledCopies, Handled
    <3>2. CASE obj'.state # obj.state
      <4>1. PatchStatus
        BY <2>1, <3>2 DEF SameStatus
      <4>2. Answering /\ obj'.state = rec.next /\ rec.next # "Deleted"
        BY <1>0, <3>2, <4>1, AnyState DEF PatchStatus
      <4> QED
        BY <4>2 DEF HandledCopies, Answered
    <3> QED
      BY <3>1, <3>2
  <2> QED
    BY <2>1, <2>2 DEF HandledCopies, Handled, NoAnnotations
<1>3. Handled(Aged(cache)) /\ Handled(Aged(rec.snap))
  BY <1>0, AgedForward, CopyWork, StoredPeriod DEF HandledCopies, Handled, SameStatus, SameWork
<1>4. Handled(Idle.snap)
  BY DEF Idle, NewObject, Handled, Upserting
<1>5. CopiesMove
  BY <1>0, AnyMoves
<1> QED
  BY <1>1, <1>2, <1>3, <1>4, <1>5 DEF CopiesMove, HandledCopies

\* Without an annotation to import or to reapply the resource, no sequence of
\* events, failures and lagging reads included, leads to one of the handlers
\* that end in a nil interface.
THEOREM OnlyHandlersThatExist ==
  ASSUME NoAnnotations
  PROVE  IntegrationSpec => []NeverPanics
<1>1. IntegrationInit => IntegrationInv /\ HandledCopies
  BY InitIntegrationInv, InitHandledCopies
<1>2. IntegrationInv /\ HandledCopies /\ [IntegrationNext]_allVars
        => (IntegrationInv /\ HandledCopies)'
  BY IntegrationStepInv, StepHandledCopies
<1>3. IntegrationInv /\ HandledCopies => NeverPanics
  <2> SUFFICES ASSUME IntegrationInv, HandledCopies PROVE NeverPanics
    OBVIOUS
  <2>1. rec.snap \in Objects
    BY DEF IntegrationInv, TypeOK, Records
  <2> QED
    BY <2>1, HandledDispatch DEF NeverPanics, HandledCopies
<1> QED
  BY <1>1, <1>2, <1>3, PTL DEF IntegrationSpec

----------------------------------------------------------------------------
(* The integration goes with the object.                                   *)

\* A reconcile that is about to let the object go leaves an integration only
\* under deletion protection, or when it could not ask Atlas.
Released ==
  FreshReads /\ Answering /\ rec.next = "Deleted" /\ integration.present
    => obj.keep \/ abandoned

\* Nor does an object that was handled and that nothing holds.
Unheld ==
  FreshReads /\ Ours \notin obj.fin /\ handled > 0 /\ integration.present
    => obj.keep \/ abandoned

OrphanInv == HandledHeld /\ Released /\ Unheld

LEMMA InitOrphanInv == IntegrationInit => OrphanInv
<1> SUFFICES ASSUME IntegrationInit PROVE OrphanInv
  OBVIOUS
<1>1. handled = 0 /\ rec = Idle
  BY DEF IntegrationInit, ReconcilerInit
<1> QED
  BY <1>1, IdleFields DEF OrphanInv, HandledHeld, Released, Unheld, Answering

\* The handlers answer with a deletion only when one was requested.
LEMMA IntegrationAsks ==
  ASSUME IntegrationInv, LoopInv, [IntegrationNext]_allVars
  PROVE  AsksFirst
<1> SUFFICES ASSUME rec.pc = "handler", Answering', rec'.next \in Deletion \cup {"Deleted"}
             PROVE  obj.deleting
  BY DEF AsksFirst
<1>0. rec \in Records /\ rec.snap \in Objects
  BY DEF IntegrationInv, TypeOK, Records
<1>1. CASE IntegrationHandler
  <2>1. Dispatch(rec.snap) \in Deletion
    BY <1>1, HandlersMove, MovesAnswer, IntegrationStates DEF Deletion
  <2> QED
    BY <1>0, <2>1, DispatchAsked DEF LoopInv, DeletionKnown, Asked
<1>2. CASE Around
  <2>1. rec'.next = ""
    BY <1>2, AroundAnswers DEF IntegrationInv, Answering
  <2> QED
    BY <2>1 DEF Deletion
<1>3. rec' # rec
  BY DEF Answering
<1> QED
  BY <1>1, <1>2, <1>3, AroundIsAround
     DEF IntegrationNext, ObjectSync, Vanishes, Rotate, SharerHashes, SecretSync, ProjectGoes,
         allVars, handlerVars, vars

\* An integration appears only out of a handler.
LEMMA OnlyHandlersCreate ==
  ASSUME IntegrationInv, [IntegrationNext]_allVars, integration'.present, ~integration.present
  PROVE  rec.pc = "handler"
<1>1. IntegrationNext
  BY DEF allVars, integrationVars
<1>2. ~[integration EXCEPT !.present = FALSE].present
  BY DEF IntegrationInv, IntegrationTyped
<1>3. IntegrationMoves
  BY <1>1, IntegrationStep
<1>4. integration' # [integration EXCEPT !.present = FALSE]
  BY <1>2
<1> QED
  BY <1>2, <1>3, <1>4 DEF IntegrationMoves, NoIntegration

\* Deleted is the answer of the handler of a deletion.
LEMMA DeletedAnswer ==
  ASSUME IntegrationInv, IntegrationHandler, Answering', rec'.next = "Deleted"
  PROVE  /\ Dispatch(rec.snap) = "DeletionRequested" /\ obj' = obj /\ rec.pc = "handler"
         /\ integration'.present => rec.snap.keep \/ abandoned'
<1>1. Dispatch(rec.snap) = "DeletionRequested" /\ rec.pc = "handler"
  BY HandlersMove, MovesAnswer, IntegrationStates DEF IntegrationHandles, InHandler
<1>2. ~Fault("DeletionRequested")
  <2>1. Fault("DeletionRequested") => rec'.next = "DeletionRequested"
    BY AnswerFields, OutcomesKnown, IntegrationStates DEF Fault, IntegrationInv, Answered
  <2> QED
    BY <2>1
<1>3. ~call.busy
  BY <1>1, IntegrationStates DEF IntegrationInv, IntegrationCall
<1>4. HandleDeletionRequested
  BY <1>1, <1>3, IntegrationStates
     DEF IntegrationHandler, HandlerEnds, RecordId, EnsureSecretHash, NoRequest, Create, Find,
         Compare, Update, Step, Handling, IntegrationInv, IntegrationCall
<1> QED
  BY <1>1, <1>2, <1>4
     DEF HandleDeletionRequested, Reply, Answer, LostCall, Delete, NoIntegration

LEMMA StepReleased ==
  ASSUME IntegrationInv, LoopInv, OrphanInv, [IntegrationNext]_allVars
  PROVE  Released'
<1> SUFFICES ASSUME FreshReads', Answering', rec'.next = "Deleted", integration'.present,
                    ~abandoned'
             PROVE  obj'.keep
  BY DEF Released
<1>0. FreshReads /\ TypeOK /\ AnyNext /\ rec.snap \in Objects
  BY IntegrationStepInv, AnyStale DEF IntegrationInv, LoopInv, TypeOK, Records
<1>1. CASE Answering /\ rec.next = "Deleted"
  <2>1. rec.pc # "handler" /\ integration.present
    BY <1>1, OnlyHandlersCreate DEF Answering
  <2>2. ~abandoned
    BY FlagsStep DEF allVars, integrationVars
  <2>3. obj.keep /\ obj.deleting
    BY <1>0, <1>1, <2>1, <2>2 DEF OrphanInv, Released, LoopInv, DeletionKnown
  <2> QED
    BY <1>0, <2>3, AnyKeep DEF SameKeep
<1>2. CASE IntegrationHandler
  <2>1. Dispatch(rec.snap) \in Deletion /\ obj' = obj /\ rec.snap.keep
    BY <1>2, DeletedAnswer DEF Deletion
  <2>2. rec.snap.deleting
    BY <1>0, <2>1, DispatchAsked DEF LoopInv, DeletionKnown, Asked
  <2> QED
    BY <2>1, <2>2 DEF LoopInv, KeepKnown, SameKeep
<1>3. CASE Around
  BY <1>0, <1>1, <1>3, AroundAnswers
<1>4. CASE rec' = rec
  BY <1>1, <1>4 DEF Answering
<1> QED
  BY <1>2, <1>3, <1>4, AroundIsAround
     DEF IntegrationNext, ObjectSync, Vanishes, Rotate, SharerHashes, SecretSync, ProjectGoes,
         allVars, handlerVars, vars

LEMMA StepUnheld ==
  ASSUME IntegrationInv, LoopInv, OrphanInv, HandledHeld', [IntegrationNext]_allVars
  PROVE  Unheld'
<1> SUFFICES ASSUME FreshReads', Ours \notin obj'.fin, handled' > 0, integration'.present,
                    ~abandoned'
             PROVE  obj'.keep
  BY DEF Unheld
<1>0. FreshReads /\ TypeOK /\ AnyNext /\ ~abandoned
  BY IntegrationStepInv, AnyStale, FlagsStep
     DEF IntegrationInv, LoopInv, allVars, integrationVars
<1>1. obj'.deleting
  BY DEF HandledHeld
<1>2. CASE Ours \in obj.fin
  <2>1. UnsetFinalizers
    BY <1>0, <1>2, AnyOursLeaves
  <2>2. Answering /\ rec.next = "Deleted" /\ rec.pc # "handler"
    BY <2>1 DEF UnsetFinalizers, Answering
  <2>3. integration.present /\ obj.deleting
    BY <2>2, OnlyHandlersCreate DEF LoopInv, DeletionKnown
  <2>4. obj.keep
    BY <1>0, <2>2, <2>3 DEF OrphanInv, Released
  <2> QED
    BY <1>0, <2>3, <2>4, AnyKeep DEF SameKeep
<1>3. CASE Ours \notin obj.fin
  <2>1. rec.pc # "handler" /\ rec.pc \notin {"reapply", "settle"}
    BY <1>0, <1>3 DEF LoopInv, Held
  <2>2. integration.present
    BY <2>1, OnlyHandlersCreate
  <2>3. CASE handled > 0
    <3>1. obj.deleting /\ obj.keep
      BY <1>0, <1>3, <2>2, <2>3 DEF OrphanInv, HandledHeld, Unheld
    <3> QED
      BY <1>0, <3>1, AnyKeep DEF SameKeep
  <2>4. handled > 0
    <3>1. handled' = handled \/ (rec.pc = "finalizer" /\ Ours \in rec.snap.fin)
      BY <1>0, AnyHandles
    <3> QED
      BY <1>0, <1>3, <3>1 DEF LoopInv, UnderFinalizer
  <2> QED
    BY <2>3, <2>4
<1> QED
  BY <1>2, <1>3

\* The object that is gone is held by nobody.
LEMMA OrphanInvHolds == LoopInv /\ OrphanInv => NoOrphan
<1> SUFFICES ASSUME LoopInv, OrphanInv, FreshReads, ~obj.exists, handled > 0,
                    integration.present
             PROVE  obj.keep \/ abandoned
  BY DEF NoOrphan
<1>1. Ours \notin obj.fin
  BY DEF LoopInv, UnderFinalizer
<1> QED
  BY <1>1 DEF OrphanInv, Unheld

\* Once a resource that was handled is gone, so is the integration, unless
\* deletion protection kept it or a deletion went through without a call to
\* Atlas, whatever fails, as long as no reconcile has read a lagging cache.
THEOREM NothingIsOrphaned == IntegrationSpec => []NoOrphan
<1>1. IntegrationInit => IntegrationInv /\ LoopInv /\ OrphanInv
  BY InitIntegrationInv, InitLoopInv, InitOrphanInv
<1>2. IntegrationInv /\ LoopInv /\ OrphanInv /\ [IntegrationNext]_allVars
        => (IntegrationInv /\ LoopInv /\ OrphanInv)'
  <2> SUFFICES ASSUME IntegrationInv, LoopInv, OrphanInv, [IntegrationNext]_allVars
               PROVE  (IntegrationInv /\ LoopInv /\ OrphanInv)'
    OBVIOUS
  <2>1. IntegrationInv' /\ LoopInv' /\ HandledHeld'
    BY IntegrationStepInv, IntegrationAsks, AnyLoopInv, AnyHandledHeld
       DEF IntegrationInv, OrphanInv
  <2> QED
    BY <2>1, StepReleased, StepUnheld DEF OrphanInv
<1>3. LoopInv /\ OrphanInv => NoOrphan
  BY OrphanInvHolds
<1> QED
  BY <1>1, <1>2, <1>3, PTL DEF IntegrationSpec
================================================================================
