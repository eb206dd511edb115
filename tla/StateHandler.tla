--------------------------- MODULE StateHandler ----------------------------
(***************************************************************************)
(* What the handlers of the generated controllers have in common: the      *)
(* dispatcher by spec version (handler.go), the answers of pkg/result, and *)
(* the Patcher through which they write on their own object.  A handler is *)
(* a first step that decides and calls Atlas, one step for each patch, and *)
(* its return; everything else may move in between.                        *)
(***************************************************************************)
EXTENDS StateReconciler

VARIABLE call  \* what is left of the handler in progress

handlerVars == <<vars, call>>

\* busy: the first step is done; todo: the patches still to send; to: the
\* answer once they are through; back: the answer when one of them fails.
NoCall == [busy |-> FALSE, todo |-> {}, to |-> "Initial", back |-> "Initial"]
Calls == [busy : BOOLEAN, todo : SUBSET {"status", "tracker"}, to : States, back : States]

\* The first step of the handler of one of these states.
Handling(states) ==
  /\ rec.pc = "handler"
  /\ ~call.busy
  /\ Dispatch(rec.snap) \in states

Answer(next, outcome) ==
  /\ Returned(next, outcome)
  /\ call' = NoCall
  /\ UNCHANGED <<obj, envVars>>

\* result.NextState and result.Error.
Reply(state) == Answer(state, "ok") /\ UNCHANGED budget
Fail(state)  == Answer(state, "retry") /\ UNCHANGED budget

\* A call to Atlas or to the API server fails on its way.
Fault(state) == Answer(state, "retry") /\ Spend("faults")

\* reconcile.TerminalError.
FailForGood(state) == Answer(state, "terminal") /\ UNCHANGED budget

\* The Atlas call went through: patch, then answer.
Continue(todo, to, back) ==
  /\ call' = [busy |-> TRUE, todo |-> todo, to |-> to, back |-> back]
  /\ UNCHANGED vars

\* getHandlerForResource fails: no credentials, or no single spec version.
NoHandler ==
  /\ Handling(States \ Unsupported)
  /\ Fault(Dispatch(rec.snap))

\* One patch of the object: it is applied, or it fails, and it always fails
\* when the object is gone.
Patching(kind, result) ==
  /\ rec.pc = "handler"
  /\ kind \in call.todo
  /\ \/ /\ obj.exists
        /\ obj' = result
        /\ call' = [call EXCEPT !.todo = @ \ {kind}]
        /\ UNCHANGED <<envVars, rec, budget>>
     \/ ~obj.exists /\ Fail(call.back)
     \/ Fault(call.back)

\* Patcher.Patch: the status first, then the tracker of the generation this
\* reconcile started from.
PatcherStatus == Patching("status", [obj EXCEPT !.recorded = TRUE])

\* Mutant: the tracker hashes the generation now on the server.
PatcherTracksServer ==
  /\ "status" \notin call.todo
  /\ Patching("tracker", [obj EXCEPT !.tracker = StateTracker(obj)])

PatcherTracker ==
  /\ "status" \notin call.todo
  /\ Patching("tracker", [obj EXCEPT !.tracker = StateTracker(rec.snap)])

\* The patches are through: the handler answers with its next state.
HandlerEnds ==
  /\ rec.pc = "handler"
  /\ call.busy
  /\ call.todo = {}
  /\ Reply(call.to)

HandlerCommon == NoHandler \/ PatcherStatus \/ PatcherTracker \/ HandlerEnds

\* The steps of the loop and of the environment that leave the handler
\* alone, and a crash, which loses what is left of it.
Around ==
  \/ (CacheSync \/ Resync \/ User \/ PeriodElapses \/ Loop) /\ UNCHANGED call
  \/ Crash /\ call' = NoCall
=============================================================================
