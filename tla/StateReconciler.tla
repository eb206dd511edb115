-------------------------- MODULE StateReconciler --------------------------
(***************************************************************************)
(* pkg/controller/state.Reconciler for one object: the loop every          *)
(* controller of the new CRDs runs, with an arbitrary StateHandler in the  *)
(* middle.  The user, other controllers, the API server, the informer      *)
(* cache, the work queue and a restart of the operator are the             *)
(* environment.  A reconcile is a sequence of steps, one for each call to  *)
(* the API server, and everything else may happen between two of them.     *)
(***************************************************************************)
EXTENDS ResourceState

CONSTANTS
  MaxOps,      \* bound on what users and other controllers do
  Ops,         \* which of these things they do
  Answers,     \* the states the handler may answer with
  Writes,      \* what the handler may write on its object by itself
  Policies,    \* the effective keep policies an object may be born with
  MaxFaults,   \* bound on failed calls and crashes
  MaxStale,    \* bound on reconciles that read a lagging cache
  Externals,   \* which import annotations an object may be born with
  Periods      \* which reapply-period annotations it may be born with

ASSUME BoundsAreNatural == MaxOps \in Nat /\ MaxFaults \in Nat /\ MaxStale \in Nat
ASSUME OpsAreKnown ==
  Ops \subseteq {"edit", "delete", "skip", "keep", "foreign", "resync",
                  "period", "group", "vanish", "occupy", "refer", "rotate", "date", "expire", "repair"}
ASSUME AnswersAreStates == Answers \subseteq States \cup {""}
ASSUME WritesAreKnown == Writes \subseteq {"recorded", "tracker"}
ASSUME PoliciesAreBoolean == Policies \subseteq BOOLEAN
ASSUME ExternalsAreKnown == Externals \subseteq {"none", "full", "partial"}
ASSUME PeriodsAreKnown == Periods \subseteq {"none", "valid", "invalid"}

VARIABLES
  obj,      \* the object on the API server
  cache,    \* the informer's copy of it
  queued,   \* the key waits in the work queue, or a timer will put it there
  rec,      \* the reconcile in progress
  budget,   \* what is left of MaxOps, MaxFaults and MaxStale
  handled   \* ghost: the highest generation a handler has been given

envVars == <<cache, queued, handled>>
vars == <<obj, cache, queued, rec, budget, handled>>

Ours == "mongodb.com/finalizer"
Foreign == "foreign"
Finalizers == {Ours, Foreign}

Objects ==
  [exists : BOOLEAN, gen : Nat, deleting : BOOLEAN, fin : SUBSET Finalizers,
   skip : BOOLEAN, keep : BOOLEAN, external : {"none", "full", "partial"},
   period : {"none", "valid", "invalid"}, stamp : {"none", "fresh", "due"},
   tracker : Nat, recorded : BOOLEAN, state : States \cup {""}, ogen : Nat,
   ready : {"None", "Pending", "Settled", "Error"}]

NewObject(keep, external, period) ==
  [exists |-> TRUE, gen |-> 1, deleting |-> FALSE, fin |-> {},
   skip |-> FALSE, keep |-> keep, external |-> external,
   period |-> period, stamp |-> "none", tracker |-> 0, recorded |-> FALSE,
   state |-> "Initial", ogen |-> 0, ready |-> "None"]

\* Failures: none, one that is retried, reconcile.TerminalError.
Outcomes == {"ok", "retry", "terminal"}

Idle == [pc |-> "idle", snap |-> NewObject(FALSE, "none", "none"),
         next |-> "Initial", outcome |-> "ok"]

Records ==
  [pc : {"idle", "finalizer", "handler", "reapply", "settle"},
   snap : Objects, next : States \cup {""}, outcome : Outcomes]

----------------------------------------------------------------------------
(* The API server and the cache.                                           *)

\* An object whose deletion was requested goes with its last finalizer.
Stored(o) ==
  IF o.deleting /\ o.fin = {} THEN [o EXCEPT !.exists = FALSE] ELSE o

Spend(kind) ==
  /\ budget[kind] > 0
  /\ budget' = [budget EXCEPT ![kind] = @ - 1]

\* Mutant: the predicate on the generation is not registered.
TriggersOnlyOnUnskip(old, new) == new.exists /\ old.skip /\ ~new.skip

\* DefaultPredicates on the update from the cached version to a new one.
Triggers(old, new) ==
  /\ new.exists
  /\ new.gen # old.gen \/ (old.skip /\ ~new.skip)

\* What has changed on the server reaches the cache.  The versions between
\* the two are delivered at once.
CacheSync ==
  /\ cache # obj
  /\ cache' = obj
  /\ queued' = (queued \/ Triggers(cache, obj))
  /\ UNCHANGED <<obj, rec, budget, handled>>

\* The periodic resync, or an event of a watched dependency.
Resync ==
  /\ "resync" \in Ops
  /\ cache.exists
  /\ ~queued
  /\ queued' = TRUE
  /\ UNCHANGED <<obj, cache, rec, budget, handled>>

----------------------------------------------------------------------------
(* Users and other controllers.                                            *)

\* kubectl apply: a changed spec bumps the generation.
EditSpec ==
  /\ "edit" \in Ops
  /\ obj' = [obj EXCEPT !.gen = @ + 1]

\* kubectl delete: the deletion timestamp bumps the generation too.
RequestDeletion ==
  /\ "delete" \in Ops
  /\ ~obj.deleting
  /\ obj' = Stored([obj EXCEPT !.deleting = TRUE, !.gen = @ + 1])

ToggleSkip ==
  /\ "skip" \in Ops
  /\ obj' = [obj EXCEPT !.skip = ~@]

\* Bound: the deletion policy is not touched once deletion is requested.
ToggleKeep ==
  /\ "keep" \in Ops
  /\ ~obj.deleting
  /\ obj' = [obj EXCEPT !.keep = ~@]

\* The annotation is no part of the spec: the generation stays.
ChangePeriod ==
  /\ "period" \in Ops
  /\ \E period \in Periods : obj' = [obj EXCEPT !.period = period]

AddForeignFinalizer ==
  /\ "foreign" \in Ops
  /\ Foreign \notin obj.fin
  /\ ~obj.deleting
  /\ obj' = [obj EXCEPT !.fin = @ \cup {Foreign}]

RemoveForeignFinalizer ==
  /\ Foreign \in obj.fin
  /\ obj' = Stored([obj EXCEPT !.fin = @ \ {Foreign}])

User ==
  /\ obj.exists
  /\ Spend("ops")
  /\ \/ EditSpec \/ RequestDeletion \/ ToggleSkip \/ ToggleKeep
     \/ ChangePeriod \/ AddForeignFinalizer \/ RemoveForeignFinalizer
  /\ UNCHANGED <<envVars, rec>>

Aged(o) == IF o.stamp = "fresh" THEN [o EXCEPT !.stamp = "due"] ELSE o

\* The reapply period elapses, whichever copy of the stamp is looked at.
PeriodElapses ==
  /\ obj.stamp = "fresh"
  /\ obj.period = "valid"
  /\ obj' = Aged(obj)
  /\ cache' = Aged(cache)
  /\ rec' = [rec EXCEPT !.snap = Aged(@)]
  /\ UNCHANGED <<queued, budget, handled>>

----------------------------------------------------------------------------
(* The reconcile.                                                          *)

\* Mutant: events that came during the reconcile are dropped.
DoneForgetsEvents(again) ==
  /\ rec' = Idle
  /\ queued' = again

\* End this reconcile; an error that is not terminal goes back on the queue.
Done(again) ==
  /\ rec' = Idle
  /\ queued' = (queued \/ again)

\* A call fails for a reason of its own: throttling, a timeout, a conflict.
GiveUp ==
  /\ Spend("faults")
  /\ Done(TRUE)
  /\ UNCHANGED <<obj, cache, handled>>

\* Mutant: the handler runs before the finalizer is ensured.
StartWithoutFinalizer ==
  /\ rec.pc = "idle"
  /\ queued
  /\ IF cache = obj THEN UNCHANGED budget ELSE Spend("stale")
  /\ queued' = FALSE
  /\ rec' = IF cache.exists /\ ~cache.skip
            THEN [Idle EXCEPT !.pc = "handler", !.snap = cache]
            ELSE Idle
  /\ UNCHANGED <<obj, cache, handled>>

\* The worker takes the key and reads the object through the cache.  The
\* branch of a skipped object in state Deleted is left out: that state is
\* never stored.
Start ==
  /\ rec.pc = "idle"
  /\ queued
  /\ IF cache = obj THEN UNCHANGED budget ELSE Spend("stale")
  /\ queued' = FALSE
  /\ rec' = IF cache.exists /\ ~cache.skip
            THEN [Idle EXCEPT !.pc = "finalizer", !.snap = cache]
            ELSE Idle
  /\ UNCHANGED <<obj, cache, handled>>

\* The API server refuses new finalizers on an object that is going away.
MayReplaceFinalizers(list) ==
  obj.exists /\ (obj.deleting => list \subseteq obj.fin)

\* Mutant: the patch carries our finalizer alone.
OnlyOurs(o) == {Ours}

WithOurs(o) == o.fin \cup {Ours}

\* EnsureFinalizers replaces the whole list by the one of the snapshot and
\* our own, and the response of the patch becomes the snapshot.
EnsureFinalizers ==
  LET list == WithOurs(rec.snap) IN
  /\ rec.pc = "finalizer"
  /\ \/ /\ Ours \in rec.snap.fin
        /\ rec' = [rec EXCEPT !.pc = "handler"]
        /\ handled' = IF Dispatch(rec.snap) \in Unsupported \/ rec.snap.gen < handled
                      THEN handled ELSE rec.snap.gen
        /\ UNCHANGED <<obj, cache, queued, budget>>
     \/ /\ Ours \notin rec.snap.fin
        /\ MayReplaceFinalizers(list)
        /\ obj' = [obj EXCEPT !.fin = list]
        /\ rec' = [rec EXCEPT !.snap = obj']
        /\ UNCHANGED <<cache, queued, budget, handled>>
     \/ /\ Ours \notin rec.snap.fin
        /\ ~MayReplaceFinalizers(list)
        /\ Done(TRUE)
        /\ UNCHANGED <<obj, cache, budget, handled>>
     \/ Ours \notin rec.snap.fin /\ GiveUp

\* A state without a handler: ReconcileState returns the zero Result at
\* once, with an error that is retried.
RejectState ==
  /\ rec.pc = "handler"
  /\ Dispatch(rec.snap) \in Unsupported
  /\ rec' = [rec EXCEPT !.pc = "settle", !.next = "", !.outcome = "retry"]
  /\ UNCHANGED <<obj, envVars, budget>>

\* What a handler may write on its own object before it returns: the
\* versioned status block, and the tracker of the generation it works on.
Written(kind) ==
  IF kind = "recorded" THEN [obj EXCEPT !.recorded = TRUE]
  ELSE [obj EXCEPT !.tracker = StateTracker(rec.snap)]

HandlerWrites ==
  /\ rec.pc = "handler"
  /\ Dispatch(rec.snap) \notin Unsupported
  /\ obj.exists
  /\ \E kind \in Writes : obj' = Written(kind)
  /\ UNCHANGED <<envVars, rec, budget>>

\* The handler returns; an empty NextState is read as Initial.
Returned(next, outcome) ==
  rec' = [rec EXCEPT !.pc = "reapply", !.outcome = outcome,
                     !.next = IF next = "" THEN "Initial" ELSE next]

\* The contract of a StateHandler: the states of a deletion are answers to
\* a deletion, and Deleted is not one to give with an error.
Deletion == {"DeletionRequested", "Deleting"}

MayReturn(next, outcome) ==
  /\ next \in Deletion \cup {"Deleted"} => Dispatch(rec.snap) \in Deletion
  /\ next = "Deleted" => outcome = "ok"

HandlerReturns ==
  /\ rec.pc = "handler"
  /\ Dispatch(rec.snap) \notin Unsupported
  /\ \E next \in Answers, outcome \in Outcomes :
       MayReturn(next, outcome) /\ Returned(next, outcome)
  /\ UNCHANGED <<obj, envVars>>
  /\ UNCHANGED budget \/ (rec'.outcome = "retry" /\ Spend("faults"))

\* reconcileReapply: stamp a settled object that asks to be reapplied.  The
\* response of the patch becomes the snapshot.  On a failure ReconcileState
\* drops what the handler returned for the zero Result.
StampNeeded ==
  /\ rec.next \in Settled
  /\ rec.outcome = "ok"
  /\ rec.snap.period # "none"

Reapply ==
  LET fail == rec' = [rec EXCEPT !.pc = "settle", !.next = "", !.outcome = "retry"]
  IN
  /\ rec.pc = "reapply"
  /\ \/ /\ ~StampNeeded \/ (rec.snap.period = "valid" /\ rec.snap.stamp = "fresh")
        /\ rec' = [rec EXCEPT !.pc = "settle"]
        /\ UNCHANGED <<obj, budget>>
     \/ /\ StampNeeded
        /\ rec.snap.period = "invalid" \/ (rec.snap.stamp # "fresh" /\ ~obj.exists)
        /\ fail
        /\ UNCHANGED <<obj, budget>>
     \/ /\ StampNeeded
        /\ rec.snap.period = "valid" /\ rec.snap.stamp # "fresh" /\ obj.exists
        /\ \/ /\ obj' = [obj EXCEPT !.stamp = "fresh"]
              /\ rec' = [rec EXCEPT !.pc = "settle", !.snap = obj']
              /\ UNCHANGED budget
           \/ /\ Spend("faults")
              /\ fail
              /\ UNCHANGED obj
  /\ UNCHANGED envVars

\* The end of a deletion: our finalizer is taken off the list of the
\* snapshot and the list replaces the one on the server.
UnsetFinalizers ==
  LET list == rec.snap.fin \ {Ours} IN
  /\ rec.pc = "settle"
  /\ rec.next = "Deleted"
  /\ \/ /\ MayReplaceFinalizers(list)
        /\ obj' = Stored([obj EXCEPT !.fin = list])
        /\ Done(FALSE)
        /\ UNCHANGED <<cache, budget, handled>>
     \/ /\ ~MayReplaceFinalizers(list)
        /\ Done(TRUE)
        /\ UNCHANGED <<obj, cache, budget, handled>>
     \/ GiveUp

\* Mutant: the generation is read from the server instead of the snapshot.
WithLiveStatus(o) ==
  [o EXCEPT !.state = rec.next,
            !.ogen = ObservedGeneration(o, rec.next),
            !.ready = ReadyReason(rec.next, rec.outcome # "ok")]

WithStatus(o) ==
  [o EXCEPT !.state = rec.next,
            !.ogen = ObservedGeneration(rec.snap, rec.next),
            !.ready = ReadyReason(rec.next, rec.outcome # "ok")]

\* Any other end: the State and Ready conditions are applied by force.
PatchStatus ==
  /\ rec.pc = "settle"
  /\ rec.next # "Deleted"
  /\ \/ /\ obj.exists
        /\ obj' = WithStatus(obj)
        /\ Done(rec.outcome = "retry" \/ (rec.outcome = "ok" /\ Requeues(rec.next)))
        /\ UNCHANGED <<cache, budget, handled>>
     \/ /\ ~obj.exists
        /\ Done(TRUE)
        /\ UNCHANGED <<obj, cache, budget, handled>>
     \/ GiveUp

\* The operator dies and comes back: the reconcile is lost, the cache is
\* listed afresh and every object it lists is reconciled.
Crash ==
  /\ Spend("faults")
  /\ rec' = Idle
  /\ cache' = obj
  /\ queued' = obj.exists
  /\ UNCHANGED <<obj, handled>>

----------------------------------------------------------------------------
ReconcilerInit ==
  /\ \E keep \in Policies, external \in Externals, period \in Periods :
       obj = NewObject(keep, external, period)
  /\ cache = obj
  /\ queued = TRUE
  /\ rec = Idle
  /\ budget = [ops |-> MaxOps, faults |-> MaxFaults, stale |-> MaxStale]
  /\ handled = 0

\* What happens around the handler.
Environment == CacheSync \/ Resync \/ User \/ PeriodElapses \/ Crash

Loop ==
  Start \/ EnsureFinalizers \/ RejectState \/ Reapply \/ UnsetFinalizers \/ PatchStatus

ReconcilerNext == Environment \/ Loop \/ HandlerWrites \/ HandlerReturns

\* The worker and the watch are always running.  Nothing obliges a user,
\* the clock, a resync, a failure or a restart to happen.
Fairness ==
  /\ WF_vars(CacheSync)
  /\ WF_vars(Loop)
  /\ WF_vars(HandlerReturns)

ReconcilerSpec == ReconcilerInit /\ [][ReconcilerNext]_vars

FairReconcilerSpec == ReconcilerSpec /\ Fairness

----------------------------------------------------------------------------
(* Properties.                                                             *)

\* No reconcile has read a lagging cache so far; nothing has failed either.
FreshReads == budget.stale = MaxStale
Calm == FreshReads /\ budget.faults = MaxFaults

TypeOK ==
  /\ obj \in Objects
  /\ cache \in Objects
  /\ queued \in BOOLEAN
  /\ rec \in Records
  /\ budget \in [ops : Nat, faults : Nat, stale : Nat]
  /\ handled \in Nat

\* No wakeup is lost: when the operator has nothing to do for the object
\* (no reconcile, an empty queue, a cache that is up to date), a handler has
\* been given its latest generation, unless the user asked to skip it.
QuiescentMeansHandled ==
  rec.pc = "idle" /\ ~queued /\ cache = obj /\ obj.exists /\ ~obj.skip
    => handled = obj.gen

\* The conditions never claim a generation that no handler has been given,
\* except after the reapply stamp, whose patch moves the snapshot forward,
\* and in the empty state, which is written without running a handler.
ObservedGenerationWasHandled ==
  obj.ogen <= handled \/ obj.stamp # "none" \/ obj.state = ""

\* The same without the exception, as the API documents observedGeneration.
ObservedGenerationIsHonest == obj.ogen <= handled

\* A finalizer of another controller goes only when that controller takes it
\* off, or when it came after the reconcile in progress had read the object.
ForeignFinalizerKept ==
  [][(Foreign \in obj.fin \ obj'.fin)
       => budget'.ops < budget.ops \/ Foreign \notin rec.snap.fin]_vars

\* The operator lets go of the object only if its deletion was requested.
FinalizerHeldUntilDeletion ==
  [][(Ours \in obj.fin \ obj'.fin) => obj.deleting]_vars

\* Every generation of a live object is eventually given to a handler,
\* or overtaken, unless the user pauses it, it is let go first, or the empty
\* state has been written to it, which no handler answers to.
Generations == 1..(MaxOps + 1)
GenerationIsHandled ==
  \A g \in Generations :
    (obj.exists /\ obj.gen = g)
      ~> \/ handled >= g
         \/ ~obj.exists \/ obj.skip \/ (obj.deleting /\ Ours \notin obj.fin)
         \/ obj.state = ""
=============================================================================
