--------------------------- MODULE ResourceState ---------------------------
(***************************************************************************)
(* The pure part of the unified state machine of the generated             *)
(* controllers: the names a State condition can carry, which handler a     *)
(* reconcile runs, what the Ready condition says, which generation the     *)
(* conditions claim to be about, and when an idle resource is sent to      *)
(* Atlas again.  Sources: pkg/state, pkg/result, pkg/controller/state.     *)
(*                                                                         *)
(* A custom resource, in any of its copies (API server, informer cache,    *)
(* the copy a reconcile works on), is a record:                            *)
(*   exists, gen, deleting, fin  object metadata: present on the server,   *)
(*                         generation, deletionTimestamp set, finalizers   *)
(*   skip, keep, external  the annotations of the user: the reconciliation *)
(*                         policy, the effective deletion policy, and      *)
(*                         which mongodb.com/external-* are there          *)
(*   period, stamp         the reapply-period and reapply-timestamp        *)
(*   tracker               the generation the state-tracker annotation     *)
(*                         hashes, 0 when there is no annotation           *)
(*   recorded              the versioned status block is there             *)
(*   state, ogen, ready    reason and observedGeneration of the State      *)
(*                         condition, reason of the Ready condition        *)
(*                         ("None" before the first status patch)          *)
(***************************************************************************)
EXTENDS Naturals

Settled == {"Imported", "Created", "Updated"}

\* The states result.NextState asks to come back to after 15 seconds.
Polled == {"Creating", "Updating", "DeletionRequested", "Deleting"}

\* Mutants: a state left out of the switch of result.NextState.
RequeuesForgetsDeleting(next) == next \in Polled \ {"Deleting"}
RequeuesForgetsUpdating(next) == next \in Polled \ {"Updating"}

Requeues(next) == next \in Polled

\* "Initial" stands for StateInitial, "ImportRequested" for the value
\* "Importing"; the Go zero value "" is not one of them.
States == Settled \cup Polled \cup {"Initial", "ImportRequested", "Deleted"}

\* Mutant: the reason of the Ready condition repeats the state.
ReadyReasonIsState(next, failed) == IF failed THEN "Error" ELSE next

\* NewReadyCondition, overridden by Error when the handler failed.
ReadyReason(next, failed) ==
  CASE failed                                         -> "Error"
    [] ~failed /\ next \in Settled                    -> "Settled"
    [] ~failed /\ next \in States \ (Settled \cup {"Deleted"}) -> "Pending"
    [] OTHER                                          -> "Error"

\* Transitions that poll or finish what an earlier reconcile started.
Continues == { <<"Updating", "Updating">>, <<"Updating", "Updated">>,
               <<"Creating", "Creating">>, <<"Creating", "Created">>,
               <<"DeletionRequested", "Deleting">>,
               <<"Deleting", "Deleting">>, <<"Deleting", "Deleted">> }

ObservedGeneration(o, next) ==
  IF o.ready # "None" /\ <<o.state, next>> \in Continues THEN o.ogen ELSE o.gen

\* Mutant: || for && in the test for a deletion.
DispatchOr(o) ==
  IF o.deleting \/ o.state # "Deleting" THEN "DeletionRequested" ELSE o.state

\* The state whose handler ReconcileState runs.  "" and "Deleted" have none.
Dispatch(o) ==
  LET s == IF o.state = "Initial" /\ o.external # "none"
           THEN "ImportRequested" ELSE o.state
  IN  IF o.deleting /\ s # "Deleting" THEN "DeletionRequested" ELSE s

Unsupported == {"", "Deleted"}

\* ShouldReapply: an error when a stamped object carries a bad period.
ReapplyBroken(o) == o.stamp # "none" /\ o.period = "invalid"
ReapplyDue(o)    == o.stamp = "due" /\ o.period = "valid"

\* The tracker hashes the generation; the dependencies of the resources
\* modelled here are neither Secrets nor ConfigMaps, so they do not count.
StateTracker(o) == o.gen

ShouldUpdate(o) ==
  \/ o.tracker # StateTracker(o)
  \/ ReapplyDue(o)
  \/ o.ready = "Error"
=============================================================================
