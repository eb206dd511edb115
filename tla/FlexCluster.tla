---------------------------- MODULE FlexCluster ----------------------------
(***************************************************************************)
(* The handler of the FlexCluster controller                               *)
(* (internal/generated/controller/flexcluster/handler_v20250312.go) inside *)
(* the reconcile loop of StateReconciler, with the Atlas API on the other  *)
(* side.                                                                   *)
(***************************************************************************)
EXTENDS StateHandler

VARIABLES
  atlas,   \* the cluster in Atlas: is it there, its stateName, the
           \* generation whose spec it was last sent (0: not by us)
  group    \* the Group the spec refers to is in the cache

allVars == <<handlerVars, atlas, group>>

NoCluster == [present |-> FALSE, phase |-> "IDLE", spec |-> 0]
Phases == {"CREATING", "IDLE", "UPDATING", "DELETING", "VANISHED"}

----------------------------------------------------------------------------
(* Atlas and the Group.                                                    *)

\* Creations, updates and deletions take their time.
AtlasFinishes ==
  /\ atlas.present
  /\ atlas.phase # "IDLE"
  /\ atlas' = IF atlas.phase = "DELETING" THEN NoCluster
              ELSE [atlas EXCEPT !.phase = "IDLE"]
  /\ UNCHANGED <<handlerVars, group>>

\* Somebody deletes the cluster in Atlas behind the operator's back.
AtlasVanishes ==
  /\ "vanish" \in Ops
  /\ atlas.present
  /\ atlas' = [NoCluster EXCEPT !.phase = "VANISHED"]
  /\ UNCHANGED <<handlerVars, group>>

\* The Group object goes away; the FlexClusters that name it are enqueued.
GroupVanishes ==
  /\ "group" \in Ops
  /\ group
  /\ group' = FALSE
  /\ queued' = (queued \/ cache.exists)
  /\ UNCHANGED <<obj, cache, rec, budget, handled, atlas, call>>

CreateInAtlas ==
  /\ ~atlas.present
  /\ atlas' = [present |-> TRUE, phase |-> "CREATING", spec |-> rec.snap.gen]

\* The call fails, and if Atlas carried it out all the same nobody knows.
LostCall(effect, state) ==
  /\ Fault(state)
  /\ effect \/ UNCHANGED atlas

----------------------------------------------------------------------------
(* The handlers.                                                           *)

\* Mutants: the handler forgets to move on; the error of a create is lost.
HandleInitialStaysInitial ==
  /\ Handling({"Initial"})
  /\ group
  /\ CreateInAtlas
  /\ Continue({"status"}, "Initial", "Initial")
  /\ UNCHANGED group

HandleInitialIgnoresError ==
  /\ Handling({"Initial"})
  /\ group
  /\ CreateInAtlas \/ UNCHANGED atlas
  /\ Continue({"status"}, "Created", "Initial")
  /\ UNCHANGED group

HandleInitial ==
  /\ Handling({"Initial"})
  /\ group
  /\ \/ /\ CreateInAtlas
        /\ Continue({"status"}, "Creating", "Initial")
     \/ /\ atlas.present                     \* a cluster of this name exists
        /\ Fail("Initial")
        /\ UNCHANGED atlas
     \/ LostCall(CreateInAtlas, "Initial")
  /\ UNCHANGED group

\* Mutant: the stateName of Atlas is taken for the state of the resource.
PollTakesStateName(settles, back) ==
  /\ atlas.present
  /\ Continue({"status", "tracker"}, atlas.phase, back)
  /\ UNCHANGED <<atlas, group>>

\* patchStatus up to its Atlas call: read the cluster, then patch.
Poll(settles, back) ==
  /\ \/ /\ atlas.present
        /\ Continue({"status", "tracker"},
                    IF atlas.phase \in {"CREATING", "UPDATING"} THEN back ELSE settles,
                    back)
     \/ ~atlas.present /\ Fail(back)
     \/ Fault(back)
  /\ UNCHANGED <<atlas, group>>

HandleImportRequested ==
  /\ Handling({"ImportRequested"})
  /\ \/ /\ rec.snap.external = "full"
        /\ group
        /\ \/ /\ atlas.present
              /\ Continue({"status", "tracker"}, "Imported", "ImportRequested")
           \/ ~atlas.present /\ Fail("ImportRequested")
           \/ Fault("ImportRequested")
     \/ /\ rec.snap.external # "full" \/ ~group
        /\ Fail("ImportRequested")
  /\ UNCHANGED <<atlas, group>>

HandleCreating ==
  Handling({"Creating"}) /\ group /\ Poll("Created", "Creating")

HandleUpdating ==
  Handling({"Updating"}) /\ group /\ Poll("Updated", "Updating")

UpdateInAtlas ==
  /\ atlas.present
  /\ atlas.phase # "DELETING"
  /\ atlas' = [atlas EXCEPT !.phase = "UPDATING", !.spec = rec.snap.gen]

\* handleIdle; HandleImported answers with Created.
IdleState(state) == IF state = "Imported" THEN "Created" ELSE state

HandleIdle ==
  LET current == IdleState(Dispatch(rec.snap)) IN
  /\ Handling(Settled)
  /\ group
  /\ \/ /\ ReapplyBroken(rec.snap)
        /\ FailForGood(current)
        /\ UNCHANGED atlas
     \/ /\ ~ReapplyBroken(rec.snap)
        /\ ~ShouldUpdate(rec.snap)
        /\ Reply(current)
        /\ UNCHANGED atlas
     \/ /\ ~ReapplyBroken(rec.snap)
        /\ ShouldUpdate(rec.snap)
        /\ \/ /\ UpdateInAtlas
              /\ Continue({"status", "tracker"}, "Updating", current)
           \/ /\ ~(atlas.present /\ atlas.phase # "DELETING")
              /\ Fail(current)
              /\ UNCHANGED atlas
           \/ LostCall(UpdateInAtlas, current)
  /\ UNCHANGED group

DeleteInAtlas ==
  /\ atlas.present
  /\ atlas' = [atlas EXCEPT !.phase = "DELETING"]

\* Mutant: the policy is not looked at.
UnmanagedWhateverPolicy(o) == ~o.recorded

\* The object may go and leave Atlas alone.
Unmanaged(o) == o.keep \/ ~o.recorded

\* Mutant: the object is released as soon as Atlas accepts the deletion.
DeletionNotAwaited ==
  /\ Handling({"DeletionRequested"})
  /\ \/ Unmanaged(rec.snap) /\ Reply("Deleted") /\ UNCHANGED atlas
     \/ ~Unmanaged(rec.snap) /\ DeleteInAtlas /\ Reply("Deleted")
  /\ UNCHANGED group

HandleDeletionRequested ==
  /\ Handling({"DeletionRequested"})
  /\ \/ /\ Unmanaged(rec.snap)
        /\ Reply("Deleted")
        /\ UNCHANGED atlas
     \/ /\ ~Unmanaged(rec.snap)
        /\ group
        /\ \/ DeleteInAtlas /\ Reply("Deleting")
           \/ ~atlas.present /\ Reply("Deleted") /\ UNCHANGED atlas
           \/ LostCall(DeleteInAtlas, "DeletionRequested")
     \/ /\ ~Unmanaged(rec.snap)
        /\ ~group
        /\ Fail("DeletionRequested")
        /\ UNCHANGED atlas
  /\ UNCHANGED group

\* A failed read takes the state back to DeletionRequested.
HandleDeleting ==
  /\ Handling({"Deleting"})
  /\ group
  /\ \/ atlas.present /\ Reply("Deleting")
     \/ ~atlas.present /\ Reply("Deleted")
     \/ Fault("DeletionRequested")
  /\ UNCHANGED <<atlas, group>>

\* getDependencies without the Group: the state stays what it was.
NoDependencies ==
  /\ Handling({"Initial", "Creating", "Updating", "Deleting"} \cup Settled)
  /\ ~group
  /\ Fail(IdleState(Dispatch(rec.snap)))
  /\ UNCHANGED <<atlas, group>>

----------------------------------------------------------------------------
FlexInit ==
  /\ ReconcilerInit
  /\ atlas = [NoCluster EXCEPT !.present = (obj.external # "none")]
  /\ group = TRUE
  /\ call = NoCall

FlexHandler ==
  \/ HandlerCommon /\ UNCHANGED <<atlas, group>>
  \/ HandleInitial \/ HandleImportRequested \/ HandleCreating \/ HandleUpdating
  \/ HandleIdle \/ HandleDeletionRequested \/ HandleDeleting \/ NoDependencies

FlexNext ==
  \/ Around /\ UNCHANGED <<atlas, group>>
  \/ FlexHandler
  \/ AtlasFinishes \/ AtlasVanishes \/ GroupVanishes

FlexSpec == FlexInit /\ [][FlexNext]_allVars

----------------------------------------------------------------------------
(* Properties.                                                             *)

FlexTypeOK ==
  /\ TypeOK
  /\ atlas \in [present : BOOLEAN, phase : Phases, spec : Nat]
  /\ group \in BOOLEAN
  /\ call \in Calls

\* As long as the cache does not lag, a cluster is created only while the
\* finalizer of the operator is on the object, so that no deletion of the
\* object can go unnoticed.
CreateOnlyUnderFinalizer ==
  [][FreshReads /\ atlas'.present /\ ~atlas.present
       => obj.exists /\ Ours \in obj.fin]_allVars

\* Once the object is gone the cluster is gone, unless the policy was to
\* keep it or the operator had never recorded that it manages one; and the
\* record is missing only after a failure or a read of a lagging cache.
NoOrphan ==
  ~obj.exists /\ atlas.present /\ ~obj.keep /\ FreshReads
    => ~obj.recorded /\ (Calm => obj.external # "none")

\* What the flag promises: without a keep policy, deleting the resource
\* deletes the cluster the operator created for it.
DeletionReachesAtlas ==
  ~obj.exists /\ ~obj.keep /\ obj.external = "none" => ~atlas.present

\* The cluster of an object whose policy is keep is never deleted.
KeepIsRespected ==
  [][atlas'.phase = "DELETING" /\ atlas.phase # "DELETING" => ~obj.keep]_allVars

\* A resource that says it is settled has a cluster in Atlas that is not
\* being deleted, unless somebody deleted it there.
SettledHasCluster ==
  obj.exists /\ obj.state \in Settled /\ ~obj.deleting
    => atlas.phase = "VANISHED" \/ (atlas.present /\ atlas.phase # "DELETING")

\* The operator never sends a create for a cluster it has created already,
\* unless a failure or a lagging cache hid the first one from it.
NeverCreatesTwice ==
  Calm /\ rec.pc = "handler" /\ ~call.busy /\ Dispatch(rec.snap) = "Initial"
    => ~atlas.present

\* An idle resource whose cluster was last sent an older generation is due
\* for an update.
GenerationChangeIsDetected ==
  obj.exists /\ obj.state \in Settled /\ atlas.spec < obj.gen => ShouldUpdate(obj)
=============================================================================
