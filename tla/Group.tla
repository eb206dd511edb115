------------------------------- MODULE Group -------------------------------
(***************************************************************************)
(* The handler of the Group controller (an Atlas project),                 *)
(* internal/generated/controller/group/handler_v20250312.go, inside the    *)
(* reconcile loop of StateReconciler.  Creating and updating a project is  *)
(* synchronous, so the Creating and Updating handlers only panic.          *)
(***************************************************************************)
EXTENDS StateHandler

VARIABLES
  project,   \* the project in Atlas, and the generation it was last sent
  occupied,  \* it holds clusters: Atlas refuses to delete it
  refs       \* objects in the cluster that refer to the Group

groupVars == <<project, occupied, refs>>
allVars == <<handlerVars, groupVars>>

NoProject == [present |-> FALSE, deleting |-> FALSE, spec |-> 0]
Resources == {"FlexCluster"}

----------------------------------------------------------------------------
(* Atlas and the objects that refer to the Group.                          *)

ProjectGone ==
  /\ project.present
  /\ project.deleting
  /\ project' = NoProject
  /\ UNCHANGED <<handlerVars, occupied, refs>>

Occupy ==
  /\ "occupy" \in Ops
  /\ project.present
  /\ ~project.deleting
  /\ occupied' = ~occupied
  /\ UNCHANGED <<handlerVars, project, refs>>

Refer ==
  /\ "refer" \in Ops
  /\ refs' \in (SUBSET Resources) \ {refs}
  /\ UNCHANGED <<handlerVars, project, occupied>>

CreateProject ==
  /\ ~project.present
  /\ project' = [present |-> TRUE, deleting |-> FALSE, spec |-> rec.snap.gen]

UpdateProject ==
  /\ project.present
  /\ ~project.deleting
  /\ project' = [project EXCEPT !.spec = rec.snap.gen]

DeleteProject ==
  /\ project.present
  /\ ~occupied
  /\ project' = [project EXCEPT !.deleting = TRUE]

\* The call fails, and if Atlas carried it out all the same nobody knows.
LostCall(effect, state) ==
  /\ Fault(state)
  /\ effect \/ UNCHANGED project

----------------------------------------------------------------------------
(* The handlers.                                                           *)

\* Mutant: Creating comes first, as for the resources that are polled.
HandleInitialPolls ==
  /\ Handling({"Initial"})
  /\ CreateProject
  /\ Continue({"status", "tracker"}, "Creating", "Initial")
  /\ UNCHANGED <<occupied, refs>>

HandleInitial ==
  /\ Handling({"Initial"})
  /\ \/ /\ CreateProject
        /\ Continue({"status", "tracker"}, "Created", "Initial")
     \/ /\ project.present                    \* a project of this name exists
        /\ Fail("Initial")
        /\ UNCHANGED project
     \/ LostCall(CreateProject, "Initial")
  /\ UNCHANGED <<occupied, refs>>

HandleImportRequested ==
  /\ Handling({"ImportRequested"})
  /\ \/ /\ rec.snap.external = "full" /\ project.present
        /\ Continue({"status", "tracker"}, "Imported", "ImportRequested")
     \/ /\ rec.snap.external # "full" \/ ~project.present
        /\ Fail("ImportRequested")
     \/ rec.snap.external = "full" /\ Fault("ImportRequested")
  /\ UNCHANGED groupVars

\* handleUpserted, for Imported, Created and Updated alike.
HandleUpserted ==
  LET current == Dispatch(rec.snap) IN
  /\ Handling(Settled)
  /\ \/ /\ ReapplyBroken(rec.snap)
        /\ FailForGood(current)
        /\ UNCHANGED project
     \/ /\ ~ReapplyBroken(rec.snap)
        /\ ~ShouldUpdate(rec.snap)
        /\ Reply(current)
        /\ UNCHANGED project
     \/ /\ ~ReapplyBroken(rec.snap)
        /\ ShouldUpdate(rec.snap)
        /\ \/ /\ UpdateProject
              /\ Continue({"status", "tracker"}, "Updated", current)
           \/ /\ ~project.present \/ project.deleting
              /\ Fail(current)
              /\ UNCHANGED project
           \/ LostCall(UpdateProject, current)
  /\ UNCHANGED <<occupied, refs>>

\* The generated getDependents of the Group looks nothing up.
getDependents == {}

HandleDeletionRequested ==
  /\ Handling({"DeletionRequested"})
  /\ \/ /\ getDependents # {}
        /\ Reply("DeletionRequested")
        /\ UNCHANGED project
     \/ /\ getDependents = {}
        /\ rec.snap.keep \/ ~rec.snap.recorded
        /\ Reply("Deleted")
        /\ UNCHANGED project
     \/ /\ getDependents = {}
        /\ ~rec.snap.keep /\ rec.snap.recorded
        /\ \/ DeleteProject /\ Reply("Deleting")
           \/ ~project.present /\ Reply("Deleted") /\ UNCHANGED project
           \/ project.present /\ occupied /\ Fail("DeletionRequested") /\ UNCHANGED project
           \/ LostCall(DeleteProject, "DeletionRequested")
  /\ UNCHANGED <<occupied, refs>>

HandleDeleting ==
  /\ Handling({"Deleting"})
  /\ \/ project.present /\ Reply("Deleting")
     \/ ~project.present /\ Reply("Deleted")
     \/ Fault("DeletionRequested")
  /\ UNCHANGED groupVars

----------------------------------------------------------------------------
GroupInit ==
  /\ ReconcilerInit
  /\ project = [NoProject EXCEPT !.present = (obj.external # "none")]
  /\ occupied = FALSE
  /\ refs = {}
  /\ call = NoCall

GroupHandler ==
  \/ HandlerCommon /\ UNCHANGED groupVars
  \/ HandleInitial \/ HandleImportRequested \/ HandleUpserted
  \/ HandleDeletionRequested \/ HandleDeleting

GroupNext ==
  \/ Around /\ UNCHANGED groupVars
  \/ GroupHandler
  \/ ProjectGone \/ Occupy \/ Refer

GroupSpec == GroupInit /\ [][GroupNext]_allVars

----------------------------------------------------------------------------
(* Properties.                                                             *)

GroupTypeOK ==
  /\ TypeOK
  /\ call \in Calls
  /\ project \in [present : BOOLEAN, deleting : BOOLEAN, spec : Nat]
  /\ occupied \in BOOLEAN
  /\ refs \in SUBSET Resources

\* The handlers that panic are never reached, and those that dereference the
\* project id of the status find one there.
NeverPanics ==
  rec.pc = "handler" =>
    /\ Dispatch(rec.snap) \notin {"Creating", "Updating"}
    /\ Dispatch(rec.snap) \in Settled \cup {"Deleting"} => rec.snap.recorded

\* A settled project that was last sent an older generation is due for an
\* update: only a create or an update moves the tracker.  (A reconcile that
\* reads a lagging cache may send an older generation again.)
GenerationChangeIsDetected ==
  FreshReads /\ obj.exists /\ obj.state \in Settled /\ obj.external = "none" /\ project.spec < obj.gen
    => ShouldUpdate(obj)

\* Once the object is gone the project is gone, unless the policy was to
\* keep it or the operator had never recorded its id.
NoOrphan ==
  FreshReads /\ ~obj.exists /\ project.present => obj.keep \/ ~obj.recorded

\* A Group does not go while other resources refer to it.
DependentsBlockDeletion ==
  [][obj.exists /\ refs # {} => Ours \notin (obj.fin \ obj'.fin)]_allVars

\* A deletion that nothing in Atlas holds up.
Undeleted == obj.exists /\ obj.deleting /\ Ours \in obj.fin /\ ~occupied

\* An edit Atlas does not have, unless the object is deleted or imported, its
\* creation went wrong for ever (Atlas has the project, the status does not
\* know), its reapply period is broken, or the stamp of the reapply failed
\* (the empty state).
Unsent ==
  /\ obj.exists /\ project.spec < obj.gen
  /\ ~obj.deleting /\ obj.external = "none"
  /\ ~(obj.state = "Initial" /\ project.present)
  /\ obj.period # "invalid" /\ obj.state # ""
=============================================================================
