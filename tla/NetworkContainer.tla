-------------------------- MODULE NetworkContainer --------------------------
(***************************************************************************)
(* The AtlasNetworkContainer controller                                    *)
(* (internal/controller/atlasnetworkcontainer/{state,transitions}.go) and  *)
(* the service under it (internal/translation/networkcontainer).  The CIDR *)
(* block is the generation it comes from.  Atlas has one container in a    *)
(* region, and keeps it while a peering uses it.                           *)
(***************************************************************************)
EXTENDS ResourceReconciler

VARIABLES
  container,   \* in Atlas: is it there, its CIDR block
  inUse        \* a peering connection uses it

NoContainer == [present |-> FALSE, cidr |-> 0]

\* A call that fails; if Atlas carried it out all the same nobody knows.
LostCall(effect) ==
  /\ Spend("faults")
  /\ effect \/ UNCHANGED container
  /\ Terminate

Unmanage == Answer("unset", "leave", FALSE, FALSE)

\* discover: by the id of the spec or of the status, else by the CIDR block.
Identified == rec.snap.given \/ rec.snap.id
InAtlas == container.present /\ (Identified \/ container.cidr = rec.snap.gen)

\* Get by id, and the container is not there.
Undiscovered ==
  /\ Identified /\ ~container.present
  /\ Terminate
  /\ UNCHANGED <<container, budget>>

CreateContainer ==
  /\ ~container.present
  /\ container' = [present |-> TRUE, cidr |-> rec.snap.gen]

create ==
  /\ ~rec.snap.deleting /\ ~Identified /\ ~InAtlas
  /\ \/ CreateContainer /\ Ready /\ UNCHANGED budget
     \/ container.present /\ Terminate /\ UNCHANGED <<container, budget>>
     \/ LostCall(CreateContainer)

UpdateContainer ==
  /\ ~inUse
  /\ container' = [container EXCEPT !.cidr = rec.snap.gen]

sync ==
  /\ ~rec.snap.deleting /\ InAtlas
  /\ \/ container.cidr = rec.snap.gen /\ Ready /\ UNCHANGED <<container, budget>>
     \/ /\ container.cidr # rec.snap.gen
        /\ \/ UpdateContainer /\ Ready /\ UNCHANGED budget
           \/ inUse /\ Terminate /\ UNCHANGED <<container, budget>>
           \/ LostCall(UpdateContainer)

DeleteContainer == ~inUse /\ container' = NoContainer

\* Mutant: the answer of Atlas to the deletion is not looked at.
DeleteWithoutAnswer ==
  /\ rec.snap.deleting /\ InAtlas
  /\ \/ rec.snap.keep /\ UNCHANGED container
     \/ ~rec.snap.keep /\ (DeleteContainer \/ UNCHANGED container)
  /\ Unmanage
  /\ UNCHANGED budget

delete ==
  /\ rec.snap.deleting /\ InAtlas
  /\ \/ rec.snap.keep /\ Unmanage /\ UNCHANGED <<container, budget>>
     \/ /\ ~rec.snap.keep
        /\ \/ DeleteContainer /\ Unmanage /\ UNCHANGED budget
           \/ inUse /\ Terminate /\ UNCHANGED <<container, budget>>
           \/ LostCall(DeleteContainer)

unmanage ==
  /\ rec.snap.deleting /\ ~Identified /\ ~InAtlas
  /\ Unmanage
  /\ UNCHANGED <<container, budget>>

\* A failure on the way to Atlas, from the credentials on.
Unreachable == Spend("faults") /\ Terminate /\ UNCHANGED container

Handle ==
  /\ Handling /\ project
  /\ Undiscovered \/ create \/ sync \/ delete \/ unmanage \/ Unreachable
  /\ UNCHANGED <<obj, queued, project>>

\* Somebody removes the container in Atlas.
Vanish ==
  /\ "vanish" \in Ops
  /\ container.present /\ ~inUse
  /\ Spend("ops")
  /\ container' = NoContainer
  /\ UNCHANGED <<obj, queued, rec, project>>

ContainerLoop == Handle \/ (Loop /\ UNCHANGED container)
=============================================================================
