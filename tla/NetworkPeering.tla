--------------------------- MODULE NetworkPeering ---------------------------
(***************************************************************************)
(* The AtlasNetworkPeering controller                                      *)
(* (internal/controller/atlasnetworkpeering/{state,transition}.go) and the *)
(* service under it (internal/translation/networkpeering).  Atlas creates, *)
(* updates and closes a peering in its own time; it refuses a second one   *)
(* between the same networks.                                              *)
(***************************************************************************)
EXTENDS ResourceReconciler

VARIABLES
  peer,       \* in Atlas: its phase, and the generation it was last sent
  reachable   \* getContainer finds the container this peering refers to

NoPeer == [phase |-> "none", spec |-> 0]
Present == peer.phase # "none"

LostCall(effect) ==
  /\ Spend("faults")
  /\ effect \/ UNCHANGED peer
  /\ Terminate

\* The status is cleared whether or not the finalizer can be taken off.
Unmanage == Answer("unset", "clear", FALSE, FALSE)

\* handle: no container, no way on, even for a deletion.
MissingContainer ==
  /\ ~reachable
  /\ Terminate
  /\ UNCHANGED <<peer, budget>>

\* A peering is looked up by the id of the spec or of the status only.
Identified == rec.snap.given \/ rec.snap.id
InAtlas == Identified /\ Present

Vanished ==
  /\ ~rec.snap.deleting /\ Identified /\ ~Present
  /\ Terminate
  /\ UNCHANGED <<peer, budget>>

CreatePeer == ~Present /\ peer' = [phase |-> "pending", spec |-> rec.snap.gen]

\* The finalizer is set, and the id noted, after the create.
create ==
  /\ ~rec.snap.deleting /\ ~Identified
  /\ \/ CreatePeer /\ Answer("set", "record", FALSE, TRUE) /\ UNCHANGED budget
     \/ Present /\ Terminate /\ UNCHANGED <<peer, budget>>
     \/ LostCall(CreatePeer)

UpdatePeer == peer' = [phase |-> "pending", spec |-> rec.snap.gen]

\* update: the call names the id of the status, whatever found the peering.
update ==
  \/ rec.snap.id /\ UpdatePeer /\ InProgress /\ UNCHANGED budget
  \/ ~rec.snap.id /\ Terminate /\ UNCHANGED <<peer, budget>>
  \/ rec.snap.id /\ LostCall(UpdatePeer)

\* Mutant: what is available is up to date.
SyncAvailable ==
  /\ ~rec.snap.deleting /\ InAtlas
  /\ IF peer.phase = "available" THEN Ready ELSE InProgress
  /\ UNCHANGED <<peer, budget>>

sync ==
  /\ ~rec.snap.deleting /\ InAtlas
  /\ \/ peer.phase = "failed" /\ Terminate /\ UNCHANGED <<peer, budget>>
     \/ peer.phase \in {"pending", "closing"} /\ InProgress /\ UNCHANGED <<peer, budget>>
     \/ /\ peer.phase = "available" /\ peer.spec = rec.snap.gen
        /\ Ready
        /\ UNCHANGED <<peer, budget>>
     \/ peer.phase = "available" /\ peer.spec # rec.snap.gen /\ update

\* Mutant: a phase that Closing() does not know.
Unlinking == peer' = [peer EXCEPT !.phase = "deleting"]

\* What the Get after the delete finds.
Closing == peer' = [peer EXCEPT !.phase = "closing"]
Closed  == peer' = NoPeer

\* delete: a peering found by the id of the spec that the status does not
\* have is not deleted, only waited for.
delete ==
  /\ rec.snap.deleting /\ InAtlas
  /\ \/ rec.snap.keep /\ Unmanage /\ UNCHANGED <<peer, budget>>
     \/ /\ ~rec.snap.keep
        /\ \/ /\ ~rec.snap.id \/ peer.phase = "closing"
              /\ InProgress
              /\ UNCHANGED <<peer, budget>>
           \/ /\ rec.snap.id /\ peer.phase # "closing"
              /\ \/ Closing /\ InProgress /\ UNCHANGED budget
                 \/ Closed /\ Unmanage /\ UNCHANGED budget
                 \/ LostCall(Closing)

unmanage ==
  /\ rec.snap.deleting /\ ~InAtlas
  /\ Unmanage
  /\ UNCHANGED <<peer, budget>>

Unreachable == Spend("faults") /\ Terminate /\ UNCHANGED peer

Handle ==
  /\ Handling /\ project
  /\ \/ MissingContainer
     \/ Unreachable
     \/ reachable /\ (Vanished \/ create \/ sync \/ delete \/ unmanage)
  /\ UNCHANGED <<obj, queued, project>>

\* Atlas is done with a request.
AtlasFinishes ==
  /\ \/ peer.phase = "pending" /\ \E p \in {"available", "failed"} : peer' = [peer EXCEPT !.phase = p]
     \/ peer.phase = "closing" /\ peer' = NoPeer
  /\ UNCHANGED resourceVars

\* Somebody removes the peering in Atlas.
Vanish ==
  /\ "vanish" \in Ops
  /\ Present
  /\ Spend("ops")
  /\ Closed
  /\ UNCHANGED <<obj, queued, rec, project>>

PeeringLoop == Handle \/ (Loop /\ UNCHANGED peer)
=============================================================================
