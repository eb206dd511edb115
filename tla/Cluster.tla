------------------------------ MODULE Cluster ------------------------------
(***************************************************************************)
(* The handler of the Cluster controller                                   *)
(* (internal/generated/controller/cluster/handler_v20250312.go).  Where it *)
(* does what the FlexCluster handler does, that handler is reused; what    *)
(* differs is that the answer of a poll is read off the stateName in       *)
(* Atlas, which may lead into Deleting without a Kubernetes deletion.      *)
(***************************************************************************)
EXTENDS StateHandler

VARIABLES
  atlas,      \* the cluster in Atlas, as in FlexCluster
  group,      \* the Group the spec refers to is in the cache
  elsewhere   \* ghost: somebody else has deleted the cluster in Atlas

Flex == INSTANCE FlexClusterProofs

clusterVars == <<atlas, group, elsewhere>>

Phases == {"CREATING", "IDLE", "UPDATING", "REPAIRING", "DELETING"}

----------------------------------------------------------------------------
(* Atlas.                                                                  *)

\* Atlas repairs an idle cluster of its own accord.
AtlasRepairs ==
  /\ "repair" \in Ops
  /\ atlas.present
  /\ atlas.phase = "IDLE"
  /\ Spend("ops")
  /\ atlas' = [atlas EXCEPT !.phase = "REPAIRING"]
  /\ UNCHANGED <<obj, envVars, rec, call, group, elsewhere>>

\* Somebody deletes the cluster in Atlas behind the operator's back.
AtlasDeletes ==
  /\ "vanish" \in Ops
  /\ Flex!DeleteInAtlas
  /\ atlas.phase # "DELETING"
  /\ elsewhere' = TRUE
  /\ UNCHANGED <<handlerVars, group>>

----------------------------------------------------------------------------
(* The handlers.                                                           *)

HandleInitial ==
  /\ Handling({"Initial"})
  /\ group
  /\ \/ /\ Flex!CreateInAtlas
        /\ Continue({"status", "tracker"}, "Creating", "Initial")
     \/ /\ atlas.present                     \* a cluster of this name exists
        /\ Fail("Initial")
        /\ UNCHANGED atlas
     \/ Flex!LostCall(Flex!CreateInAtlas, "Initial")
  /\ UNCHANGED <<group, elsewhere>>

\* Mutant: a phase the switch does not name counts as a deletion.
DeletingUnlessIdle(ready) ==
  CASE atlas.phase = "CREATING" -> "Creating"
    [] atlas.phase = "UPDATING" -> "Updating"
    [] atlas.phase = "IDLE"     -> ready
    [] OTHER                    -> "Deleting"

\* Mutant: the stateName is not looked at.
ReadyAtOnce(ready) == ready

\* The state the phase of the cluster stands for; ready is what is waited for.
StateInAtlas(ready) ==
  CASE atlas.phase = "CREATING"                  -> "Creating"
    [] atlas.phase \in {"UPDATING", "REPAIRING"} -> "Updating"
    [] atlas.phase = "DELETING"                  -> "Deleting"
    [] OTHER                                     -> ready

handleAtlasClusterState(current, ready) ==
  /\ atlas.present
  /\ Continue({"status", "tracker"}, StateInAtlas(ready), current)

HandleUpserting ==
  \E p \in {<<"Creating", "Created">>, <<"Updating", "Updated">>} :
    /\ Handling({p[1]})
    /\ group
    /\ \/ handleAtlasClusterState(p[1], p[2])
       \/ ~atlas.present /\ Fail(p[1])
       \/ Fault(p[1])
    /\ UNCHANGED clusterVars

HandleDeleting ==
  /\ Handling({"Deleting"})
  /\ group
  /\ \/ handleAtlasClusterState("Deleting", "Deleted")
     \/ ~atlas.present /\ Reply("Deleted")
     \/ Fault("DeletionRequested")
  /\ UNCHANGED clusterVars

\* handleUpserted.  The last answer is the one for a shared cluster, which
\* Atlas does not let be updated.
HandleUpserted ==
  LET current == Dispatch(rec.snap) IN
  /\ Handling(Settled)
  /\ group
  /\ \/ /\ ReapplyBroken(rec.snap)
        /\ FailForGood(current)
        /\ UNCHANGED atlas
     \/ /\ ~ReapplyBroken(rec.snap)
        /\ ~ShouldUpdate(rec.snap)
        /\ Reply(current)
        /\ UNCHANGED atlas
     \/ /\ ~ReapplyBroken(rec.snap)
        /\ ShouldUpdate(rec.snap)
        /\ \/ /\ Flex!UpdateInAtlas
              /\ Continue({"status", "tracker"}, "Updating", current)
           \/ /\ ~atlas.present \/ atlas.phase = "DELETING"
              /\ Fail(current)
              /\ UNCHANGED atlas
           \/ Flex!LostCall(Flex!UpdateInAtlas, current)
           \/ atlas.present /\ Reply(current) /\ UNCHANGED atlas
  /\ UNCHANGED <<group, elsewhere>>

\* getDependencies without the Group: the state stays what it was.
NoDependencies ==
  /\ Handling({"Initial", "Creating", "Updating", "Deleting"} \cup Settled)
  /\ ~group
  /\ Fail(Dispatch(rec.snap))
  /\ UNCHANGED clusterVars

----------------------------------------------------------------------------
ClusterInit ==
  /\ Flex!FlexInit
  /\ elsewhere = FALSE

ClusterHandler ==
  \/ HandlerCommon /\ UNCHANGED clusterVars
  \/ HandleInitial \/ HandleUpserting \/ HandleUpserted \/ HandleDeleting \/ NoDependencies
  \/ (Flex!HandleImportRequested \/ Flex!HandleDeletionRequested) /\ UNCHANGED elsewhere

AtlasSide == Flex!AtlasFinishes /\ UNCHANGED elsewhere

ClusterNext ==
  \/ Around /\ UNCHANGED clusterVars
  \/ ClusterHandler
  \/ AtlasSide \/ AtlasRepairs \/ AtlasDeletes
  \/ Flex!GroupVanishes /\ UNCHANGED elsewhere

----------------------------------------------------------------------------
(* Properties.                                                             *)

ClusterTypeOK ==
  /\ TypeOK
  /\ call \in Calls
  /\ atlas \in [present : BOOLEAN, phase : Phases, spec : Nat]
  /\ group \in BOOLEAN
  /\ elsewhere \in BOOLEAN

\* As long as nobody else deletes the cluster in Atlas, a live object keeps
\* its finalizer and the operator sends no deletion for it, although the
\* answers of a poll lead through the states of a deletion.
LetsLive ==
  ~obj.deleting /\ ~elsewhere'
    => /\ Ours \notin obj.fin \ obj'.fin
       /\ ~(atlas'.phase = "DELETING" /\ atlas.phase # "DELETING")

\* A resource that says it is settled has a cluster in Atlas that is neither
\* being created nor deleted, unless somebody else deleted it.
SettledHasCluster ==
  obj.exists /\ obj.state \in Settled /\ ~obj.deleting /\ ~elsewhere
    => atlas.present /\ atlas.phase \notin {"CREATING", "DELETING"}

\* Once the object is gone the cluster is gone, unless the policy was to
\* keep it or the operator had never recorded that it manages one.
NoOrphan ==
  ~obj.exists /\ atlas.present /\ ~obj.keep /\ FreshReads
    => elsewhere \/ ~obj.recorded
=============================================================================
