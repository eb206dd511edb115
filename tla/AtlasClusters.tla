--------------------------- MODULE AtlasClusters ---------------------------
(***************************************************************************)
(* The controllers of clusters, side by side: FlexCluster, Cluster, and a  *)
(* FlexCluster with the controller of its Group.  A behaviour is one of    *)
(* the three; in the first two the Group is no more than there or gone.    *)
(***************************************************************************)
EXTENDS Cluster

VARIABLES
  kind,
  gobj, gcache, gqueued, grec, gbudget, ghandled, gcall, project   \* the Group

G == INSTANCE GroupAndFlex WITH
       fobj <- obj, fcache <- cache, fqueued <- queued, frec <- rec, fbudget <- budget,
       fhandled <- handled, fcall <- call, cluster <- atlas,
       MaxOps <- 1, MaxFaults <- 0, MaxStale <- 0, Ops <- {"delete"},
       Externals <- {"none"}, GroupPolicies <- {TRUE, FALSE}, FlexPolicies <- Policies

groupVars == <<gobj, gcache, gqueued, grec, gbudget, ghandled, gcall, project>>
allVars == <<handlerVars, clusterVars, groupVars, kind>>

ClustersInit ==
  /\ kind \in {"FlexCluster", "Cluster", "Group"}
  /\ elsewhere = FALSE
  /\ IF kind = "Group"
     THEN G!GroupAndFlexInit /\ group = TRUE
     ELSE /\ Flex!FlexInit
          /\ gobj = obj /\ gcache = cache /\ gqueued = queued /\ grec = rec
          /\ gbudget = budget /\ ghandled = handled /\ gcall = call
          /\ project = G!G!NoProject

AsFlexCluster(step) == kind = "FlexCluster" /\ step /\ UNCHANGED <<elsewhere, groupVars, kind>>
AsCluster(step) == kind = "Cluster" /\ step /\ UNCHANGED <<groupVars, kind>>
Grouped(step) == kind = "Group" /\ step /\ UNCHANGED <<group, elsewhere, kind>>

ClustersNext ==
  AsFlexCluster(Flex!FlexNext) \/ AsCluster(ClusterNext) \/ Grouped(G!GroupAndFlexNext)

\* What the framework does for one of the first two alone.
Alone(step) == kind # "Group" /\ step /\ UNCHANGED <<call, clusterVars, groupVars, kind>>

Sync == Alone(CacheSync) \/ Grouped(G!FlexSync)

\* The loop and the handler of one worker are never enabled together.
Worker ==
  \/ Alone(Loop)
  \/ AsFlexCluster(Flex!FlexHandler) \/ AsCluster(ClusterHandler)
  \/ Grouped(G!FlexLoop \/ G!FlexHandles)

Atlas ==
  \/ kind # "Group" /\ AtlasSide /\ UNCHANGED <<groupVars, kind>>
  \/ Grouped(G!AtlasDone)

GroupWorker == Grouped(G!GroupLoop \/ G!GroupHandles)

\* The watches, the workers and Atlas make progress.
FairClustersSpec ==
  /\ ClustersInit /\ [][ClustersNext]_allVars
  /\ WF_allVars(Sync) /\ WF_allVars(Worker) /\ WF_allVars(Atlas)
  /\ WF_allVars(Grouped(G!GroupSync)) /\ WF_allVars(GroupWorker)
  /\ WF_allVars(Grouped(G!ProjectGone))

----------------------------------------------------------------------------
(* Properties.                                                             *)

\* The state of either resource stays in its bounds.
ClustersTypeOK == IF kind = "Cluster" THEN ClusterTypeOK ELSE Flex!FlexTypeOK

\* A deletion that is not done although nothing holds it up: it may wait for
\* its user (skip) or for ever when its Group is gone.
Undeleted ==
  IF kind = "Group" THEN G!Undeleted
  ELSE obj.exists /\ obj.deleting /\ Ours \in obj.fin /\ ~obj.skip /\ group

\* No deletion that nothing holds up goes on for ever.
DeletionCompletes == []<>~Undeleted

\* What is being created, updated or repaired settles, unless the resource is
\* deleted or paused, its Group or its cluster goes, or the stamp of the reapply
\* fails (the empty state).
ChangeSettles ==
  (kind # "Group" /\ obj.exists /\ obj.state \in {"Creating", "Updating"})
    ~> \/ obj.state \in Settled \cup {""}
       \/ obj.deleting \/ obj.skip \/ ~group \/ ~atlas.present \/ elsewhere

\* As long as nobody else deletes it in Atlas, a live Cluster keeps its
\* finalizer and its cluster.
LiveUntilDeleted == [][kind = "Cluster" => LetsLive]_allVars

\* A settled Cluster has a cluster in Atlas that is neither being created
\* nor deleted, unless somebody else deleted it.
SettledClusterIsThere == kind = "Cluster" => SettledHasCluster

\* No cluster outlives its Cluster, unless the policy was to keep it or the
\* operator had never recorded that it manages one.
ClusterGoesToo == kind = "Cluster" => NoOrphan
=============================================================================
