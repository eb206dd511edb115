---------------------------- MODULE GroupAndFlex ----------------------------
(***************************************************************************)
(* A Group and a FlexCluster in it: two reconcilers that share nothing but *)
(* Atlas, where a project with a cluster in it cannot be deleted, and the  *)
(* cache, in which the handlers of the FlexCluster look the Group up and   *)
(* whose updates of the Group enqueue the FlexCluster.                     *)
(***************************************************************************)
EXTENDS Naturals

CONSTANTS MaxOps, MaxFaults, Ops, Answers, Writes, MaxStale, Externals, Periods,
          GroupPolicies, FlexPolicies

VARIABLES
  gobj, gcache, gqueued, grec, gbudget, ghandled, gcall, project,
  fobj, fcache, fqueued, frec, fbudget, fhandled, fcall, cluster

gvars == <<gobj, gcache, gqueued, grec, gbudget, ghandled, gcall, project>>
fvars == <<fobj, fcache, fqueued, frec, fbudget, fhandled, fcall, cluster>>

\* The Group sees the FlexCluster in its references and in Atlas.
refs == IF fcache.exists THEN {"FlexCluster"} ELSE {}
occupied == cluster.present

G == INSTANCE Group WITH Policies <- GroupPolicies,
       obj <- gobj, cache <- gcache, queued <- gqueued, rec <- grec,
       budget <- gbudget, handled <- ghandled, call <- gcall

\* The FlexCluster sees the Group in the cache.
F == INSTANCE FlexClusterProofs WITH Policies <- FlexPolicies,
       obj <- fobj, cache <- fcache, queued <- fqueued, rec <- frec,
       budget <- fbudget, handled <- fhandled, call <- fcall,
       atlas <- cluster, group <- gcache.exists

GroupAndFlexInit ==
  /\ G!ReconcilerInit
  /\ F!ReconcilerInit
  /\ project = G!NoProject
  /\ cluster = F!NoCluster
  /\ gcall = G!NoCall
  /\ fcall = F!NoCall

\* The watch of the Group delivers it to both controllers.
GroupSync ==
  /\ G!CacheSync
  /\ fqueued' = (fqueued \/ fcache.exists)
  /\ UNCHANGED <<gcall, project>>
  /\ UNCHANGED <<fobj, fcache, frec, fbudget, fhandled, fcall, cluster>>

ProjectReady == project.present /\ ~project.deleting

\* Without a project there is nothing to create a cluster in.
CreateRejected ==
  /\ F!Handling({"Initial"})
  /\ gcache.exists
  /\ ~ProjectReady
  /\ F!Fail("Initial")
  /\ UNCHANGED cluster

GroupUser    == UNCHANGED <<fvars, gcall, project>> /\ G!User
GroupLoop    == UNCHANGED <<fvars, gcall, project>> /\ G!Loop
GroupHandles == UNCHANGED fvars /\ G!GroupHandler
ProjectGone  == UNCHANGED fvars /\ G!ProjectGone

FlexUser  == UNCHANGED <<gvars, fcall, cluster>> /\ F!User
FlexSync  == UNCHANGED <<gvars, fcall, cluster>> /\ F!CacheSync
FlexLoop  == UNCHANGED <<gvars, fcall, cluster>> /\ F!Loop
AtlasDone == UNCHANGED gvars /\ F!AtlasFinishes

FlexHandles ==
  /\ UNCHANGED gvars
  /\ \/ F!FlexHandler /\ (cluster'.present => cluster.present \/ ProjectReady)
     \/ CreateRejected

GroupAndFlexNext ==
  \/ GroupSync \/ GroupUser \/ GroupLoop \/ GroupHandles \/ ProjectGone
  \/ FlexSync \/ FlexUser \/ FlexLoop \/ FlexHandles \/ AtlasDone

allVars == <<gvars, fvars>>

----------------------------------------------------------------------------
(* Properties.                                                             *)

\* A deletion that is not done although nothing holds it up: a FlexCluster may
\* wait for ever when its Group goes too, a Group waits for the cluster in its
\* project.
Undeleted ==
  \/ fobj.exists /\ fobj.deleting /\ ~gobj.deleting
  \/ gobj.exists /\ gobj.deleting /\ ~cluster.present
=============================================================================
