# TLA+ models of the Atlas Kubernetes operator

The operator keeps MongoDB Atlas in step with Kubernetes custom resources. A
user writes a `FlexCluster`, a `Group` (an Atlas project), a `DatabaseUser` and
so on; a controller per kind reads the object, calls the Atlas API, and writes
back a status with conditions. There are two generations of controllers. The newer
ones (*generated controllers*) share one reconcile loop (`pkg/controller/state`)
and have a handler per state; the older ones share helpers and have a workflow of
their own. These modules model the loop with five of its handlers, six
controllers outside it, and what connects them. TLC checks them on small instances
and TLAPS proves the main results for every value of the constants.

To check: `tlc -config X.cfg M` for each run below, `tlapm M.tla` for the
modules whose name ends in `Proofs`.

## The system

| Part | Source | State it keeps | Operations | Modelled |
|---|---|---|---|---|
| States and results | `pkg/state`, `pkg/result` | none (pure) | `NextState`, `Error`, `NewReadyCondition`, `getObservedGeneration` | `ResourceState` |
| Reconcile loop | `pkg/controller/state` | the State and Ready conditions, the annotations `state-tracker` and `reapply-timestamp` | `Reconcile`, `ReconcileState`, `reconcileReapply`, `ShouldUpdate`, `Patcher` | `StateReconciler`, `StateHandler` |
| Finalizers | `pkg/finalizer` | the finalizer list of the object | `EnsureFinalizers`, `UnsetFinalizers` | in `StateReconciler` |
| Event predicates | `internal/controller/watch` | none | `DefaultPredicates`, `DeprecatedCommonPredicates` | in `StateReconciler`, `ResourceReconciler`, `AtlasDatabaseUser` |
| Policy annotations | `internal/controller/customresource` | none | skip, keep | in `StateReconciler`, `ResourceReconciler`, the handlers |
| FlexCluster | `internal/generated/controller/flexcluster` | versioned status block; the cluster in Atlas | nine handlers, `patchStatus`, `getDependencies` | `FlexCluster` |
| Group | `internal/generated/controller/group` | project id in the status; the project in Atlas | nine handlers, `getDependents` | `Group` |
| Group with a FlexCluster in it | both | | the watch on Groups | `GroupAndFlex` |
| Cluster | `.../cluster` | as FlexCluster | nine handlers, `handleAtlasClusterState` | `Cluster` |
| DatabaseUser | `internal/generated/controller/databaseuser` | status block; the user in Atlas; password Secret; expiry date | nine handlers, `checkExpiry`, `deploymentsReady`, `identityFromStatusOrDeps` | `DatabaseUser` |
| AtlasThirdPartyIntegration | `internal/controller/atlasthirdpartyintegrations` | id in the status; the integration in Atlas; a hash in an annotation of the Secret | upsert, `secretChanged`, delete, unmanage | `ThirdPartyIntegration` |
| ConnectionSecret | `.../connectionsecret` | a Secret for each cluster of the user's project, a condition of the user | clean-up, batch upsert, `ensureSecret` | `ConnectionSecret` |
| Framework of the older controllers | `internal/controller/{customresource,workflow,statushandler,reconciler}` | the finalizer, the status | `PrepareResource`, `ManageFinalizer`, `Update`, `Skip` | `ResourceReconciler` |
| AtlasNetworkContainer, AtlasNetworkPeering | `internal/controller/atlasnetwork*` | id in the status; the thing in Atlas | create, sync, update, delete, unmanage | `NetworkContainer`, `NetworkPeering`, `Network` |
| AtlasIPAccessList | `.../atlasipaccesslist` | the list in Atlas | add, remove, watch | `IPAccessList` |
| AtlasPrivateEndpoint | `.../atlasprivateendpoint` | service id in the status; service and interfaces in Atlas | create, delete, watch, configure | `PrivateEndpoint` |
| AtlasDatabaseUser | `.../atlasdatabaseuser` | name and password version in the status; users in Atlas; connection Secrets | create, update, delete, rename, readiness | `AtlasDatabaseUser` |
| The other older controllers | `internal/controller/atlas*` | conditions, Atlas resources | one workflow per kind | not modelled |
| Wiring, translation, dry run, tools | `internal/operator`, `pkg/crapi`, `internal/dryrun`, `tools` | | | not modelled |

`PROJECT.json` lists every component with its status and the reason.

### How the parts interact

    user, other controllers            Atlas
           |                             ^
       API server <---- patches ----- handler  <-- dispatcher (spec version, credentials)
           |                             ^
       informer cache --> work queue --> Reconcile (one worker per key)
                 \---- reads ----------/

* The informer **cache** follows the API server with a delay. Its events pass the
  predicates, which let a change of generation or the end of `skip` through, and
  put the key in the **work queue**.
* The **reconcile** reads the object from the cache, ensures the finalizer,
  dispatches to the handler of the state found in the State condition, lets the
  handler call Atlas and patch the object, stamps the reapply annotation, and
  either takes the finalizer off or applies the conditions. Each of these is a
  call of its own: users, other controllers, Atlas and a restart come in between.
* Resources meet in two places: in Atlas (a project with clusters cannot be
  deleted) and in the cache (the handlers of a FlexCluster look its Group up, and
  an update of a Group enqueues its FlexClusters).

### What is hard

* Every decision of a reconcile is taken on a **snapshot**, which is old from the
  start (the cache lags) and which the responses of two patches of the same
  reconcile move forward.
* A reconcile writes in up to five places (finalizer, status block, tracker,
  stamp, conditions) and Atlas, without a transaction; it may **stop after any of
  them**, and the next one has only what was written.
* Work already under way is remembered in the **State condition alone**, and is
  resumed only if the answer of the handler asked for a requeue.
* The **generation** plays three parts: which events wake the controller, what the
  conditions claim to have observed, and (hashed into the tracker) whether the
  spec must be sent to Atlas again.
* Deletion is a **protocol** between the finalizer, Atlas and other resources.
* The older controllers set the finalizer and note the id **after** the create, and
  their status update is deferred and **may fail unseen**: the id and the finalizer
  are the only traces of what is in Atlas.
* An older DatabaseUser is **renamed** by creating one user and removing another; which
  one to remove is known from the status alone, to one reconcile only.
* ConnectionSecret reads four kinds of objects at different moments and is woken by
  some of their changes only.

For each component, what makes it correct:

* *reconcile loop*: no wakeup is lost; the conditions claim no generation that
  was not handled; finalizers of others survive; ours goes only at a deletion;
  every generation is eventually handled.
* *FlexCluster, Group*: nothing is created that a deletion could miss; nothing is
  created twice; what the resource says (settled, deleted) holds of Atlas; an
  edit is detected and sent; keep is respected; deletions and creations end; the
  states whose handlers panic are not reachable.
* *DatabaseUser, AtlasThirdPartyIntegration*: passwords and keys that are rotated reach
  Atlas as edits do; a deletion reaches it too.
* *Cluster*: what Atlas reports leads a live object into no state that takes it apart.
* *both together*: neither blocks the other for ever.
* *older controllers*: at rest Atlas has what the spec says; what is Ready is held by
  its finalizer; the finalizer goes after the thing in Atlas; deletions end. For a user:
  the password in use, in Atlas and in the connection Secret, and no user under an older
  name.
* *ConnectionSecret*: with nothing to do, exactly the clusters that are ready and in
  scope have a Secret with the current password, and no Secret stays behind.

## Modules

### `ResourceState`

The pure part. An object in any of its copies is one record: metadata (`exists`,
`gen`, `deleting`, `fin`), annotations (`skip`, `keep`, `external`, `period`,
`stamp`, `tracker`), status (`recorded` for the versioned status block; `state`,
`ogen` and `ready` for the conditions). `Dispatch` is the choice of a handler,
`Requeues` the switch of `result.NextState`, `ReadyReason` is `NewReadyCondition`,
`ObservedGeneration` is `getObservedGeneration`, `ShouldUpdate` is `ShouldUpdate`.

### `StateReconciler`

The reconcile loop for one object with an **arbitrary handler**: the abstract
specification that every generated controller implements.

| Model | Code |
|---|---|
| `obj` | the object on the API server |
| `cache` | the informer's copy |
| `queued` | the key is in the work queue or a timer will put it there |
| `rec.pc`, `rec.snap` | where `Reconcile` is, and the Go object it works on |
| `rec.next`, `rec.outcome` | the `ctrlstate.Result` and the error of the handler |
| `Start` | get from the cache, not found, skipped |
| `EnsureFinalizers` | `finalizer.EnsureFinalizers`; the response becomes the snapshot |
| `RejectState` | a state without a handler: zero result and an error |
| `HandlerWrites`, `HandlerReturns` | the `StateHandler` interface |
| `Reapply` | `reconcileReapply`, `PatchReapplyTimestamp` |
| `UnsetFinalizers` | the end of a deletion |
| `PatchStatus` | the forced apply of the conditions, and the requeue |
| `GiveUp`, `Crash` | a failed call, a restart |
| `handled` | ghost: the highest generation a handler was given |

The contract of the handler (`MayReturn`) is what the loop relies on: the states
of a deletion are answers to a deletion, and `Deleted` is not given with an error.
`FlexCluster` and `Group` are proved to keep it. `DatabaseUser` does not (finding 5), nor does
`Cluster`, whose polls may answer `Deleting` for a live object.

### `StateHandler`

What generated handlers share: the dispatcher by spec version, the answers of
`pkg/result`, and the `Patcher` (status first, then tracker, each of which may
fail). `call` is what is left of the handler in progress: a handler is a step that
decides and calls Atlas, one step per patch, and its return.

### `FlexCluster`

`atlas` is the cluster: present, its `stateName` (`phase`) and the generation whose
spec it was last sent (`spec`). `group` says that the Group can be looked up. One
action per handler; `Poll` is `patchStatus`, which `HandleCreating` and
`HandleUpdating` share; `HandleIdle` is `handleIdle` for the three settled states.
Atlas finishes what it was told (`AtlasFinishes`), or somebody deletes the cluster
there (`AtlasVanishes`). A lost call may have had its effect (`LostCall`).

### `Group`

`project` in Atlas, `occupied` when it holds clusters, `refs` for the objects that
refer to the Group. Creating and updating are synchronous, and the handlers for
Creating and Updating only panic: they are not actions, and `NeverPanics` says
that no reconcile gets there.

### `DatabaseUser`

`user` in Atlas (the generation and the password it was last sent, whether the
clusters of the project have applied them); `secret`, the version of the password
Secret on the server, in the cache and in the hash of the handler in progress;
`dates` and `elapsed`, which generations carry the `deleteAfterDate` and whether it
has passed. Here the tracker is a hash of generation and Secret version (`Tracker`).
Creating and Updating wait for the clusters and patch nothing; a deletion takes the
identity from the status or from the Group and does not ask whether the user was
recorded. `HandleExpired` stands for `checkExpiry` in the three settled handlers. It
takes it outside the contract of `StateReconciler`.

### `ThirdPartyIntegration`

An older resource in the new loop, without a tracker, and with predicates of its own:
`ObjectSync` is the watch of the loop with `ObjectTriggers`. `upsert` looks the integration up
and compares. `integration` is what Atlas was last sent (the spec, the `keys`) and
whether it is still there (`Vanishes` takes only the latter away), `secret`
the Secret on the server and in the cache, each with the version its annotation hashes,
and the version the handler has `read`. The handler is a chain of steps (`call.todo`):
create, note the id, note the hash; or find, compare and note the hash, update. Both
notes carry a resource version and are refused when their object has moved on
(`RecordId`, `SecretChanged`). `SharerHashes` is another integration that names the same
Secret. `abandoned` remembers that `HandleDeletionRequested` could not build its request
and took that for nothing to delete. An update that fails before the id is known
dereferences nil (`UpdateFails`, `UpdateFaults`): controller-runtime recovers the panic
and puts the key back.

### `ProjectResources`

`Group`, `DatabaseUser` and `ThirdPartyIntegration` side by side, one in a behaviour
(`kind`), each with the operations and bounds written at its INSTANCE. What is
instantiated is the module with the proofs of each, so that its theorems can be cited
with these constants; it adds no action.

### `GroupAndFlex`

One Group and one FlexCluster, two instances of the modules above. What connects
them is derived: the project is occupied when the cluster is present, the Group can
be looked up when it is in the cache, and `GroupSync` enqueues the FlexCluster.

### `Cluster`

Reuses the handlers of `FlexCluster` where the code is the same (`Flex!`). What
differs is `handleAtlasClusterState`: the answer of a poll is read off the `stateName`
(`StateInAtlas`), for a create, an update and a deletion alike. Atlas may also repair
an idle cluster, and somebody may delete it there (`elsewhere` remembers). An update
of a shared cluster, which Atlas refuses in a way the code takes for success, is the
last disjunct of `HandleUpserted`.

### `AtlasClusters`

`FlexCluster`, `Cluster` and `GroupAndFlex` side by side; a behaviour is one of the
three (`kind`). The module extends `Cluster`, whose instance `Flex` is the FlexCluster
alone. They share the framework, so that one run asks of all three whether deletions
and changes end. `SettledClusterIsThere` and `ClusterGoesToo` are `SettledHasCluster`
and `NoOrphan` of the Cluster.

### `ResourceReconciler`

What the older controllers share: prepare, handle, finalizer, status. `rec.fin`,
`rec.id`, `rec.ready` and `rec.again` are what the handler's answer makes of the
finalizer, of the id in the status, of the Ready condition and of the work queue
(`Answer`); `ManageFinalizer` and `UpdateStatus` carry it out, and each may fail.
`obj.id` is the id in the status, `obj.seen` the one in the cache: of all that may lag
it is the one that matters, since it decides between create and sync, delete and
unmanage. `Release` is the answer without an AtlasProject.

### `NetworkContainer`, `NetworkPeering`, `Network`

One action per transition of `transitions.go`/`transition.go`. A container is found by
id or by its CIDR block, a peering by id only; Atlas has one container in a region,
keeps it while a peering uses it, and creates and closes a peering in its own time.
`Network` puts the two together: `getContainer` needs the container's object, its id
and the container in Atlas, and every change of the container's object wakes the
peering.

### `IPAccessList`

`list` in Atlas, entry by entry; `wanted` in the spec, and `taken` what the reconcile
in progress read there. Additions come in one call, deletions one by one (`DeleteSome`
is a failure half way).

### `PrivateEndpoint`

`service` and, on it, `interfaces`. `handlePrivateEndpointInterface` creates and
deletes interfaces one call after the other, in the order of a Go map; a deletion asks
for all of them and then reads the service again (`watchDeletion`), with the panic
when it is gone by then.

### `AtlasDatabaseUser`

The spec is the name (one of two) and the scopes (`want`): all clusters, the followed
one, or another that is always there. `users` is what Atlas was last sent under each
name, `cluster` whether the followed cluster has applied it, `secrets` its connection
Secret per name. A reconcile is two steps in Atlas: `handleDatabaseUser` decides
(`dbuLifeCycle`), reads the password and sends; `SecondHalf` is what `create` does after
a rename (`removeOldUser`), or `readiness`, which reads the password again. In between the
Secret may be rotated. `noted` is the name and the password version in the status, the
only trace of a rename. Three things differ from the frame: the finalizer is set while
the user is in progress, a skipped object keeps its finalizer even when it is being
deleted (`SkipUser`), and, by `DeprecatedCommonPredicates`, a change of the finalizer
wakes the controller (`Finalize`).

### `ConnectionSecret`

`user`, `password`, `project` and `targets` are what the controller reads, `secrets`
what it writes, `pass` the reconcile in progress. The controllers of the user and of
the clusters are its environment: it sees their Ready conditions, and which changes
its watches report (`Enqueue`). The reads of the API server and of Atlas within a
reconcile are steps of their own where something may change in between.

### `OtherControllers`

The five systems outside the unified state machine side by side, one in a behaviour
(`system`): a container with its peering, a list, a private endpoint, an
AtlasDatabaseUser, the connection Secrets of a generated user.

### Composition and abstract specifications

    ResourceState <- StateReconciler <- StateHandler <- FlexCluster <--- Cluster <--\
                           ^                        <- Group <--- GroupAndFlex <--- AtlasClusters
                           ^                        <- Group, DatabaseUser,
                           ^                           ThirdPartyIntegration <--- ProjectResources
                           |                             |
              ReconcilerSpec is implemented by FlexSpec --/ (run FlexCluster, theorem
                                                             FlexImplementsReconciler)

    ResourceReconciler <- NetworkContainer <- Network <--\
                       <- NetworkPeering  <-/             OtherControllers
                       <- IPAccessList, PrivateEndpoint <-/
                       <- AtlasDatabaseUser            <-/
                          ConnectionSecret             <-/

The refinement mapping is the identity on the variables of the loop: `call`, `atlas`
and `group` are hidden. A handler's Atlas call is a stutter, each patch of the
Patcher is a `HandlerWrites`, and its return a `HandlerReturns`.

## Abstractions

* The cache jumps to the latest version of the object; intermediate versions are
  delivered together, as the informer's store has the last one when the key is
  processed. How long it lags is free.
* The work queue and the timers that feed it are one Boolean. Delays are not
  modelled: a retry comes at any time.
* One worker per key, which controller-runtime guarantees. An operator that crashed
  is replaced by one with a fresh cache; leader election is assumed to exclude two.
* The spec is abstracted to the generation it belongs to. The tracker stands for the
  hashed generation; Secrets and ConfigMaps, which also enter the hash, are not among
  the dependencies of a FlexCluster or a Group. For a DatabaseUser the hash is
  injective within the bounds.
* Objects are not created again under the same name, nobody forcibly removes the
  operator's finalizer, and the deletion policy is not changed once a deletion was
  requested.
* A server-side apply on an object that went away is a failure. (Between the status
  patch and the tracker patch of one Patcher call the real apply would create a bare
  object.)
* The state `Deleted` is never stored, so the branch of `Reconcile` for a skipped
  object in that state is left out.
* A JSON patch that replaces the finalizer list succeeds whether or not the list
  exists; the API server refuses new finalizers on an object being deleted.

## Runs

Bounds: `MaxOps` counts what users and other controllers do, `MaxFaults` failed
calls and restarts together, `MaxStale` the reconciles that read a lagging cache.
Polls, resyncs, retries and what Atlas does are unbounded. The generation is
bounded by `MaxOps + 1`. Two user operations suffice for an edit overtaken by an
edit, an edit with a deletion, a pause and its end; one failure puts a lost call
or a restart between any two steps.

| Run | What it shows |
|---|---|
| `StateReconciler` | The loop with an arbitrary handler: `QuiescentMeansHandled`, `ObservedGenerationWasHandled`, `ForeignFinalizerKept`, `FinalizerHeldUntilDeletion`, and the liveness property `GenerationIsHandled`. The handler's answers are cut to one of each kind (polled, settled, final), as the loop treats those of a kind alike. |
| `FlexCluster` | Two user operations, a failure, a stale read, a Group and a cluster that may vanish: `NoOrphan`, `SettledHasCluster`, `NeverCreatesTwice`, `CreateOnlyUnderFinalizer`, `KeepIsRespected`, and the refinement `ReconcilerSpec`. |
| `ProjectResources` | `ChangesAreDetected` (spec and password), `NoOrphan`, `NeverPanics`, `DeletionCompletes` and `ChangesReachAtlas` for a Group (two operations), a DatabaseUser (one besides the date it may be born with, since imports, the Group and the Secret multiply the states) and an integration (two), with a failure. No stale reads: see the exceptions below. |
| `AtlasClusters` | `DeletionCompletes` and `ChangeSettles` for the clusters, with edits, failures and vanishing things, and for a Group with a FlexCluster in it, where each may be deleted at any time; `LiveUntilDeleted`, `SettledClusterIsThere` and `ClusterGoesToo` of the Cluster. |
| `OtherControllers` | Two operations (edits, deletions, pauses, a project that goes, a thing that vanishes, scopes, rotations, renames, a date that passes) and one failure or lagging read, over two entries, two interfaces, two names of a user, or two clusters. An edit of a user changes its name or its scopes, so that two edits reach every spec: `AtRestMeansApplied`, `ReadyIsHeld`, `NoNetworkOrphan`, `HeldUntilGone`, `QuiescentSecretsAreRight`, `NothingStaysBehind`. Two clusters are the least at which a scope can exclude one; two interfaces the least at which they can differ. |
| `StateReconciler_honest` | violation, finding 4 |
| `FlexCluster_lost_update` | violation, finding 1 |
| `FlexCluster_orphan` | violation, finding 2 |
| `Group_dependents` | violation, finding 3 |
| `DatabaseUser_expiry` | violation, finding 5 |
| `OtherControllers_endpoint` | violation, finding 6 |
| `ThirdPartyIntegration_rotation` | violation, finding 7 |

Deadlock checking is off everywhere: once the object is gone and the operations
are used up the system rightly stops.

### Fairness

Weak fairness of the watch (`CacheSync`), of the worker (`Loop`, the handler) and
of Atlas (`AtlasFinishes`, `ProjectGone`, `Atlas`). controller-runtime
keeps a worker running for every queued key, informers deliver until they are
stopped, and Atlas finishes what it accepted. Nothing obliges users, the clock,
failures or restarts to happen, and resyncs only in `DatabaseUser`: an edit or a
rotation that lands in Creating or Updating is consumed by a poll that sends nothing,
the settled state asks for no requeue, and it is the resync of the manager
(`SyncPeriod`, three hours by default) that brings the key back, through the
`DefaultPredicates` that the generated controllers register. Without that fairness
`ChangesReachAtlas` is violated for a DatabaseUser. An integration gets no resync: its
own predicates (`GenerationChanged`, `AnnotationChanged`) and those of its watches
(`ResourceVersionChanged`) drop every event without a change, so that
`FairIntegrationSpec` has the watch of the object (`ObjectSync`), that of the Secret and the worker,
and nothing else; `Resync` there is an event of the project, or one more of the Secret, which may happen and
need not. In `AtlasClusters` and in `Network` each controller
has workers of its own, hence fairness of its own; where a behaviour has one system
only, the fairness of one actor is stated once for all systems, since only one of the
disjuncts is ever enabled. In `OtherControllers` that is `Worker` for the controllers and
`Environment` for Atlas, the caches, the controller of the user and the garbage
collector; the two controllers of the network have each their own (`Worker` holds the
container's, `PeeringLoop` the peering's). The watch of the Secrets' inputs is part of the
step that changes them. Interfaces of a private endpoint change with strong fairness: their end in
the middle of a reconcile is a race that costs a fault in the model, and so is not
enabled all the time. A deletion that fails is tried
again, so weak fairness is enough: the steps stay enabled.

### Exceptions in the properties

The liveness properties name the ways in which the code really gets stuck:

* **the empty state** (`obj.state = ""`): when the reapply stamp fails,
  `ReconcileState` returns the zero result, whose empty state is stored; no handler
  answers to it until the object is deleted.
* **`Initial` for ever**: a create whose answer was lost, or a reconcile that read a
  cache from before the create, ends in `Initial` with a cluster of that name in
  Atlas; each retry is refused.
* **a Group that is gone**: `getDependencies` fails, also during a deletion.
* **a container that is gone** (`Network`): a peering whose container was deleted first
  can never be deleted, as `getContainer` comes before everything. A peering named by
  the id of its spec, whose status never had it, is waited for and not deleted.
* **a private endpoint that nothing wakes**: `waitForConfiguration` does not retry, not
  even during a deletion; and two interfaces may alternate (finding 6).
* **scopes that are given up** (`AtlasDatabaseUser`): they name a cluster that is gone, or
  one look-up has failed. The answer asks for no retry, and the check comes before the
  deletion: the object stays until something else wakes it (`GaveUp`).
* **a rename left half done** (`AtlasDatabaseUser`): only the reconcile that has created
  the new user removes the old one. After a failure in it, a deletion right after the
  rename, or a rename onto a user that exists, the old user stays, and `NoOrphan` asks
  for a user under the name of the spec only. The same happens without any failure when a
  rename lands in the first reconcile: the patch of the finalizer refreshes the object,
  and the status notes the new name as the one that was created
  (`atlasdatabaseuser_controller.go:155`). Nothing in the repository says what then
  becomes of the old user; the model notes this case in `budget.lagged`.
* **a project that goes** (`AtlasDatabaseUser`): this controller does not watch it and
  retries in error, with the finalizer kept.
* **an older user that has expired**: it loses its finalizer while it may still be
  Ready, hence the exception in `ReadyIsHeld`.
* **a Group without an id** (`ConnectionSecret`): nothing is cleaned up any more.
* **an expired user** (`ConnectionSecret`): it is not Ready, so that the branch that
  deletes its Secrets is as good as unreachable; Atlas refuses its password anyway.
* **keys whose hash was noted** (`ThirdPartyIntegration`): finding 7. `ChangesReachAtlas`
  asks for keys only as long as nobody has noted them.
* **an integration that vanishes** (`ThirdPartyIntegration`): no event reports it and the
  resyncs are dropped, so that it is created again only when its object, its project or
  its Secret changes. `ChangesReachAtlas` asks that what the user wants is *sent*: an integration
  that somebody deletes in Atlas afterwards counts as sent, and its return is not claimed.
* **a deletion that cannot be prepared** (`ThirdPartyIntegration`): the project is gone,
  or a read failed once, which a comment in the code calls into doubt (`handler.go:53`); the
  integration stays in Atlas although nothing protects it (`abandoned`).
* **a broken reapply period**: `ShouldUpdate` fails with a terminal error, and edits
  wait until the annotation is mended.

`NoOrphan` and `NoNetworkOrphan` hold as long as no reconcile read a lagging cache; `ShouldUpdate`
compares with the generation of the *snapshot*, so that with a lagging cache an
older spec may be sent again, and then a reconcile with the newer one follows. A
container or peering whose id was never noted is not covered by `NoNetworkOrphan`: its
create comes before the finalizer.

## Findings

1. *FlexCluster forgets edits made while Atlas is busy.* `patchStatus` polls a
   creation or an update and, with the status, moves the tracker to the generation
   of its snapshot, whose spec it never sends. After an edit during CREATING the
   resource ends `Created`, `ShouldUpdate` is false, and the new spec is not sent
   (`flexcluster/handler_v20250312.go:283`).
2. *A create that is not recorded is not deleted.* The status block is the only
   trace of a create; without it `HandleDeletionRequested` takes the object for
   unmanaged (`flexcluster/handler_v20250312.go:141`).
3. *A Group does not wait for its dependents.* The generated `getDependents` is
   empty; the FlexCluster then waits for a Group that is gone
   (`group/dependencies_v20250312.go:36`).
4. *observedGeneration after a reapply.* The response of the stamp replaces the
   snapshot, so that the conditions claim an edit no handler has seen
   (`pkg/controller/state/reconciler.go:161`).

5. *An expired DatabaseUser does not come back.* Expiry answers `DeletionRequested`
   for an object that is not being deleted. The object stays, released, in a state of
   the deletion: moving the date brings the user back for the older
   `AtlasDatabaseUser`, not for this one
   (`databaseuser/handler_v20250312.go:150`).

6. *A private endpoint with two interfaces may never be deleted.* While the service
   waits for its interfaces to go, `deletePrivateEndpointService` goes on to
   `watchServiceState`, which creates again an interface that is gone and named in the
   spec (`atlasprivateendpoint/privateendpoint.go:89`). Unless both go between two
   polls, they take turns.

7. *Rotated keys of an integration may never be sent.* `populateIntegration` reads the
   Secret to send it, `secretChanged` reads it again to note its hash, before the update
   is sent, on the Secret itself. A rotation between the two reads is noted without
   being sent (`atlasthirdpartyintegrations/secret.go:43`); by the code the same goes for
   an update that fails and for a second integration that names the Secret.

## Proofs

Every theorem holds for every value of the constants that the modules' own assumptions
allow (bounds are naturals, sets are of the right kind), and for any number of
operations, failures and reconciles with a lagging cache. Three hypotheses are added
where a theorem needs them:

* `RoomForHandlers` (`Room` in the compositions): the arbitrary handler of the loop may
  answer with any state and make either write, and where a Group may vanish, which wakes
  its cluster, a resync may come. Without it the constants would forbid what the code
  does.
* `NoAnnotations` (`OnlyHandlersThatExist`): an integration carries neither an import nor
  a reapply annotation. Its kind has no handlers for them, as said below under "Not
  modelled".
* `"keep" \notin Ops` (`UserGoesWithObject`): nobody changes the deletion policy. It is
  needed: a user that expires under keep is let go, and if the policy is changed and the
  object deleted after that, the user stays.

Five kinds of modules, of which the first four build on each other.

* `StateReconcilerProofs`: the loop with an arbitrary handler that keeps the contract, and,
  from "Any handler at all" on, with one that keeps none (`AnyNext`): the handlers of
  DatabaseUser, integration and Cluster are outside the contract. Of the invariants of
  the loop those that mention no answer hold for any handler, and `DeletionKnown` holds
  for one that asks first (`AsksFirst`), which is then shown of each of them.
  Its last part says what the helpers of the handlers in `StateHandler` do (`Reply`,
  `Fail`, `Continue`, `Patching`, ...), once, for all of them.
* One module per controller: `FlexClusterProofs` and `GroupProofs` show the refinement of
  `ReconcilerSpec` and inherit the invariants of the loop; `ThirdPartyIntegrationProofs`,
  `DatabaseUserProofs` and the Cluster part of `AtlasClustersProofs` show that each step is
  one of `AnyNext`.
* `ProjectResourcesProofs` and `AtlasClustersProofs` carry the results over to the
  compositions that the runs check: a behaviour has one kind, and a step of the
  composition is a step, or none, of that kind.
* `OtherControllersProofs`, apart from the rest as its controllers are: first what each
  step of `ResourceReconciler` does to the frame of a reconcile (`FrameInv`, the lemmas
  `Frame...` for the object at hand, `CFrame...` for the container beside it), then one
  part for each of the five systems, with an invariant of its own (`ListInv`,
  `EndpointInv`, `NetworkInv`, `AccountInv`, `SecretInv`), and last their composition
  `OtherInv`. The theorems are about `OtherSpec`, the specification of the run without its
  fairness.

| Theorem | Argument |
|---|---|
| `ReconcilerTyped` | `TypeOK` is inductive. |
| `FinalizerIsHeld` | `UnsetFinalizers` needs `next = "Deleted"`, which by the contract only a deletion gets; the snapshot's `deleting` must imply the object's. Inductive: `DeletionKnown` (no copy knows of a deletion the server does not), with `TypeOK`. |
| `ForeignIsKept` | Every list that replaces the one on the server is computed from the snapshot; from the shape of the two finalizer patches. |
| `ObservedWasHandled` | Inductive: `GenerationsKnown` relates the generation of the snapshot, of `ogen` in every copy and of `handled`, at each point of the reconcile; the reapply stamp is what breaks it, hence the exception. |
| `NoWakeupIsLost` | Inductive: `NothingLost`: when cache and server agree and nothing is queued, the reconcile in progress has the latest generation or the object is skipped; when they differ, the event that will be delivered triggers. The case that needs thought is a patch of the reconcile itself, which changes the server without a trigger. |
| `FlexTyped`, `GroupTyped`, `IntegrationTypes`, `UserTypes` | The type invariants, with the shape of a handler in progress, are inductive. For the user one has to know how far the generations and the versions of the Secret can get (`GenerationsLeft`, `VersionsKnown`). |
| `FlexImplementsReconciler`, `GroupImplementsReconciler` | Initial states map to initial states. Each disjunct of the next-state relation is a step of `ReconcilerNext` or leaves the loop's variables alone. The invariant needed is that an answer still to be given (`call.to`, `call.back`) is within the contract. |
| `CreatesUnderFinalizer` | Inductive: `UnderFinalizer`, on `ReconcilerSpec`: with fresh reads, a snapshot past `EnsureFinalizers` has our finalizer, and the server's object has it too unless the deletion has been dealt with. Transferred to `FlexSpec` by the refinement. |
| `KeepRespected` | Inductive: `KeepKnown`: a copy of an object that is being deleted carries the deletion policy the server has, because nobody changes the policy any more. A deletion is sent only on behalf of such a copy (`DeletionKnown`), and only with a policy that is not keep. That the policy stays put once deletion is requested is a bound of the model (`ToggleKeep`). |
| `FlexClusterProofs!SettledMeansCluster` | Inductive: `HasCluster`: as long as no deletion is requested the cluster is not being deleted, and it is there when the object, the answer being carried out or the handler in progress says it is settled (`ClaimsSettled`). |
| `CreatesOnce` | Inductive: `CreatedKnown`: a cluster that is there was created by the handler in progress, or no copy that matters, and no answer to come, is in state Initial. |
| `FlexClusterProofs!NothingIsOrphaned` | Inductive: `OrphanInv`: a reconcile about to let the object go (`Released`), and an object that nothing holds (`Unheld`), abandon only what was never recorded; a cluster that is not recorded was created by the handler in progress, if nothing has failed (`Recorded`); a snapshot knows what was recorded until the handler decides (`Copied`). |
| `HandlersNeverPanic` | Inductive: every copy of a Group that is settled or in Deleting has its id, and none is in Creating or Updating (`SoundCopies`); so is every state about to be written (`SoundAnswers`). |
| `GroupProofs!NothingIsOrphaned` | As for FlexCluster, with the project. |
| `EditsAreDetected` | Inductive: `SentInv`: what the tracker says, or a patch under way will make it say, is not newer than what the project was sent (`Sent`); for that a snapshot must not be older than the tracker (`SnapshotAhead`), and a request of deletion is a new generation (`AgesKnown`, `TrackerBehind`). |
| `OnlyHandlersThatExist` | Inductive: every copy of the object, and every answer, is in a state with a handler (`HandledCopies`). |
| `ThirdPartyIntegrationProofs!NothingIsOrphaned` | `Released` and `Unheld` again, with the remembered abandonment; an object that was handled has the finalizer until its deletion is asked for (`HandledHeld`). |
| `UpdatesAreDetected` | As `EditsAreDetected`, for a tracker that is a hash of generation and version: `Ahead` says that it names no generation or version still to come. That two of them never hash alike (`HashesDiffer`) is proved of the model's hash; of the code's it is an assumption. |
| `UserGoesWithObject` | `Released` and `Unheld`, for a deletion that may be answered before it was asked for: the policy is the same in all copies (`KeepSame`). |
| `LiveClusterStays` | Inductive: `CarefulInv`: as long as nobody else has deleted the cluster, the invariants of the loop hold although the handlers answer with what Atlas says, because a cluster whose object is not being deleted is not in phase DELETING (`HasCluster`), so that no poll answers Deleting; an answer under way is one of a deletion only after it was requested (`Asks`). The three are inductive together only. |
| `AtlasClustersProofs!SettledMeansCluster` | From `HasCluster`; the answer of a poll was read when the cluster was idle, and it stays so until the answer is written. |
| `NoClusterIsOrphaned` | Inductive: `OrphanParts`: a poll in state Deleting answers Deleted when it finds the cluster idle, so that a cluster must be gone, or going, as soon as any copy or answer says Deleting (`Doomed`); for that, a snapshot must be in the state of the object until the handler decides (`SameState`). Then `Released` and `Unheld` as before. |
| `ResourcesTyped`, `ChangesDetected`, `NoneIsOrphaned`, `NonePanics` | From the theorems of the three kinds, whose assumptions on the constants hold at the INSTANCEs. |
| `OtherControllersTyped` | A part of `OtherInv`, which is inductive: what a system's invariant needs of the frame is `FrameInv`: a reconcile knows the finalizer and the policy as they are (`Follows`), goes back on the finalizer of what it calls Ready for no reason but a deletion or a missing project (`Held`), and, as long as nobody has done anything that the watch reports (`Calm`), works on the spec of now (`UpToDate`). |
| `RestMeansApplied` | For container, peering, list and endpoint inductive with `FrameInv`: `Settled`: while it is `Calm`, a reconcile that will not come back has brought Atlas to the spec and is about to set the finalizer, or has set it. What users do is not calm, and what Atlas does by itself (`AtlasFinishes`, a phase that changes, an entry that expires, a vanished peering) undoes nothing that is `Applied`. For a user `AccountSettled`, which needs more: that nothing but the spec at hand was sent under its generation, and that the password that is noted, or about to be, is the one that was sent (`AccountSent`); that what a reconcile takes for the status is the status (`AccountRead`); that a reconcile in its second half has sent, or found, the spec and the password of now (`AccountWatch`); and that, if nothing has failed, only the names the status knows of exist (`AccountClean`). |
| `ReadyHeld` | From `Held`, for the two objects of the network and the one of a list or an endpoint; the systems not at hand have no object that is Ready. |
| `NetworkGoesFirst` | Inductive: `PeerNoted` and `ContainerNoted`: with a cache that does not lag an id in the status comes with the finalizer, so that such an object goes by a patch of its reconcile only; and a reconcile about to take the finalizer off has a policy of keep, knows of no id, or has seen the container, or peering, gone, and nothing brings it back (last conjuncts of `PeerInv` and `ContainerInv`). For a peering that its spec names and its status does not it takes that no update was sent (`PeerNoted`). |
| `FinalizersGoLast` | List and endpoint: a reconcile about to take the finalizer off has emptied the list, or found the service gone, and neither comes back on its own (last conjuncts of `ListInv` and `EndpointInv`). User: `AccountHeld`: a name in the status comes with the finalizer, unless the user has expired, and the patch that takes the finalizer off reads the name of the spec again, so that it has to be shown that a deletion leaves no other one (`AccountRead`). |
| `QuietSecretsAreRight` | Inductive: `SecretInv`: in a reconcile that nothing disturbs, what was listed is what there is (`Informed`), no Secret of a cluster that is gone is left after the clean-up (`Tidy`), every cluster that is done with has the Secret it should have (`Handled`, `Right`), and the one at hand gets the password of now (`Applying`). Before the first rename no Secret has another project's name (`NamesKnown`). |
| `ClustersTyped` | From the shapes of the three kinds; what the Group does to the FlexCluster in it is to wake it and to let a create fail, and both keep the shape (`WokenStep`, `RejectedStep`). |

The proof of `NetworkGoesFirst` changed the property it proves. `NoOrphan` of `Network` said
of a state that an object that is gone was kept, was skipped, or is gone in Atlas, which
holds with the two operations of the run and fails with three: a reconcile reads a deleted
object as skipped, the annotation is taken off, and only then the reconcile lets the object
go (`customresource.ReconciliationShouldBeSkipped` is asked once, of the copy read at the
start). It is now a property of the step, and excepts the reconcile that has read a skip,
as `NoOrphan` of `IPAccessList` and `PrivateEndpoint` do.

Model-checked only: the liveness properties (`GenerationIsHandled`, `DeletionCompletes`,
`ChangesReachAtlas`, `ChangeSettles`, `NothingStaysBehind`), because fairness and `ENABLED`
are beyond the prover. Every invariant and every action property that a passing run
checks is proved.

## Not modelled

* *A service or a project that vanishes* under a private endpoint or a list, and two
  lists for one project, which undo each other.
* *AtlasProject, AtlasDeployment* and the other older controllers:
  workflows with many sub-resources, most of them a comparison and a call.
* *AtlasOrgSettings*: it runs in the loop of `StateReconciler`, and what that run shows
  of an arbitrary handler holds for it.
* *The resource-version label, a date that does not parse and a password Secret that is
  missing* of an AtlasDatabaseUser: each ends the reconcile before anything is sent.
* *The reapply period and import annotations of an AtlasThirdPartyIntegration*: an import
  annotation leads to a handler it does not have.
* *Skips of an AtlasThirdPartyIntegration*: its predicates do not report the end of one, and the
  resyncs that would make up for it are dropped, so that an edit made during a pause waits
  for the next event, although `docs/annotations.md:26` says that the resource is synced "as
  soon as this annotation is removed".
* *The id of the Group in `GroupAndFlex`*: the FlexCluster can look the Group up as soon as
  its object exists, while the code also waits for the id in its status, which costs it a few more retries.
* *The type of the cluster and the name of the user in the name of a connection Secret*, of which there
  is one user and one kind each, and the reindexing of `ConnectionSecret` after a restart.
* CRD translation, indexers, API types, wiring and tools, which keep no state, and the
  rate limiter, which only chooses delays.

## Plan

1. `AtlasDeployment`, on `ResourceReconciler`.
2. `AtlasProject` with its sub-resources, and the dry run.
