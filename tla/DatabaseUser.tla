---------------------------- MODULE DatabaseUser ----------------------------
(***************************************************************************)
(* The handler of the DatabaseUser controller                              *)
(* (internal/generated/controller/databaseuser/handler_v20250312.go)       *)
(* inside the reconcile loop of StateReconciler.  What sets it apart: its  *)
(* password is in a Secret whose version enters the state tracker, its     *)
(* spec may carry a date after which the user is to go, and Creating and   *)
(* Updating wait for the clusters of the project, not for the user.        *)
(***************************************************************************)
EXTENDS StateHandler

VARIABLES
  user,     \* the user in Atlas, the generation and the password it was last
            \* sent, and whether the clusters have applied them
  secret,   \* versions of the Secret: on the server, in the cache, and in the
            \* hash of the handler in progress (0: hashed without it)
  group,    \* the Group the spec refers to is in the cache
  dates,    \* the generations whose spec has the deleteAfterDate
  elapsed   \* that date has passed

userVars == <<user, secret, group, dates, elapsed>>
allVars == <<handlerVars, userVars>>

NoUser == [present |-> FALSE, deleting |-> FALSE, applied |-> TRUE, spec |-> 0, password |-> 0]

Expired(o) == elapsed /\ o.gen \in dates

\* The tracker is a hash of the generation and the version of the Secret:
\* injective within the bounds of a run.
Tracker(o, version) == StateTracker(o) + (MaxOps + 2) * version

\* ShouldUpdate, with the Secret among the dependencies.
UpdateIsDue(o, version) ==
  ShouldUpdate([o EXCEPT !.tracker = IF @ = Tracker(o, version) THEN o.gen ELSE 0])

----------------------------------------------------------------------------
(* Atlas, the Secret, the Group and the clock.                             *)

AtlasApplies ==
  /\ user.present
  /\ ~user.applied \/ user.deleting
  /\ user' = IF user.deleting THEN NoUser ELSE [user EXCEPT !.applied = TRUE]
  /\ UNCHANGED <<handlerVars, secret, group, dates, elapsed>>

\* Atlas itself removes a user at its deleteAfterDate.
AtlasExpires ==
  /\ "expire" \in Ops
  /\ user.present
  /\ elapsed /\ user.spec \in dates
  /\ user' = NoUser
  /\ UNCHANGED <<handlerVars, secret, group, dates, elapsed>>

DateElapses ==
  /\ dates # {}
  /\ ~elapsed
  /\ elapsed' = TRUE
  /\ UNCHANGED <<handlerVars, user, secret, group, dates>>

Rotate ==
  /\ "rotate" \in Ops
  /\ Spend("ops")
  /\ secret' = [secret EXCEPT !.server = @ + 1]
  /\ UNCHANGED <<obj, envVars, rec, call, user, group, dates, elapsed>>

\* The watch on Secrets enqueues the users that name the Secret.
SecretSync ==
  /\ secret.cache # secret.server
  /\ secret' = [secret EXCEPT !.cache = secret.server]
  /\ queued' = (queued \/ cache.exists)
  /\ UNCHANGED <<obj, cache, rec, budget, handled, call, user, group, dates, elapsed>>

\* The Group object goes away; the users that name it are enqueued.
GroupVanishes ==
  /\ "group" \in Ops
  /\ group
  /\ group' = FALSE
  /\ queued' = (queued \/ cache.exists)
  /\ UNCHANGED <<obj, cache, rec, budget, handled, call, user, secret, dates, elapsed>>

\* A new generation may carry the date or not.
DatesFollow ==
  \/ dates' = dates
  \/ "date" \in Ops /\ obj'.gen > obj.gen /\ dates' = dates \cup {obj'.gen}

SendSpec(applies) ==
  /\ applies
  /\ user' = [present |-> TRUE, deleting |-> FALSE, applied |-> FALSE,
              spec |-> rec.snap.gen, password |-> secret.cache]

CreateInAtlas == SendSpec(~user.present)
UpdateInAtlas == SendSpec(user.present /\ ~user.deleting)

DeleteInAtlas ==
  /\ user.present
  /\ user' = [user EXCEPT !.deleting = TRUE]

\* The call fails, and if Atlas carried it out all the same nobody knows.
LostCall(effect, state) ==
  /\ Fault(state)
  /\ effect \/ UNCHANGED user

----------------------------------------------------------------------------
(* The handlers.                                                           *)

\* The dependencies a handler has read are the ones its tracker hashes.
Hashing(version) == secret' = [secret EXCEPT !.read = version]

\* Mutant: the patch reads the dependencies once more.
TrackerRehashes ==
  /\ "status" \notin call.todo
  /\ Patching("tracker", [obj EXCEPT !.tracker = Tracker(rec.snap, secret.cache)])

TrackerPatch ==
  /\ "status" \notin call.todo
  /\ Patching("tracker", [obj EXCEPT !.tracker = Tracker(rec.snap, secret.read)])

HandleInitial ==
  /\ Handling({"Initial"})
  /\ group
  /\ \/ /\ CreateInAtlas
        /\ Hashing(secret.cache)
        /\ Continue({"status", "tracker"}, "Creating", "Initial")
     \/ user.present /\ Fail("Initial") /\ UNCHANGED <<user, secret>>
     \/ LostCall(CreateInAtlas, "Initial") /\ UNCHANGED secret
  /\ UNCHANGED <<group, dates, elapsed>>

\* An import hashes no dependencies, so that the first reconcile after it
\* sends the spec.
HandleImportRequested ==
  /\ Handling({"ImportRequested"})
  /\ \/ /\ rec.snap.external = "full" /\ user.present
        /\ Hashing(0)
        /\ Continue({"status", "tracker"}, "Imported", "ImportRequested")
     \/ /\ rec.snap.external # "full" \/ ~user.present
        /\ Fail("ImportRequested")
        /\ UNCHANGED secret
     \/ rec.snap.external = "full" /\ Fault("ImportRequested") /\ UNCHANGED secret
  /\ UNCHANGED <<user, group, dates, elapsed>>

\* deploymentsReady asks the clusters, whether the user is there or not.
HandleUpserting(polled, settled) ==
  /\ Handling({polled})
  /\ group
  /\ \/ Reply(IF user.applied THEN settled ELSE polled)
     \/ Fault(polled)
  /\ UNCHANGED userVars

\* checkExpiry comes first in the handlers of the settled states.
HandleExpired ==
  /\ Handling(Settled)
  /\ Expired(rec.snap)
  /\ Reply("DeletionRequested")
  /\ UNCHANGED userVars

HandleUpserted ==
  LET current == Dispatch(rec.snap) IN
  /\ Handling(Settled)
  /\ ~Expired(rec.snap)
  /\ group
  /\ \/ /\ ReapplyBroken(rec.snap)
        /\ FailForGood(current)
        /\ UNCHANGED <<user, secret>>
     \/ /\ ~ReapplyBroken(rec.snap)
        /\ ~UpdateIsDue(rec.snap, secret.cache)
        /\ Reply(current)
        /\ UNCHANGED <<user, secret>>
     \/ /\ ~ReapplyBroken(rec.snap)
        /\ UpdateIsDue(rec.snap, secret.cache)
        /\ \/ /\ UpdateInAtlas
              /\ Hashing(secret.cache)
              /\ Continue({"status", "tracker"}, "Updating", current)
           \/ /\ ~user.present \/ user.deleting
              /\ Fail(current)
              /\ UNCHANGED <<user, secret>>
           \/ LostCall(UpdateInAtlas, current) /\ UNCHANGED secret
  /\ UNCHANGED <<group, dates, elapsed>>

\* Mutant: as for a FlexCluster, a deletion needs the Group.
IdentifiedByGroup == group

\* identityFromStatusOrDeps: the status, or else the Group, has the identity.
Identified == rec.snap.recorded \/ group

HandleDeletionRequested ==
  /\ Handling({"DeletionRequested"})
  /\ \/ rec.snap.keep /\ Reply("Deleted") /\ UNCHANGED user
     \/ /\ ~rec.snap.keep /\ Identified
        /\ \/ DeleteInAtlas /\ Reply("Deleting")
           \/ ~user.present /\ Reply("Deleted") /\ UNCHANGED user
           \/ LostCall(DeleteInAtlas, "DeletionRequested")
     \/ /\ ~rec.snap.keep /\ ~Identified
        /\ Fail("DeletionRequested")
        /\ UNCHANGED user
  /\ UNCHANGED <<secret, group, dates, elapsed>>

HandleDeleting ==
  /\ Handling({"Deleting"})
  /\ \/ Identified /\ Reply(IF user.present THEN "Deleting" ELSE "Deleted")
     \/ Identified /\ Fault("Deleting")
     \/ ~Identified /\ Fail("Deleting")
  /\ UNCHANGED userVars

\* getDependencies without the Group: the state stays what it was.
NoDependencies ==
  /\ Handling({"Initial", "Creating", "Updating"} \cup Settled)
  /\ ~group
  /\ Dispatch(rec.snap) \in Settled => ~Expired(rec.snap)
  /\ Fail(Dispatch(rec.snap))
  /\ UNCHANGED userVars

----------------------------------------------------------------------------
UserInit ==
  /\ ReconcilerInit
  /\ call = NoCall
  /\ user = [NoUser EXCEPT !.present = (obj.external # "none")]
  /\ secret = [server |-> 1, cache |-> 1, read |-> 0]
  /\ group = TRUE
  /\ dates \in IF "date" \in Ops THEN {{}, {1}} ELSE {{}}
  /\ elapsed = FALSE

UserHandler ==
  \/ (NoHandler \/ PatcherStatus \/ TrackerPatch \/ HandlerEnds) /\ UNCHANGED userVars
  \/ HandleInitial \/ HandleImportRequested
  \/ HandleUpserting("Creating", "Created") \/ HandleUpserting("Updating", "Updated")
  \/ HandleExpired \/ HandleUpserted
  \/ HandleDeletionRequested \/ HandleDeleting \/ NoDependencies

UserNext ==
  \/ Around /\ DatesFollow /\ UNCHANGED <<user, secret, group, elapsed>>
  \/ UserHandler
  \/ AtlasApplies \/ AtlasExpires \/ DateElapses
  \/ Rotate \/ SecretSync \/ GroupVanishes

UserSpec == UserInit /\ [][UserNext]_allVars

\* The watches, the worker and Atlas make progress, and the manager resyncs
\* its cache from time to time (SyncPeriod).
FairUserSpec ==
  /\ UserSpec
  /\ WF_allVars(Resync /\ UNCHANGED <<call, userVars>>)
  /\ WF_allVars(CacheSync /\ UNCHANGED <<call, userVars>>)
  /\ WF_allVars(SecretSync)
  /\ WF_allVars((Loop /\ UNCHANGED <<call, userVars>>) \/ UserHandler)
  /\ WF_allVars(AtlasApplies)

----------------------------------------------------------------------------
(* Properties.                                                             *)

UserTypeOK ==
  /\ TypeOK
  /\ call \in Calls
  /\ user \in [present : BOOLEAN, deleting : BOOLEAN, applied : BOOLEAN,
               spec : Nat, password : Nat]
  /\ secret \in [server : Nat, cache : Nat, read : Nat]
  /\ group \in BOOLEAN
  /\ dates \subseteq Generations
  /\ elapsed \in BOOLEAN

\* What Atlas was last sent is older than what the user asks for.
Behind == user.spec < obj.gen \/ user.password < secret.server

\* A settled user that is behind, in its spec or in its password, is due for
\* an update: neither an edit nor a rotation is hidden by the reconcile it
\* happens in.  (A lagging cache may send an older generation again.)
ChangesAreDetected ==
  FreshReads /\ obj.exists /\ obj.state \in Settled /\ user.present /\ Behind
    => UpdateIsDue(obj, secret.server)

\* Without a keep policy, deleting the resource deletes the user in Atlas,
\* recorded or not, as long as no reconcile reads a lagging cache.
DeletionReachesAtlas ==
  FreshReads /\ ~obj.exists /\ ~obj.keep => ~user.present \/ user.deleting \/ obj.external # "none"

\* A deletion under way, which needs the Group only for what was never
\* recorded.
Undeleted ==
  obj.exists /\ obj.deleting /\ Ours \in obj.fin /\ (group \/ obj.recorded)

\* An edit or a rotation Atlas does not have, unless the object is deleted,
\* the Group is gone, the user expired, Atlas refuses the create for ever
\* because an earlier one went unrecorded or the import for ever for a bad
\* annotation, the reapply period is broken, or its stamp failed (the empty
\* state).
Unsent ==
  /\ obj.exists /\ Behind
  /\ ~obj.deleting /\ group /\ ~elapsed
  /\ ~(obj.state = "Initial" /\ user.present)
  /\ obj.external # "partial" /\ obj.period # "invalid" /\ obj.state # ""

\* A resource that is not being deleted and whose date is taken away or moved
\* comes back to Atlas.
ExtendedUserReturns ==
  (obj.exists /\ ~Expired(obj))
    ~> user.present \/ Expired(obj) \/ obj.deleting
=============================================================================
