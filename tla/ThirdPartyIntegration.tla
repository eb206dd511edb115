----------------------- MODULE ThirdPartyIntegration -----------------------
(***************************************************************************)
(* The handler of AtlasThirdPartyIntegration                               *)
(* (internal/controller/atlasthirdpartyintegrations) inside the reconcile  *)
(* loop of StateReconciler.  There is no state tracker: the spec is        *)
(* compared with what Atlas answers, and the keys of the service, which    *)
(* Atlas does not answer, with a hash in an annotation of their Secret.    *)
(***************************************************************************)
EXTENDS StateHandler

VARIABLES
  integration, \* in Atlas: whether it is there, and the generation and the
               \* keys it was last sent
  secret,      \* the Secret on the server and in the cache: its version and
               \* the version the annotation hashes; and the one just read
  project,     \* the project and the credentials can be found
  abandoned    \* ghost: a deletion went through without a call to Atlas

integrationVars == <<integration, secret, project, abandoned>>
allVars == <<handlerVars, integrationVars>>

NoIntegration == [present |-> FALSE, spec |-> 0, keys |-> 0]
Copies == [value : Nat, hash : Nat]

Upserting == {"Initial", "Created", "Updated"}
Steps == {"status", "hash", "compare", "update"}

----------------------------------------------------------------------------
(* The object in the cache, Atlas, the Secret and the project.             *)

\* Mutant: the predicate on the generation is not registered.
ObjectTriggersOnPeriod(old, new) == new.exists /\ new.period # old.period

\* The predicates of this controller: a new generation or reapply period.
\* They drop the resyncs of the manager and the end of a pause.
ObjectTriggers(old, new) ==
  new.exists /\ (new.gen # old.gen \/ new.period # old.period)

\* CacheSync of the loop, with these predicates.
ObjectSync ==
  /\ cache # obj
  /\ cache' = obj
  /\ queued' = (queued \/ ObjectTriggers(cache, obj))
  /\ UNCHANGED <<obj, rec, budget, handled, call, integrationVars>>

\* Somebody deletes the integration in Atlas; what it was sent is known still.
Vanishes ==
  /\ "vanish" \in Ops
  /\ integration.present
  /\ Spend("ops")
  /\ integration' = [integration EXCEPT !.present = FALSE]
  /\ UNCHANGED <<obj, envVars, rec, call, secret, project, abandoned>>

Rotate ==
  /\ "rotate" \in Ops
  /\ Spend("ops")
  /\ secret' = [secret EXCEPT !.server.value = @ + 1]
  /\ UNCHANGED <<obj, envVars, rec, call, integration, project, abandoned>>

\* Another integration with the same Secret notes its hash.
SharerHashes ==
  /\ "refer" \in Ops
  /\ secret.server.hash # secret.server.value
  /\ secret' = [secret EXCEPT !.server.hash = secret.server.value]
  /\ UNCHANGED <<handlerVars, integration, project, abandoned>>

\* The watch on Secrets enqueues the integrations that name the Secret.
SecretSync ==
  /\ secret.cache # secret.server
  /\ secret' = [secret EXCEPT !.cache = secret.server]
  /\ queued' = (queued \/ cache.exists)
  /\ UNCHANGED <<obj, cache, rec, budget, handled, call, integration, project, abandoned>>

\* The AtlasProject goes away; the integrations that name it are enqueued.
ProjectGoes ==
  /\ "group" \in Ops
  /\ project
  /\ project' = FALSE
  /\ queued' = (queued \/ cache.exists)
  /\ UNCHANGED <<obj, cache, rec, budget, handled, call, integration, secret, abandoned>>

Send(keys) ==
  integration' = [present |-> TRUE, spec |-> rec.snap.gen, keys |-> keys]

\* Whether it was there or not, it is gone.
Delete == integration' = NoIntegration

\* The call fails, and if Atlas carried it out all the same nobody knows.
LostCall(effect, state) ==
  /\ Fault(state)
  /\ effect \/ UNCHANGED integration

----------------------------------------------------------------------------
(* Writing on the own object and on the Secret.                            *)

\* Another step of the handler in progress.
Step(kind) == rec.pc = "handler" /\ kind \in call.todo
Goes(todo) == call' = [call EXCEPT !.todo = todo] /\ UNCHANGED <<cache, queued, handled, budget>>

\* The patch of the id carries the whole snapshot, its resource version
\* included: it is refused when the object has moved on.
RecordId ==
  /\ Step("status")
  /\ \/ /\ obj = rec.snap
        /\ obj' = [obj EXCEPT !.recorded = TRUE]
        /\ rec' = [rec EXCEPT !.snap = obj']
        /\ Goes(call.todo \ {"status"})
     \/ obj # rec.snap /\ Fail(call.back)
     \/ Fault(call.back)
  /\ UNCHANGED integrationVars

Hashed(copy) == copy.hash = copy.value

\* secretChanged reads the Secret once more and notes its hash, in a patch
\* that is refused when the Secret has moved on; if there was anything to
\* note, these steps follow.
SecretChanged(noted, unchanged) ==
  \/ /\ Hashed(secret.cache)
     /\ Goes(unchanged)
     /\ UNCHANGED <<obj, rec, secret>>
  \/ /\ ~Hashed(secret.cache)
     /\ \/ /\ secret.cache = secret.server
           /\ secret' = [secret EXCEPT !.server.hash = secret.cache.value]
           /\ Goes(noted)
           /\ UNCHANGED <<obj, rec>>
        \/ secret.cache # secret.server /\ Fail(call.back) /\ UNCHANGED secret
        \/ Fault(call.back) /\ UNCHANGED secret

EnsureSecretHash ==
  /\ Step("hash")
  /\ "status" \notin call.todo
  /\ SecretChanged({}, {})
  /\ UNCHANGED <<integration, project, abandoned>>

----------------------------------------------------------------------------
(* The handlers.                                                           *)

\* No project or no credentials, or a read from Kubernetes or Atlas fails.
NoRequest ==
  /\ Handling(Upserting)
  /\ \/ ~project /\ Fail(Dispatch(rec.snap))
     \/ Fault(Dispatch(rec.snap))
  /\ UNCHANGED integrationVars

Create ==
  LET current == Dispatch(rec.snap) IN
  /\ Handling(Upserting)
  /\ project
  /\ ~integration.present
  /\ \/ Send(secret.cache.value) /\ Continue({"status", "hash"}, "Created", current)
     \/ LostCall(Send(secret.cache.value), current)
  /\ UNCHANGED <<secret, project, abandoned>>

\* The integration is in Atlas: the spec is compared with what Atlas has.
Find ==
  LET current == Dispatch(rec.snap) IN
  /\ Handling(Upserting)
  /\ project
  /\ integration.present
  /\ secret' = [secret EXCEPT !.read = secret.cache.value]
  /\ Continue(IF integration.spec = rec.snap.gen THEN {"compare"} ELSE {"compare", "update"},
              IF current = "Initial" THEN "Created" ELSE "Updated", current)
  /\ UNCHANGED <<integration, project, abandoned>>

Compare ==
  /\ Step("compare")
  /\ SecretChanged({"update"}, call.todo \ {"compare"})
  /\ UNCHANGED <<integration, project, abandoned>>

\* Without an id in the status, the one Atlas answers is taken; when the
\* update fails there is no answer, and the handler panics.
UpdateFails == IF rec.snap.recorded THEN Fail(call.back)
               ELSE Done(TRUE) /\ call' = NoCall /\ UNCHANGED <<obj, cache, handled, budget>>

UpdateFaults == IF rec.snap.recorded THEN Fault(call.back)
                ELSE GiveUp /\ call' = NoCall

Update ==
  /\ Step("update")
  /\ "compare" \notin call.todo
  /\ \/ /\ integration.present
        /\ Send(secret.read)
        /\ call' = [call EXCEPT !.todo = IF rec.snap.recorded THEN {} ELSE {"status"},
                                !.to = "Updated"]
        /\ UNCHANGED vars
     \/ ~integration.present /\ UpdateFails /\ UNCHANGED integration
     \/ UpdateFaults /\ UNCHANGED integration
     \/ UpdateFaults /\ integration.present /\ Send(secret.read)
  /\ UNCHANGED <<secret, project, abandoned>>

\* Mutant: what has no id in the status is left alone.
DeletionOnlyOfRecorded ==
  /\ Handling({"DeletionRequested"})
  /\ IF rec.snap.recorded /\ ~rec.snap.keep /\ project
     THEN Delete ELSE UNCHANGED integration
  /\ Reply("Deleted")
  /\ abandoned' = (abandoned \/ ~project)
  /\ UNCHANGED <<secret, project>>

\* A request that cannot be built means there is nothing to delete, for good
\* or for the moment; so does the deletion protection of the operator (keep).
HandleDeletionRequested ==
  /\ Handling({"DeletionRequested"})
  /\ \/ /\ \/ ~project /\ Reply("Deleted")
           \/ Answer("Deleted", "ok") /\ Spend("faults")
        /\ abandoned' = TRUE
        /\ UNCHANGED integration
     \/ /\ project /\ rec.snap.keep
        /\ Reply("Deleted")
        /\ UNCHANGED <<integration, abandoned>>
     \/ /\ project /\ ~rec.snap.keep
        /\ \/ Delete /\ Reply("Deleted")
           \/ LostCall(Delete, "DeletionRequested")
        /\ UNCHANGED abandoned
  /\ UNCHANGED <<secret, project>>

----------------------------------------------------------------------------
IntegrationInit ==
  /\ ReconcilerInit
  /\ call = NoCall
  /\ integration \in {NoIntegration, [NoIntegration EXCEPT !.present = TRUE]}
  /\ LET copy == [value |-> 1, hash |-> 0] IN
     secret = [server |-> copy, cache |-> copy, read |-> 0]
  /\ project = TRUE
  /\ abandoned = FALSE

IntegrationHandler ==
  \/ HandlerEnds /\ UNCHANGED integrationVars
  \/ RecordId \/ EnsureSecretHash
  \/ NoRequest \/ Create \/ Find \/ Compare \/ Update
  \/ HandleDeletionRequested

\* Resync stands for the events of the project and of the Secret: any change
\* of their resource version enqueues the integration.
IntegrationAround ==
  \/ (Resync \/ User \/ PeriodElapses \/ Loop) /\ UNCHANGED <<call, integrationVars>>
  \/ Crash /\ call' = NoCall /\ UNCHANGED integrationVars

IntegrationNext ==
  \/ IntegrationAround \/ ObjectSync
  \/ IntegrationHandler
  \/ Vanishes \/ Rotate \/ SharerHashes \/ SecretSync \/ ProjectGoes

\* The watches and the worker make progress; nothing obliges the project or
\* the Secret to change.
FairIntegrationSpec ==
  /\ IntegrationInit /\ [][IntegrationNext]_allVars
  /\ WF_allVars(ObjectSync)
  /\ WF_allVars(SecretSync)
  /\ WF_allVars((Loop /\ UNCHANGED <<call, integrationVars>>) \/ IntegrationHandler)

----------------------------------------------------------------------------
(* Properties.                                                             *)

IntegrationTypeOK ==
  /\ TypeOK
  /\ call \in [busy : BOOLEAN, todo : SUBSET Steps, to : States, back : States]
  /\ integration \in [present : BOOLEAN, spec : Nat, keys : Nat]
  /\ secret \in [server : Copies, cache : Copies, read : Nat]
  /\ project \in BOOLEAN
  /\ abandoned \in BOOLEAN

\* Only three of the states of the loop and a deletion have a handler; the
\* others end in a nil interface.
NeverPanics ==
  rec.pc = "handler" => Dispatch(rec.snap) \in Upserting \cup {"DeletionRequested"}

\* The integration outlives a resource that was handled only under deletion
\* protection, or when the deletion could not be prepared.
NoOrphan ==
  FreshReads /\ ~obj.exists /\ handled > 0 /\ integration.present => obj.keep \/ abandoned

\* A deletion under way: nothing in Atlas holds it up.
Undeleted == obj.exists /\ obj.deleting /\ Ours \in obj.fin

\* What the user asks for and Atlas was never sent: a spec, or keys whose
\* hash nobody has noted.
Wanted == obj.exists /\ ~obj.deleting /\ project
Unsent ==
  Wanted /\ \/ integration.spec < obj.gen
            \/ integration.keys < secret.server.value /\ secret.server.hash # secret.server.value

\* Keys that were rotated reach Atlas.
RotationReachesAtlas == []<>~(Wanted /\ integration.keys < secret.server.value)
=============================================================================
