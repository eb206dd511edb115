-------------------------- MODULE ConnectionSecret --------------------------
(***************************************************************************)
(* The ConnectionSecret controller                                         *)
(* (internal/generated/controller/connectionsecret): for one DatabaseUser  *)
(* it keeps a Secret with credentials for every cluster of the project.    *)
(* It is a reconciler of its own, outside the unified state machine.  The  *)
(* controllers of the user, of the clusters and of the Group are the       *)
(* environment, as far as this controller sees them: Ready conditions, the *)
(* ids in their status, and which changes its watches report.              *)
(***************************************************************************)
EXTENDS Naturals

CONSTANTS
  Targets,     \* the names of the clusters the project may have
  MaxOps,      \* bound on what users and other controllers do
  MaxFaults,   \* bound on failed calls
  Ops          \* which of these things they do: scope, rotate, expire, target,
               \* rename, group, drop, tamper

VARIABLES
  user,      \* the DatabaseUser: is it there, Ready, its scopes ({}: all),
             \* changed since it was last Ready, expired
  password,  \* the version in the password Secret
  project,   \* the Group has an id in its status; its name in Atlas
  targets,   \* cluster objects of the project: absent, pending or ready
  secrets,   \* the connection Secrets: their name (project and target) and
             \* the password in them
  cond,      \* the ConnectionSecretReady condition of the user
  queued,    \* the key is in the work queue, or a timer will put it there
  pass,      \* the reconcile in progress
  budget

inputs == <<user, password, project, targets>>

Users == [exists : BOOLEAN, ready : BOOLEAN, pending : BOOLEAN,
          expired : BOOLEAN, scopes : SUBSET Targets]
ProjectNames == {"old", "new"}
Secrets == [project : ProjectNames, target : Targets, password : Nat]

NewUser == [exists |-> TRUE, ready |-> FALSE, pending |-> FALSE,
            expired |-> FALSE, scopes |-> {}]

NewGroup == [known |-> TRUE, name |-> "old"]

Idle == [pc |-> "idle", snap |-> NewUser, listed |-> {}, ready |-> {},
         name |-> "old", todo |-> {}, target |-> "", password |-> 0, active |-> FALSE]

----------------------------------------------------------------------------
(* What the controller watches.                                            *)

Spend(kind) ==
  /\ budget[kind] > 0
  /\ budget' = [budget EXCEPT ![kind] = @ - 1]

\* An event maps to the user as long as there is one.
Enqueue == queued' = (queued \/ user.exists)

\* Mutant: no watch on clusters.
NotWatched == UNCHANGED queued

\* newConnectionTargetMapFunc: the users of the project of a cluster.
EnqueueForTarget == Enqueue

\* The spec of the user changes, and its own controller takes notice later.
EditScopes ==
  /\ "scope" \in Ops
  /\ \E scopes \in (SUBSET Targets) \ {user.scopes} :
       user' = [user EXCEPT !.scopes = scopes, !.pending = TRUE]
  /\ Enqueue
  /\ UNCHANGED <<password, project, targets, secrets>>

\* NewDatabaseUserBySecretMapFunc: the password Secret changes.
Rotate ==
  /\ "rotate" \in Ops
  /\ password' = password + 1
  /\ user' = [user EXCEPT !.pending = TRUE]
  /\ Enqueue
  /\ UNCHANGED <<project, targets, secrets>>

TargetChanges ==
  /\ "target" \in Ops
  /\ \E t \in Targets, phase \in {"absent", "pending", "ready"} :
       /\ targets[t] # phase
       /\ targets' = [targets EXCEPT ![t] = phase]
  /\ EnqueueForTarget
  /\ UNCHANGED <<user, password, project, secrets>>

\* Somebody deletes a connection Secret; the controller owns it.
Tamper ==
  /\ "tamper" \in Ops
  /\ \E s \in secrets : secrets' = secrets \ {s}
  /\ Enqueue
  /\ UNCHANGED inputs

\* The project gets another name, or the Group goes: nobody watches Groups.
Rename ==
  /\ "rename" \in Ops
  /\ project.name = "old"
  /\ project' = [project EXCEPT !.name = "new"]
  /\ UNCHANGED <<user, password, targets, secrets, queued>>

GroupGoes ==
  /\ "group" \in Ops
  /\ project.known
  /\ project' = [project EXCEPT !.known = FALSE]
  /\ UNCHANGED <<user, password, targets, secrets, queued>>

DropUser ==
  /\ "drop" \in Ops
  /\ user.exists
  /\ user' = [user EXCEPT !.exists = FALSE]
  /\ UNCHANGED <<password, project, targets, secrets, queued>>

Others ==
  /\ user.exists
  /\ Spend("ops")
  /\ \/ EditScopes \/ Rotate \/ TargetChanges \/ Tamper
     \/ Rename \/ GroupGoes \/ DropUser
  /\ UNCHANGED <<cond, pass>>

\* deleteAfterDate passes.
UserExpires ==
  /\ "expire" \in Ops
  /\ user.exists /\ ~user.expired
  /\ Spend("ops")
  /\ user' = [user EXCEPT !.expired = TRUE]
  /\ UNCHANGED <<password, project, targets, secrets, cond, queued, pass>>

\* The DatabaseUser controller notices a change or the date, and is done
\* with a change.  Conditions do not pass GenerationChangedPredicate.
UserUnsettles ==
  /\ user.exists /\ user.ready
  /\ user.pending \/ user.expired
  /\ user' = [user EXCEPT !.ready = FALSE]
  /\ UNCHANGED <<password, project, targets, secrets, cond, queued, pass, budget>>

UserSettles ==
  /\ user.exists /\ ~user.ready /\ ~user.expired
  /\ user' = [user EXCEPT !.ready = TRUE, !.pending = FALSE]
  /\ UNCHANGED <<password, project, targets, secrets, cond, queued, pass, budget>>

\* The garbage collector deletes what a user that is gone owned.
CollectGarbage ==
  /\ ~user.exists
  /\ secrets # {}
  /\ secrets' = {}
  /\ UNCHANGED <<inputs, cond, queued, pass, budget>>

----------------------------------------------------------------------------
(* The reconcile.                                                          *)

Done(again) ==
  /\ pass' = Idle
  /\ queued' = (queued \/ again)

\* An error: the condition says so, and the key comes back.
Failed ==
  /\ Done(TRUE)
  /\ cond' = "error"

\* A call to the API server or to Atlas fails on its way.
Fault == Spend("faults") /\ Failed /\ UNCHANGED <<inputs, secrets>>

\* reconcile: read the user, the id of its Group, and the clusters of that
\* project with their conditions.
Begin ==
  /\ pass.pc = "idle"
  /\ queued
  /\ UNCHANGED <<inputs, secrets, budget>>
  /\ \/ /\ user.exists /\ project.known
        /\ queued' = FALSE
        /\ pass' = [Idle EXCEPT !.pc = "cleanup", !.snap = user,
                                !.listed = {t \in Targets : targets[t] # "absent"},
                                !.ready = {t \in Targets : targets[t] = "ready"}]
        /\ UNCHANGED cond
     \/ /\ user.exists /\ ~project.known
        /\ Failed
     \/ /\ ~user.exists
        /\ queued' = FALSE
        /\ UNCHANGED <<pass, cond>>

\* checkAndDeleteStaleSecret: Secrets whose cluster is not listed, whatever
\* the name of the project in them.
Stale == {s \in secrets : s.target \notin pass.listed}

\* A deletion is an event of an owned Secret.
CleanupStaleSecrets ==
  /\ pass.pc = "cleanup"
  /\ \/ \E s \in Stale :
          /\ secrets' = secrets \ {s}
          /\ Enqueue
          /\ UNCHANGED <<inputs, cond, pass, budget>>
     \/ Stale # {} /\ Fault

\* Only a user that was Ready when it was read goes on; for any other the
\* controller comes back in ten seconds.
WhenUserIsReady ==
  /\ pass.pc = "cleanup"
  /\ Stale = {}
  /\ UNCHANGED <<inputs, secrets>>
  /\ \/ /\ ~pass.snap.ready
        /\ Done(TRUE)
        /\ UNCHANGED <<cond, budget>>
     \/ /\ pass.snap.ready
        /\ pass' = [pass EXCEPT !.pc = "batch", !.todo = pass.listed, !.name = project.name]
        /\ UNCHANGED <<cond, queued, budget>>
     \/ pass.snap.ready /\ pass.listed # {} /\ Fault

AllowsByScopes(u, t) == u.scopes = {} \/ t \in u.scopes

\* The Secret of this project name and target.
Named(t) == {s \in secrets : s.project = pass.name /\ s.target = t}

\* The date is the one of the snapshot, held against the clock.
Unwanted(t) == user.expired \/ ~AllowsByScopes(pass.snap, t)

\* handleBatchUpsert, one cluster: no Secret for an expired user or outside
\* the scopes, nothing while the cluster is not ready.
HandleTarget ==
  /\ pass.pc = "batch"
  /\ \E t \in pass.todo :
       LET left == [pass EXCEPT !.todo = @ \ {t}] IN
       \/ /\ Unwanted(t)
          /\ secrets' = secrets \ Named(t)
          /\ pass' = left
          /\ IF Named(t) = {} THEN UNCHANGED queued ELSE Enqueue
          /\ UNCHANGED <<inputs, cond, budget>>
       \/ /\ ~Unwanted(t) /\ t \notin pass.ready
          /\ pass' = left
          /\ UNCHANGED <<inputs, secrets, cond, queued, budget>>
       \/ /\ ~Unwanted(t) /\ t \in pass.ready
          /\ pass' = [left EXCEPT !.pc = "apply", !.target = t, !.password = password]
          /\ UNCHANGED <<inputs, secrets, cond, queued, budget>>
       \/ Fault

\* Mutant: a Secret that is there is taken for up to date.
SameDataByName(secret) == Named(secret.target) # {}

SameData(secret) == secret \in secrets

\* ensureSecret: apply it unless its data are the same.
EnsureSecret ==
  LET secret == [project |-> pass.name, target |-> pass.target, password |-> pass.password]
  IN
  /\ pass.pc = "apply"
  /\ \/ /\ pass' = [pass EXCEPT !.pc = "batch", !.active = TRUE]
        /\ IF SameData(secret)
           THEN UNCHANGED <<secrets, queued>>
           ELSE secrets' = (secrets \ Named(pass.target)) \cup {secret} /\ Enqueue
        /\ UNCHANGED <<inputs, cond, budget>>
     \/ Fault

\* The condition: without an active target it is empty, and the API server
\* may or may not put up with that.
SetCondition ==
  /\ pass.pc = "batch"
  /\ pass.todo = {}
  /\ UNCHANGED <<inputs, secrets>>
  /\ \/ user.exists /\ cond' = (IF pass.active THEN "ready" ELSE "empty")
        /\ Done(FALSE) /\ UNCHANGED budget
     \/ ~pass.active /\ cond # "empty" /\ Failed /\ UNCHANGED budget
     \/ ~user.exists /\ Failed /\ UNCHANGED budget
     \/ Fault

Reconcile ==
  \/ Begin \/ CleanupStaleSecrets \/ WhenUserIsReady
  \/ HandleTarget \/ EnsureSecret \/ SetCondition

----------------------------------------------------------------------------
SecretInit ==
  /\ user = NewUser
  /\ password = 1
  /\ project = NewGroup
  /\ targets \in [Targets -> {"absent", "ready"}]
  /\ secrets = {}
  /\ cond = "none"
  /\ queued = TRUE
  /\ pass = Idle
  /\ budget.ops = MaxOps /\ budget.faults = MaxFaults

SecretNext ==
  \/ Others \/ UserExpires \/ UserUnsettles \/ UserSettles \/ CollectGarbage
  \/ Reconcile

----------------------------------------------------------------------------
(* Properties.                                                             *)

SecretTypeOK ==
  /\ user \in Users
  /\ password \in Nat
  /\ project \in [known : BOOLEAN, name : ProjectNames]
  /\ targets \in [Targets -> {"absent", "pending", "ready"}]
  /\ secrets \in SUBSET Secrets
  /\ cond \in {"none", "ready", "empty", "error"}
  /\ queued \in BOOLEAN
  /\ pass.pc \in {"idle", "cleanup", "batch", "apply"}

\* When the controller has nothing to do for a user, its Secrets are right:
\* none for a cluster that is gone or, under the name last used, outside the
\* scopes, and the current password for every cluster that is ready.
QuiescentSecretsAreRight ==
  pass.pc = "idle" /\ ~queued /\ user.exists /\ project.known =>
    /\ \A s \in secrets :
         targets[s.target] # "absent"
         /\ (project.name = "old" => AllowsByScopes(user, s.target))
    /\ ~user.expired => \A t \in Targets : targets[t] = "ready" /\ AllowsByScopes(user, t) =>
         \E s \in secrets : s.target = t /\ s.password = password

\* Credentials for a cluster that is gone, or of a user that is gone, go too,
\* unless the Group went first.
Leftover == {s \in secrets : targets[s.target] = "absent" \/ ~user.exists}

\* Every cluster that is ready gets the password in use, and gets it again
\* after a rotation, unless the user or the Group goes first.
Outdated ==
  {t \in Targets :
     /\ targets[t] = "ready" /\ AllowsByScopes(user, t)
     /\ ~\E s \in secrets : s.target = t /\ s.password = password}

\* What must not last for ever.
SecretsBehind ==
  \/ Leftover # {} /\ (project.known \/ ~user.exists)
  \/ Outdated # {} /\ user.exists /\ ~user.expired /\ project.known
=============================================================================
