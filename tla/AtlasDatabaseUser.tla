------------------------- MODULE AtlasDatabaseUser -------------------------
(***************************************************************************)
(* The AtlasDatabaseUser controller                                        *)
(* (internal/controller/atlasdatabaseuser): a user of a project under one  *)
(* of two names, the Secret with its password, and the connection Secret   *)
(* for one cluster; a second cluster, always there and up to date, only    *)
(* matters to the scopes.  The id of the status is here the user name and  *)
(* the version of the password Secret.                                     *)
(***************************************************************************)
EXTENDS ResourceReconciler

VARIABLES
  want,      \* in the spec: the name, and the scopes: all, this or other
  noted,     \* in the status
  taken,     \* what the reconcile has read, and what it still has to do
  password,  \* the version of the password Secret
  expired,   \* the last generation whose deleteAfterDate has passed
  users,     \* in Atlas, by name: the spec and password they were given
  cluster,   \* none, pending (changes of users not applied yet) or applied
  secrets    \* the version of the password in the connection Secrets, by name

specVars == <<want, password, expired>>
atlasVars == <<users, cluster>>
dbUserVars == <<specVars, noted, taken, atlasVars, secrets>>

UserNames == {1, 2}
Specs == [name : UserNames, scopes : {"all", "this", "other"}]
NoUser == [gen |-> 0, pass |-> 0]
Nothing == [name |-> 0, pass |-> 0]
NothingTaken ==
  [name |-> 1, scopes |-> "all", was |-> Nothing, version |-> 0, todo |-> "none"]

Exists(n) == users[n] # NoUser
InScope == taken.scopes # "other"
SnapExpired == rec.snap.gen <= expired
Renamed == taken.was.name \notin {0, taken.name}

----------------------------------------------------------------------------
(* The reconcile.                                                          *)

Then(todo) ==
  /\ rec' = [rec EXCEPT !.pc = "watch"]
  /\ taken' = [taken EXCEPT !.version = password, !.todo = todo]

inProgress == Answer("set", "record", FALSE, TRUE)
ready      == Answer("set", "record", TRUE, FALSE)
terminate  == Answer("leave", "leave", FALSE, TRUE)

\* With retry = false: nothing brings the key back.
giveUp == Answer("leave", "leave", FALSE, FALSE)

SecretsWithout(n) == [secrets EXCEPT ![n] = 0]

\* The connection Secrets of the name in the spec go, then the finalizer.
unmanage ==
  \/ /\ secrets' = SecretsWithout(taken.name)
     /\ Answer("unset", "leave", FALSE, FALSE)
     /\ UNCHANGED budget
  \/ Spend("faults") /\ terminate /\ UNCHANGED secrets

\* Atlas passes the change on to the clusters.
Send ==
  /\ users' = [users EXCEPT ![taken.name] = [gen |-> rec.snap.gen, pass |-> password]]
  /\ cluster' = IF cluster = "applied" THEN "pending" ELSE cluster

SendFails ==
  /\ Spend("faults")
  /\ terminate
  /\ Send \/ UNCHANGED atlasVars
  /\ UNCHANGED taken

create ==
  /\ ~Exists(taken.name) /\ ~rec.snap.deleting
  /\ UNCHANGED secrets
  /\ \/ /\ Send
        /\ UNCHANGED budget
        /\ IF Renamed
           THEN Then("rename")
           ELSE inProgress /\ taken' = [taken EXCEPT !.version = password]
     \/ SendFails

\* hasChanged: the spec in Atlas is another one, or the version of the Secret
\* is not the one in the status.
hasChanged ==
  users[taken.name].gen # rec.snap.gen \/ taken.was.pass # password

update ==
  /\ Exists(taken.name) /\ ~rec.snap.deleting
  /\ UNCHANGED secrets
  /\ \/ /\ hasChanged
        /\ Send
        /\ inProgress
        /\ taken' = [taken EXCEPT !.version = password]
        /\ UNCHANGED budget
     \/ hasChanged /\ SendFails
     \/ ~hasChanged /\ Then("readiness") /\ UNCHANGED <<atlasVars, budget>>

delete ==
  /\ Exists(taken.name) /\ rec.snap.deleting
  /\ UNCHANGED <<taken, cluster>>
  /\ LET gone == [users EXCEPT ![taken.name] = NoUser]
     IN  \/ rec.snap.keep /\ unmanage /\ UNCHANGED users
         \/ ~rec.snap.keep /\ users' = gone /\ unmanage
         \/ /\ ~rec.snap.keep
            /\ Spend("faults") /\ terminate /\ users' \in {users, gone} /\ UNCHANGED secrets

\* dbuLifeCycle: an expired user is let go, a user whose scopes name no
\* cluster, or cannot be checked, is given up: also one that is being deleted.
dbuLifeCycle ==
  LET released == SnapExpired \/ (rec.snap.deleting /\ ~Exists(taken.name))
      invalid == taken.scopes = "this" /\ cluster = "none"
  IN
  \/ /\ ~SnapExpired
     /\ IF invalid THEN UNCHANGED budget ELSE taken.scopes # "all" /\ Spend("faults")
     /\ giveUp
     /\ UNCHANGED <<taken, atlasVars, secrets>>
  \/ /\ released /\ (invalid => SnapExpired)
     /\ unmanage
     /\ UNCHANGED <<taken, atlasVars>>
  \/ /\ ~released /\ ~invalid
     /\ create \/ update \/ delete

\* Without its project, or without an answer, the object stays as it is.
Unreachable ==
  /\ terminate
  /\ UNCHANGED <<taken, atlasVars, secrets>>
  /\ IF project THEN Spend("faults") ELSE UNCHANGED budget

handleDatabaseUser ==
  /\ Handling
  /\ (project /\ dbuLifeCycle) \/ Unreachable
  /\ UNCHANGED <<obj, queued, project, specVars, noted>>

\* The second half of create: the connection Secrets and the user of the old
\* name go.  Only the reconcile that has created the new user comes here.
removeOldUser ==
  LET old == taken.was.name
  IN
  /\ taken.todo = "rename"
  /\ UNCHANGED cluster
  /\ \/ /\ secrets' = SecretsWithout(old)
        /\ users' = [users EXCEPT ![old] = NoUser]
        /\ inProgress
        /\ UNCHANGED budget
     \/ /\ Spend("faults")
        /\ secrets' \in {secrets, SecretsWithout(old)}
        /\ terminate
        /\ UNCHANGED users

\* The connection Secret, with the password as it is by now; none for a
\* cluster that is not in the scopes, none under the name in the status, and
\* none at all without the cluster (ReapOrphanConnectionSecrets).
ConnectionSecrets ==
  [n \in UserNames |->
     CASE cluster = "none"                   -> 0
       [] cluster # "none" /\ n = taken.name -> IF InScope THEN password ELSE 0
       [] OTHER                              -> IF n = taken.was.name THEN 0 ELSE secrets[n]]

readiness ==
  /\ taken.todo = "readiness"
  /\ UNCHANGED atlasVars
  /\ \/ cluster = "pending" /\ InScope /\ inProgress /\ UNCHANGED <<secrets, budget>>
     \/ /\ ~(cluster = "pending" /\ InScope)
        /\ secrets' = ConnectionSecrets
        /\ ready
        /\ UNCHANGED budget
     \/ Spend("faults") /\ terminate /\ UNCHANGED secrets

SecondHalf ==
  /\ rec.pc = "watch"
  /\ removeOldUser \/ readiness
  /\ UNCHANGED <<obj, queued, project, specVars, noted, taken>>

----------------------------------------------------------------------------
(* The frame, where this controller departs from the others.               *)

\* Skipped is skipped, deleted or not.
SkipUser ==
  /\ rec.pc = "handle"
  /\ rec.snap.skip
  /\ Done(FALSE)
  /\ UNCHANGED <<obj, project, budget, dbUserVars>>

\* The finalizer and, with it set, the last applied configuration.  The
\* deprecated predicates let a change of finalizers through.  The patch
\* refreshes the object, spec included: the name that goes into the status may
\* be one that was not sent (noted down in budget.lagged, with no fault spent).
Finalize ==
  LET change == rec.fin # "leave" /\ (rec.fin = "set") # rec.snap.fin
      fail == rec' = [rec EXCEPT !.pc = "status", !.ready = FALSE, !.again = TRUE, !.id = "leave"]
  IN
  /\ rec.pc = "finalizer"
  /\ \/ /\ change /\ Patched(rec.fin)
        /\ queued' = TRUE
        /\ rec' = [rec EXCEPT !.pc = "status", !.snap = obj']
        /\ taken' = [taken EXCEPT !.name = want.name]
        /\ budget' = [budget EXCEPT !.lagged = @ \/ taken.name # want.name]
     \/ /\ ~change /\ (rec.fin = "set" => obj.exists)
        /\ rec' = [rec EXCEPT !.pc = "status"]
        /\ UNCHANGED <<obj, queued, budget, taken>>
     \/ /\ IF change THEN Refused(rec.fin) ELSE rec.fin = "set" /\ ~obj.exists
        /\ fail
        /\ UNCHANGED <<obj, queued, budget, taken>>
     \/ /\ change \/ rec.fin = "set"
        /\ Spend("faults") /\ fail
        /\ UNCHANGED <<obj, queued, taken>>
  /\ UNCHANGED <<project, specVars, noted, atlasVars, secrets>>

\* The name and the version go into the status with the rest of it.
UpdateUserStatus ==
  /\ UpdateStatus
  /\ noted' = IF ~obj.exists \/ budget' # budget THEN noted
              ELSE IF rec.id = "record" THEN [name |-> taken.name, pass |-> taken.version]
              ELSE IF rec.snap.id THEN noted ELSE Nothing
  /\ UNCHANGED <<specVars, taken, atlasVars, secrets>>

PrepareUser ==
  /\ PrepareResource
  /\ taken' = [name |-> want.name, scopes |-> want.scopes, version |-> 0, todo |-> "none",
               was |-> IF obj.seen THEN noted ELSE Nothing]
  /\ UNCHANGED <<specVars, noted, atlasVars, secrets>>

UserLoop ==
  \/ PrepareUser \/ SkipUser \/ handleDatabaseUser \/ SecondHalf
  \/ Finalize \/ UpdateUserStatus

----------------------------------------------------------------------------
(* The others.                                                             *)

\* A new generation may have another name or other scopes, not both at once,
\* and has a date that has not passed.
EditUser ==
  /\ User
  /\ IF obj'.gen = obj.gen
     THEN UNCHANGED want
     ELSE want' \in {s \in Specs : s.name = want.name \/ s.scopes = want.scopes}
  /\ UNCHANGED <<password, expired, noted, taken, atlasVars, secrets>>

\* The watch on Secrets.
Rotate ==
  /\ Spend("ops")
  /\ password' = password + 1
  /\ queued' = (queued \/ obj.exists)
  /\ UNCHANGED <<obj, rec, project, want, expired, noted, taken, atlasVars, secrets>>

\* Nothing watches the project, the clusters or the clock.
Unwatched ==
  /\ Spend("ops")
  /\ UNCHANGED <<obj, queued, rec, want, password, noted, taken, secrets>>
  /\ \/ /\ "project" \in Ops /\ project /\ project' = FALSE
        /\ UNCHANGED <<expired, atlasVars>>
     \/ /\ "vanish" \in Ops /\ cluster # "none" /\ cluster' = "none"
        /\ UNCHANGED <<project, expired, users>>
     \/ /\ "expire" \in Ops /\ obj.exists /\ expired < obj.gen
        /\ expired' = obj.gen
        /\ users' = [n \in UserNames |-> NoUser]
        /\ UNCHANGED <<project, cluster>>

AtlasApplies ==
  /\ cluster = "pending"
  /\ cluster' = "applied"
  /\ UNCHANGED <<resourceVars, specVars, noted, taken, users, secrets>>

UserSync == CacheSync /\ UNCHANGED dbUserVars

DatabaseUserInit ==
  /\ want \in [name : {1}, scopes : {"all", "this", "other"}]
  /\ noted = Nothing /\ taken = NothingTaken
  /\ password = 1 /\ expired = 0
  /\ users = [n \in UserNames |-> NoUser]
  /\ cluster \in {"none", "applied"}
  /\ secrets = [n \in UserNames |-> 0]

DatabaseUserNext ==
  \/ UserLoop \/ EditUser \/ Rotate \/ Unwatched \/ AtlasApplies \/ UserSync
  \/ Restart /\ UNCHANGED dbUserVars

----------------------------------------------------------------------------
(* Properties.                                                             *)

DatabaseUserTypeOK ==
  /\ obj \in Objects /\ rec \in Passes
  /\ want \in Specs
  /\ noted \in [name : UserNames \cup {0}, pass : Nat]
  /\ taken \in [name : UserNames, scopes : {"all", "this", "other"},
                was : [name : UserNames \cup {0}, pass : Nat], version : Nat,
                todo : {"none", "rename", "readiness"}]
  /\ users \in [UserNames -> [gen : Nat, pass : Nat]]
  /\ cluster \in {"none", "pending", "applied"}
  /\ secrets \in [UserNames -> Nat]

\* Nothing has failed, and no name was noted that was not sent.
NoFaults == budget.faults = MaxFaults /\ FreshReads

\* The controller gives up on scopes, and does not come back: they name a
\* cluster that is gone, or one look-up has failed.
GaveUp == (want.scopes = "this" /\ cluster = "none") \/ (want.scopes # "all" /\ budget.faults < MaxFaults)

\* At rest Atlas has the user with the spec and the password of now, and the
\* connection Secret follows.  A rename leaves nothing under the old name, if
\* nothing fails on the way and no other name is noted than the one sent: what
\* is not removed then is never removed.
AtRestMeansApplied ==
  AtRest /\ obj.gen > expired /\ ~GaveUp =>
    /\ obj.fin
    /\ users[want.name] = [gen |-> obj.gen, pass |-> password]
    /\ cluster = "applied" =>
         secrets[want.name] = IF want.scopes = "other" THEN 0 ELSE password
    /\ NoFaults => \A n \in UserNames \ {want.name} : ~Exists(n) /\ secrets[n] = 0

\* The finalizer goes after the user, unless that is to be kept or has expired,
\* and an object whose status has the name of its spec does not go before its
\* user.
NoOrphan ==
  /\ obj.fin /\ obj.exists /\ ~obj'.fin =>
       rec.snap.keep \/ SnapExpired \/ ~Exists(taken.name)
  /\ obj.exists /\ ~obj'.exists /\ noted.name = want.name =>
       obj.keep \/ expired > 0 \/ ~Exists(want.name)

\* A deletion that is not done, although nothing holds it up.
Undeleted == obj.exists /\ obj.deleting /\ ~obj.skip /\ project /\ ~GaveUp
=============================================================================
