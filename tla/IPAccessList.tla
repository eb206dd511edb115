---------------------------- MODULE IPAccessList ----------------------------
(***************************************************************************)
(* The AtlasIPAccessList controller                                        *)
(* (internal/controller/atlasipaccesslist/{state,transitions}.go) and the  *)
(* service under it (internal/translation/ipaccesslist).  One object owns  *)
(* the access list of its project, whoever put the entries there.          *)
(***************************************************************************)
EXTENDS ResourceReconciler

CONSTANT Entries

VARIABLES
  wanted,   \* the entries the object asks for
  taken,    \* and those it asked for when the reconcile read it
  list,     \* in Atlas: absent, pending or active, for each entry
  expired   \* entries whose deleteAfterDate has passed

Listed == {e \in Entries : list[e] # "absent"}

With(entries, phase) == [e \in Entries |-> IF e \in entries THEN phase ELSE list[e]]

InProgressHeld == Answer("set", "leave", FALSE, TRUE)

\* Add: one call for all that is missing.  Atlas takes no date in the past.
create(toAdd) ==
  \/ toAdd \cap expired = {} /\ list' = With(toAdd, "pending") /\ InProgressHeld /\ UNCHANGED budget
  \/ toAdd \cap expired # {} /\ Terminate /\ UNCHANGED <<list, budget>>
  \/ /\ Spend("faults")
     /\ list' \in {list, With(toAdd \ expired, "pending")}
     /\ Terminate

\* delete: one call an entry, in any order; the first that fails is the last.
DeleteSome(toDelete) ==
  /\ Spend("faults")
  /\ \E done \in SUBSET toDelete : list' = With(done, "absent")
  /\ Terminate

deletePartial(toDelete) ==
  \/ list' = With(toDelete, "absent") /\ InProgressHeld /\ UNCHANGED budget
  \/ DeleteSome(toDelete)

unmanage == Answer("unset", "leave", FALSE, FALSE)

\* A deletion empties the list of the project, whatever the policy.
deleteAll ==
  \/ list' = With(Listed, "absent") /\ unmanage /\ UNCHANGED budget
  \/ DeleteSome(Listed)

\* Status of every entry; the object is Ready when all are active.
watchEntries ==
  /\ IF \E e \in taken : list[e] = "pending"
     THEN InProgressHeld
     ELSE Answer("set", "leave", TRUE, FALSE)
  /\ UNCHANGED <<list, budget>>

\* handleIPAccessList: what is missing comes before what is too much.
handleIPAccessList ==
  IF rec.snap.deleting THEN deleteAll
  ELSE IF taken \ Listed # {} THEN create(taken \ Listed)
  ELSE IF Listed \ taken # {} THEN deletePartial(Listed \ taken)
  ELSE watchEntries

\* Without the AtlasProject this controller ends in error, and lets go of
\* nothing.
Unreachable ==
  /\ Terminate
  /\ UNCHANGED list
  /\ IF project THEN Spend("faults") ELSE UNCHANGED budget

Handle ==
  /\ Handling
  /\ (project /\ handleIPAccessList) \/ Unreachable
  /\ UNCHANGED <<obj, queued, project, wanted, taken, expired>>

AtlasActivates ==
  /\ \E e \in Listed : list[e] = "pending" /\ list' = [list EXCEPT ![e] = "active"]
  /\ UNCHANGED <<resourceVars, wanted, taken, expired>>

\* Atlas drops an entry whose date has passed.
Expire ==
  /\ "expire" \in Ops
  /\ Spend("ops")
  /\ \E e \in Entries \ expired : expired' = expired \cup {e} /\ list' = [list EXCEPT ![e] = "absent"]
  /\ UNCHANGED <<obj, queued, rec, project, wanted, taken>>

ListLoop ==
  \/ Handle
  \/ PrepareResource /\ taken' = wanted /\ UNCHANGED <<wanted, list, expired>>
  \/ /\ Skip \/ ManageFinalizer(Unnoted) \/ UpdateStatus
     /\ UNCHANGED <<wanted, taken, list, expired>>

\* A new generation may ask for other entries.
ListUser ==
  /\ User
  /\ IF obj'.gen = obj.gen THEN UNCHANGED wanted ELSE wanted' \in SUBSET Entries
  /\ UNCHANGED <<taken, list, expired>>

ListNext ==
  \/ ListLoop
  \/ ListUser
  \/ (ProjectGoes \/ Restart) /\ UNCHANGED <<wanted, taken, list, expired>>
  \/ AtlasActivates \/ Expire

----------------------------------------------------------------------------
(* Properties.                                                             *)

ListTypeOK ==
  /\ obj \in Objects
  /\ rec \in Passes
  /\ {wanted, taken} \subseteq SUBSET Entries
  /\ list \in [Entries -> {"absent", "pending", "active"}]

\* At rest the project has the entries of the spec, all active, but for those
\* that Atlas dropped at their date.
AtRestMeansApplied ==
  AtRest => obj.fin /\ Listed = wanted \ expired /\ \A e \in Listed : list[e] = "active"

\* The finalizer goes only when the list is empty, unless the object is
\* skipped.
NoOrphan == obj.fin /\ obj.exists /\ ~obj'.fin => rec.snap.skip \/ Listed = {}

\* A deletion that is not done, although the AtlasProject is there.
Undeleted == obj.exists /\ obj.deleting /\ project
=============================================================================
