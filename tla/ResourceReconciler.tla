------------------------ MODULE ResourceReconciler ------------------------
(***************************************************************************)
(* The frame that the hand-written controllers of one resource share       *)
(* (internal/controller/customresource, reconciler, statushandler,         *)
(* workflow): prepare the resource, let the handler talk to Atlas, set or  *)
(* take off the finalizer, and, deferred and with its failure only logged, *)
(* replace the status.  The finalizer is set after the create.             *)
(* Every reconcile reads the server's object, except that the id in the    *)
(* status may not have reached the cache yet.                              *)
(***************************************************************************)
EXTENDS Naturals

CONSTANTS
  MaxOps,      \* bound on what users and others do, over all resources
  MaxFaults,   \* bound on failed calls, restarts, and reconciles that read a
               \* lagging cache, over all resources
  Ops          \* which of these things happen: edit, delete, skip, project,
               \* resync, vanish, expire

VARIABLES
  obj,      \* the object; what it was last once it is gone
  queued,   \* its key is in the work queue, or a timer will put it there
  rec,      \* the reconcile in progress
  project,  \* the AtlasProject it refers to exists in the cluster
  budget

resourceVars == <<obj, queued, rec, project, budget>>

Objects == [exists : BOOLEAN, gen : Nat, deleting : BOOLEAN, fin : BOOLEAN,
            id : BOOLEAN,      \* the status has the id of the thing in Atlas
            seen : BOOLEAN,    \* and the cache shows it
            ready : BOOLEAN,   \* the Ready condition
            given : BOOLEAN,   \* the spec has the id of a thing that exists
            keep : BOOLEAN,    \* the effective deletion policy
            skip : BOOLEAN]

NewObject(given, keep) ==
  [exists |-> TRUE, gen |-> 1, deleting |-> FALSE, fin |-> FALSE, id |-> FALSE,
   seen |-> FALSE, ready |-> FALSE, given |-> given, keep |-> keep, skip |-> FALSE]

Passes == [pc : {"idle", "handle", "watch", "finalizer", "status"},
           snap : Objects, fin : {"set", "unset", "leave"},
           id : {"record", "clear", "leave"}, ready : BOOLEAN, again : BOOLEAN]

Idle == [pc |-> "idle", snap |-> NewObject(FALSE, FALSE), fin |-> "leave",
         id |-> "leave", ready |-> FALSE, again |-> FALSE]

Spend(kind) ==
  /\ budget[kind] > 0
  /\ budget' = [budget EXCEPT ![kind] = @ - 1]

----------------------------------------------------------------------------
(* Users, and the watch.                                                   *)

\* DefaultPredicates: a new generation (a deletion makes one too), or the
\* skip annotation is taken off; the status and the finalizers do not count.
Wakes(old, new) ==
  \/ old.gen # new.gen \/ old.deleting # new.deleting
  \/ old.skip /\ ~new.skip

Becomes(new) ==
  /\ obj' = new
  /\ queued' = (queued \/ (new.exists /\ Wakes(obj, new)))

Edit ==
  /\ "edit" \in Ops
  /\ ~obj.deleting
  /\ Becomes([obj EXCEPT !.gen = @ + 1])

RequestDeletion ==
  /\ "delete" \in Ops
  /\ ~obj.deleting
  /\ Becomes([obj EXCEPT !.deleting = TRUE, !.exists = obj.fin])

ToggleSkip ==
  /\ "skip" \in Ops
  /\ Becomes([obj EXCEPT !.skip = ~@])

\* The resync of the manager; also the timer of an object that refers to its
\* project by id.
Resync ==
  /\ "resync" \in Ops
  /\ queued' = TRUE
  /\ UNCHANGED obj

User ==
  /\ obj.exists
  /\ Spend("ops")
  /\ Edit \/ RequestDeletion \/ ToggleSkip \/ Resync
  /\ UNCHANGED <<rec, project>>

\* The AtlasProject goes; its watch wakes all that refer to it.
ProjectGoes ==
  /\ "project" \in Ops
  /\ project
  /\ Spend("ops")
  /\ project' = FALSE
  /\ queued' = (queued \/ obj.exists)
  /\ UNCHANGED <<obj, rec>>

CacheSync ==
  /\ obj.seen # obj.id
  /\ obj' = [obj EXCEPT !.seen = obj.id]
  /\ UNCHANGED <<queued, rec, project, budget>>

\* No reconcile has read a lagging cache so far.
FreshReads == ~budget.lagged

----------------------------------------------------------------------------
(* The reconcile around the handler.                                       *)

Cached == [obj EXCEPT !.id = obj.seen]

PrepareResource ==
  /\ rec.pc = "idle"
  /\ queued
  /\ queued' = FALSE
  /\ rec' = IF obj.exists THEN [Idle EXCEPT !.pc = "handle", !.snap = Cached] ELSE Idle
  /\ IF obj.exists /\ obj.seen # obj.id
     THEN budget.faults > 0 /\ budget' = [budget EXCEPT !.faults = @ - 1, !.lagged = TRUE]
     ELSE UNCHANGED budget
  /\ UNCHANGED <<obj, project>>

\* The handler's answer: what becomes of the finalizer, of the id in the
\* status and of Ready, and whether the key comes back.
Answer(fin, id, ready, again) ==
  rec' = [rec EXCEPT !.pc = "finalizer", !.fin = fin, !.id = id,
                     !.ready = ready, !.again = again]

\* Mutants: what is under way is not polled; no finalizer on what is ready.
NotPolled == Answer("leave", "record", FALSE, FALSE)
ReadyUnheld == Answer("leave", "record", TRUE, FALSE)

Terminate  == Answer("leave", "leave", FALSE, TRUE)
InProgress == Answer("leave", "record", FALSE, TRUE)
Ready      == Answer("set", "record", TRUE, FALSE)

\* release: without its AtlasProject an object is let go, in error.
Release == Answer("unset", "leave", FALSE, TRUE)

Handling == rec.pc = "handle" /\ ~rec.snap.skip

MissingProject ==
  /\ Handling
  /\ ~project
  /\ Release
  /\ UNCHANGED <<obj, queued, project, budget>>

Done(again) ==
  /\ rec' = Idle
  /\ queued' = (queued \/ again)

\* The API server takes a patch of the finalizer if the object is there, and
\* no new one once it is being deleted.
Patched(op) ==
  /\ obj.exists
  /\ op = "set" => ~obj.deleting
  /\ obj' = [obj EXCEPT !.fin = (op = "set"), !.exists = (op = "set" \/ ~obj.deleting)]

Refused(op) == ~obj.exists \/ (op = "set" /\ obj.deleting)

\* The annotation is obeyed before the status update is armed.
Skip ==
  /\ rec.pc = "handle"
  /\ rec.snap.skip
  /\ UNCHANGED project
  /\ IF rec.snap.deleting /\ rec.snap.fin
     THEN \/ Patched("unset") /\ Done(FALSE) /\ UNCHANGED budget
          \/ Refused("unset") /\ Done(TRUE) /\ UNCHANGED <<obj, budget>>
          \/ Spend("faults") /\ Done(TRUE) /\ UNCHANGED obj
     ELSE Done(FALSE) /\ UNCHANGED <<obj, budget>>

\* What most controllers do with the id if they end in error.
Unnoted == IF rec.id = "record" THEN "leave" ELSE rec.id

\* ManageFinalizer: no call without a change.  A patch refreshes the object;
\* without it the handler ends in error.
ManageFinalizer(idOnError) ==
  LET op == rec.fin
      change == op # "leave" /\ (op = "set") # rec.snap.fin
      error == [rec EXCEPT !.pc = "status", !.ready = FALSE, !.again = TRUE, !.id = idOnError]
  IN
  /\ rec.pc = "finalizer"
  /\ \/ ~change /\ rec' = [rec EXCEPT !.pc = "status"] /\ UNCHANGED <<obj, budget>>
     \/ change /\ Patched(op) /\ rec' = [rec EXCEPT !.pc = "status", !.snap = obj'] /\ UNCHANGED budget
     \/ change /\ Refused(op) /\ rec' = error /\ UNCHANGED <<obj, budget>>
     \/ change /\ Spend("faults") /\ rec' = error /\ UNCHANGED obj
  /\ UNCHANGED <<queued, project>>

\* statushandler.Update: the status of the copy replaces the one of the
\* server; a failure is logged and changes no result.
UpdateStatus ==
  /\ rec.pc = "status"
  /\ \/ /\ obj.exists
        /\ obj' = [obj EXCEPT !.ready = rec.ready,
                              !.id = CASE rec.id = "record" -> TRUE
                                       [] rec.id = "clear"  -> FALSE
                                       [] OTHER             -> rec.snap.id]
        /\ UNCHANGED budget
     \/ ~obj.exists /\ UNCHANGED <<obj, budget>>
     \/ Spend("faults") /\ UNCHANGED obj
  /\ Done(rec.again)
  /\ UNCHANGED project

Restart ==
  /\ rec.pc # "idle"
  /\ Spend("faults")
  /\ Done(obj.exists)
  /\ UNCHANGED <<obj, project>>

\* A live object that nobody holds back and that the controller is done with.
AtRest == obj.exists /\ ~obj.deleting /\ ~obj.skip /\ project /\ ~queued /\ rec = Idle

Loop == PrepareResource \/ MissingProject \/ Skip \/ ManageFinalizer(Unnoted) \/ UpdateStatus
=============================================================================
