--------------------------- MODULE PrivateEndpoint ---------------------------
(***************************************************************************)
(* The AtlasPrivateEndpoint controller                                     *)
(* (internal/controller/atlasprivateendpoint/privateendpoint.go) and the   *)
(* service under it (internal/translation/privateendpoint): a private      *)
(* endpoint service, one in a region, and the interfaces on it.            *)
(***************************************************************************)
EXTENDS ResourceReconciler

CONSTANT Interfaces

VARIABLES
  wanted,       \* the interfaces the object asks for
  taken,        \* and those it asked for when the reconcile read it
  service,      \* in Atlas: none, initiating, available, failed or deleting
  interfaces    \* on it: none, pending, available, failed or deleting, each

atlasVars == <<service, interfaces>>

Phase(phase) == {i \in Interfaces : interfaces[i] = phase}
Exist == {i \in Interfaces : interfaces[i] # "none"}

\* The interfaces of a set go to a phase.
To(set, phase) == [i \in Interfaces |-> IF i \in set THEN phase ELSE interfaces[i]]

inProgress == Answer("set", "record", FALSE, TRUE)
ready      == Answer("set", "record", TRUE, FALSE)
failed     == Answer("leave", "record", FALSE, TRUE)
unmanage   == Answer("unset", "leave", FALSE, FALSE)

\* Without retry: nothing brings the key back.
waitForConfiguration == Answer("set", "record", FALSE, FALSE)

\* Interfaces are created and deleted in any order, until one that has failed
\* is met, or a call fails.  The calls use the id in the status.
Change(done) ==
  interfaces' = [i \in Interfaces |-> IF i \notin done THEN interfaces[i]
                                      ELSE IF i \in taken THEN "pending" ELSE "deleting"]

handlePrivateEndpointInterface ==
  LET todo == (taken \ Exist) \cup (Phase("available") \ taken)
      stopped == Phase("failed") # {} \/ (todo # {} /\ ~rec.snap.id)
  IN
  /\ UNCHANGED service
  /\ \/ /\ Exist \cup taken = {}
        /\ waitForConfiguration
        /\ UNCHANGED <<interfaces, budget>>
     \/ /\ Exist \cup taken # {} /\ ~stopped
        /\ Change(todo)
        /\ IF todo \cup Phase("pending") \cup Phase("deleting") = {} THEN ready ELSE inProgress
        /\ UNCHANGED budget
     \/ /\ IF stopped THEN UNCHANGED budget ELSE todo # {} /\ Spend("faults")
        /\ \E done \in SUBSET todo : (done # {} => rec.snap.id) /\ Change(done)
        /\ failed

\* The status of the service as just read.
watchServiceState ==
  \/ /\ service \in {"initiating", "deleting"}
     /\ inProgress
     /\ UNCHANGED <<atlasVars, budget>>
  \/ /\ service = "failed"
     /\ failed
     /\ UNCHANGED <<atlasVars, budget>>
  \/ /\ service = "available"
     /\ handlePrivateEndpointInterface

\* By the id in the status or, without one, by the region.
createPrivateEndpointService ==
  /\ service = "none" /\ ~rec.snap.deleting
  /\ UNCHANGED interfaces
  /\ \/ service' = "initiating" /\ inProgress /\ UNCHANGED budget
     \/ Spend("faults") /\ service' \in {"none", "initiating"} /\ Terminate

\* Mutant: the object is let go once the calls are made.
LetGoAtOnce ==
  /\ service # "none" /\ rec.snap.deleting /\ ~rec.snap.keep
  /\ service' = IF Exist = {} THEN "deleting" ELSE service
  /\ interfaces' = To(Exist, "deleting")
  /\ unmanage
  /\ UNCHANGED budget

\* deletePrivateEndpoint: the service when it has no interface, and every
\* interface that is not being deleted.
deletePrivateEndpoint ==
  /\ service # "none" /\ rec.snap.deleting /\ ~rec.snap.keep
  /\ service' = IF Exist = {} THEN "deleting" ELSE service
  /\ \/ interfaces' = To(Exist, "deleting")
        /\ rec' = [rec EXCEPT !.pc = "watch"]
        /\ UNCHANGED budget
     \/ /\ Spend("faults")
        /\ \E done \in SUBSET Exist : interfaces' = To(done, "deleting")
        /\ Terminate

\* ... and a second Get.  When the service is gone by then the result is nil,
\* its Status panics and the panic is a retry.
watchDeletion ==
  /\ rec.pc = "watch"
  /\ \/ service # "none" /\ watchServiceState
     \/ service = "none" /\ Terminate /\ UNCHANGED <<atlasVars, budget>>
     \/ Spend("faults") /\ Terminate /\ UNCHANGED atlasVars
  /\ UNCHANGED <<obj, queued, project, wanted, taken>>

unmanageService ==
  /\ rec.snap.deleting
  /\ service = "none" \/ rec.snap.keep
  /\ unmanage
  /\ UNCHANGED <<atlasVars, budget>>

Unreachable ==
  /\ Terminate
  /\ UNCHANGED atlasVars
  /\ IF project THEN Spend("faults") ELSE UNCHANGED budget

handlePrivateEndpointService ==
  /\ Handling
  /\ \/ /\ project
        /\ \/ createPrivateEndpointService \/ unmanageService \/ deletePrivateEndpoint
           \/ ~rec.snap.deleting /\ watchServiceState
     \/ Unreachable
  /\ UNCHANGED <<obj, queued, project, wanted, taken>>

----------------------------------------------------------------------------
(* Atlas.                                                                  *)

ServiceSettles ==
  /\ \/ service = "initiating" /\ service' = "available" /\ UNCHANGED budget
     \/ service = "initiating" /\ service' = "failed" /\ Spend("faults")
     \/ service = "deleting" /\ service' = "none" /\ UNCHANGED budget
  /\ UNCHANGED <<obj, queued, rec, project, wanted, taken, interfaces>>

\* Between the calls of a reconcile the end of an interface is a race, and
\* counts as a fault.
InterfaceSettles(i) ==
  /\ \/ interfaces[i] = "pending" /\ interfaces' = To({i}, "available") /\ UNCHANGED budget
     \/ interfaces[i] = "pending" /\ interfaces' = To({i}, "failed") /\ Spend("faults")
     \/ /\ interfaces[i] = "deleting" /\ interfaces' = To({i}, "none")
        /\ IF rec.pc = "watch" THEN Spend("faults") ELSE UNCHANGED budget
  /\ UNCHANGED <<obj, queued, rec, project, wanted, taken, service>>

EndpointLoop ==
  \/ handlePrivateEndpointService \/ watchDeletion
  \/ PrepareResource /\ taken' = wanted /\ UNCHANGED <<wanted, atlasVars>>
  \/ /\ Skip \/ UpdateStatus
        \/ ManageFinalizer(IF rec.fin = "set" THEN rec.id ELSE Unnoted)
     /\ UNCHANGED <<wanted, taken, atlasVars>>

EndpointSync == CacheSync /\ UNCHANGED <<wanted, taken, atlasVars>>

\* A new generation may ask for other interfaces.
EndpointUser ==
  /\ User
  /\ IF obj'.gen = obj.gen THEN UNCHANGED wanted ELSE wanted' \in SUBSET Interfaces
  /\ UNCHANGED <<taken, atlasVars>>

EndpointNext ==
  \/ EndpointLoop \/ EndpointSync \/ EndpointUser
  \/ (ProjectGoes \/ Restart) /\ UNCHANGED <<wanted, taken, atlasVars>>
  \/ ServiceSettles \/ \E i \in Interfaces : InterfaceSettles(i)

----------------------------------------------------------------------------
(* Properties.                                                             *)

EndpointTypeOK ==
  /\ obj \in Objects
  /\ rec \in Passes
  /\ {wanted, taken} \subseteq SUBSET Interfaces
  /\ service \in {"none", "initiating", "available", "failed", "deleting"}
  /\ interfaces \in [Interfaces -> {"none", "pending", "available", "failed", "deleting"}]

\* At rest the service is available and its interfaces are those of the spec.
AtRestMeansApplied ==
  AtRest => /\ obj.fin /\ service = "available"
            /\ \A i \in Interfaces :
                 interfaces[i] = IF i \in wanted THEN "available" ELSE "none"

\* The finalizer goes only when the service is gone, or is to be kept, or the
\* object is skipped.
NoOrphan ==
  obj.fin /\ obj.exists /\ ~obj'.fin => rec.snap.skip \/ rec.snap.keep \/ service = "none"

\* A deletion that is not done, although nothing holds it up.  It may wait for
\* ever for an AtlasProject that is gone; for its interfaces when there are
\* several, of which the one that goes first is created again; and for nothing
\* at all when the spec names no interface and the last one went between the
\* two calls of a reconcile.
Undeleted ==
  /\ obj.exists /\ obj.deleting /\ project
  /\ \A i, j \in wanted : i = j
  /\ ~(wanted = {} /\ Exist = {} /\ service = "available" /\ ~queued)
=============================================================================
