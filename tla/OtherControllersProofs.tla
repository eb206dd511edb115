------------------------ MODULE OtherControllersProofs ------------------------
(***************************************************************************)
(* What the controllers outside the unified state machine guarantee, for   *)
(* any number of operations, failures and lagging reads, and for any       *)
(* number of entries, interfaces and clusters.                             *)
(***************************************************************************)
EXTENDS OtherControllers, TLAPS

----------------------------------------------------------------------------
(* The frame around the handlers: the one object of a list, an endpoint or *)
(* an account, or the peering.                                             *)

R == INSTANCE ResourceReconciler WITH obj <- pobj, queued <- pqueued, rec <- prec

Budgets == [ops : Nat, faults : Nat, lagged : BOOLEAN]

Framed ==
  /\ pobj \in R!Objects /\ prec \in R!Passes
  /\ pqueued \in BOOLEAN /\ project \in BOOLEAN
  /\ budget \in Budgets

\* A reconcile has the finalizer and the policy right, and a deletion it has
\* seen is one.
Follows ==
  prec.pc # "idle" =>
    /\ prec.snap.fin = pobj.fin /\ prec.snap.keep = pobj.keep
    /\ prec.snap.deleting => pobj.deleting

\* Ready comes with the finalizer, which goes only after a deletion or without
\* the project, or from a user that has expired.
Held ==
  /\ prec.pc = "finalizer" =>
       /\ prec.ready => prec.fin = "set"
       /\ prec.fin = "unset" => ~project \/ pobj.deleting \/ system = "account"
  /\ prec.pc = "status" /\ prec.ready => pobj.fin
  /\ pobj.exists /\ pobj.ready /\ project => pobj.fin \/ system = "account"

\* Nobody has done anything that the watch reports.
Calm == pobj.exists /\ ~pobj.deleting /\ ~pobj.skip /\ project /\ ~pqueued

UpToDate ==
  Calm /\ prec.pc # "idle" =>
    prec.snap.gen = pobj.gen /\ ~prec.snap.deleting /\ ~prec.snap.skip

FrameInv == Framed /\ Follows /\ Held /\ UpToDate

\* What the handler of the system at hand brings about.
Applied ==
  /\ system = "network" => (peer.phase \in {"pending", "available"} => peer.spec = pobj.gen)
  /\ system = "list" => L!Listed = wanted \ expired /\ \A e \in L!Listed : list[e] = "active"
  /\ system = "endpoint" =>
       /\ service = "available"
       /\ \A i \in Names : list[i] = IF i \in wanted THEN "available" ELSE "none"

\* A reconcile that does not come back has brought it about.
Settled ==
  Calm =>
    /\ prec.pc = "idle" => pobj.fin /\ Applied
    /\ prec.pc = "finalizer" => prec.again \/ (prec.fin = "set" /\ Applied)
    /\ prec.pc = "status" => prec.again \/ (pobj.fin /\ Applied)

\* What a step of the frame may do, as long as there is nothing to report.
Progress ==
  Calm' =>
    \/ prec'.pc = "handle"
    \/ /\ Calm /\ pobj'.gen = pobj.gen
       /\ \/ prec'.pc = "status" /\ prec'.again
          \/ prec' = prec /\ pobj'.fin = pobj.fin
          \/ /\ prec.pc = "finalizer" /\ prec'.pc = "status" /\ prec'.again = prec.again
             /\ prec.fin = "set" => pobj'.fin
          \/ prec.pc = "status" /\ prec'.pc = "idle" /\ ~prec.again /\ pobj'.fin = pobj.fin

----------------------------------------------------------------------------
(* The access list.                                                        *)

ListInv ==
  /\ FrameInv /\ Settled
  /\ L!ListTypeOK /\ expired \subseteq Names
  /\ L!Listed \cap expired = {}
  /\ Calm /\ prec.pc = "handle" => taken = wanted
  /\ prec.pc = "finalizer" /\ prec.fin = "unset" => L!Listed = {}
  /\ prec.pc # "watch"

----------------------------------------------------------------------------
(* The private endpoint.                                                   *)

EndpointInv ==
  /\ FrameInv /\ Settled
  /\ E!EndpointTypeOK
  /\ Calm /\ prec.pc = "handle" => taken = wanted
  /\ prec.pc = "watch" => prec.snap.deleting
  /\ prec.pc = "finalizer" /\ prec.fin = "unset" => prec.snap.keep \/ service = "none"

----------------------------------------------------------------------------
(* Steps of the frame.                                                     *)

LEMMA ObjectChanges ==
  ASSUME NEW o \in R!Objects, NEW b \in BOOLEAN, NEW c \in BOOLEAN
  PROVE  /\ [o EXCEPT !.gen = @ + 1] \in R!Objects
         /\ [o EXCEPT !.deleting = TRUE, !.exists = b] \in R!Objects
         /\ [o EXCEPT !.skip = b] \in R!Objects
         /\ [o EXCEPT !.seen = b] \in R!Objects
         /\ [o EXCEPT !.id = b] \in R!Objects
         /\ [o EXCEPT !.fin = b, !.exists = c] \in R!Objects
         /\ [o EXCEPT !.ready = b, !.id = c] \in R!Objects
<1>1. [o EXCEPT !.gen = @ + 1] \in R!Objects
  BY DEF R!Objects
<1>2. [o EXCEPT !.deleting = TRUE, !.exists = b] \in R!Objects
  BY DEF R!Objects
<1>3. [o EXCEPT !.skip = b] \in R!Objects /\ [o EXCEPT !.seen = b] \in R!Objects
  BY DEF R!Objects
<1>4. [o EXCEPT !.id = b] \in R!Objects /\ [o EXCEPT !.fin = b, !.exists = c] \in R!Objects
  BY DEF R!Objects
<1>5. [o EXCEPT !.ready = b, !.id = c] \in R!Objects
  BY DEF R!Objects
<1> QED
  BY <1>1, <1>2, <1>3, <1>4, <1>5

LEMMA SpendTyped ==
  ASSUME budget \in Budgets, R!Spend("ops") \/ R!Spend("faults")
  PROVE  budget' \in Budgets /\ budget'.lagged = budget.lagged
BY DEF Budgets, R!Spend

LEMMA IdlePass ==
  R!Idle \in R!Passes /\ R!Idle.pc = "idle" /\ ~R!Idle.ready /\ ~R!Idle.again
BY DEF R!Idle, R!Passes, R!Objects, R!NewObject

LEMMA FrameIdle ==
  ASSUME system' = system, FrameInv, prec' = R!Idle, Framed', pobj' = pobj, project' = project
  PROVE  FrameInv'
BY IdlePass DEF FrameInv, Follows, Held, UpToDate

\* A user's step is reported, or makes the object one that is not to be synced.
LEMMA FrameUser ==
  ASSUME system' = system, FrameInv, R!User
  PROVE  /\ FrameInv' /\ ~Calm' /\ prec' = prec /\ project' = project
         /\ pobj.exists /\ pobj'.fin = pobj.fin /\ pobj'.id = pobj.id /\ pobj'.keep = pobj.keep
         /\ ~pobj'.exists => ~pobj.fin
<1>0. /\ pobj \in R!Objects /\ prec \in R!Passes /\ pqueued \in BOOLEAN /\ project \in BOOLEAN
      /\ budget \in Budgets
      /\ pobj.fin \in BOOLEAN /\ pobj.skip \in BOOLEAN /\ pobj.gen \in Nat /\ pobj.exists
      /\ prec' = prec /\ project' = project
  BY DEF FrameInv, Framed, R!User, R!Objects
<1>1. budget' \in Budgets
  BY <1>0, SpendTyped DEF R!User
<1>2. \/ R!Becomes([pobj EXCEPT !.gen = @ + 1]) /\ ~pobj.deleting
      \/ R!Becomes([pobj EXCEPT !.deleting = TRUE, !.exists = pobj.fin])
      \/ R!Becomes([pobj EXCEPT !.skip = ~@])
      \/ pobj' = pobj /\ pqueued' = TRUE
  BY DEF R!User, R!Edit, R!RequestDeletion, R!ToggleSkip, R!Resync
<1>3. /\ pobj' \in R!Objects /\ pqueued' \in BOOLEAN
      /\ pobj'.fin = pobj.fin /\ pobj'.id = pobj.id /\ pobj'.keep = pobj.keep
      /\ pobj'.ready = pobj.ready
      /\ pobj.deleting => pobj'.deleting
      /\ ~pobj'.exists => ~pobj.fin
      /\ ~Calm'
  <2>1. CASE R!Becomes([pobj EXCEPT !.gen = @ + 1])
    BY <1>0, <2>1 DEF R!Becomes, R!Wakes, R!Objects, Calm
  <2>2. CASE R!Becomes([pobj EXCEPT !.deleting = TRUE, !.exists = pobj.fin])
    BY <1>0, <2>2 DEF R!Becomes, R!Wakes, R!Objects, Calm
  <2>3. CASE R!Becomes([pobj EXCEPT !.skip = ~@])
    BY <1>0, <2>3 DEF R!Becomes, R!Wakes, R!Objects, Calm
  <2>4. CASE pobj' = pobj /\ pqueued' = TRUE
    BY <1>0, <2>4 DEF Calm
  <2> QED
    BY <1>2, <2>1, <2>2, <2>3, <2>4
<1>4. Framed'
  BY <1>0, <1>1, <1>3 DEF Framed
<1> QED
  BY <1>0, <1>3, <1>4 DEF FrameInv, Follows, Held, UpToDate

LEMMA FrameProjectGoes ==
  ASSUME system' = system, FrameInv, R!ProjectGoes
  PROVE  FrameInv' /\ ~Calm' /\ pobj' = pobj /\ prec' = prec /\ ~project'
<1>1. Framed'
  BY SpendTyped DEF FrameInv, Framed, R!ProjectGoes, R!Objects
<1> QED
  BY <1>1 DEF FrameInv, Follows, Held, UpToDate, R!ProjectGoes, Calm

LEMMA FrameRestart ==
  ASSUME system' = system, FrameInv, R!Restart
  PROVE  FrameInv' /\ ~Calm' /\ pobj' = pobj /\ prec' = R!Idle /\ project' = project
<1>1. Framed'
  BY SpendTyped, IdlePass DEF FrameInv, Framed, R!Restart, R!Done, R!Objects
<1>2. ~Calm' /\ pobj' = pobj /\ prec' = R!Idle /\ project' = project
  BY DEF R!Restart, R!Done, Calm
<1> QED
  BY <1>1, <1>2, FrameIdle

LEMMA FrameSync ==
  ASSUME system' = system, FrameInv, R!CacheSync
  PROVE  /\ FrameInv' /\ Progress
         /\ pobj' = [pobj EXCEPT !.seen = pobj.id]
         /\ UNCHANGED <<pqueued, prec, project, budget>>
<1>0. /\ pobj \in R!Objects /\ pobj.id \in BOOLEAN
      /\ pobj' = [pobj EXCEPT !.seen = pobj.id] /\ UNCHANGED <<pqueued, prec, project, budget>>
  BY DEF FrameInv, Framed, R!CacheSync, R!Objects
<1>1. /\ pobj' \in R!Objects
      /\ pobj'.exists = pobj.exists /\ pobj'.deleting = pobj.deleting /\ pobj'.skip = pobj.skip
      /\ pobj'.fin = pobj.fin /\ pobj'.keep = pobj.keep /\ pobj'.ready = pobj.ready
      /\ pobj'.gen = pobj.gen
  BY <1>0 DEF R!Objects
<1>2. Framed' /\ Calm' = Calm
  BY <1>0, <1>1 DEF FrameInv, Framed, Calm
<1> QED
  BY <1>0, <1>1, <1>2 DEF FrameInv, Follows, Held, UpToDate, Progress

LEMMA FramePrepare ==
  ASSUME system' = system, FrameInv, R!PrepareResource
  PROVE  /\ FrameInv' /\ Progress
         /\ pobj' = pobj /\ project' = project /\ ~pqueued'
         /\ IF pobj.exists
            THEN /\ prec' = [R!Idle EXCEPT !.pc = "handle", !.snap = R!Cached]
                 /\ prec'.pc = "handle" /\ prec'.id = "leave" /\ prec'.snap = R!Cached
                 /\ prec'.snap.gen = pobj.gen /\ prec'.snap.deleting = pobj.deleting
                 /\ prec'.snap.skip = pobj.skip /\ prec'.snap.id = pobj.seen
                 /\ prec'.snap.keep = pobj.keep /\ prec'.snap.given = pobj.given
            ELSE prec' = R!Idle
         /\ budget' # budget => budget'.lagged
         /\ budget.lagged => budget'.lagged
         /\ pobj.exists /\ pobj.seen # pobj.id => budget'.lagged /\ budget'.faults # budget.faults
         /\ budget'.faults <= budget.faults
<1>0. /\ pobj \in R!Objects /\ prec \in R!Passes /\ project \in BOOLEAN /\ budget \in Budgets
      /\ pobj' = pobj /\ project' = project /\ pqueued' = FALSE
  BY DEF FrameInv, Framed, R!PrepareResource
<1>1. /\ budget' \in Budgets
      /\ budget' # budget => budget'.lagged
      /\ budget.lagged => budget'.lagged
      /\ pobj.exists /\ pobj.seen # pobj.id => budget'.lagged /\ budget'.faults # budget.faults
      /\ budget'.faults <= budget.faults
  <2>1. CASE budget.faults > 0 /\ budget' = [budget EXCEPT !.faults = @ - 1, !.lagged = TRUE]
    <3>1. budget.faults - 1 \in Nat /\ budget.faults \in Nat
      BY <1>0, <2>1 DEF Budgets
    <3>2. budget' \in Budgets /\ budget'.lagged /\ budget'.faults = budget.faults - 1
      BY <1>0, <2>1, <3>1 DEF Budgets
    <3> QED
      BY <3>1, <3>2
  <2>2. CASE budget' = budget /\ ~(pobj.exists /\ pobj.seen # pobj.id)
    BY <1>0, <2>2 DEF Budgets
  <2> QED
    BY <2>1, <2>2 DEF R!PrepareResource
<1>2. CASE ~pobj.exists
  <2>1. prec' = R!Idle
    BY <1>2 DEF R!PrepareResource
  <2>2. Framed'
    BY <1>0, <1>1, <2>1, IdlePass DEF Framed
  <2> QED
    BY <1>0, <1>1, <1>2, <2>1, <2>2, FrameIdle DEF Progress, Calm
<1>3. CASE pobj.exists
  <2>1. prec' = [R!Idle EXCEPT !.pc = "handle", !.snap = R!Cached]
    BY <1>3 DEF R!PrepareResource
  <2>2. /\ R!Cached \in R!Objects /\ R!Cached.fin = pobj.fin /\ R!Cached.keep = pobj.keep
        /\ R!Cached.gen = pobj.gen /\ R!Cached.deleting = pobj.deleting
        /\ R!Cached.skip = pobj.skip /\ R!Cached.id = pobj.seen /\ R!Cached.given = pobj.given
    BY <1>0 DEF R!Cached, R!Objects
  <2>3. /\ prec' \in R!Passes
        /\ prec'.pc = "handle" /\ prec'.id = "leave" /\ prec'.snap = R!Cached
    BY <2>1, <2>2 DEF R!Passes, R!Idle
  <2>4. Framed'
    BY <1>0, <1>1, <2>3 DEF Framed
  <2>5. Held'
    BY <1>0, <2>3 DEF FrameInv, Held
  <2>6. Follows' /\ UpToDate'
    BY <1>0, <2>2, <2>3 DEF Follows, UpToDate, Calm
  <2> QED
    BY <1>0, <1>1, <1>3, <2>1, <2>2, <2>3, <2>4, <2>5, <2>6 DEF FrameInv, Progress
<1> QED
  BY <1>2, <1>3

\* An answer of the handler: the finalizer is set with Ready, and goes only
\* after a deletion or without the project.
LEMMA FrameAnswer ==
  ASSUME system' = system, FrameInv, prec.pc \in {"handle", "watch"},
         NEW fin \in {"set", "unset", "leave"}, NEW id \in {"record", "clear", "leave"},
         NEW ready \in BOOLEAN, NEW again \in BOOLEAN,
         R!Answer(fin, id, ready, again),
         pobj' = pobj, pqueued' = pqueued, project' = project, budget' \in Budgets,
         ready => fin = "set",
         fin = "unset" => ~project \/ prec.snap.deleting \/ system = "account"
  PROVE  /\ FrameInv' /\ Calm' = Calm
         /\ prec' = [prec EXCEPT !.pc = "finalizer", !.fin = fin, !.id = id,
                                 !.ready = ready, !.again = again]
         /\ prec'.pc = "finalizer" /\ prec'.snap = prec.snap /\ prec'.fin = fin /\ prec'.id = id
         /\ prec'.ready = ready /\ prec'.again = again
<1>0. prec \in R!Passes /\ prec' = [prec EXCEPT !.pc = "finalizer", !.fin = fin, !.id = id,
                                                !.ready = ready, !.again = again]
  BY DEF FrameInv, Framed, R!Answer
<1>1. /\ prec' \in R!Passes
      /\ prec'.pc = "finalizer" /\ prec'.snap = prec.snap /\ prec'.fin = fin /\ prec'.id = id
      /\ prec'.ready = ready /\ prec'.again = again
  BY <1>0 DEF R!Passes
<1>2. Framed'
  BY <1>1 DEF FrameInv, Framed
<1>3. Calm' = Calm
  BY DEF Calm
<1> QED
  BY <1>0, <1>1, <1>2, <1>3 DEF FrameInv, Follows, Held, UpToDate

LEMMA FrameSkip ==
  ASSUME system' = system, FrameInv, R!Skip
  PROVE  /\ FrameInv' /\ ~Calm' /\ project' = project /\ prec' = R!Idle
         /\ pobj' = pobj \/ (R!Patched("unset") /\ prec.snap.deleting)
         /\ prec.snap.skip
         /\ budget' \in Budgets
<1>0. /\ pobj \in R!Objects /\ prec \in R!Passes /\ pqueued \in BOOLEAN /\ project \in BOOLEAN
      /\ budget \in Budgets /\ project' = project /\ prec.pc = "handle" /\ prec.snap.skip
  BY DEF FrameInv, Framed, R!Skip
<1>1. /\ prec' = R!Idle /\ pqueued' \in BOOLEAN /\ (pqueued => pqueued')
      /\ pobj' = pobj \/ (R!Patched("unset") /\ prec.snap.deleting)
  BY <1>0 DEF R!Skip, R!Done, R!Passes
<1>2. budget' \in Budgets
  BY <1>0, SpendTyped DEF R!Skip
<1>3. CASE pobj' = pobj
  <2>1. Framed'
    BY <1>0, <1>1, <1>2, <1>3, IdlePass DEF Framed
  <2>2. ~Calm'
    BY <1>0, <1>1, <1>3 DEF Calm, FrameInv, UpToDate
  <2> QED
    BY <1>0, <1>1, <1>2, <1>3, <2>1, <2>2, FrameIdle
<1>4. CASE R!Patched("unset") /\ prec.snap.deleting
  <2>1. pobj.deleting
    BY <1>0, <1>4 DEF FrameInv, Follows
  <2>2. pobj' = [pobj EXCEPT !.fin = FALSE, !.exists = FALSE]
    BY <1>4, <2>1 DEF R!Patched
  <2>3. pobj' \in R!Objects /\ ~pobj'.exists
    BY <1>0, <2>2 DEF R!Objects
  <2>4. Framed' /\ ~Calm'
    BY <1>0, <1>1, <1>2, <2>3, IdlePass DEF Framed, Calm
  <2> QED
    BY <1>0, <1>1, <1>2, <1>4, <2>3, <2>4, IdlePass DEF FrameInv, Follows, Held, UpToDate
<1> QED
  BY <1>1, <1>3, <1>4

LEMMA FramePatched ==
  ASSUME Framed, NEW op \in {"set", "unset"}, R!Patched(op)
  PROVE  /\ pobj.exists /\ pobj' \in R!Objects
         /\ pobj'.fin = (op = "set") /\ pobj'.exists = (op = "set" \/ ~pobj.deleting)
         /\ op = "set" => ~pobj.deleting
         /\ pobj'.deleting = pobj.deleting /\ pobj'.skip = pobj.skip /\ pobj'.gen = pobj.gen
         /\ pobj'.id = pobj.id /\ pobj'.seen = pobj.seen /\ pobj'.keep = pobj.keep
         /\ pobj'.ready = pobj.ready /\ pobj'.given = pobj.given
<1>1. pobj \in R!Objects /\ pobj.deleting \in BOOLEAN
  BY DEF Framed, R!Objects
<1>2. /\ pobj' = [pobj EXCEPT !.fin = (op = "set"), !.exists = (op = "set" \/ ~pobj.deleting)]
      /\ pobj.exists /\ (op = "set" => ~pobj.deleting)
  BY DEF R!Patched
<1>3. (op = "set") \in BOOLEAN /\ (op = "set" \/ ~pobj.deleting) \in BOOLEAN
  BY <1>1
<1>4. pobj' \in R!Objects
  BY <1>1, <1>2, <1>3, ObjectChanges
<1> QED
  BY <1>1, <1>2, <1>4 DEF R!Objects

LEMMA FrameFinalizer ==
  ASSUME system' = system, FrameInv, NEW onError \in {"record", "clear", "leave"}, R!ManageFinalizer(onError)
  PROVE  /\ FrameInv' /\ Progress
         /\ project' = project /\ pqueued' = pqueued /\ budget' \in Budgets
         /\ budget'.lagged = budget.lagged
         /\ prec.pc = "finalizer" /\ prec'.pc = "status"
         /\ \/ pobj' = pobj /\ (prec'.id = prec.id /\ prec'.snap = prec.snap
                                /\ (prec.fin = "set" => pobj.fin))
            \/ pobj' = pobj /\ prec'.id = onError /\ prec'.snap = prec.snap
            \/ /\ prec.fin \in {"set", "unset"} /\ R!Patched(prec.fin)
               /\ prec'.id = prec.id /\ prec'.snap = pobj'
<1> DEFINE change == prec.fin # "leave" /\ (prec.fin = "set") # prec.snap.fin
           error == [prec EXCEPT !.pc = "status", !.ready = FALSE, !.again = TRUE, !.id = onError]
<1>0. /\ pobj \in R!Objects /\ prec \in R!Passes /\ pqueued \in BOOLEAN /\ project \in BOOLEAN
      /\ budget \in Budgets /\ project' = project /\ pqueued' = pqueued /\ prec.pc = "finalizer"
      /\ prec.snap.fin = pobj.fin /\ prec.snap.keep = pobj.keep
      /\ prec.snap.deleting => pobj.deleting
      /\ prec.fin \in {"set", "unset", "leave"} /\ pobj.fin \in BOOLEAN
  BY DEF FrameInv, Framed, Follows, R!ManageFinalizer, R!Passes, R!Objects
<1>1. CASE ~change /\ prec' = [prec EXCEPT !.pc = "status"] /\ UNCHANGED <<pobj, budget>>
  <2>1. /\ prec' \in R!Passes /\ prec'.pc = "status" /\ prec'.snap = prec.snap
        /\ prec'.id = prec.id /\ prec'.ready = prec.ready /\ prec'.again = prec.again
    BY <1>0, <1>1 DEF R!Passes
  <2>2. prec.fin = "set" => pobj.fin
    BY <1>0, <1>1
  <2>3. Framed' /\ Calm' = Calm
    BY <1>0, <1>1, <2>1 DEF Framed, Calm
  <2>4. Follows' /\ Held' /\ UpToDate'
    BY <1>0, <1>1, <2>1, <2>2, <2>3 DEF FrameInv, Follows, Held, UpToDate
  <2> QED
    BY <1>0, <1>1, <2>1, <2>2, <2>3, <2>4 DEF FrameInv, Progress
<1>2. CASE change /\ R!Patched(prec.fin) /\ prec' = [prec EXCEPT !.pc = "status", !.snap = pobj']
           /\ UNCHANGED budget
  <2>0. prec.fin \in {"set", "unset"}
    BY <1>0, <1>2
  <2>1. /\ pobj.exists /\ pobj' \in R!Objects
        /\ pobj'.fin = (prec.fin = "set") /\ pobj'.exists = (prec.fin = "set" \/ ~pobj.deleting)
        /\ pobj'.deleting = pobj.deleting /\ pobj'.skip = pobj.skip /\ pobj'.gen = pobj.gen
        /\ pobj'.ready = pobj.ready
    BY <1>0, <1>2, <2>0, FramePatched DEF FrameInv
  <2>2. /\ prec' \in R!Passes /\ prec'.pc = "status" /\ prec'.snap = pobj'
        /\ prec'.id = prec.id /\ prec'.ready = prec.ready /\ prec'.again = prec.again
    BY <1>0, <1>2, <2>1 DEF R!Passes
  <2>3. Framed' /\ (Calm' => Calm)
    BY <1>0, <1>2, <2>1, <2>2 DEF Framed, Calm
  <2>4. Follows' /\ UpToDate'
    BY <2>2 DEF Follows, UpToDate, Calm
  <2>5. Held'
    BY <1>0, <2>0, <2>1, <2>2 DEF FrameInv, Held
  <2> QED
    BY <1>0, <1>2, <2>0, <2>1, <2>2, <2>3, <2>4, <2>5 DEF FrameInv, Progress
<1>3. CASE pobj' = pobj /\ prec' = error /\ (budget' = budget \/ R!Spend("faults"))
  <2>1. /\ prec' \in R!Passes /\ prec'.pc = "status" /\ prec'.snap = prec.snap
        /\ prec'.id = onError /\ ~prec'.ready /\ prec'.again
    BY <1>0, <1>3 DEF R!Passes
  <2>2. budget' \in Budgets /\ budget'.lagged = budget.lagged
    BY <1>0, <1>3, SpendTyped
  <2>3. Framed' /\ Calm' = Calm
    BY <1>0, <1>3, <2>1, <2>2 DEF Framed, Calm
  <2>4. Follows' /\ Held' /\ UpToDate'
    BY <1>0, <1>3, <2>1, <2>3 DEF FrameInv, Follows, Held, UpToDate
  <2> QED
    BY <1>0, <1>3, <2>1, <2>2, <2>3, <2>4 DEF FrameInv, Progress
<1> QED
  BY <1>1, <1>2, <1>3 DEF R!ManageFinalizer

LEMMA FrameStatus ==
  ASSUME system' = system, FrameInv, R!UpdateStatus
  PROVE  /\ FrameInv' /\ Progress
         /\ project' = project /\ budget' \in Budgets /\ prec' = R!Idle
         /\ prec.pc = "status"
         /\ \/ /\ pobj.exists /\ budget' = budget
               /\ pobj' = [pobj EXCEPT !.ready = prec.ready,
                                       !.id = CASE prec.id = "record" -> TRUE
                                                [] prec.id = "clear"  -> FALSE
                                                [] OTHER              -> prec.snap.id]
               /\ prec.id = "record" => pobj'.id
               /\ prec.id = "clear" => ~pobj'.id
               /\ prec.id = "leave" => pobj'.id = prec.snap.id
            \/ pobj' = pobj /\ (~pobj.exists \/ R!Spend("faults"))
         /\ pobj'.fin = pobj.fin /\ pobj'.exists = pobj.exists /\ pobj'.gen = pobj.gen
         /\ pobj'.keep = pobj.keep /\ pobj'.deleting = pobj.deleting /\ pobj'.skip = pobj.skip
         /\ pobj'.seen = pobj.seen
<1>0. /\ pobj \in R!Objects /\ prec \in R!Passes /\ pqueued \in BOOLEAN /\ project \in BOOLEAN
      /\ budget \in Budgets /\ project' = project
      /\ prec.pc = "status" /\ prec.again \in BOOLEAN /\ prec.ready \in BOOLEAN
      /\ prec.snap \in R!Objects /\ prec.snap.id \in BOOLEAN
      /\ prec.id \in {"record", "clear", "leave"}
      /\ prec' = R!Idle /\ pqueued' = (pqueued \/ prec.again)
  BY DEF FrameInv, Framed, R!UpdateStatus, R!Done, R!Passes, R!Objects
<1>1. budget' \in Budgets
  BY <1>0, SpendTyped DEF R!UpdateStatus
<1> DEFINE id == CASE prec.id = "record" -> TRUE
                   [] prec.id = "clear"  -> FALSE
                   [] OTHER              -> prec.snap.id
<1>2. /\ id \in BOOLEAN /\ (prec.id = "record" => id) /\ (prec.id = "clear" => ~id)
      /\ prec.id = "leave" => id = prec.snap.id
  BY <1>0
<1> HIDE DEF id
<1>3. \/ /\ pobj.exists /\ budget' = budget
         /\ pobj' = [pobj EXCEPT !.ready = prec.ready, !.id = id]
      \/ pobj' = pobj /\ (~pobj.exists \/ R!Spend("faults"))
  BY DEF R!UpdateStatus, id
<1>4. /\ pobj' \in R!Objects
      /\ pobj'.fin = pobj.fin /\ pobj'.exists = pobj.exists /\ pobj'.gen = pobj.gen
      /\ pobj'.keep = pobj.keep /\ pobj'.deleting = pobj.deleting /\ pobj'.skip = pobj.skip
      /\ pobj'.seen = pobj.seen
      /\ (pobj'.ready = pobj.ready \/ pobj'.ready = prec.ready)
      /\ pobj' # pobj => pobj'.id = id
  <2>1. CASE pobj' = [pobj EXCEPT !.ready = prec.ready, !.id = id]
    BY <1>0, <1>2, <2>1 DEF R!Objects
  <2>2. CASE pobj' = pobj
    BY <1>0, <2>2
  <2> QED
    BY <1>3, <2>1, <2>2
<1>5. Framed' /\ (Calm' => Calm /\ ~prec.again)
  BY <1>0, <1>1, <1>4, IdlePass DEF Framed, Calm
<1>6. Follows' /\ UpToDate' /\ Held'
  BY <1>0, <1>4, IdlePass DEF FrameInv, Follows, UpToDate, Held
<1>7. /\ FrameInv' /\ Progress
  BY <1>0, <1>4, <1>5, <1>6, IdlePass DEF FrameInv, Progress
<1>8. \/ /\ pobj.exists /\ budget' = budget
         /\ pobj' = [pobj EXCEPT !.ready = prec.ready, !.id = id] /\ pobj'.id = id
      \/ pobj' = pobj /\ (~pobj.exists \/ R!Spend("faults"))
  BY <1>0, <1>3 DEF R!Objects
<1> QED
  BY <1>0, <1>1, <1>2, <1>4, <1>7, <1>8 DEF id

LEMMA FrameMissingProject ==
  ASSUME system' = system, FrameInv, R!MissingProject
  PROVE  /\ FrameInv' /\ ~Calm' /\ pobj' = pobj /\ project' = project /\ ~project
         /\ prec.pc = "handle" /\ prec'.pc = "finalizer"
         /\ prec'.snap = prec.snap /\ prec'.fin = "unset" /\ prec'.id = "leave" /\ prec'.again
<1>1. /\ prec.pc = "handle" /\ ~project /\ R!Answer("unset", "leave", FALSE, TRUE)
      /\ UNCHANGED <<pobj, pqueued, project, budget>>
  BY DEF R!MissingProject, R!Handling, R!Release
<1>2. budget' \in Budgets
  BY <1>1 DEF FrameInv, Framed
<1> QED
  BY <1>1, <1>2, FrameAnswer DEF Calm

LEMMA SettledStep ==
  ASSUME FrameInv, Settled, Progress, Calm /\ Calm' /\ Applied => Applied'
  PROVE  Settled'
BY DEF Settled, Progress

LEMMA ListFrame ==
  /\ L!Objects = R!Objects /\ L!Passes = R!Passes /\ L!Idle = R!Idle
  /\ L!User = R!User /\ L!ProjectGoes = R!ProjectGoes /\ L!Restart = R!Restart
  /\ L!CacheSync = R!CacheSync /\ L!PrepareResource = R!PrepareResource
  /\ L!Handling = R!Handling /\ L!Skip = R!Skip /\ L!UpdateStatus = R!UpdateStatus
  /\ L!MissingProject = R!MissingProject
  /\ L!AtRest = R!AtRest /\ L!FreshReads = R!FreshReads /\ L!Unnoted = R!Unnoted
  /\ \A kind : L!Spend(kind) = R!Spend(kind)
  /\ \A op : L!Patched(op) = R!Patched(op)
  /\ \A onError : L!ManageFinalizer(onError) = R!ManageFinalizer(onError)
  /\ \A fin, id, ready, again : L!Answer(fin, id, ready, again) = R!Answer(fin, id, ready, again)
BY DEF L!NewObject, L!Becomes, L!Wakes, L!Edit, L!RequestDeletion, L!ToggleSkip, L!Resync,
       L!User, L!Spend, L!ProjectGoes, L!Done, L!Idle, L!Restart, L!CacheSync, L!Cached,
       L!PrepareResource, L!Answer, L!Release, L!Handling, L!MissingProject, L!Patched,
       L!Refused, L!Skip, L!Unnoted, L!ManageFinalizer, L!UpdateStatus, L!Objects,
       L!Passes, L!FreshReads, L!AtRest, L!Loop, R!NewObject, R!Becomes, R!Wakes, R!Edit,
       R!RequestDeletion, R!ToggleSkip, R!Resync, R!User, R!Spend, R!ProjectGoes, R!Done,
       R!Idle, R!Restart, R!CacheSync, R!Cached, R!PrepareResource, R!Answer, R!Release,
       R!Handling, R!MissingProject, R!Patched, R!Refused, R!Skip, R!Unnoted,
       R!ManageFinalizer, R!UpdateStatus, R!Objects, R!Passes, R!FreshReads, R!AtRest,
       R!Loop


Phases == {"absent", "pending", "active"}

LEMMA ListWith ==
  ASSUME L!ListTypeOK, NEW some \in SUBSET Names, NEW phase \in Phases
  PROVE  /\ L!With(some, phase) \in [Names -> Phases]
         /\ \A e \in Names : L!With(some, phase)[e] = IF e \in some THEN phase ELSE list[e]
BY DEF L!ListTypeOK, L!With, Phases

\* What the handler may do: it lets go of an object only with an empty list, and
\* does not come back only when the list is the one it was to bring about.
LEMMA ListHandle ==
  ASSUME ListInv, L!Handle
  PROVE  /\ list' \in [Names -> Phases] /\ L!Listed' \cap expired = {}
         /\ budget' \in Budgets /\ prec.pc = "handle"
         /\ UNCHANGED <<pobj, pqueued, project, wanted, taken, expired>>
         /\ \E fin \in {"set", "unset", "leave"}, ready \in BOOLEAN, again \in BOOLEAN :
              /\ R!Answer(fin, "leave", ready, again)
              /\ ready => fin = "set"
              /\ fin = "unset" => prec.snap.deleting /\ L!Listed' = {}
              /\ \/ again \/ prec.snap.deleting
                 \/ /\ fin = "set" /\ L!Listed = taken /\ list' = list
                    /\ \A e \in L!Listed : list[e] = "active"
<1>0. /\ L!ListTypeOK /\ list \in [Names -> Phases] /\ L!Listed \cap expired = {}
      /\ expired \in SUBSET Names /\ taken \in SUBSET Names /\ L!Listed \in SUBSET Names
      /\ budget \in Budgets
  BY DEF ListInv, FrameInv, Framed, L!ListTypeOK, Phases, L!Listed
<1>1. /\ prec.pc = "handle" /\ UNCHANGED <<pobj, pqueued, project, wanted, taken, expired>>
  BY DEF L!Handle, L!Handling
<1>2. budget' \in Budgets
  <2>1. budget' = budget \/ L!Spend("faults")
    BY DEF L!Handle, L!handleIPAccessList, L!Unreachable, L!deleteAll, L!create, L!deletePartial,
       L!watchEntries, L!DeleteSome
  <2> QED
    BY <1>0, <2>1, ListFrame, SpendTyped
<1> DEFINE Outcome(fin, ready, again) ==
      /\ R!Answer(fin, "leave", ready, again)
      /\ ready => fin = "set"
      /\ fin = "unset" => prec.snap.deleting /\ L!Listed' = {}
      /\ \/ again \/ prec.snap.deleting
         \/ /\ fin = "set" /\ L!Listed = taken /\ list' = list
            /\ \A e \in L!Listed : list[e] = "active"
<1>3. L!Terminate => Outcome("leave", FALSE, TRUE)
  BY ListFrame DEF L!Terminate
<1>4. L!InProgressHeld => Outcome("set", FALSE, TRUE)
  BY ListFrame DEF L!InProgressHeld
<1> DEFINE Goal == /\ list' \in [Names -> Phases] /\ L!Listed' \cap expired = {}
                   /\ \E fin \in {"set", "unset", "leave"}, ready \in BOOLEAN, again \in BOOLEAN :
                        Outcome(fin, ready, again)
<1>5. ASSUME NEW done \in SUBSET Names, list' = L!With(done, "absent")
      PROVE  list' \in [Names -> Phases] /\ L!Listed' = L!Listed \ done
  <2>1. "absent" \in Phases
    BY DEF Phases
  <2>2. list' \in [Names -> Phases] /\ \A e \in Names : list'[e] = IF e \in done THEN "absent" ELSE list[e]
    BY <1>0, <1>5, <2>1, ListWith
  <2> QED
    BY <2>2 DEF L!Listed
<1>6. ASSUME NEW some \in SUBSET Names, some \cap expired = {}, list' = L!With(some, "pending")
      PROVE  list' \in [Names -> Phases] /\ L!Listed' \cap expired = {}
  <2>1. "pending" \in Phases
    BY DEF Phases
  <2>2. /\ L!With(some, "pending") \in [Names -> Phases]
        /\ \A e \in Names : L!With(some, "pending")[e] = IF e \in some THEN "pending" ELSE list[e]
    BY <1>0, <2>1, ListWith
  <2>3. list' = L!With(some, "pending")
    BY <1>6
  <2> QED
    BY <1>0, <1>6, <2>2, <2>3 DEF L!Listed
<1>7. ASSUME NEW some \in SUBSET Names, L!DeleteSome(some)
      PROVE  Goal
  <2>1. PICK done \in SUBSET some : list' = L!With(done, "absent")
    BY <1>7 DEF L!DeleteSome
  <2>2. Outcome("leave", FALSE, TRUE)
    BY <1>3, <1>7 DEF L!DeleteSome
  <2>3. list' \in [Names -> Phases] /\ L!Listed' = L!Listed \ done
    BY <1>5, <2>1
  <2> QED
    BY <1>0, <2>2, <2>3
<1>8. CASE L!Unreachable
  <2>1. Outcome("leave", FALSE, TRUE) /\ list' = list
    BY <1>3, <1>8 DEF L!Unreachable
  <2>2. L!Listed' = L!Listed
    BY <2>1 DEF L!Listed
  <2> QED
    BY <1>0, <1>1, <1>2, <2>1, <2>2
<1>9. CASE L!deleteAll /\ prec.snap.deleting
  <2>1. CASE L!DeleteSome(L!Listed)
    BY <1>0, <1>1, <1>2, <1>7, <2>1
  <2>2. CASE list' = L!With(L!Listed, "absent") /\ L!unmanage
    <3>1. list' \in [Names -> Phases] /\ L!Listed' = {}
      BY <1>0, <1>5, <2>2
    <3>2. Outcome("unset", FALSE, FALSE)
      BY <1>9, <2>2, <3>1, ListFrame DEF L!unmanage
    <3> QED
      BY <1>1, <1>2, <3>1, <3>2
  <2> QED
    BY <1>9, <2>1, <2>2 DEF L!deleteAll
<1>10. CASE L!create(taken \ L!Listed)
  <2> DEFINE toAdd == taken \ L!Listed
  <2>0. toAdd \in SUBSET Names /\ toAdd \ expired \in SUBSET Names
    BY <1>0
  <2>1. CASE toAdd \cap expired = {} /\ list' = L!With(toAdd, "pending") /\ L!InProgressHeld
    <3>1. list' \in [Names -> Phases] /\ L!Listed' \cap expired = {}
      BY <1>6, <2>0, <2>1
    <3> QED
      BY <1>1, <1>2, <1>4, <2>1, <3>1
  <2>2. CASE L!Terminate /\ list' = list
    <3>1. L!Listed' = L!Listed
      BY <2>2 DEF L!Listed
    <3> QED
      BY <1>0, <1>1, <1>2, <1>3, <2>2, <3>1
  <2>3. CASE L!Terminate /\ list' = L!With(toAdd \ expired, "pending")
    <3>1. (toAdd \ expired) \cap expired = {}
      OBVIOUS
    <3>2. list' \in [Names -> Phases] /\ L!Listed' \cap expired = {}
      BY <1>6, <2>0, <2>3, <3>1
    <3> QED
      BY <1>1, <1>2, <1>3, <2>3, <3>2
  <2> QED
    BY <1>10, <2>1, <2>2, <2>3 DEF L!create
<1>11. CASE L!deletePartial(L!Listed \ taken)
  <2>1. CASE L!DeleteSome(L!Listed \ taken)
    BY <1>0, <1>1, <1>2, <1>7, <2>1
  <2>2. CASE list' = L!With(L!Listed \ taken, "absent") /\ L!InProgressHeld
    <3>1. list' \in [Names -> Phases] /\ L!Listed' = L!Listed \ (L!Listed \ taken)
      BY <1>0, <1>5, <2>2
    <3> QED
      BY <1>0, <1>1, <1>2, <1>4, <2>2, <3>1
  <2> QED
    BY <1>11, <2>1, <2>2 DEF L!deletePartial
<1>12. CASE L!watchEntries /\ taken \ L!Listed = {} /\ L!Listed \ taken = {}
  <2>1. list' = list /\ L!Listed' = L!Listed
    BY <1>12 DEF L!watchEntries, L!Listed
  <2>2. CASE L!InProgressHeld
    BY <1>0, <1>1, <1>2, <1>4, <2>1, <2>2
  <2>3. CASE L!Answer("set", "leave", TRUE, FALSE) /\ ~\E e \in taken : list[e] = "pending"
    <3>1. Outcome("set", TRUE, FALSE)
      BY <1>0, <1>12, <2>1, <2>3, ListFrame DEF L!Listed, Phases
    <3> QED
      BY <1>0, <1>1, <1>2, <2>1, <3>1
  <2> QED
    BY <1>12, <2>2, <2>3 DEF L!watchEntries
<1> QED
  BY <1>8, <1>9, <1>10, <1>11, <1>12 DEF L!Handle, L!handleIPAccessList

\* ListInv, when the list is as it was.
LEMMA ListRest ==
  ASSUME ListInv, UNCHANGED <<taken, list, expired, system>>, FrameInv', Settled',
         wanted' \in SUBSET Names, Calm' /\ prec'.pc = "handle" => taken' = wanted',
         prec'.pc = "finalizer" => prec' = prec, prec'.pc # "watch"
  PROVE  ListInv'
<1>1. L!Listed' = L!Listed
  BY DEF L!Listed
<1>2. L!ListTypeOK'
  BY ListFrame DEF ListInv, L!ListTypeOK, FrameInv, Framed
<1> QED
  BY <1>1, <1>2 DEF ListInv

LEMMA ListHandleStep ==
  ASSUME system = "list", system' = system, ListInv, L!Handle
  PROVE  ListInv' /\ L!NoOrphan
<1>1. /\ list' \in [Names -> Phases] /\ L!Listed' \cap expired = {}
      /\ budget' \in Budgets /\ prec.pc = "handle"
      /\ UNCHANGED <<pobj, pqueued, project, wanted, taken, expired>>
  BY ListHandle
<1>2. PICK fin \in {"set", "unset", "leave"}, ready \in BOOLEAN, again \in BOOLEAN :
        /\ R!Answer(fin, "leave", ready, again)
        /\ ready => fin = "set"
        /\ fin = "unset" => prec.snap.deleting /\ L!Listed' = {}
        /\ \/ again \/ prec.snap.deleting
           \/ /\ fin = "set" /\ L!Listed = taken /\ list' = list
              /\ \A e \in L!Listed : list[e] = "active"
  BY ListHandle
<1>3. /\ FrameInv' /\ Calm' = Calm
      /\ prec'.pc = "finalizer" /\ prec'.fin = fin /\ prec'.again = again
  BY <1>1, <1>2, FrameAnswer DEF ListInv
<1>4. Settled'
  <2> SUFFICES ASSUME Calm', ~again
               PROVE  prec'.fin = "set" /\ Applied'
    BY <1>3 DEF Settled
  <2>1. Calm /\ ~prec.snap.deleting /\ taken = wanted
    BY <1>1, <1>3 DEF ListInv, FrameInv, UpToDate
  <2>2. L!Listed' = L!Listed /\ L!Listed = wanted /\ fin = "set" /\ list' = list
        /\ \A e \in L!Listed : list[e] = "active"
    BY <1>2, <2>1 DEF L!Listed
  <2>3. wanted = wanted \ expired
    BY <2>2 DEF ListInv
  <2> QED
    BY <1>1, <1>3, <2>2, <2>3 DEF Applied
<1>5. L!ListTypeOK'
  BY <1>1, <1>3, ListFrame DEF ListInv, L!ListTypeOK, FrameInv, Framed, Phases
<1>6. L!NoOrphan
  BY <1>1 DEF L!NoOrphan
<1> QED
  BY <1>1, <1>2, <1>3, <1>4, <1>5, <1>6 DEF ListInv

LEMMA ListFrameStep ==
  ASSUME system = "list", system' = system, ListInv,
         UNCHANGED <<wanted, taken, list, expired>>,
         R!Skip \/ R!ManageFinalizer(R!Unnoted) \/ R!UpdateStatus
  PROVE  ListInv' /\ L!NoOrphan
<1>0. FrameInv /\ Settled /\ L!Listed' = L!Listed /\ wanted \in SUBSET Names
  BY DEF ListInv, L!Listed, L!ListTypeOK
<1>1. CASE R!Skip
  <2>1. /\ FrameInv' /\ ~Calm' /\ prec' = R!Idle /\ prec.snap.skip
    BY <1>0, <1>1, FrameSkip
  <2>2. ListInv'
    BY <1>0, <2>1, ListRest, IdlePass DEF Settled
  <2> QED
    BY <2>1, <2>2 DEF L!NoOrphan
<1>2. CASE R!ManageFinalizer(R!Unnoted)
  <2>0. R!Unnoted \in {"record", "clear", "leave"}
    BY <1>0 DEF R!Unnoted, FrameInv, Framed, R!Passes
  <2>1. /\ FrameInv' /\ Progress /\ prec.pc = "finalizer" /\ prec'.pc = "status"
        /\ \/ pobj' = pobj
           \/ prec.fin \in {"set", "unset"} /\ R!Patched(prec.fin)
    BY <1>0, <1>2, <2>0, FrameFinalizer
  <2>2. Calm /\ Calm' /\ Applied => Applied'
    BY <1>0 DEF Applied
  <2>3. ListInv'
    BY <1>0, <2>1, <2>2, SettledStep, ListRest
  <2>4. L!NoOrphan
    <3>1. CASE prec.fin = "unset"
      BY <2>1, <3>1 DEF ListInv, L!NoOrphan
    <3>2. CASE prec.fin # "unset"
      BY <1>0, <2>1, <3>2, FramePatched DEF L!NoOrphan, FrameInv
    <3> QED
      BY <3>1, <3>2
  <2> QED
    BY <2>3, <2>4
<1>3. CASE R!UpdateStatus
  <2>1. /\ FrameInv' /\ Progress /\ prec' = R!Idle /\ pobj'.fin = pobj.fin
    BY <1>0, <1>3, FrameStatus
  <2>2. Calm /\ Calm' /\ Applied => Applied'
    BY <1>0 DEF Applied
  <2>3. ListInv'
    BY <1>0, <2>1, <2>2, SettledStep, ListRest, IdlePass
  <2> QED
    BY <2>1, <2>3 DEF L!NoOrphan
<1> QED
  BY <1>1, <1>2, <1>3

LEMMA ListStep ==
  ASSUME system = "list", system' = system, ListInv, L!ListNext
  PROVE  ListInv' /\ L!NoOrphan
<1>0. FrameInv /\ Settled /\ wanted \in SUBSET Names /\ prec.pc # "watch"
  BY DEF ListInv, L!ListTypeOK
<1>1. CASE L!Handle
  BY <1>1, ListHandleStep
<1>2. CASE L!PrepareResource /\ taken' = wanted /\ UNCHANGED <<wanted, list, expired>>
  <2>1. /\ FrameInv' /\ Progress /\ pobj' = pobj
        /\ prec'.pc \in {"handle", "idle"}
    BY <1>0, <1>2, ListFrame, FramePrepare, IdlePass
  <2>2. Settled'
    <3>1. L!Listed' = L!Listed
      BY <1>2 DEF L!Listed
    <3> QED
      BY <1>0, <1>2, <2>1, <3>1, SettledStep DEF Applied
  <2>3. L!ListTypeOK' /\ L!Listed' = L!Listed
    BY <1>2, <2>1, ListFrame DEF ListInv, L!ListTypeOK, L!Listed, FrameInv, Framed
  <2> QED
    BY <1>0, <1>2, <2>1, <2>2, <2>3 DEF ListInv, L!NoOrphan
<1>3. CASE (L!Skip \/ L!ManageFinalizer(L!Unnoted) \/ L!UpdateStatus)
           /\ UNCHANGED <<wanted, taken, list, expired>>
  BY <1>3, ListFrame, ListFrameStep
<1>4. CASE L!ListUser
  <2>1. /\ FrameInv' /\ ~Calm' /\ prec' = prec /\ pobj'.fin = pobj.fin
    BY <1>0, <1>4, ListFrame, FrameUser DEF L!ListUser
  <2>2. wanted' \in SUBSET Names /\ UNCHANGED <<taken, list, expired>>
    BY <1>0, <1>4 DEF L!ListUser
  <2> QED
    BY <1>0, <2>1, <2>2, ListRest DEF Settled, L!NoOrphan
<1>5. CASE (L!ProjectGoes \/ L!Restart) /\ UNCHANGED <<wanted, taken, list, expired>>
  <2>1. /\ FrameInv' /\ ~Calm' /\ pobj' = pobj /\ (prec' = prec \/ prec' = R!Idle)
    BY <1>0, <1>5, ListFrame, FrameProjectGoes, FrameRestart
  <2> QED
    BY <1>0, <1>5, <2>1, ListRest, IdlePass DEF Settled, L!NoOrphan
<1>6. CASE L!AtlasActivates
  <2>1. PICK e \in L!Listed : list[e] = "pending" /\ list' = [list EXCEPT ![e] = "active"]
    BY <1>6 DEF L!AtlasActivates
  <2>2. UNCHANGED <<pobj, pqueued, prec, project, budget, wanted, taken, expired>>
    BY <1>6 DEF L!AtlasActivates, L!resourceVars
  <2>3. L!ListTypeOK' /\ L!Listed' = L!Listed
    BY <2>1, <2>2 DEF ListInv, L!ListTypeOK, L!Listed, L!Objects, L!Passes
  <2>4. FrameInv' /\ Calm' = Calm
    BY <1>0, <2>2 DEF FrameInv, Framed, Follows, Held, UpToDate, Calm
  <2>5. ~Applied
    BY <2>1 DEF Applied
  <2>6. Settled'
    BY <1>0, <2>2, <2>4, <2>5 DEF Settled
  <2> QED
    BY <1>0, <2>2, <2>3, <2>4, <2>6 DEF ListInv, L!NoOrphan
<1>7. CASE L!Expire
  <2>1. PICK e \in Names \ expired : expired' = expired \cup {e} /\ list' = [list EXCEPT ![e] = "absent"]
    BY <1>7 DEF L!Expire
  <2>2. UNCHANGED <<pobj, pqueued, prec, project, wanted, taken>> /\ budget' \in Budgets
    BY <1>0, <1>7, ListFrame, SpendTyped DEF L!Expire, FrameInv, Framed
  <2>3. L!ListTypeOK' /\ L!Listed' = L!Listed \ {e}
    BY <2>1, <2>2 DEF ListInv, L!ListTypeOK, L!Listed, L!Objects, L!Passes
  <2>4. FrameInv' /\ Calm' = Calm
    BY <1>0, <2>2 DEF FrameInv, Framed, Follows, Held, UpToDate, Calm
  <2>5. Applied => Applied'
    BY <2>1, <2>2, <2>3 DEF Applied, ListInv, L!ListTypeOK, L!Listed
  <2>6. Settled'
    BY <1>0, <2>2, <2>4, <2>5 DEF Settled
  <2> QED
    BY <1>0, <2>1, <2>2, <2>3, <2>4, <2>6 DEF ListInv, L!NoOrphan
<1> QED
  BY <1>1, <1>2, <1>3, <1>4, <1>5, <1>6, <1>7 DEF L!ListNext, L!ListLoop

LEMMA EndpointFrame ==
  /\ E!Objects = R!Objects /\ E!Passes = R!Passes /\ E!Idle = R!Idle
  /\ E!User = R!User /\ E!ProjectGoes = R!ProjectGoes /\ E!Restart = R!Restart
  /\ E!CacheSync = R!CacheSync /\ E!PrepareResource = R!PrepareResource
  /\ E!Handling = R!Handling /\ E!Skip = R!Skip /\ E!UpdateStatus = R!UpdateStatus
  /\ E!MissingProject = R!MissingProject
  /\ E!AtRest = R!AtRest /\ E!FreshReads = R!FreshReads /\ E!Unnoted = R!Unnoted
  /\ \A kind : E!Spend(kind) = R!Spend(kind)
  /\ \A op : E!Patched(op) = R!Patched(op)
  /\ \A onError : E!ManageFinalizer(onError) = R!ManageFinalizer(onError)
  /\ \A fin, id, ready, again : E!Answer(fin, id, ready, again) = R!Answer(fin, id, ready, again)
BY DEF E!NewObject, E!Becomes, E!Wakes, E!Edit, E!RequestDeletion, E!ToggleSkip, E!Resync,
       E!User, E!Spend, E!ProjectGoes, E!Done, E!Idle, E!Restart, E!CacheSync, E!Cached,
       E!PrepareResource, E!Answer, E!Release, E!Handling, E!MissingProject, E!Patched,
       E!Refused, E!Skip, E!Unnoted, E!ManageFinalizer, E!UpdateStatus, E!Objects,
       E!Passes, E!FreshReads, E!AtRest, E!Loop, R!NewObject, R!Becomes, R!Wakes, R!Edit,
       R!RequestDeletion, R!ToggleSkip, R!Resync, R!User, R!Spend, R!ProjectGoes, R!Done,
       R!Idle, R!Restart, R!CacheSync, R!Cached, R!PrepareResource, R!Answer, R!Release,
       R!Handling, R!MissingProject, R!Patched, R!Refused, R!Skip, R!Unnoted,
       R!ManageFinalizer, R!UpdateStatus, R!Objects, R!Passes, R!FreshReads, R!AtRest,
       R!Loop


InterfacePhases == {"none", "pending", "available", "failed", "deleting"}
ServicePhases == {"none", "initiating", "available", "failed", "deleting"}

\* What comes of a look at the service: the handler does not come back only
\* when the service and its interfaces are those it was to bring about.
Watched ==
  /\ service' = service /\ list' \in [Names -> InterfacePhases]
  /\ \E fin \in {"set", "leave"}, id \in {"record", "leave"},
        ready \in BOOLEAN, again \in BOOLEAN :
       /\ R!Answer(fin, id, ready, again)
       /\ ready => fin = "set"
       /\ \/ again
          \/ /\ fin = "set" /\ service = "available" /\ list' = list
             /\ \A i \in Names : list[i] = IF i \in taken THEN "available" ELSE "none"

LEMMA EndpointAnswers ==
  /\ E!inProgress = R!Answer("set", "record", FALSE, TRUE)
  /\ E!ready = R!Answer("set", "record", TRUE, FALSE)
  /\ E!failed = R!Answer("leave", "record", FALSE, TRUE)
  /\ E!unmanage = R!Answer("unset", "leave", FALSE, FALSE)
  /\ E!waitForConfiguration = R!Answer("set", "record", FALSE, FALSE)
  /\ E!Terminate = R!Answer("leave", "leave", FALSE, TRUE)
BY EndpointFrame DEF E!inProgress, E!ready, E!failed, E!unmanage, E!waitForConfiguration, E!Terminate

LEMMA EndpointWatches ==
  ASSUME EndpointInv, E!watchServiceState
  PROVE  Watched /\ budget' \in Budgets
<1>0. /\ list \in [Names -> InterfacePhases] /\ taken \in SUBSET Names /\ budget \in Budgets
  BY DEF EndpointInv, FrameInv, Framed, E!EndpointTypeOK, InterfacePhases
<1>1. CASE service \in {"initiating", "deleting"} /\ E!inProgress /\ UNCHANGED <<service, list, budget>>
  BY <1>0, <1>1, EndpointAnswers DEF Watched
<1>2. CASE E!failed /\ UNCHANGED <<service, list, budget>>
  BY <1>0, <1>2, EndpointAnswers DEF Watched
<1>3. CASE service = "available" /\ E!handlePrivateEndpointInterface
  <2> DEFINE todo == (taken \ E!Exist) \cup (E!Phase("available") \ taken)
             stopped == E!Phase("failed") # {} \/ (todo # {} /\ ~prec.snap.id)
  <2>0. service' = service
    BY <1>3 DEF E!handlePrivateEndpointInterface
  <2>1. ASSUME NEW done, E!Change(done)
        PROVE  list' \in [Names -> InterfacePhases]
    BY <1>0, <2>1 DEF E!Change, InterfacePhases
  <2>2. CASE /\ E!Exist \cup taken = {}
             /\ E!waitForConfiguration
             /\ UNCHANGED <<list, budget>>
    <3>1. \A i \in Names : list[i] = IF i \in taken THEN "available" ELSE "none"
      BY <1>0, <2>2 DEF E!Exist
    <3> QED
      BY <1>0, <1>3, <2>0, <2>2, <3>1, EndpointAnswers DEF Watched
  <2>3. CASE /\ ~stopped
             /\ E!Change(todo)
             /\ IF todo \cup E!Phase("pending") \cup E!Phase("deleting") = {}
                THEN E!ready ELSE E!inProgress
             /\ UNCHANGED budget
    <3>1. list' \in [Names -> InterfacePhases]
      BY <2>1, <2>3
    <3>2. CASE E!inProgress
      BY <1>0, <2>0, <2>3, <3>1, <3>2, EndpointAnswers DEF Watched
    <3>3. CASE E!ready /\ todo \cup E!Phase("pending") \cup E!Phase("deleting") = {}
      <4>1. list' = list
        BY <1>0, <2>3, <3>3 DEF E!Change
      <4>2. \A i \in Names : list[i] = IF i \in taken THEN "available" ELSE "none"
        <5> TAKE i \in Names
        <5>1. list[i] \notin {"pending", "deleting", "failed"}
          BY <2>3, <3>3 DEF E!Phase
        <5>2. list[i] \in {"none", "available"}
          BY <1>0, <5>1 DEF InterfacePhases
        <5>3. list[i] = "available" => i \in taken
          BY <3>3 DEF E!Phase
        <5>4. i \in taken => list[i] # "none"
          BY <3>3 DEF E!Exist
        <5> QED
          BY <5>2, <5>3, <5>4
      <4> QED
        BY <1>0, <1>3, <2>0, <2>3, <3>3, <4>1, <4>2, EndpointAnswers DEF Watched
    <3> QED
      BY <2>3, <3>2, <3>3
  <2>4. CASE /\ UNCHANGED budget \/ E!Spend("faults")
             /\ \E done \in SUBSET todo : E!Change(done)
             /\ E!failed
    <3>1. list' \in [Names -> InterfacePhases]
      BY <2>1, <2>4
    <3>2. budget' \in Budgets
      BY <1>0, <2>4, EndpointFrame, SpendTyped
    <3> QED
      BY <2>0, <2>4, <3>1, <3>2, EndpointAnswers DEF Watched
  <2> QED
    BY <1>0, <1>3, <2>2, <2>3, <2>4 DEF E!handlePrivateEndpointInterface
<1> QED
  BY <1>1, <1>2, <1>3 DEF E!watchServiceState, E!atlasVars

LEMMA EndpointTyped ==
  ASSUME EndpointInv, FrameInv', {wanted', taken'} \subseteq SUBSET Names,
         service' \in ServicePhases, list' \in [Names -> InterfacePhases]
  PROVE  E!EndpointTypeOK'
BY EndpointFrame DEF E!EndpointTypeOK, FrameInv, Framed, ServicePhases, InterfacePhases

\* A handler that has looked at the service.
LEMMA EndpointWatchedStep ==
  ASSUME system = "endpoint", system' = system, EndpointInv, E!watchServiceState,
         (prec.pc = "handle" /\ ~prec.snap.deleting) \/ prec.pc = "watch",
         UNCHANGED <<pobj, pqueued, project, wanted, taken>>
  PROVE  EndpointInv'
<1>0. /\ FrameInv /\ Watched /\ budget' \in Budgets
      /\ {wanted, taken} \subseteq SUBSET Names /\ service \in ServicePhases
  BY EndpointWatches DEF EndpointInv, E!EndpointTypeOK, ServicePhases
<1>1. PICK fin \in {"set", "leave"}, id \in {"record", "leave"},
           ready \in BOOLEAN, again \in BOOLEAN :
        /\ R!Answer(fin, id, ready, again)
        /\ ready => fin = "set"
        /\ \/ again
           \/ /\ fin = "set" /\ service = "available" /\ list' = list
              /\ \A i \in Names : list[i] = IF i \in taken THEN "available" ELSE "none"
  BY <1>0 DEF Watched
<1>2. /\ FrameInv' /\ Calm' = Calm
      /\ prec'.pc = "finalizer" /\ prec'.fin = fin /\ prec'.again = again
  BY <1>0, <1>1, FrameAnswer
<1>3. Settled'
  <2> SUFFICES ASSUME Calm, ~again PROVE fin = "set" /\ Applied'
    BY <1>2 DEF Settled
  <2>1. taken = wanted
    BY <1>0 DEF EndpointInv, FrameInv, UpToDate
  <2> QED
    BY <1>0, <1>1, <2>1 DEF Applied, Watched
<1>4. E!EndpointTypeOK'
  BY <1>0, <1>2, EndpointTyped DEF Watched
<1> QED
  BY <1>2, <1>3, <1>4 DEF EndpointInv

\* A handler that goes without a look at what it left: it comes back, or takes
\* off the finalizer.
LEMMA EndpointAnswerStep ==
  ASSUME system = "endpoint", system' = system, EndpointInv, prec.pc \in {"handle", "watch"},
         NEW fin \in {"unset", "set", "leave"}, NEW id \in {"record", "leave"}, NEW again \in BOOLEAN,
         R!Answer(fin, id, FALSE, again),
         again \/ (fin = "unset" /\ prec.snap.deleting),
         fin = "unset" => prec.snap.deleting /\ (prec.snap.keep \/ service' = "none"),
         UNCHANGED <<pobj, pqueued, project, wanted, taken>>, budget' \in Budgets,
         service' \in ServicePhases, list' \in [Names -> InterfacePhases]
  PROVE  EndpointInv'
<1>0. FrameInv /\ {wanted, taken} \subseteq SUBSET Names
  BY DEF EndpointInv, E!EndpointTypeOK
<1>1. /\ FrameInv' /\ Calm' = Calm
      /\ prec'.pc = "finalizer" /\ prec'.fin = fin /\ prec'.again = again /\ prec'.snap = prec.snap
  BY <1>0, FrameAnswer
<1>2. Settled'
  BY <1>0, <1>1 DEF Settled, FrameInv, UpToDate
<1>3. E!EndpointTypeOK'
  BY <1>0, <1>1, EndpointTyped
<1> QED
  BY <1>1, <1>2, <1>3 DEF EndpointInv

LEMMA EndpointHandleStep ==
  ASSUME system = "endpoint", system' = system, EndpointInv, E!handlePrivateEndpointService
  PROVE  EndpointInv' /\ E!NoOrphan
<1>0. /\ FrameInv /\ prec.pc = "handle" /\ budget \in Budgets
      /\ service \in ServicePhases /\ list \in [Names -> InterfacePhases]
      /\ UNCHANGED <<pobj, pqueued, project, wanted, taken>>
  BY DEF EndpointInv, FrameInv, Framed, E!EndpointTypeOK, ServicePhases, InterfacePhases,
     E!handlePrivateEndpointService, E!Handling
<1>1. E!NoOrphan
  BY <1>0 DEF E!NoOrphan
<1> SUFFICES EndpointInv'
  BY <1>1
<1>2. CASE E!createPrivateEndpointService
  <2>1. list' = list /\ service' \in {"none", "initiating"}
    BY <1>2 DEF E!createPrivateEndpointService
  <2>2. CASE E!inProgress /\ UNCHANGED budget
    BY <1>0, <2>1, <2>2, EndpointAnswers, EndpointAnswerStep DEF ServicePhases
  <2>3. CASE E!Spend("faults") /\ E!Terminate
    <3>1. budget' \in Budgets
      BY <1>0, <2>3, EndpointFrame, SpendTyped
    <3> QED
      BY <1>0, <2>1, <2>3, <3>1, EndpointAnswers, EndpointAnswerStep DEF ServicePhases
  <2> QED
    BY <1>2, <2>2, <2>3 DEF E!createPrivateEndpointService
<1>3. CASE E!unmanageService
  BY <1>0, <1>3, EndpointAnswers, EndpointAnswerStep DEF E!unmanageService, E!atlasVars
<1>4. CASE E!deletePrivateEndpoint
  <2>0. service' \in ServicePhases /\ prec.snap.deleting
    BY <1>0, <1>4 DEF E!deletePrivateEndpoint, ServicePhases
  <2>1. ASSUME NEW done, list' = E!To(done, "deleting")
        PROVE  list' \in [Names -> InterfacePhases]
    BY <1>0, <2>1 DEF E!To, InterfacePhases
  <2>2. CASE list' = E!To(E!Exist, "deleting") /\ prec' = [prec EXCEPT !.pc = "watch"] /\ UNCHANGED budget
    <3>1. /\ prec' \in R!Passes /\ prec'.pc = "watch" /\ prec'.snap = prec.snap
      BY <1>0, <2>2 DEF FrameInv, Framed, R!Passes
    <3>2. FrameInv' /\ ~Calm'
      BY <1>0, <2>0, <2>2, <3>1 DEF FrameInv, Framed, Follows, Held, UpToDate, Calm
    <3>3. E!EndpointTypeOK'
      BY <1>0, <2>0, <2>1, <2>2, <3>2, EndpointTyped DEF EndpointInv, E!EndpointTypeOK
    <3> QED
      BY <2>0, <3>1, <3>2, <3>3 DEF EndpointInv, Settled
  <2>3. CASE /\ E!Spend("faults") /\ E!Terminate
             /\ \E done \in SUBSET E!Exist : list' = E!To(done, "deleting")
    <3>1. budget' \in Budgets
      BY <1>0, <2>3, EndpointFrame, SpendTyped
    <3> QED
      BY <1>0, <2>0, <2>1, <2>3, <3>1, EndpointAnswers, EndpointAnswerStep
  <2> QED
    BY <1>4, <2>2, <2>3 DEF E!deletePrivateEndpoint
<1>5. CASE ~prec.snap.deleting /\ E!watchServiceState
  BY <1>0, <1>5, EndpointWatchedStep
<1>6. CASE E!Unreachable
  <2>1. budget' \in Budgets
    BY <1>0, <1>6, EndpointFrame, SpendTyped DEF E!Unreachable
  <2> QED
    BY <1>0, <1>6, <2>1, EndpointAnswers, EndpointAnswerStep DEF E!Unreachable, E!atlasVars
<1> QED
  BY <1>1, <1>2, <1>3, <1>4, <1>5, <1>6 DEF E!handlePrivateEndpointService

LEMMA EndpointDeletionStep ==
  ASSUME system = "endpoint", system' = system, EndpointInv, E!watchDeletion
  PROVE  EndpointInv' /\ E!NoOrphan
<1>0. /\ FrameInv /\ prec.pc = "watch" /\ budget \in Budgets
      /\ service \in ServicePhases /\ list \in [Names -> InterfacePhases]
      /\ UNCHANGED <<pobj, pqueued, project, wanted, taken>>
  BY DEF EndpointInv, FrameInv, Framed, E!EndpointTypeOK, ServicePhases, InterfacePhases, E!watchDeletion
<1>1. E!NoOrphan
  BY <1>0 DEF E!NoOrphan
<1> SUFFICES EndpointInv'
  BY <1>1
<1>2. CASE E!watchServiceState
  BY <1>0, <1>1, <1>2, EndpointWatchedStep
<1>3. CASE E!Terminate /\ UNCHANGED <<service, list>> /\ (UNCHANGED budget \/ E!Spend("faults"))
  <2>1. budget' \in Budgets
    BY <1>0, <1>3, EndpointFrame, SpendTyped
  <2> QED
    BY <1>0, <1>1, <1>3, <2>1, EndpointAnswers, EndpointAnswerStep
<1> QED
  BY <1>2, <1>3 DEF E!watchDeletion, E!atlasVars

\* EndpointInv, when Atlas is as it was.
LEMMA EndpointRest ==
  ASSUME EndpointInv, UNCHANGED <<taken, list, service, system>>, FrameInv', Settled',
         wanted' \in SUBSET Names, Calm' /\ prec'.pc = "handle" => taken' = wanted',
         prec'.pc \in {"finalizer", "watch"} => prec' = prec
  PROVE  EndpointInv'
<1>1. E!EndpointTypeOK'
  BY EndpointTyped DEF EndpointInv, E!EndpointTypeOK, ServicePhases, InterfacePhases
<1> QED
  BY <1>1 DEF EndpointInv

LEMMA EndpointFrameStep ==
  ASSUME system = "endpoint", system' = system, EndpointInv,
         UNCHANGED <<wanted, taken, list, service>>,
         \/ R!Skip \/ R!UpdateStatus
         \/ \E onError \in {"record", "clear", "leave"} : R!ManageFinalizer(onError)
  PROVE  EndpointInv' /\ E!NoOrphan
<1>0. FrameInv /\ Settled /\ wanted \in SUBSET Names
  BY DEF EndpointInv, E!EndpointTypeOK
<1>1. CASE R!Skip
  <2>1. /\ FrameInv' /\ ~Calm' /\ prec' = R!Idle /\ prec.snap.skip
    BY <1>0, <1>1, FrameSkip
  <2>2. EndpointInv'
    BY <1>0, <2>1, EndpointRest, IdlePass DEF Settled
  <2> QED
    BY <2>1, <2>2 DEF E!NoOrphan
<1>2. ASSUME NEW onError \in {"record", "clear", "leave"}, R!ManageFinalizer(onError)
      PROVE  EndpointInv' /\ E!NoOrphan
  <2>1. /\ FrameInv' /\ Progress /\ prec.pc = "finalizer" /\ prec'.pc = "status"
        /\ \/ pobj' = pobj
           \/ prec.fin \in {"set", "unset"} /\ R!Patched(prec.fin)
    BY <1>0, <1>2, FrameFinalizer
  <2>2. Calm /\ Calm' /\ Applied => Applied'
    BY <1>0 DEF Applied
  <2>3. EndpointInv'
    BY <1>0, <2>1, <2>2, SettledStep, EndpointRest
  <2>4. E!NoOrphan
    <3>1. CASE prec.fin = "unset"
      BY <2>1, <3>1 DEF EndpointInv, E!NoOrphan
    <3>2. CASE prec.fin # "unset"
      BY <1>0, <2>1, <3>2, FramePatched DEF E!NoOrphan, FrameInv
    <3> QED
      BY <3>1, <3>2
  <2> QED
    BY <2>3, <2>4
<1>3. CASE R!UpdateStatus
  <2>1. /\ FrameInv' /\ Progress /\ prec' = R!Idle /\ pobj'.fin = pobj.fin
    BY <1>0, <1>3, FrameStatus
  <2>2. Calm /\ Calm' /\ Applied => Applied'
    BY <1>0 DEF Applied
  <2>3. EndpointInv'
    BY <1>0, <2>1, <2>2, SettledStep, EndpointRest, IdlePass
  <2> QED
    BY <2>1, <2>3 DEF E!NoOrphan
<1> QED
  BY <1>1, <1>2, <1>3

LEMMA EndpointStep ==
  ASSUME system = "endpoint", system' = system, EndpointInv, E!EndpointNext
  PROVE  EndpointInv' /\ E!NoOrphan
<1>0. /\ FrameInv /\ Settled /\ wanted \in SUBSET Names /\ taken \in SUBSET Names
      /\ service \in ServicePhases /\ list \in [Names -> InterfacePhases] /\ budget \in Budgets
  BY DEF EndpointInv, E!EndpointTypeOK, ServicePhases, InterfacePhases, FrameInv, Framed
<1>1. CASE E!handlePrivateEndpointService \/ E!watchDeletion
  BY <1>1, EndpointHandleStep, EndpointDeletionStep
<1>2. CASE E!PrepareResource /\ taken' = wanted /\ UNCHANGED <<wanted, service, list>>
  <2>1. /\ FrameInv' /\ Progress /\ pobj' = pobj
        /\ prec'.pc \in {"handle", "idle"}
    BY <1>0, <1>2, EndpointFrame, FramePrepare, IdlePass
  <2>2. Settled'
    BY <1>0, <1>2, <2>1, SettledStep DEF Applied
  <2>3. E!EndpointTypeOK'
    BY <1>0, <1>2, <2>1, EndpointTyped
  <2> QED
    BY <1>0, <1>2, <2>1, <2>2, <2>3 DEF EndpointInv, E!NoOrphan
<1>3. CASE /\ \/ E!Skip \/ E!UpdateStatus
              \/ E!ManageFinalizer(IF prec.fin = "set" THEN prec.id ELSE E!Unnoted)
           /\ UNCHANGED <<wanted, taken, service, list>>
  <2>1. /\ prec.id \in {"record", "clear", "leave"} /\ R!Unnoted \in {"record", "clear", "leave"}
    BY <1>0 DEF R!Unnoted, FrameInv, Framed, R!Passes
  <2> QED
    BY <1>3, <2>1, EndpointFrame, EndpointFrameStep
<1>4. CASE E!EndpointSync
  <2>1. /\ FrameInv' /\ Progress /\ prec' = prec /\ pobj' = [pobj EXCEPT !.seen = pobj.id]
        /\ pqueued' = pqueued /\ project' = project
    BY <1>0, <1>4, EndpointFrame, FrameSync DEF E!EndpointSync
  <2>2. UNCHANGED <<wanted, taken, service, list>>
    BY <1>4 DEF E!EndpointSync, E!atlasVars
  <2>3. Settled' /\ Calm' = Calm /\ pobj'.fin = pobj.fin
    <3>1. Calm' = Calm /\ pobj'.fin = pobj.fin
      BY <1>0, <2>1 DEF Calm, FrameInv, Framed, R!Objects
    <3> QED
      BY <1>0, <2>1, <2>2, <3>1, SettledStep DEF Applied
  <2> QED
    BY <1>0, <2>1, <2>2, <2>3, EndpointRest DEF E!NoOrphan, EndpointInv
<1>5. CASE E!EndpointUser
  <2>1. /\ FrameInv' /\ ~Calm' /\ prec' = prec /\ pobj'.fin = pobj.fin
    BY <1>0, <1>5, EndpointFrame, FrameUser DEF E!EndpointUser
  <2>2. wanted' \in SUBSET Names /\ UNCHANGED <<taken, list, service>>
    BY <1>0, <1>5 DEF E!EndpointUser, E!atlasVars
  <2> QED
    BY <1>0, <2>1, <2>2, EndpointRest DEF Settled, E!NoOrphan
<1>6. CASE (E!ProjectGoes \/ E!Restart) /\ UNCHANGED <<wanted, taken, service, list>>
  <2>1. /\ FrameInv' /\ ~Calm' /\ pobj' = pobj /\ (prec' = prec \/ prec' = R!Idle)
    BY <1>0, <1>6, EndpointFrame, FrameProjectGoes, FrameRestart
  <2> QED
    BY <1>0, <1>6, <2>1, EndpointRest, IdlePass DEF Settled, E!NoOrphan
<1>7. CASE E!ServiceSettles \/ \E i \in Names : E!InterfaceSettles(i)
  <2>1. /\ UNCHANGED <<pobj, pqueued, prec, project, wanted, taken>>
        /\ service' = service \/ (service' \in ServicePhases /\ service \in {"initiating", "deleting"})
    BY <1>7 DEF E!ServiceSettles, E!InterfaceSettles, ServicePhases
  <2>2. budget' \in Budgets
    BY <1>0, <1>7, EndpointFrame, SpendTyped DEF E!ServiceSettles, E!InterfaceSettles
  <2>3. list' \in [Names -> InterfacePhases]
        /\ (list' = list \/ \E i \in Names : list[i] \in {"pending", "deleting"})
    <3>1. CASE E!ServiceSettles
      BY <1>0, <3>1 DEF E!ServiceSettles
    <3>2. ASSUME NEW i \in Names, E!InterfaceSettles(i)
          PROVE  list' \in [Names -> InterfacePhases] /\ list[i] \in {"pending", "deleting"}
      BY <1>0, <3>2 DEF E!InterfaceSettles, E!To, InterfacePhases
    <3> QED
      BY <1>7, <3>1, <3>2
  <2>4. FrameInv' /\ Calm' = Calm
    BY <1>0, <2>1, <2>2 DEF FrameInv, Framed, Follows, Held, UpToDate, Calm
  <2>5. Applied => Applied'
    BY <2>1, <2>3 DEF Applied
  <2>6. Settled'
    BY <1>0, <2>1, <2>4, <2>5 DEF Settled
  <2>7. service = "none" => service' = "none"
    BY <2>1
  <2>8. E!EndpointTypeOK'
    BY <1>0, <2>1, <2>3, <2>4, EndpointTyped
  <2> QED
    BY <1>0, <2>1, <2>4, <2>6, <2>7, <2>8 DEF EndpointInv, E!NoOrphan
<1> QED
  BY <1>1, <1>2, <1>3, <1>4, <1>5, <1>6, <1>7 DEF E!EndpointNext, E!EndpointLoop, E!atlasVars

----------------------------------------------------------------------------
(* The network: the peering, and then the container.                       *)

\* With a cache that does not lag: an id that has been noted, or is about to
\* be, comes with the finalizer; what the spec of a peering names and the
\* status does not have yet is as it was found.
PeerNoted ==
  ~budget.lagged =>
    /\ prec.pc # "idle" => prec.snap.id = pobj.id
    /\ project /\ pobj.exists =>
         /\ pobj.id \/ pobj.deleting => pobj.fin
         /\ prec.pc = "finalizer" /\ prec.id = "record" => prec.fin = "set" \/ pobj.fin
         /\ prec.pc = "status" /\ prec.id = "record" => pobj.fin
    /\ pobj.given /\ ~pobj.id /\ ~pobj.deleting => peer.phase \in {"none", "available"}

PeerPhases == {"none", "pending", "available", "failed", "closing"}

PeerInv ==
  /\ FrameInv /\ Settled
  /\ peer \in [phase : PeerPhases, spec : Nat]
  /\ prec.pc # "watch"
  /\ prec.pc # "idle" => prec.snap.given = pobj.given
  /\ prec.pc \in {"finalizer", "status"} /\ prec.id = "clear" => pobj.deleting
  /\ PeerNoted
  /\ prec.pc = "finalizer" /\ prec.fin = "unset" /\ project =>
       prec.snap.keep \/ ~prec.snap.id \/ peer.phase = "none"

\* The same of the container and the reconcile of its own.
Q == INSTANCE ResourceReconciler WITH obj <- cobj, queued <- cqueued, rec <- crec

CFramed ==
  /\ cobj \in Q!Objects /\ crec \in Q!Passes
  /\ cqueued \in BOOLEAN /\ project \in BOOLEAN
  /\ budget \in Budgets

CFollows ==
  crec.pc # "idle" =>
    /\ crec.snap.fin = cobj.fin /\ crec.snap.keep = cobj.keep
    /\ crec.snap.deleting => cobj.deleting

CHeld ==
  /\ crec.pc = "finalizer" => /\ crec.ready => crec.fin = "set"
                              /\ crec.fin = "unset" => ~project \/ cobj.deleting
  /\ crec.pc = "status" /\ crec.ready => cobj.fin
  /\ cobj.exists /\ cobj.ready /\ project => cobj.fin

CCalm == cobj.exists /\ ~cobj.deleting /\ ~cobj.skip /\ project /\ ~cqueued

CUpToDate ==
  CCalm /\ crec.pc # "idle" =>
    crec.snap.gen = cobj.gen /\ ~crec.snap.deleting /\ ~crec.snap.skip

CFrameInv == CFramed /\ CFollows /\ CHeld /\ CUpToDate

CApplied == container.present => container.cidr = cobj.gen

CSettled ==
  CCalm =>
    /\ crec.pc = "idle" => cobj.fin /\ CApplied
    /\ crec.pc = "finalizer" => crec.again \/ (crec.fin = "set" /\ CApplied)
    /\ crec.pc = "status" => crec.again \/ (cobj.fin /\ CApplied)

CProgress ==
  CCalm' =>
    \/ crec'.pc = "handle"
    \/ /\ CCalm /\ cobj'.gen = cobj.gen
       /\ \/ crec'.pc = "status" /\ crec'.again
          \/ crec' = crec /\ cobj'.fin = cobj.fin
          \/ /\ crec.pc = "finalizer" /\ crec'.pc = "status" /\ crec'.again = crec.again
             /\ crec.fin = "set" => cobj'.fin
          \/ crec.pc = "status" /\ crec'.pc = "idle" /\ ~crec.again /\ cobj'.fin = cobj.fin

ContainerNoted ==
  ~budget.lagged =>
    /\ crec.pc # "idle" => crec.snap.id = cobj.id
    /\ project /\ cobj.exists /\ cobj.id => cobj.fin

ContainerInv ==
  /\ CFrameInv /\ CSettled
  /\ container \in [present : BOOLEAN, cidr : Nat]
  /\ crec.pc # "watch" /\ crec.id # "clear"
  /\ crec.pc = "finalizer" /\ crec.id = "record" => crec.fin = "set"
  /\ crec.pc = "status" /\ crec.id = "record" => cobj.fin
  /\ ContainerNoted
  /\ crec.pc = "finalizer" /\ crec.fin = "unset" /\ project =>
       crec.snap.keep \/ ~crec.snap.id \/ ~container.present

----------------------------------------------------------------------------
(* Steps of the frame.                                                     *)

LEMMA CObjectChanges ==
  ASSUME NEW o \in Q!Objects, NEW b \in BOOLEAN, NEW c \in BOOLEAN
  PROVE  /\ [o EXCEPT !.gen = @ + 1] \in Q!Objects
         /\ [o EXCEPT !.deleting = TRUE, !.exists = b] \in Q!Objects
         /\ [o EXCEPT !.skip = b] \in Q!Objects
         /\ [o EXCEPT !.seen = b] \in Q!Objects
         /\ [o EXCEPT !.id = b] \in Q!Objects
         /\ [o EXCEPT !.fin = b, !.exists = c] \in Q!Objects
         /\ [o EXCEPT !.ready = b, !.id = c] \in Q!Objects
<1>1. [o EXCEPT !.gen = @ + 1] \in Q!Objects
  BY DEF Q!Objects
<1>2. [o EXCEPT !.deleting = TRUE, !.exists = b] \in Q!Objects
  BY DEF Q!Objects
<1>3. [o EXCEPT !.skip = b] \in Q!Objects /\ [o EXCEPT !.seen = b] \in Q!Objects
  BY DEF Q!Objects
<1>4. [o EXCEPT !.id = b] \in Q!Objects /\ [o EXCEPT !.fin = b, !.exists = c] \in Q!Objects
  BY DEF Q!Objects
<1>5. [o EXCEPT !.ready = b, !.id = c] \in Q!Objects
  BY DEF Q!Objects
<1> QED
  BY <1>1, <1>2, <1>3, <1>4, <1>5

LEMMA CSpendTyped ==
  ASSUME budget \in Budgets, Q!Spend("ops") \/ Q!Spend("faults")
  PROVE  budget' \in Budgets /\ budget'.lagged = budget.lagged
BY DEF Budgets, Q!Spend

LEMMA CIdlePass ==
  /\ Q!Idle \in Q!Passes /\ Q!Idle.pc = "idle" /\ Q!Idle.id = "leave"
  /\ ~Q!Idle.ready /\ ~Q!Idle.again
BY DEF Q!Idle, Q!Passes, Q!Objects, Q!NewObject

LEMMA CFrameIdle ==
  ASSUME CFrameInv, crec' = Q!Idle, CFramed', cobj' = cobj, project' = project
  PROVE  CFrameInv'
BY CIdlePass DEF CFrameInv, CFollows, CHeld, CUpToDate

\* A user's step is reported, or makes the object one that is not to be synced.
LEMMA CFrameUser ==
  ASSUME CFrameInv, Q!User
  PROVE  /\ CFrameInv' /\ ~CCalm' /\ crec' = crec /\ project' = project
         /\ cobj.exists /\ cobj'.fin = cobj.fin /\ cobj'.id = cobj.id /\ cobj'.keep = cobj.keep
         /\ ~cobj'.exists => ~cobj.fin
<1>0. /\ cobj \in Q!Objects /\ crec \in Q!Passes /\ cqueued \in BOOLEAN /\ project \in BOOLEAN
      /\ budget \in Budgets
      /\ cobj.fin \in BOOLEAN /\ cobj.skip \in BOOLEAN /\ cobj.gen \in Nat /\ cobj.exists
      /\ crec' = crec /\ project' = project
  BY DEF CFrameInv, CFramed, Q!User, Q!Objects
<1>1. budget' \in Budgets
  BY <1>0, CSpendTyped DEF Q!User
<1>2. \/ Q!Becomes([cobj EXCEPT !.gen = @ + 1]) /\ ~cobj.deleting
      \/ Q!Becomes([cobj EXCEPT !.deleting = TRUE, !.exists = cobj.fin])
      \/ Q!Becomes([cobj EXCEPT !.skip = ~@])
      \/ cobj' = cobj /\ cqueued' = TRUE
  BY DEF Q!User, Q!Edit, Q!RequestDeletion, Q!ToggleSkip, Q!Resync
<1>3. /\ cobj' \in Q!Objects /\ cqueued' \in BOOLEAN
      /\ cobj'.fin = cobj.fin /\ cobj'.id = cobj.id /\ cobj'.keep = cobj.keep
      /\ cobj'.ready = cobj.ready
      /\ cobj.deleting => cobj'.deleting
      /\ ~cobj'.exists => ~cobj.fin
      /\ ~CCalm'
  <2>1. CASE Q!Becomes([cobj EXCEPT !.gen = @ + 1])
    BY <1>0, <2>1 DEF Q!Becomes, Q!Wakes, Q!Objects, CCalm
  <2>2. CASE Q!Becomes([cobj EXCEPT !.deleting = TRUE, !.exists = cobj.fin])
    BY <1>0, <2>2 DEF Q!Becomes, Q!Wakes, Q!Objects, CCalm
  <2>3. CASE Q!Becomes([cobj EXCEPT !.skip = ~@])
    BY <1>0, <2>3 DEF Q!Becomes, Q!Wakes, Q!Objects, CCalm
  <2>4. CASE cobj' = cobj /\ cqueued' = TRUE
    BY <1>0, <2>4 DEF CCalm
  <2> QED
    BY <1>2, <2>1, <2>2, <2>3, <2>4
<1>4. CFramed'
  BY <1>0, <1>1, <1>3 DEF CFramed
<1> QED
  BY <1>0, <1>3, <1>4 DEF CFrameInv, CFollows, CHeld, CUpToDate

LEMMA CFrameProjectGoes ==
  ASSUME CFrameInv, Q!ProjectGoes
  PROVE  CFrameInv' /\ ~CCalm' /\ cobj' = cobj /\ crec' = crec /\ ~project'
<1>1. CFramed'
  BY CSpendTyped DEF CFrameInv, CFramed, Q!ProjectGoes, Q!Objects
<1> QED
  BY <1>1 DEF CFrameInv, CFollows, CHeld, CUpToDate, Q!ProjectGoes, CCalm

LEMMA CFrameRestart ==
  ASSUME CFrameInv, Q!Restart
  PROVE  CFrameInv' /\ ~CCalm' /\ cobj' = cobj /\ crec' = Q!Idle /\ project' = project
<1>1. CFramed'
  BY CSpendTyped, CIdlePass DEF CFrameInv, CFramed, Q!Restart, Q!Done, Q!Objects
<1>2. ~CCalm' /\ cobj' = cobj /\ crec' = Q!Idle /\ project' = project
  BY DEF Q!Restart, Q!Done, CCalm
<1> QED
  BY <1>1, <1>2, CFrameIdle

LEMMA CFrameSync ==
  ASSUME CFrameInv, Q!CacheSync
  PROVE  /\ CFrameInv' /\ CProgress
         /\ cobj' = [cobj EXCEPT !.seen = cobj.id]
         /\ UNCHANGED <<cqueued, crec, project, budget>>
<1>0. /\ cobj \in Q!Objects /\ cobj.id \in BOOLEAN
      /\ cobj' = [cobj EXCEPT !.seen = cobj.id] /\ UNCHANGED <<cqueued, crec, project, budget>>
  BY DEF CFrameInv, CFramed, Q!CacheSync, Q!Objects
<1>1. /\ cobj' \in Q!Objects
      /\ cobj'.exists = cobj.exists /\ cobj'.deleting = cobj.deleting /\ cobj'.skip = cobj.skip
      /\ cobj'.fin = cobj.fin /\ cobj'.keep = cobj.keep /\ cobj'.ready = cobj.ready
      /\ cobj'.gen = cobj.gen
  BY <1>0 DEF Q!Objects
<1>2. CFramed' /\ CCalm' = CCalm
  BY <1>0, <1>1 DEF CFrameInv, CFramed, CCalm
<1> QED
  BY <1>0, <1>1, <1>2 DEF CFrameInv, CFollows, CHeld, CUpToDate, CProgress

LEMMA CFramePrepare ==
  ASSUME CFrameInv, Q!PrepareResource
  PROVE  /\ CFrameInv' /\ CProgress
         /\ cobj' = cobj /\ project' = project /\ ~cqueued'
         /\ IF cobj.exists
            THEN /\ crec' = [Q!Idle EXCEPT !.pc = "handle", !.snap = Q!Cached]
                 /\ crec'.pc = "handle" /\ crec'.id = "leave" /\ crec'.snap = Q!Cached
                 /\ crec'.snap.gen = cobj.gen /\ crec'.snap.deleting = cobj.deleting
                 /\ crec'.snap.skip = cobj.skip /\ crec'.snap.id = cobj.seen
                 /\ crec'.snap.keep = cobj.keep /\ crec'.snap.given = cobj.given
            ELSE crec' = Q!Idle
         /\ budget' # budget => budget'.lagged
         /\ budget.lagged => budget'.lagged
         /\ cobj.exists /\ cobj.seen # cobj.id => budget'.lagged /\ budget'.faults # budget.faults
         /\ budget'.faults <= budget.faults
<1>0. /\ cobj \in Q!Objects /\ crec \in Q!Passes /\ project \in BOOLEAN /\ budget \in Budgets
      /\ cobj' = cobj /\ project' = project /\ cqueued' = FALSE
  BY DEF CFrameInv, CFramed, Q!PrepareResource
<1>1. /\ budget' \in Budgets
      /\ budget' # budget => budget'.lagged
      /\ budget.lagged => budget'.lagged
      /\ cobj.exists /\ cobj.seen # cobj.id => budget'.lagged /\ budget'.faults # budget.faults
      /\ budget'.faults <= budget.faults
  <2>1. CASE budget.faults > 0 /\ budget' = [budget EXCEPT !.faults = @ - 1, !.lagged = TRUE]
    <3>1. budget.faults - 1 \in Nat /\ budget.faults \in Nat
      BY <1>0, <2>1 DEF Budgets
    <3>2. budget' \in Budgets /\ budget'.lagged /\ budget'.faults = budget.faults - 1
      BY <1>0, <2>1, <3>1 DEF Budgets
    <3> QED
      BY <3>1, <3>2
  <2>2. CASE budget' = budget /\ ~(cobj.exists /\ cobj.seen # cobj.id)
    BY <1>0, <2>2 DEF Budgets
  <2> QED
    BY <2>1, <2>2 DEF Q!PrepareResource
<1>2. CASE ~cobj.exists
  <2>1. crec' = Q!Idle
    BY <1>2 DEF Q!PrepareResource
  <2>2. CFramed'
    BY <1>0, <1>1, <2>1, CIdlePass DEF CFramed
  <2> QED
    BY <1>0, <1>1, <1>2, <2>1, <2>2, CFrameIdle DEF CProgress, CCalm
<1>3. CASE cobj.exists
  <2>1. crec' = [Q!Idle EXCEPT !.pc = "handle", !.snap = Q!Cached]
    BY <1>3 DEF Q!PrepareResource
  <2>2. /\ Q!Cached \in Q!Objects /\ Q!Cached.fin = cobj.fin /\ Q!Cached.keep = cobj.keep
        /\ Q!Cached.gen = cobj.gen /\ Q!Cached.deleting = cobj.deleting
        /\ Q!Cached.skip = cobj.skip /\ Q!Cached.id = cobj.seen /\ Q!Cached.given = cobj.given
    BY <1>0 DEF Q!Cached, Q!Objects
  <2>3. /\ crec' \in Q!Passes
        /\ crec'.pc = "handle" /\ crec'.id = "leave" /\ crec'.snap = Q!Cached
    BY <2>1, <2>2 DEF Q!Passes, Q!Idle
  <2>4. CFramed'
    BY <1>0, <1>1, <2>3 DEF CFramed
  <2>5. CHeld'
    BY <1>0, <2>3 DEF CFrameInv, CHeld
  <2>6. CFollows' /\ CUpToDate'
    BY <1>0, <2>2, <2>3 DEF CFollows, CUpToDate, CCalm
  <2> QED
    BY <1>0, <1>1, <1>3, <2>1, <2>2, <2>3, <2>4, <2>5, <2>6 DEF CFrameInv, CProgress
<1> QED
  BY <1>2, <1>3

\* An answer of the handler: the finalizer is set with Ready, and goes only
\* after a deletion or without the project.
LEMMA CFrameAnswer ==
  ASSUME CFrameInv, crec.pc \in {"handle", "watch"},
         NEW fin \in {"set", "unset", "leave"}, NEW id \in {"record", "clear", "leave"},
         NEW ready \in BOOLEAN, NEW again \in BOOLEAN,
         Q!Answer(fin, id, ready, again),
         cobj' = cobj, cqueued' = cqueued, project' = project, budget' \in Budgets,
         ready => fin = "set",
         fin = "unset" => ~project \/ crec.snap.deleting
  PROVE  /\ CFrameInv' /\ CCalm' = CCalm
         /\ crec' = [crec EXCEPT !.pc = "finalizer", !.fin = fin, !.id = id,
                                 !.ready = ready, !.again = again]
         /\ crec'.pc = "finalizer" /\ crec'.snap = crec.snap /\ crec'.fin = fin /\ crec'.id = id
         /\ crec'.ready = ready /\ crec'.again = again
<1>0. crec \in Q!Passes /\ crec' = [crec EXCEPT !.pc = "finalizer", !.fin = fin, !.id = id,
                                                !.ready = ready, !.again = again]
  BY DEF CFrameInv, CFramed, Q!Answer
<1>1. /\ crec' \in Q!Passes
      /\ crec'.pc = "finalizer" /\ crec'.snap = crec.snap /\ crec'.fin = fin /\ crec'.id = id
      /\ crec'.ready = ready /\ crec'.again = again
  BY <1>0 DEF Q!Passes
<1>2. CFramed'
  BY <1>1 DEF CFrameInv, CFramed
<1>3. CCalm' = CCalm
  BY DEF CCalm
<1> QED
  BY <1>0, <1>1, <1>2, <1>3 DEF CFrameInv, CFollows, CHeld, CUpToDate

LEMMA CFrameSkip ==
  ASSUME CFrameInv, Q!Skip
  PROVE  /\ CFrameInv' /\ ~CCalm' /\ project' = project /\ crec' = Q!Idle
         /\ cobj' = cobj \/ (Q!Patched("unset") /\ crec.snap.deleting)
         /\ crec.snap.skip
         /\ budget' \in Budgets
<1>0. /\ cobj \in Q!Objects /\ crec \in Q!Passes /\ cqueued \in BOOLEAN /\ project \in BOOLEAN
      /\ budget \in Budgets /\ project' = project /\ crec.pc = "handle" /\ crec.snap.skip
  BY DEF CFrameInv, CFramed, Q!Skip
<1>1. /\ crec' = Q!Idle /\ cqueued' \in BOOLEAN /\ (cqueued => cqueued')
      /\ cobj' = cobj \/ (Q!Patched("unset") /\ crec.snap.deleting)
  BY <1>0 DEF Q!Skip, Q!Done, Q!Passes
<1>2. budget' \in Budgets
  BY <1>0, CSpendTyped DEF Q!Skip
<1>3. CASE cobj' = cobj
  <2>1. CFramed'
    BY <1>0, <1>1, <1>2, <1>3, CIdlePass DEF CFramed
  <2>2. ~CCalm'
    BY <1>0, <1>1, <1>3 DEF CCalm, CFrameInv, CUpToDate
  <2> QED
    BY <1>0, <1>1, <1>2, <1>3, <2>1, <2>2, CFrameIdle
<1>4. CASE Q!Patched("unset") /\ crec.snap.deleting
  <2>1. cobj.deleting
    BY <1>0, <1>4 DEF CFrameInv, CFollows
  <2>2. cobj' = [cobj EXCEPT !.fin = FALSE, !.exists = FALSE]
    BY <1>4, <2>1 DEF Q!Patched
  <2>3. cobj' \in Q!Objects /\ ~cobj'.exists
    BY <1>0, <2>2 DEF Q!Objects
  <2>4. CFramed' /\ ~CCalm'
    BY <1>0, <1>1, <1>2, <2>3, CIdlePass DEF CFramed, CCalm
  <2> QED
    BY <1>0, <1>1, <1>2, <1>4, <2>3, <2>4, CIdlePass DEF CFrameInv, CFollows, CHeld, CUpToDate
<1> QED
  BY <1>1, <1>3, <1>4

LEMMA CFramePatched ==
  ASSUME CFramed, NEW op \in {"set", "unset"}, Q!Patched(op)
  PROVE  /\ cobj.exists /\ cobj' \in Q!Objects
         /\ cobj'.fin = (op = "set") /\ cobj'.exists = (op = "set" \/ ~cobj.deleting)
         /\ op = "set" => ~cobj.deleting
         /\ cobj'.deleting = cobj.deleting /\ cobj'.skip = cobj.skip /\ cobj'.gen = cobj.gen
         /\ cobj'.id = cobj.id /\ cobj'.seen = cobj.seen /\ cobj'.keep = cobj.keep
         /\ cobj'.ready = cobj.ready /\ cobj'.given = cobj.given
<1>1. cobj \in Q!Objects /\ cobj.deleting \in BOOLEAN
  BY DEF CFramed, Q!Objects
<1>2. /\ cobj' = [cobj EXCEPT !.fin = (op = "set"), !.exists = (op = "set" \/ ~cobj.deleting)]
      /\ cobj.exists /\ (op = "set" => ~cobj.deleting)
  BY DEF Q!Patched
<1>3. (op = "set") \in BOOLEAN /\ (op = "set" \/ ~cobj.deleting) \in BOOLEAN
  BY <1>1
<1>4. cobj' \in Q!Objects
  BY <1>1, <1>2, <1>3, CObjectChanges
<1> QED
  BY <1>1, <1>2, <1>4 DEF Q!Objects

LEMMA CFrameFinalizer ==
  ASSUME CFrameInv, NEW onError \in {"record", "clear", "leave"}, Q!ManageFinalizer(onError)
  PROVE  /\ CFrameInv' /\ CProgress
         /\ project' = project /\ cqueued' = cqueued /\ budget' \in Budgets
         /\ budget'.lagged = budget.lagged
         /\ crec.pc = "finalizer" /\ crec'.pc = "status"
         /\ \/ cobj' = cobj /\ (crec'.id = crec.id /\ crec'.snap = crec.snap
                                /\ (crec.fin = "set" => cobj.fin))
            \/ cobj' = cobj /\ crec'.id = onError /\ crec'.snap = crec.snap
            \/ /\ crec.fin \in {"set", "unset"} /\ Q!Patched(crec.fin)
               /\ crec'.id = crec.id /\ crec'.snap = cobj'
<1> DEFINE change == crec.fin # "leave" /\ (crec.fin = "set") # crec.snap.fin
           error == [crec EXCEPT !.pc = "status", !.ready = FALSE, !.again = TRUE, !.id = onError]
<1>0. /\ cobj \in Q!Objects /\ crec \in Q!Passes /\ cqueued \in BOOLEAN /\ project \in BOOLEAN
      /\ budget \in Budgets /\ project' = project /\ cqueued' = cqueued /\ crec.pc = "finalizer"
      /\ crec.snap.fin = cobj.fin /\ crec.snap.keep = cobj.keep
      /\ crec.snap.deleting => cobj.deleting
      /\ crec.fin \in {"set", "unset", "leave"} /\ cobj.fin \in BOOLEAN
  BY DEF CFrameInv, CFramed, CFollows, Q!ManageFinalizer, Q!Passes, Q!Objects
<1>1. CASE ~change /\ crec' = [crec EXCEPT !.pc = "status"] /\ UNCHANGED <<cobj, budget>>
  <2>1. /\ crec' \in Q!Passes /\ crec'.pc = "status" /\ crec'.snap = crec.snap
        /\ crec'.id = crec.id /\ crec'.ready = crec.ready /\ crec'.again = crec.again
    BY <1>0, <1>1 DEF Q!Passes
  <2>2. crec.fin = "set" => cobj.fin
    BY <1>0, <1>1
  <2>3. CFramed' /\ CCalm' = CCalm
    BY <1>0, <1>1, <2>1 DEF CFramed, CCalm
  <2>4. CFollows' /\ CHeld' /\ CUpToDate'
    BY <1>0, <1>1, <2>1, <2>2, <2>3 DEF CFrameInv, CFollows, CHeld, CUpToDate
  <2> QED
    BY <1>0, <1>1, <2>1, <2>2, <2>3, <2>4 DEF CFrameInv, CProgress
<1>2. CASE change /\ Q!Patched(crec.fin) /\ crec' = [crec EXCEPT !.pc = "status", !.snap = cobj']
           /\ UNCHANGED budget
  <2>0. crec.fin \in {"set", "unset"}
    BY <1>0, <1>2
  <2>1. /\ cobj.exists /\ cobj' \in Q!Objects
        /\ cobj'.fin = (crec.fin = "set") /\ cobj'.exists = (crec.fin = "set" \/ ~cobj.deleting)
        /\ cobj'.deleting = cobj.deleting /\ cobj'.skip = cobj.skip /\ cobj'.gen = cobj.gen
        /\ cobj'.ready = cobj.ready
    BY <1>0, <1>2, <2>0, CFramePatched DEF CFrameInv
  <2>2. /\ crec' \in Q!Passes /\ crec'.pc = "status" /\ crec'.snap = cobj'
        /\ crec'.id = crec.id /\ crec'.ready = crec.ready /\ crec'.again = crec.again
    BY <1>0, <1>2, <2>1 DEF Q!Passes
  <2>3. CFramed' /\ (CCalm' => CCalm)
    BY <1>0, <1>2, <2>1, <2>2 DEF CFramed, CCalm
  <2>4. CFollows' /\ CUpToDate'
    BY <2>2 DEF CFollows, CUpToDate, CCalm
  <2>5. CHeld'
    BY <1>0, <2>0, <2>1, <2>2 DEF CFrameInv, CHeld
  <2> QED
    BY <1>0, <1>2, <2>0, <2>1, <2>2, <2>3, <2>4, <2>5 DEF CFrameInv, CProgress
<1>3. CASE cobj' = cobj /\ crec' = error /\ (budget' = budget \/ Q!Spend("faults"))
  <2>1. /\ crec' \in Q!Passes /\ crec'.pc = "status" /\ crec'.snap = crec.snap
        /\ crec'.id = onError /\ ~crec'.ready /\ crec'.again
    BY <1>0, <1>3 DEF Q!Passes
  <2>2. budget' \in Budgets /\ budget'.lagged = budget.lagged
    BY <1>0, <1>3, CSpendTyped
  <2>3. CFramed' /\ CCalm' = CCalm
    BY <1>0, <1>3, <2>1, <2>2 DEF CFramed, CCalm
  <2>4. CFollows' /\ CHeld' /\ CUpToDate'
    BY <1>0, <1>3, <2>1, <2>3 DEF CFrameInv, CFollows, CHeld, CUpToDate
  <2> QED
    BY <1>0, <1>3, <2>1, <2>2, <2>3, <2>4 DEF CFrameInv, CProgress
<1> QED
  BY <1>1, <1>2, <1>3 DEF Q!ManageFinalizer

LEMMA CFrameStatus ==
  ASSUME CFrameInv, Q!UpdateStatus
  PROVE  /\ CFrameInv' /\ CProgress
         /\ project' = project /\ budget' \in Budgets /\ crec' = Q!Idle
         /\ crec.pc = "status"
         /\ \/ /\ cobj.exists /\ budget' = budget
               /\ cobj' = [cobj EXCEPT !.ready = crec.ready,
                                       !.id = CASE crec.id = "record" -> TRUE
                                                [] crec.id = "clear"  -> FALSE
                                                [] OTHER              -> crec.snap.id]
               /\ crec.id = "record" => cobj'.id
               /\ crec.id = "clear" => ~cobj'.id
               /\ crec.id = "leave" => cobj'.id = crec.snap.id
            \/ cobj' = cobj /\ (~cobj.exists \/ Q!Spend("faults"))
         /\ cobj'.fin = cobj.fin /\ cobj'.exists = cobj.exists /\ cobj'.gen = cobj.gen
         /\ cobj'.keep = cobj.keep /\ cobj'.deleting = cobj.deleting /\ cobj'.skip = cobj.skip
         /\ cobj'.seen = cobj.seen
<1>0. /\ cobj \in Q!Objects /\ crec \in Q!Passes /\ cqueued \in BOOLEAN /\ project \in BOOLEAN
      /\ budget \in Budgets /\ project' = project
      /\ crec.pc = "status" /\ crec.again \in BOOLEAN /\ crec.ready \in BOOLEAN
      /\ crec.snap \in Q!Objects /\ crec.snap.id \in BOOLEAN
      /\ crec.id \in {"record", "clear", "leave"}
      /\ crec' = Q!Idle /\ cqueued' = (cqueued \/ crec.again)
  BY DEF CFrameInv, CFramed, Q!UpdateStatus, Q!Done, Q!Passes, Q!Objects
<1>1. budget' \in Budgets
  BY <1>0, CSpendTyped DEF Q!UpdateStatus
<1> DEFINE id == CASE crec.id = "record" -> TRUE
                   [] crec.id = "clear"  -> FALSE
                   [] OTHER              -> crec.snap.id
<1>2. /\ id \in BOOLEAN /\ (crec.id = "record" => id) /\ (crec.id = "clear" => ~id)
      /\ crec.id = "leave" => id = crec.snap.id
  BY <1>0
<1> HIDE DEF id
<1>3. \/ /\ cobj.exists /\ budget' = budget
         /\ cobj' = [cobj EXCEPT !.ready = crec.ready, !.id = id]
      \/ cobj' = cobj /\ (~cobj.exists \/ Q!Spend("faults"))
  BY DEF Q!UpdateStatus, id
<1>4. /\ cobj' \in Q!Objects
      /\ cobj'.fin = cobj.fin /\ cobj'.exists = cobj.exists /\ cobj'.gen = cobj.gen
      /\ cobj'.keep = cobj.keep /\ cobj'.deleting = cobj.deleting /\ cobj'.skip = cobj.skip
      /\ cobj'.seen = cobj.seen
      /\ (cobj'.ready = cobj.ready \/ cobj'.ready = crec.ready)
      /\ cobj' # cobj => cobj'.id = id
  <2>1. CASE cobj' = [cobj EXCEPT !.ready = crec.ready, !.id = id]
    BY <1>0, <1>2, <2>1 DEF Q!Objects
  <2>2. CASE cobj' = cobj
    BY <1>0, <2>2
  <2> QED
    BY <1>3, <2>1, <2>2
<1>5. CFramed' /\ (CCalm' => CCalm /\ ~crec.again)
  BY <1>0, <1>1, <1>4, CIdlePass DEF CFramed, CCalm
<1>6. CFollows' /\ CUpToDate' /\ CHeld'
  BY <1>0, <1>4, CIdlePass DEF CFrameInv, CFollows, CUpToDate, CHeld
<1>7. /\ CFrameInv' /\ CProgress
  BY <1>0, <1>4, <1>5, <1>6, CIdlePass DEF CFrameInv, CProgress
<1>8. \/ /\ cobj.exists /\ budget' = budget
         /\ cobj' = [cobj EXCEPT !.ready = crec.ready, !.id = id] /\ cobj'.id = id
      \/ cobj' = cobj /\ (~cobj.exists \/ Q!Spend("faults"))
  BY <1>0, <1>3 DEF Q!Objects
<1> QED
  BY <1>0, <1>1, <1>2, <1>4, <1>7, <1>8 DEF id

LEMMA CFrameMissingProject ==
  ASSUME CFrameInv, Q!MissingProject
  PROVE  /\ CFrameInv' /\ ~CCalm' /\ cobj' = cobj /\ project' = project /\ ~project
         /\ crec.pc = "handle" /\ crec'.pc = "finalizer"
         /\ crec'.snap = crec.snap /\ crec'.fin = "unset" /\ crec'.id = "leave" /\ crec'.again
<1>1. /\ crec.pc = "handle" /\ ~project /\ Q!Answer("unset", "leave", FALSE, TRUE)
      /\ UNCHANGED <<cobj, cqueued, project, budget>>
  BY DEF Q!MissingProject, Q!Handling, Q!Release
<1>2. budget' \in Budgets
  BY <1>1 DEF CFrameInv, CFramed
<1> QED
  BY <1>1, <1>2, CFrameAnswer DEF CCalm

LEMMA CSettledStep ==
  ASSUME CFrameInv, CSettled, CProgress, CCalm /\ CCalm' /\ CApplied => CApplied'
  PROVE  CSettled'
BY DEF CSettled, CProgress

LEMMA PeerFrame ==
  /\ N!P!Objects = R!Objects /\ N!P!Passes = R!Passes /\ N!P!Idle = R!Idle
  /\ N!P!User = R!User /\ N!P!ProjectGoes = R!ProjectGoes /\ N!P!Restart = R!Restart
  /\ N!P!CacheSync = R!CacheSync /\ N!P!PrepareResource = R!PrepareResource
  /\ N!P!Handling = R!Handling /\ N!P!Skip = R!Skip /\ N!P!UpdateStatus = R!UpdateStatus
  /\ N!P!MissingProject = R!MissingProject
  /\ N!P!AtRest = R!AtRest /\ N!P!FreshReads = R!FreshReads /\ N!P!Unnoted = R!Unnoted
  /\ \A kind : N!P!Spend(kind) = R!Spend(kind)
  /\ \A op : N!P!Patched(op) = R!Patched(op)
  /\ \A onError : N!P!ManageFinalizer(onError) = R!ManageFinalizer(onError)
  /\ \A fin, id, ready, again : N!P!Answer(fin, id, ready, again) = R!Answer(fin, id, ready, again)
BY DEF N!P!NewObject, N!P!Becomes, N!P!Wakes, N!P!Edit, N!P!RequestDeletion,
       N!P!ToggleSkip, N!P!Resync, N!P!User, N!P!Spend, N!P!ProjectGoes, N!P!Done,
       N!P!Idle, N!P!Restart, N!P!CacheSync, N!P!Cached, N!P!PrepareResource, N!P!Answer,
       N!P!Release, N!P!Handling, N!P!MissingProject, N!P!Patched, N!P!Refused, N!P!Skip,
       N!P!Unnoted, N!P!ManageFinalizer, N!P!UpdateStatus, N!P!Objects, N!P!Passes,
       N!P!FreshReads, N!P!AtRest, N!P!Loop, R!NewObject, R!Becomes, R!Wakes, R!Edit,
       R!RequestDeletion, R!ToggleSkip, R!Resync, R!User, R!Spend, R!ProjectGoes, R!Done,
       R!Idle, R!Restart, R!CacheSync, R!Cached, R!PrepareResource, R!Answer, R!Release,
       R!Handling, R!MissingProject, R!Patched, R!Refused, R!Skip, R!Unnoted,
       R!ManageFinalizer, R!UpdateStatus, R!Objects, R!Passes, R!FreshReads, R!AtRest,
       R!Loop


LEMMA ContainerFrame ==
  /\ N!C!Objects = Q!Objects /\ N!C!Passes = Q!Passes /\ N!C!Idle = Q!Idle
  /\ N!C!User = Q!User /\ N!C!ProjectGoes = Q!ProjectGoes /\ N!C!Restart = Q!Restart
  /\ N!C!CacheSync = Q!CacheSync /\ N!C!PrepareResource = Q!PrepareResource
  /\ N!C!Handling = Q!Handling /\ N!C!Skip = Q!Skip /\ N!C!UpdateStatus = Q!UpdateStatus
  /\ N!C!MissingProject = Q!MissingProject
  /\ N!C!AtRest = Q!AtRest /\ N!C!FreshReads = Q!FreshReads /\ N!C!Unnoted = Q!Unnoted
  /\ \A kind : N!C!Spend(kind) = Q!Spend(kind)
  /\ \A op : N!C!Patched(op) = Q!Patched(op)
  /\ \A onError : N!C!ManageFinalizer(onError) = Q!ManageFinalizer(onError)
  /\ \A fin, id, ready, again : N!C!Answer(fin, id, ready, again) = Q!Answer(fin, id, ready, again)
BY DEF N!C!NewObject, N!C!Becomes, N!C!Wakes, N!C!Edit, N!C!RequestDeletion,
       N!C!ToggleSkip, N!C!Resync, N!C!User, N!C!Spend, N!C!ProjectGoes, N!C!Done,
       N!C!Idle, N!C!Restart, N!C!CacheSync, N!C!Cached, N!C!PrepareResource, N!C!Answer,
       N!C!Release, N!C!Handling, N!C!MissingProject, N!C!Patched, N!C!Refused, N!C!Skip,
       N!C!Unnoted, N!C!ManageFinalizer, N!C!UpdateStatus, N!C!Objects, N!C!Passes,
       N!C!FreshReads, N!C!AtRest, N!C!Loop, Q!NewObject, Q!Becomes, Q!Wakes, Q!Edit,
       Q!RequestDeletion, Q!ToggleSkip, Q!Resync, Q!User, Q!Spend, Q!ProjectGoes, Q!Done,
       Q!Idle, Q!Restart, Q!CacheSync, Q!Cached, Q!PrepareResource, Q!Answer, Q!Release,
       Q!Handling, Q!MissingProject, Q!Patched, Q!Refused, Q!Skip, Q!Unnoted,
       Q!ManageFinalizer, Q!UpdateStatus, Q!Objects, Q!Passes, Q!FreshReads, Q!AtRest,
       Q!Loop


PeerStates == [phase : PeerPhases, spec : Nat]

LEMMA PeerAnswers ==
  /\ N!P!Terminate = R!Answer("leave", "leave", FALSE, TRUE)
  /\ N!P!InProgress = R!Answer("leave", "record", FALSE, TRUE)
  /\ N!P!Ready = R!Answer("set", "record", TRUE, FALSE)
  /\ N!P!Unmanage = R!Answer("unset", "clear", FALSE, FALSE)
BY PeerFrame DEF N!P!Terminate, N!P!InProgress, N!P!Ready, N!P!Unmanage

\* What the handler may do: it lets go of a peering the status knows only with
\* a keep policy or when Atlas is done with it, does not come back only when the
\* peering is the one it was to bring about, notes an id without setting the
\* finalizer only while Atlas is busy, and changes no peering that only the spec
\* names.
PeerAnswered(fin, id, ready, again) ==
  /\ R!Answer(fin, id, ready, again)
  /\ ready => fin = "set"
  /\ fin = "unset" => /\ prec.snap.deleting
                      /\ prec.snap.keep \/ ~prec.snap.id \/ peer'.phase = "none"
  /\ \/ again \/ prec.snap.deleting
     \/ fin = "set" /\ peer' = peer /\ peer.phase = "available" /\ peer.spec = prec.snap.gen
  /\ id = "record" => \/ fin = "set" \/ prec.snap.id \/ prec.snap.deleting
                      \/ prec.snap.given /\ peer' = peer /\ peer.phase \in {"pending", "closing"}
  /\ id = "clear" => prec.snap.deleting

PeerHandled ==
  /\ peer' \in PeerStates
  /\ peer' = peer \/ prec.snap.id \/ ~prec.snap.given
  /\ \E fin \in {"set", "unset", "leave"}, id \in {"record", "clear", "leave"},
        ready \in BOOLEAN, again \in BOOLEAN : PeerAnswered(fin, id, ready, again)

LEMMA PeerGivesUp ==
  ASSUME N!P!Terminate, peer' \in PeerStates, peer' = peer \/ prec.snap.id \/ ~prec.snap.given
  PROVE  PeerHandled
<1>1. PeerAnswered("leave", "leave", FALSE, TRUE)
  BY PeerAnswers DEF PeerAnswered
<1> QED
  BY <1>1 DEF PeerHandled

LEMMA PeerHandle ==
  ASSUME PeerInv, N!P!Handle
  PROVE  /\ PeerHandled
         /\ prec.pc = "handle" /\ UNCHANGED <<pobj, pqueued, project>>
         /\ budget' \in Budgets /\ budget'.lagged = budget.lagged
<1>0. /\ peer \in PeerStates /\ budget \in Budgets /\ prec.snap.gen \in Nat
      /\ prec.snap.id \in BOOLEAN
      /\ prec.pc = "handle" /\ UNCHANGED <<pobj, pqueued, project>>
  BY DEF PeerInv, FrameInv, Framed, R!Passes, R!Objects, N!P!Handle, N!P!Handling, PeerStates
<1>1. N!P!CreatePeer => peer' = [phase |-> "pending", spec |-> prec.snap.gen] /\ peer.phase = "none"
  BY DEF N!P!CreatePeer, N!P!Present
<1>2. /\ N!P!CreatePeer \/ N!P!UpdatePeer => peer' \in PeerStates
      /\ N!P!Closing \/ N!P!Closed => peer' \in PeerStates
  BY <1>0 DEF N!P!CreatePeer, N!P!UpdatePeer, N!P!Closing, N!P!Closed, N!P!NoPeer, PeerStates, PeerPhases
<1>3. budget' = budget \/ N!P!Spend("faults")
  BY DEF N!P!Handle, N!P!MissingContainer, N!P!Unreachable, N!P!Vanished, N!P!create, N!P!sync,
     N!P!update, N!P!delete, N!P!unmanage, N!P!LostCall
<1>4. budget' \in Budgets /\ budget'.lagged = budget.lagged
  BY <1>0, <1>3, PeerFrame, SpendTyped
<1> SUFFICES PeerHandled
  BY <1>0, <1>4
<1>5. CASE N!P!MissingContainer \/ N!P!Unreachable \/ N!P!Vanished
  BY <1>0, <1>5, PeerGivesUp DEF N!P!MissingContainer, N!P!Unreachable, N!P!Vanished
<1>6. CASE N!P!create
  <2>0. ~prec.snap.given /\ ~prec.snap.id
    BY <1>6 DEF N!P!create, N!P!Identified
  <2>1. CASE N!P!CreatePeer /\ N!P!Answer("set", "record", FALSE, TRUE)
    <3>1. PeerAnswered("set", "record", FALSE, TRUE)
      BY <2>1, PeerFrame DEF PeerAnswered
    <3> QED
      BY <1>2, <2>0, <2>1, <3>1 DEF PeerHandled
  <2>2. CASE N!P!Terminate /\ (peer' = peer \/ N!P!CreatePeer)
    BY <1>0, <1>2, <2>0, <2>2, PeerGivesUp
  <2> QED
    BY <1>6, <2>1, <2>2 DEF N!P!create, N!P!LostCall
<1>7. CASE N!P!sync
  <2>1. CASE peer.phase = "failed" /\ N!P!Terminate /\ peer' = peer
    BY <1>0, <2>1, PeerGivesUp
  <2>2. CASE peer.phase \in {"pending", "closing"} /\ N!P!InProgress /\ peer' = peer
    <3>1. prec.snap.given \/ prec.snap.id
      BY <1>7 DEF N!P!sync, N!P!InAtlas, N!P!Identified
    <3>2. PeerAnswered("leave", "record", FALSE, TRUE)
      BY <2>2, <3>1, PeerAnswers DEF PeerAnswered
    <3> QED
      BY <1>0, <2>2, <3>2 DEF PeerHandled
  <2>3. CASE peer.phase = "available" /\ peer.spec = prec.snap.gen /\ N!P!Ready /\ peer' = peer
    <3>1. PeerAnswered("set", "record", TRUE, FALSE)
      BY <2>3, PeerAnswers DEF PeerAnswered
    <3> QED
      BY <1>0, <2>3, <3>1 DEF PeerHandled
  <2>4. CASE N!P!update
    <3>1. CASE prec.snap.id /\ N!P!UpdatePeer /\ N!P!InProgress
      <4>1. PeerAnswered("leave", "record", FALSE, TRUE)
        BY <3>1, PeerAnswers DEF PeerAnswered
      <4> QED
        BY <1>2, <3>1, <4>1 DEF PeerHandled
    <3>2. CASE N!P!Terminate /\ (peer' = peer \/ (prec.snap.id /\ N!P!UpdatePeer))
      BY <1>0, <1>2, <3>2, PeerGivesUp
    <3> QED
      BY <2>4, <3>1, <3>2 DEF N!P!update, N!P!LostCall
  <2> QED
    BY <1>7, <2>1, <2>2, <2>3, <2>4 DEF N!P!sync
<1>8. CASE N!P!delete
  <2>0. prec.snap.deleting
    BY <1>8 DEF N!P!delete
  <2>1. CASE N!P!Unmanage /\ ((prec.snap.keep /\ peer' = peer) \/ (prec.snap.id /\ N!P!Closed))
    <3>1. prec.snap.keep \/ peer'.phase = "none"
      BY <2>1 DEF N!P!Closed, N!P!NoPeer
    <3>2. PeerAnswered("unset", "clear", FALSE, FALSE)
      BY <2>0, <2>1, <3>1, PeerAnswers DEF PeerAnswered
    <3> QED
      BY <1>0, <1>2, <2>1, <3>2 DEF PeerHandled
  <2>2. CASE N!P!InProgress /\ (peer' = peer \/ (prec.snap.id /\ N!P!Closing))
    <3>1. PeerAnswered("leave", "record", FALSE, TRUE)
      BY <2>0, <2>2, PeerAnswers DEF PeerAnswered
    <3> QED
      BY <1>0, <1>2, <2>2, <3>1 DEF PeerHandled
  <2>3. CASE N!P!Terminate /\ (peer' = peer \/ (prec.snap.id /\ N!P!Closing))
    BY <1>0, <1>2, <2>3, PeerGivesUp
  <2> QED
    BY <1>8, <2>1, <2>2, <2>3 DEF N!P!delete, N!P!LostCall
<1>9. CASE N!P!unmanage
  <2>1. /\ prec.snap.deleting /\ peer' = peer /\ N!P!Unmanage
        /\ ~prec.snap.id \/ peer.phase = "none"
    BY <1>9 DEF N!P!unmanage, N!P!InAtlas, N!P!Identified, N!P!Present
  <2>2. PeerAnswered("unset", "clear", FALSE, FALSE)
    BY <2>1, PeerAnswers DEF PeerAnswered
  <2> QED
    BY <1>0, <2>1, <2>2 DEF PeerHandled
<1> QED
  BY <1>5, <1>6, <1>7, <1>8, <1>9 DEF N!P!Handle

\* A peering that is known to its status goes before the object, except for one
\* that is skipped or kept.
PeerGoesFirst ==
  project /\ ~budget.lagged /\ pobj.exists /\ pobj.id /\ ~pobj.keep /\ ~pobj'.exists =>
    prec.snap.skip \/ peer.phase = "none"

LEMMA PeerHandleStep ==
  ASSUME system = "network", system' = system, PeerInv, N!P!Handle
  PROVE  PeerInv' /\ PeerGoesFirst
<1>0. /\ PeerHandled /\ peer' \in PeerStates
      /\ prec.pc = "handle" /\ UNCHANGED <<pobj, pqueued, project>>
      /\ budget' \in Budgets /\ budget'.lagged = budget.lagged
      /\ FrameInv
  BY PeerHandle DEF PeerInv, PeerHandled
<1>1. PICK fin \in {"set", "unset", "leave"}, id \in {"record", "clear", "leave"},
           ready \in BOOLEAN, again \in BOOLEAN : PeerAnswered(fin, id, ready, again)
  BY <1>0 DEF PeerHandled
<1>2. /\ FrameInv' /\ Calm' = Calm
      /\ prec'.pc = "finalizer" /\ prec'.snap = prec.snap /\ prec'.fin = fin
      /\ prec'.id = id /\ prec'.ready = ready /\ prec'.again = again
  BY <1>0, <1>1, FrameAnswer DEF PeerAnswered
<1>3. Settled'
  BY <1>0, <1>1, <1>2 DEF Settled, Applied, PeerAnswered, FrameInv, UpToDate
<1>4. PeerNoted'
  <2> SUFFICES ASSUME ~budget.lagged PROVE PeerNoted'
    BY <1>0 DEF PeerNoted
  <2>1. /\ prec.snap.id = pobj.id /\ prec.snap.given = pobj.given
        /\ prec.snap.deleting => pobj.deleting
        /\ project /\ pobj.exists /\ (pobj.id \/ pobj.deleting) => pobj.fin
        /\ pobj.given /\ ~pobj.id /\ ~pobj.deleting => peer.phase \in {"none", "available"}
    BY <1>0 DEF PeerInv, PeerNoted, FrameInv, Follows
  <2>2. id = "record" /\ project /\ pobj.exists => fin = "set" \/ pobj.fin
    BY <1>1, <2>1 DEF PeerAnswered
  <2>3. pobj.given /\ ~pobj.id /\ ~pobj.deleting => peer' = peer
    BY <1>0, <2>1 DEF PeerHandled
  <2> QED
    BY <1>0, <1>2, <2>1, <2>2, <2>3 DEF PeerNoted
<1>5. id = "clear" => pobj.deleting
  BY <1>0, <1>1 DEF PeerAnswered, FrameInv, Follows
<1> QED
  BY <1>0, <1>1, <1>2, <1>3, <1>4, <1>5
  DEF PeerInv, PeerAnswered, PeerStates, PeerGoesFirst

\* A step of the frame, with the peering as it was.
LEMMA PeerRest ==
  ASSUME PeerInv, peer' = peer, FrameInv', Settled', PeerNoted',
         prec'.pc # "watch",
         prec'.pc # "idle" => prec'.snap.given = pobj'.given,
         prec'.pc \in {"finalizer", "status"} /\ prec'.id = "clear" => pobj'.deleting,
         prec'.pc = "finalizer" /\ project' => prec' = prec /\ project
  PROVE  PeerInv'
BY DEF PeerInv

LEMMA PeerPrepareStep ==
  ASSUME system = "network", system' = system, PeerInv, R!PrepareResource, peer' = peer
  PROVE  PeerInv' /\ PeerGoesFirst
<1>0. FrameInv /\ Settled /\ PeerNoted
  BY DEF PeerInv
<1>1. /\ FrameInv' /\ Progress /\ pobj' = pobj /\ project' = project
      /\ IF pobj.exists
         THEN prec'.pc = "handle" /\ prec'.snap.id = pobj.seen /\ prec'.snap.given = pobj.given
         ELSE prec' = R!Idle
      /\ budget.lagged => budget'.lagged
      /\ pobj.exists /\ pobj.seen # pobj.id => budget'.lagged
  BY <1>0, FramePrepare
<1>2. Settled'
  BY <1>0, <1>1, SettledStep DEF Applied
<1>3. PeerNoted'
  BY <1>0, <1>1, IdlePass DEF PeerNoted
<1> QED
  BY <1>1, <1>2, <1>3, PeerRest, IdlePass DEF PeerGoesFirst

LEMMA PeerMissingStep ==
  ASSUME system = "network", system' = system, PeerInv, R!MissingProject, peer' = peer
  PROVE  PeerInv' /\ PeerGoesFirst
<1>0. FrameInv /\ Settled /\ PeerNoted
  BY DEF PeerInv
<1>1. /\ FrameInv' /\ ~Calm' /\ pobj' = pobj /\ project' = project /\ ~project
      /\ prec.pc = "handle" /\ prec'.pc = "finalizer"
      /\ prec'.snap = prec.snap /\ prec'.id = "leave"
  BY <1>0, FrameMissingProject
<1>2. budget' = budget
  BY DEF R!MissingProject
<1>3. Settled' /\ PeerNoted'
  BY <1>0, <1>1, <1>2 DEF Settled, PeerNoted
<1>4. prec'.snap.given = pobj'.given
  BY <1>1 DEF PeerInv
<1> QED
  BY <1>1, <1>3, <1>4, PeerRest DEF PeerGoesFirst

LEMMA PeerSkipStep ==
  ASSUME system = "network", system' = system, PeerInv, R!Skip, peer' = peer
  PROVE  PeerInv' /\ PeerGoesFirst
<1>0. FrameInv /\ Settled /\ PeerNoted
  BY DEF PeerInv
<1>1. /\ FrameInv' /\ ~Calm' /\ project' = project /\ prec' = R!Idle
      /\ pobj' = pobj \/ (R!Patched("unset") /\ prec.snap.deleting)
      /\ prec.snap.skip /\ prec.pc = "handle"
  BY <1>0, FrameSkip DEF R!Skip
<1>2. budget' = budget \/ R!Spend("faults")
  BY DEF R!Skip
<1>3. budget'.lagged = budget.lagged
  BY <1>0, <1>2, SpendTyped DEF FrameInv, Framed
<1>4. CASE R!Patched("unset") /\ prec.snap.deleting
  <2>1. pobj'.deleting /\ ~pobj'.exists
    BY <1>0, <1>1, <1>4, FramePatched DEF FrameInv, Follows
  <2>2. Settled' /\ PeerNoted'
    BY <1>1, <2>1, IdlePass DEF Settled, PeerNoted
  <2> QED
    BY <1>1, <2>2, PeerRest, IdlePass DEF PeerGoesFirst
<1>5. CASE pobj' = pobj
  <2>1. Settled' /\ PeerNoted'
    BY <1>0, <1>1, <1>3, <1>5, IdlePass DEF Settled, PeerNoted
  <2> QED
    BY <1>1, <2>1, PeerRest, IdlePass DEF PeerGoesFirst
<1> QED
  BY <1>1, <1>4, <1>5

LEMMA PeerFinalizerStep ==
  ASSUME system = "network", system' = system, PeerInv, R!ManageFinalizer(R!Unnoted), peer' = peer
  PROVE  PeerInv' /\ PeerGoesFirst
<1>0. /\ FrameInv /\ Settled /\ PeerNoted
      /\ R!Unnoted \in {"clear", "leave"} /\ (R!Unnoted = "clear" => prec.id = "clear")
  BY DEF PeerInv, R!Unnoted, FrameInv, Framed, R!Passes
<1>1. /\ FrameInv' /\ Progress
      /\ project' = project /\ budget'.lagged = budget.lagged
      /\ prec.pc = "finalizer" /\ prec'.pc = "status"
      /\ \/ pobj' = pobj /\ (prec'.id = prec.id /\ prec'.snap = prec.snap
                             /\ (prec.fin = "set" => pobj.fin))
         \/ pobj' = pobj /\ prec'.id = R!Unnoted /\ prec'.snap = prec.snap
         \/ /\ prec.fin \in {"set", "unset"} /\ R!Patched(prec.fin)
            /\ prec'.id = prec.id /\ prec'.snap = pobj'
  BY <1>0, FrameFinalizer
<1>2. /\ prec.snap.given = pobj.given /\ prec.snap.keep = pobj.keep
      /\ ~budget.lagged => prec.snap.id = pobj.id
      /\ prec.id = "clear" => pobj.deleting
      /\ project /\ prec.fin = "unset" =>
           pobj.deleting /\ (prec.snap.keep \/ ~prec.snap.id \/ peer.phase = "none")
  BY <1>1 DEF PeerInv, PeerNoted, FrameInv, Follows, Held
<1>3. CASE /\ pobj' = pobj /\ prec'.snap = prec.snap
           /\ \/ prec'.id = prec.id /\ (prec.fin = "set" => pobj.fin)
              \/ prec'.id = R!Unnoted
  <2>1. Settled'
    BY <1>0, <1>1, <1>3, SettledStep DEF Applied
  <2>2. /\ prec'.snap = prec.snap
        /\ prec'.id = "record" => prec.id = "record" /\ (prec.fin = "set" => pobj.fin)
    BY <1>0, <1>1, <1>3
  <2>3. PeerNoted'
    <3> SUFFICES ASSUME ~budget.lagged PROVE PeerNoted'
      BY <1>1 DEF PeerNoted
    <3>1. project /\ pobj.exists /\ prec'.id = "record" => pobj.fin
      BY <1>0, <1>1, <2>2 DEF PeerNoted
    <3> QED
      BY <1>0, <1>1, <1>2, <1>3, <2>2, <3>1 DEF PeerNoted
  <2> QED
    BY <1>0, <1>1, <1>2, <1>3, <2>1, <2>3, PeerRest DEF PeerGoesFirst
<1>4. CASE /\ prec.fin \in {"set", "unset"} /\ R!Patched(prec.fin)
           /\ prec'.id = prec.id /\ prec'.snap = pobj'
  <2>1. /\ pobj'.fin = (prec.fin = "set") /\ pobj'.exists = (prec.fin = "set" \/ ~pobj.deleting)
        /\ pobj'.deleting = pobj.deleting /\ pobj'.gen = pobj.gen
        /\ pobj'.id = pobj.id /\ pobj'.given = pobj.given
    BY <1>0, <1>4, FramePatched DEF FrameInv
  <2>2. Settled'
    BY <1>0, <1>1, <2>1, SettledStep DEF Applied
  <2>3. PeerNoted'
    BY <1>0, <1>1, <1>2, <1>4, <2>1 DEF PeerNoted
  <2>4. PeerInv'
    BY <1>1, <1>2, <1>4, <2>1, <2>2, <2>3, PeerRest
  <2> QED
    BY <1>2, <1>4, <2>1, <2>4 DEF PeerGoesFirst
<1> QED
  BY <1>1, <1>3, <1>4

LEMMA PeerStatusStep ==
  ASSUME system = "network", system' = system, PeerInv, R!UpdateStatus, peer' = peer
  PROVE  PeerInv' /\ PeerGoesFirst
<1>0. FrameInv /\ Settled /\ PeerNoted
  BY DEF PeerInv
<1>1. /\ FrameInv' /\ Progress /\ project' = project /\ prec' = R!Idle /\ prec.pc = "status"
      /\ pobj'.fin = pobj.fin /\ pobj'.exists = pobj.exists /\ pobj'.gen = pobj.gen
      /\ pobj'.deleting = pobj.deleting
      /\ budget' = budget \/ R!Spend("faults")
      /\ \/ pobj' = pobj
         \/ /\ prec.id = "record" => pobj'.id
            /\ prec.id = "clear" => ~pobj'.id
            /\ prec.id = "leave" => pobj'.id = prec.snap.id
  BY <1>0, FrameStatus DEF R!UpdateStatus
<1>2. budget'.lagged = budget.lagged /\ pobj'.given = pobj.given
  <2>1. pobj'.given = pobj.given
    BY <1>0 DEF R!UpdateStatus, FrameInv, Framed, R!Objects
  <2> QED
    BY <1>0, <1>1, <2>1, SpendTyped DEF FrameInv, Framed
<1>3. Settled'
  BY <1>0, <1>1, SettledStep DEF Applied
<1>4. PeerNoted'
  <2> SUFFICES ASSUME ~budget.lagged PROVE PeerNoted'
    BY <1>2 DEF PeerNoted
  <2>1. /\ prec.snap.id = pobj.id /\ (prec.id = "clear" => pobj.deleting)
        /\ project /\ pobj.exists =>
             (pobj.id \/ pobj.deleting => pobj.fin) /\ (prec.id = "record" => pobj.fin)
        /\ pobj.given /\ ~pobj.id /\ ~pobj.deleting => peer.phase \in {"none", "available"}
        /\ prec.id \in {"record", "clear", "leave"}
    BY <1>0, <1>1 DEF PeerInv, PeerNoted, FrameInv, Framed, R!Passes
  <2>2. /\ project /\ pobj.exists /\ (pobj'.id \/ pobj.deleting) => pobj.fin
        /\ pobj.given /\ ~pobj'.id /\ ~pobj.deleting => peer.phase \in {"none", "available"}
    BY <1>1, <2>1
  <2> QED
    BY <1>1, <1>2, <2>2, IdlePass DEF PeerNoted
<1> QED
  BY <1>1, <1>3, <1>4, PeerRest, IdlePass DEF PeerGoesFirst

LEMMA PeerUserStep ==
  ASSUME system = "network", system' = system, PeerInv, R!User, peer' = peer
  PROVE  PeerInv' /\ PeerGoesFirst
<1>0. /\ FrameInv /\ Settled /\ PeerNoted
      /\ pobj \in R!Objects /\ pobj.deleting \in BOOLEAN /\ pobj.fin \in BOOLEAN
  BY DEF PeerInv, FrameInv, Framed, R!Objects
<1>1. /\ FrameInv' /\ ~Calm' /\ prec' = prec /\ project' = project
      /\ pobj.exists /\ pobj'.fin = pobj.fin /\ pobj'.id = pobj.id /\ pobj'.keep = pobj.keep
      /\ ~pobj'.exists => ~pobj.fin
  BY <1>0, FrameUser
<1>2. budget'.lagged = budget.lagged
  BY <1>0, SpendTyped DEF R!User, FrameInv, Framed
<1>3. \/ pobj' = [pobj EXCEPT !.gen = @ + 1]
      \/ pobj' = [pobj EXCEPT !.deleting = TRUE, !.exists = pobj.fin]
      \/ pobj' = [pobj EXCEPT !.skip = ~@]
      \/ pobj' = pobj
  BY DEF R!User, R!Edit, R!RequestDeletion, R!ToggleSkip, R!Resync, R!Becomes
<1>4. /\ pobj'.given = pobj.given /\ (pobj.deleting => pobj'.deleting)
      /\ pobj'.exists /\ pobj'.deleting => pobj.deleting \/ pobj.fin
  BY <1>0, <1>3 DEF R!Objects
<1>5. PeerNoted'
  BY <1>0, <1>1, <1>2, <1>4 DEF PeerNoted
<1>6. Settled' /\ prec'.pc # "watch" /\ (prec'.pc # "idle" => prec'.snap.given = pobj'.given)
  BY <1>1, <1>4 DEF Settled, PeerInv
<1>7. prec'.pc \in {"finalizer", "status"} /\ prec'.id = "clear" => pobj'.deleting
  BY <1>1, <1>4 DEF PeerInv
<1>8. PeerInv'
  BY <1>1, <1>5, <1>6, <1>7, PeerRest
<1> QED
  BY <1>0, <1>1, <1>8 DEF PeerGoesFirst, PeerNoted

\* Steps of others that only wake the peering, and its own that leave Atlas and
\* the server alone.
LEMMA PeerWoken ==
  ASSUME system = "network", system' = system, PeerInv,
         UNCHANGED <<pobj, prec, peer, project>>, budget' \in Budgets,
         budget.lagged => budget'.lagged,
         pqueued' \in BOOLEAN, pqueued => pqueued'
  PROVE  PeerInv' /\ PeerGoesFirst
<1>1. FrameInv' /\ (Calm' => Calm)
  BY DEF PeerInv, FrameInv, Framed, Follows, Held, UpToDate, Calm
<1>2. Settled' /\ PeerNoted'
  BY <1>1 DEF PeerInv, Settled, Applied, PeerNoted
<1> QED
  BY <1>1, <1>2 DEF PeerInv, PeerGoesFirst

LEMMA PeerSyncStep ==
  ASSUME system = "network", system' = system, PeerInv, R!CacheSync, peer' = peer
  PROVE  PeerInv' /\ PeerGoesFirst
<1>0. FrameInv /\ Settled /\ PeerNoted
  BY DEF PeerInv
<1>1. /\ FrameInv' /\ Progress /\ pobj' = [pobj EXCEPT !.seen = pobj.id]
      /\ UNCHANGED <<pqueued, prec, project, budget>>
  BY <1>0, FrameSync
<1>2. /\ pobj'.exists = pobj.exists /\ pobj'.deleting = pobj.deleting /\ pobj'.fin = pobj.fin
      /\ pobj'.id = pobj.id /\ pobj'.given = pobj.given /\ pobj'.gen = pobj.gen
  BY <1>0, <1>1 DEF FrameInv, Framed, R!Objects
<1>3. Settled'
  BY <1>0, <1>1, <1>2, SettledStep DEF Applied
<1>4. PeerNoted'
  BY <1>0, <1>1, <1>2 DEF PeerNoted
<1>5. PeerInv'
  BY <1>1, <1>2, <1>3, <1>4, PeerRest DEF PeerInv
<1> QED
  BY <1>2, <1>5 DEF PeerGoesFirst

LEMMA PeerRestartStep ==
  ASSUME system = "network", system' = system, PeerInv, R!Restart, peer' = peer
  PROVE  PeerInv' /\ PeerGoesFirst
<1>0. FrameInv /\ Settled /\ PeerNoted
  BY DEF PeerInv
<1>1. FrameInv' /\ ~Calm' /\ pobj' = pobj /\ prec' = R!Idle /\ project' = project
  BY <1>0, FrameRestart
<1>2. budget'.lagged = budget.lagged
  BY <1>0, SpendTyped DEF R!Restart, FrameInv, Framed
<1>3. Settled' /\ PeerNoted'
  BY <1>0, <1>1, <1>2, IdlePass DEF Settled, PeerNoted
<1> QED
  BY <1>1, <1>3, PeerRest, IdlePass DEF PeerGoesFirst

\* The project goes, and the peering is woken.
LEMMA PeerProjectGoes ==
  ASSUME system = "network", system' = system, PeerInv, UNCHANGED <<pobj, prec, peer>>,
         project' = FALSE, pqueued' \in BOOLEAN, budget' \in Budgets, budget'.lagged = budget.lagged
  PROVE  PeerInv' /\ PeerGoesFirst
<1>1. FrameInv' /\ ~Calm'
  BY DEF PeerInv, FrameInv, Framed, Follows, Held, UpToDate, Calm
<1>2. Settled'
  BY <1>1 DEF Settled
<1>3. PeerNoted'
  BY DEF PeerInv, PeerNoted
<1> QED
  BY <1>1, <1>2, <1>3 DEF PeerInv, PeerGoesFirst

\* Atlas finishes what it was asked for, or somebody removes the peering.
LEMMA PeerAtlasStep ==
  ASSUME system = "network", system' = system, PeerInv,
         UNCHANGED <<pobj, pqueued, prec, project>>, budget' \in Budgets,
         budget'.lagged = budget.lagged,
         N!P!Closed \/ \E p \in {"available", "failed"} :
                         peer.phase = "pending" /\ peer' = [peer EXCEPT !.phase = p]
  PROVE  PeerInv' /\ PeerGoesFirst
<1>0. FrameInv /\ Settled /\ PeerNoted /\ peer \in PeerStates
  BY DEF PeerInv, PeerStates
<1>1. /\ peer' \in PeerStates
      /\ \/ peer'.phase = "none"
         \/ peer.phase = "pending" /\ peer'.phase \in {"available", "failed"} /\ peer'.spec = peer.spec
  BY <1>0 DEF N!P!Closed, N!P!NoPeer, PeerStates, PeerPhases
<1>2. FrameInv' /\ Calm' = Calm
  BY <1>0 DEF FrameInv, Framed, Follows, Held, UpToDate, Calm
<1>3. Applied => Applied'
  BY <1>1 DEF Applied
<1>4. Settled'
  BY <1>0, <1>2, <1>3 DEF Settled
<1>5. PeerNoted'
  BY <1>0, <1>1 DEF PeerNoted
<1> QED
  BY <1>0, <1>1, <1>2, <1>4, <1>5 DEF PeerInv, PeerStates, PeerGoesFirst

LEMMA PeerStep ==
  ASSUME system = "network", system' = system, PeerInv,
         \/ N!P!PeeringLoop
         \/ (N!P!User \/ N!P!CacheSync \/ N!P!Restart) /\ peer' = peer
         \/ N!P!AtlasFinishes \/ N!P!Vanish
  PROVE  PeerInv' /\ PeerGoesFirst
<1>0. budget \in Budgets
  BY DEF PeerInv, FrameInv, Framed
<1>1. CASE N!P!PeeringLoop
  BY <1>1, PeerFrame, PeerHandleStep, PeerPrepareStep, PeerMissingStep, PeerSkipStep,
     PeerFinalizerStep, PeerStatusStep DEF N!P!PeeringLoop, N!P!Loop
<1>2. CASE (N!P!User \/ N!P!CacheSync \/ N!P!Restart) /\ peer' = peer
  BY <1>2, PeerFrame, PeerUserStep, PeerSyncStep, PeerRestartStep
<1>3. CASE N!P!AtlasFinishes
  BY <1>0, <1>3, PeerAtlasStep DEF N!P!AtlasFinishes, N!P!resourceVars, N!P!Closed
<1>4. CASE N!P!Vanish
  <2>1. budget' \in Budgets /\ budget'.lagged = budget.lagged
    BY <1>0, <1>4, PeerFrame, SpendTyped DEF N!P!Vanish
  <2> QED
    BY <1>4, <2>1, PeerAtlasStep DEF N!P!Vanish
<1> QED
  BY <1>1, <1>2, <1>3, <1>4

ContainerStates == [present : BOOLEAN, cidr : Nat]

LEMMA ContainerAnswers ==
  /\ N!C!Terminate = Q!Answer("leave", "leave", FALSE, TRUE)
  /\ N!C!Ready = Q!Answer("set", "record", TRUE, FALSE)
  /\ N!C!Unmanage = Q!Answer("unset", "leave", FALSE, FALSE)
BY ContainerFrame DEF N!C!Terminate, N!C!Ready, N!C!Unmanage

\* What the handler of a container may do.
ContainerAnswered(fin, id, ready, again) ==
  /\ Q!Answer(fin, id, ready, again)
  /\ ready => fin = "set"
  /\ fin = "unset" => /\ crec.snap.deleting
                      /\ crec.snap.keep \/ ~crec.snap.id \/ ~container'.present
  /\ \/ again \/ crec.snap.deleting
     \/ fin = "set" /\ (container'.present => container'.cidr = crec.snap.gen)
  /\ id = "record" => fin = "set"

ContainerHandled ==
  /\ container' \in ContainerStates
  /\ \E fin \in {"set", "unset", "leave"}, id \in {"record", "leave"},
        ready \in BOOLEAN, again \in BOOLEAN : ContainerAnswered(fin, id, ready, again)

LEMMA ContainerDone ==
  ASSUME container' \in ContainerStates,
         \/ N!C!Terminate
         \/ N!C!Ready /\ (container'.present => container'.cidr = crec.snap.gen)
         \/ N!C!Unmanage /\ crec.snap.deleting
              /\ (crec.snap.keep \/ ~crec.snap.id \/ ~container'.present)
  PROVE  ContainerHandled
<1>1. CASE N!C!Terminate
  <2>1. ContainerAnswered("leave", "leave", FALSE, TRUE)
    BY <1>1, ContainerAnswers DEF ContainerAnswered
  <2> QED
    BY <2>1 DEF ContainerHandled
<1>2. CASE N!C!Ready /\ (container'.present => container'.cidr = crec.snap.gen)
  <2>1. ContainerAnswered("set", "record", TRUE, FALSE)
    BY <1>2, ContainerAnswers DEF ContainerAnswered
  <2> QED
    BY <2>1 DEF ContainerHandled
<1>3. CASE N!C!Unmanage /\ crec.snap.deleting
             /\ (crec.snap.keep \/ ~crec.snap.id \/ ~container'.present)
  <2>1. ContainerAnswered("unset", "leave", FALSE, FALSE)
    BY <1>3, ContainerAnswers DEF ContainerAnswered
  <2> QED
    BY <2>1 DEF ContainerHandled
<1> QED
  BY <1>1, <1>2, <1>3

LEMMA ContainerHandle ==
  ASSUME ContainerInv, N!C!Handle
  PROVE  /\ ContainerHandled
         /\ crec.pc = "handle" /\ UNCHANGED <<cobj, cqueued, project>>
         /\ budget' \in Budgets /\ budget'.lagged = budget.lagged
<1>0. /\ container \in ContainerStates /\ budget \in Budgets /\ crec.snap.gen \in Nat
      /\ crec.pc = "handle" /\ UNCHANGED <<cobj, cqueued, project>>
  BY DEF ContainerInv, CFrameInv, CFramed, Q!Passes, Q!Objects, N!C!Handle, N!C!Handling,
     ContainerStates
<1>1. budget' = budget \/ N!C!Spend("faults")
  BY DEF N!C!Handle, N!C!Unreachable, N!C!Undiscovered, N!C!create, N!C!sync,
     N!C!delete, N!C!unmanage, N!C!LostCall
<1>2. budget' \in Budgets /\ budget'.lagged = budget.lagged
  BY <1>0, <1>1, ContainerFrame, CSpendTyped
<1> SUFFICES ContainerHandled
  BY <1>0, <1>2
<1>3. /\ N!C!CreateContainer \/ N!C!UpdateContainer =>
           container' \in ContainerStates /\ container'.cidr = crec.snap.gen
      /\ N!C!DeleteContainer => container' \in ContainerStates /\ ~container'.present
  <2>1. N!C!CreateContainer =>
          container' \in ContainerStates /\ container'.cidr = crec.snap.gen
    BY <1>0 DEF N!C!CreateContainer, ContainerStates
  <2>2. N!C!UpdateContainer =>
          container' \in ContainerStates /\ container'.cidr = crec.snap.gen
    BY <1>0 DEF N!C!UpdateContainer, ContainerStates
  <2>3. N!C!DeleteContainer => container' \in ContainerStates /\ ~container'.present
    BY <1>0 DEF N!C!DeleteContainer, N!C!NoContainer, ContainerStates
  <2> QED
    BY <2>1, <2>2, <2>3
<1>4. CASE N!C!Undiscovered \/ N!C!Unreachable
  BY <1>0, <1>4, ContainerDone DEF N!C!Undiscovered, N!C!Unreachable
<1>5. CASE N!C!create
  BY <1>0, <1>3, <1>5, ContainerDone DEF N!C!create, N!C!LostCall
<1>6. CASE N!C!sync
  BY <1>0, <1>3, <1>6, ContainerDone DEF N!C!sync, N!C!LostCall
<1>7. CASE N!C!delete
  BY <1>0, <1>3, <1>7, ContainerDone DEF N!C!delete, N!C!LostCall
<1>8. CASE N!C!unmanage
  BY <1>0, <1>8, ContainerDone DEF N!C!unmanage, N!C!Identified
<1> QED
  BY <1>4, <1>5, <1>6, <1>7, <1>8 DEF N!C!Handle

\* The same of the container.
ContainerGoesFirst ==
  project /\ ~budget.lagged /\ cobj.exists /\ cobj.id /\ ~cobj.keep /\ ~cobj'.exists =>
    crec.snap.skip \/ ~container.present

LEMMA ContainerHandleStep ==
  ASSUME ContainerInv, N!C!Handle
  PROVE  ContainerInv' /\ ContainerGoesFirst
<1>0. /\ ContainerHandled /\ container' \in ContainerStates
      /\ crec.pc = "handle" /\ UNCHANGED <<cobj, cqueued, project>>
      /\ budget' \in Budgets /\ budget'.lagged = budget.lagged
      /\ CFrameInv
  BY ContainerHandle DEF ContainerInv, ContainerHandled
<1>1. PICK fin \in {"set", "unset", "leave"}, id \in {"record", "leave"},
           ready \in BOOLEAN, again \in BOOLEAN : ContainerAnswered(fin, id, ready, again)
  BY <1>0 DEF ContainerHandled
<1>2. /\ CFrameInv' /\ CCalm' = CCalm
      /\ crec'.pc = "finalizer" /\ crec'.snap = crec.snap /\ crec'.fin = fin
      /\ crec'.id = id /\ crec'.ready = ready /\ crec'.again = again
  BY <1>0, <1>1, CFrameAnswer DEF ContainerAnswered
<1>3. CSettled'
  BY <1>0, <1>1, <1>2 DEF CSettled, CApplied, ContainerAnswered, CFrameInv, CUpToDate
<1>4. ContainerNoted'
  <2> SUFFICES ASSUME ~budget.lagged PROVE ContainerNoted'
    BY <1>0 DEF ContainerNoted
  <2> QED
    BY <1>0, <1>2 DEF ContainerInv, ContainerNoted
<1> QED
  BY <1>0, <1>1, <1>2, <1>3, <1>4
  DEF ContainerInv, ContainerAnswered, ContainerStates, ContainerGoesFirst

\* A step of the frame, with the container as it was.
LEMMA ContainerRest ==
  ASSUME ContainerInv, container' = container, CFrameInv', CSettled', ContainerNoted',
         crec'.pc # "watch",
         crec'.id # "clear",
         crec'.pc = "finalizer" => (crec' = crec /\ project' = project) \/ (crec'.id = "leave" /\ ~project'),
         crec'.pc = "status" /\ crec'.id = "record" => cobj'.fin
  PROVE  ContainerInv'
BY DEF ContainerInv

LEMMA ContainerPrepareStep ==
  ASSUME ContainerInv, Q!PrepareResource, container' = container
  PROVE  ContainerInv' /\ ContainerGoesFirst
<1>0. CFrameInv /\ CSettled /\ ContainerNoted
  BY DEF ContainerInv
<1>1. /\ CFrameInv' /\ CProgress /\ cobj' = cobj /\ project' = project
      /\ IF cobj.exists
         THEN crec'.pc = "handle" /\ crec'.snap.id = cobj.seen /\ crec'.id = "leave"
         ELSE crec' = Q!Idle
      /\ budget.lagged => budget'.lagged
      /\ cobj.exists /\ cobj.seen # cobj.id => budget'.lagged
  BY <1>0, CFramePrepare
<1>2. CSettled'
  BY <1>0, <1>1, CSettledStep DEF CApplied
<1>3. ContainerNoted'
  BY <1>0, <1>1, CIdlePass DEF ContainerNoted
<1> QED
  BY <1>1, <1>2, <1>3, ContainerRest, CIdlePass DEF ContainerGoesFirst

LEMMA ContainerMissingStep ==
  ASSUME ContainerInv, Q!MissingProject, container' = container
  PROVE  ContainerInv' /\ ContainerGoesFirst
<1>0. CFrameInv /\ CSettled /\ ContainerNoted
  BY DEF ContainerInv
<1>1. /\ CFrameInv' /\ ~CCalm' /\ cobj' = cobj /\ project' = project /\ ~project
      /\ crec.pc = "handle" /\ crec'.pc = "finalizer"
      /\ crec'.snap = crec.snap /\ crec'.id = "leave"
  BY <1>0, CFrameMissingProject
<1>2. budget' = budget
  BY DEF Q!MissingProject
<1>3. CSettled' /\ ContainerNoted'
  BY <1>0, <1>1, <1>2 DEF CSettled, ContainerNoted
<1> QED
  BY <1>1, <1>3, ContainerRest DEF ContainerGoesFirst

LEMMA ContainerSkipStep ==
  ASSUME ContainerInv, Q!Skip, container' = container
  PROVE  ContainerInv' /\ ContainerGoesFirst
<1>0. CFrameInv /\ CSettled /\ ContainerNoted
  BY DEF ContainerInv
<1>1. /\ CFrameInv' /\ ~CCalm' /\ project' = project /\ crec' = Q!Idle
      /\ cobj' = cobj \/ (Q!Patched("unset") /\ crec.snap.deleting)
      /\ crec.snap.skip /\ crec.pc = "handle"
  BY <1>0, CFrameSkip DEF Q!Skip
<1>2. budget' = budget \/ Q!Spend("faults")
  BY DEF Q!Skip
<1>3. budget'.lagged = budget.lagged
  BY <1>0, <1>2, CSpendTyped DEF CFrameInv, CFramed
<1>4. CASE Q!Patched("unset") /\ crec.snap.deleting
  <2>1. cobj'.deleting /\ ~cobj'.exists
    BY <1>0, <1>1, <1>4, CFramePatched DEF CFrameInv, CFollows
  <2>2. CSettled' /\ ContainerNoted'
    BY <1>1, <2>1, CIdlePass DEF CSettled, ContainerNoted
  <2> QED
    BY <1>1, <2>2, ContainerRest, CIdlePass DEF ContainerGoesFirst
<1>5. CASE cobj' = cobj
  <2>1. CSettled' /\ ContainerNoted'
    BY <1>0, <1>1, <1>3, <1>5, CIdlePass DEF CSettled, ContainerNoted
  <2> QED
    BY <1>1, <2>1, ContainerRest, CIdlePass DEF ContainerGoesFirst
<1> QED
  BY <1>1, <1>4, <1>5

LEMMA ContainerFinalizerStep ==
  ASSUME ContainerInv, Q!ManageFinalizer(Q!Unnoted), container' = container
  PROVE  ContainerInv' /\ ContainerGoesFirst
<1>0. /\ CFrameInv /\ CSettled /\ ContainerNoted
      /\ Q!Unnoted = "leave" /\ crec.id \in {"record", "leave"}
  BY DEF ContainerInv, Q!Unnoted, CFrameInv, CFramed, Q!Passes
<1>1. /\ CFrameInv' /\ CProgress
      /\ project' = project /\ budget'.lagged = budget.lagged
      /\ crec.pc = "finalizer" /\ crec'.pc = "status"
      /\ \/ cobj' = cobj /\ (crec'.id = crec.id /\ crec'.snap = crec.snap
                             /\ (crec.fin = "set" => cobj.fin))
         \/ cobj' = cobj /\ crec'.id = Q!Unnoted /\ crec'.snap = crec.snap
         \/ /\ crec.fin \in {"set", "unset"} /\ Q!Patched(crec.fin)
            /\ crec'.id = crec.id /\ crec'.snap = cobj'
  BY <1>0, CFrameFinalizer
<1>2. /\ crec.snap.keep = cobj.keep
      /\ ~budget.lagged => crec.snap.id = cobj.id
      /\ crec.id = "record" => crec.fin = "set"
      /\ project /\ crec.fin = "unset" =>
           cobj.deleting /\ (crec.snap.keep \/ ~crec.snap.id \/ ~container.present)
  BY <1>1 DEF ContainerInv, ContainerNoted, CFrameInv, CFollows, CHeld
<1>3. CASE /\ cobj' = cobj /\ crec'.snap = crec.snap
           /\ \/ crec'.id = crec.id /\ (crec.fin = "set" => cobj.fin)
              \/ crec'.id = Q!Unnoted
  <2>1. CSettled'
    BY <1>0, <1>1, <1>3, CSettledStep DEF CApplied
  <2>2. /\ crec'.snap = crec.snap
        /\ crec'.id = "record" => crec.id = "record" /\ (crec.fin = "set" => cobj.fin)
    BY <1>0, <1>1, <1>3
  <2>3. ContainerNoted'
    BY <1>0, <1>1, <1>2, <1>3, <2>2 DEF ContainerNoted
  <2> QED
    BY <1>0, <1>1, <1>2, <1>3, <2>1, <2>3, ContainerRest DEF ContainerGoesFirst
<1>4. CASE /\ crec.fin \in {"set", "unset"} /\ Q!Patched(crec.fin)
           /\ crec'.id = crec.id /\ crec'.snap = cobj'
  <2>1. /\ cobj'.fin = (crec.fin = "set") /\ cobj'.exists = (crec.fin = "set" \/ ~cobj.deleting)
        /\ cobj'.deleting = cobj.deleting /\ cobj'.gen = cobj.gen
        /\ cobj'.id = cobj.id
    BY <1>0, <1>4, CFramePatched DEF CFrameInv
  <2>2. CSettled'
    BY <1>0, <1>1, <2>1, CSettledStep DEF CApplied
  <2>3. ContainerNoted'
    BY <1>0, <1>1, <1>2, <1>4, <2>1 DEF ContainerNoted
  <2>4. ContainerInv'
    BY <1>0, <1>1, <1>2, <1>4, <2>1, <2>2, <2>3, ContainerRest
  <2> QED
    BY <1>2, <1>4, <2>1, <2>4 DEF ContainerGoesFirst
<1> QED
  BY <1>1, <1>3, <1>4

LEMMA ContainerStatusStep ==
  ASSUME ContainerInv, Q!UpdateStatus, container' = container
  PROVE  ContainerInv' /\ ContainerGoesFirst
<1>0. CFrameInv /\ CSettled /\ ContainerNoted
  BY DEF ContainerInv
<1>1. /\ CFrameInv' /\ CProgress /\ project' = project /\ crec' = Q!Idle /\ crec.pc = "status"
      /\ cobj'.fin = cobj.fin /\ cobj'.exists = cobj.exists /\ cobj'.gen = cobj.gen
      /\ cobj'.deleting = cobj.deleting
      /\ budget' = budget \/ Q!Spend("faults")
      /\ \/ cobj' = cobj
         \/ /\ crec.id = "record" => cobj'.id
            /\ crec.id = "clear" => ~cobj'.id
            /\ crec.id = "leave" => cobj'.id = crec.snap.id
  BY <1>0, CFrameStatus DEF Q!UpdateStatus
<1>2. budget'.lagged = budget.lagged
  BY <1>0, <1>1, CSpendTyped DEF CFrameInv, CFramed
<1>3. CSettled'
  BY <1>0, <1>1, CSettledStep DEF CApplied
<1>4. ContainerNoted'
  <2> SUFFICES ASSUME ~budget.lagged PROVE ContainerNoted'
    BY <1>2 DEF ContainerNoted
  <2>1. /\ crec.snap.id = cobj.id
        /\ project /\ cobj.exists /\ cobj.id => cobj.fin
        /\ crec.id = "record" => cobj.fin
        /\ crec.id \in {"record", "leave"}
    BY <1>0, <1>1 DEF ContainerInv, ContainerNoted, CFrameInv, CFramed, Q!Passes
  <2>2. project /\ cobj.exists /\ cobj'.id => cobj.fin
    BY <1>1, <2>1
  <2> QED
    BY <1>1, <1>2, <2>2, CIdlePass DEF ContainerNoted
<1> QED
  BY <1>1, <1>3, <1>4, ContainerRest, CIdlePass DEF ContainerGoesFirst

LEMMA ContainerUserStep ==
  ASSUME ContainerInv, Q!User, container' = container
  PROVE  ContainerInv' /\ ContainerGoesFirst
<1>0. /\ CFrameInv /\ CSettled /\ ContainerNoted
      /\ cobj \in Q!Objects /\ cobj.deleting \in BOOLEAN /\ cobj.fin \in BOOLEAN
  BY DEF ContainerInv, CFrameInv, CFramed, Q!Objects
<1>1. /\ CFrameInv' /\ ~CCalm' /\ crec' = crec /\ project' = project
      /\ cobj.exists /\ cobj'.fin = cobj.fin /\ cobj'.id = cobj.id /\ cobj'.keep = cobj.keep
      /\ ~cobj'.exists => ~cobj.fin
  BY <1>0, CFrameUser
<1>2. budget'.lagged = budget.lagged
  BY <1>0, CSpendTyped DEF Q!User, CFrameInv, CFramed
<1>4. ContainerNoted'
  BY <1>0, <1>1, <1>2 DEF ContainerNoted
<1>5. CSettled' /\ crec'.pc # "watch" /\ crec'.id # "clear"
  BY <1>1 DEF CSettled, ContainerInv
<1>6. crec'.pc = "status" /\ crec'.id = "record" => cobj'.fin
  BY <1>1 DEF ContainerInv
<1>7. ContainerInv'
  BY <1>1, <1>4, <1>5, <1>6, ContainerRest
<1> QED
  BY <1>0, <1>1, <1>7 DEF ContainerGoesFirst, ContainerNoted

\* Steps of others that only wake the container.
LEMMA ContainerWoken ==
  ASSUME ContainerInv,
         UNCHANGED <<cobj, crec, container, project>>, budget' \in Budgets,
         budget.lagged => budget'.lagged,
         cqueued' \in BOOLEAN, cqueued => cqueued'
  PROVE  ContainerInv' /\ ContainerGoesFirst
<1>1. CFrameInv' /\ (CCalm' => CCalm)
  BY DEF ContainerInv, CFrameInv, CFramed, CFollows, CHeld, CUpToDate, CCalm
<1>2. CSettled' /\ ContainerNoted'
  BY <1>1 DEF ContainerInv, CSettled, CApplied, ContainerNoted
<1> QED
  BY <1>1, <1>2 DEF ContainerInv, ContainerGoesFirst

LEMMA ContainerSyncStep ==
  ASSUME ContainerInv, Q!CacheSync, container' = container
  PROVE  ContainerInv' /\ ContainerGoesFirst
<1>0. CFrameInv /\ CSettled /\ ContainerNoted
  BY DEF ContainerInv
<1>1. /\ CFrameInv' /\ CProgress /\ cobj' = [cobj EXCEPT !.seen = cobj.id]
      /\ UNCHANGED <<cqueued, crec, project, budget>>
  BY <1>0, CFrameSync
<1>2. /\ cobj'.exists = cobj.exists /\ cobj'.deleting = cobj.deleting /\ cobj'.fin = cobj.fin
      /\ cobj'.id = cobj.id /\ cobj'.gen = cobj.gen
  BY <1>0, <1>1 DEF CFrameInv, CFramed, Q!Objects
<1>3. CSettled'
  BY <1>0, <1>1, <1>2, CSettledStep DEF CApplied
<1>4. ContainerNoted'
  BY <1>0, <1>1, <1>2 DEF ContainerNoted
<1>5. ContainerInv'
  BY <1>1, <1>2, <1>3, <1>4, ContainerRest DEF ContainerInv
<1> QED
  BY <1>2, <1>5 DEF ContainerGoesFirst

LEMMA ContainerRestartStep ==
  ASSUME ContainerInv, Q!Restart, container' = container
  PROVE  ContainerInv' /\ ContainerGoesFirst
<1>0. CFrameInv /\ CSettled /\ ContainerNoted
  BY DEF ContainerInv
<1>1. CFrameInv' /\ ~CCalm' /\ cobj' = cobj /\ crec' = Q!Idle /\ project' = project
  BY <1>0, CFrameRestart
<1>2. budget'.lagged = budget.lagged
  BY <1>0, CSpendTyped DEF Q!Restart, CFrameInv, CFramed
<1>3. CSettled' /\ ContainerNoted'
  BY <1>0, <1>1, <1>2, CIdlePass DEF CSettled, ContainerNoted
<1> QED
  BY <1>1, <1>3, ContainerRest, CIdlePass DEF ContainerGoesFirst

\* The project goes.
LEMMA ContainerProjectGoes ==
  ASSUME ContainerInv, UNCHANGED <<cobj, crec, container>>,
         project' = FALSE, cqueued' \in BOOLEAN, budget' \in Budgets, budget'.lagged = budget.lagged
  PROVE  ContainerInv' /\ ContainerGoesFirst
<1>1. CFrameInv' /\ ~CCalm'
  BY DEF ContainerInv, CFrameInv, CFramed, CFollows, CHeld, CUpToDate, CCalm
<1>2. CSettled'
  BY <1>1 DEF CSettled
<1>3. ContainerNoted'
  BY DEF ContainerInv, ContainerNoted
<1> QED
  BY <1>1, <1>2, <1>3 DEF ContainerInv, ContainerGoesFirst

\* Somebody removes the container in Atlas.
LEMMA ContainerVanishStep ==
  ASSUME ContainerInv, N!C!Vanish
  PROVE  ContainerInv' /\ ContainerGoesFirst
<1>0. /\ CFrameInv /\ CSettled /\ ContainerNoted /\ budget \in Budgets
      /\ UNCHANGED <<cobj, cqueued, crec, project>>
      /\ container' \in ContainerStates /\ ~container'.present
  BY DEF ContainerInv, CFrameInv, CFramed, N!C!Vanish, N!C!NoContainer, ContainerStates
<1>1. budget' \in Budgets /\ budget'.lagged = budget.lagged
  BY <1>0, ContainerFrame, CSpendTyped DEF N!C!Vanish
<1>2. CFrameInv' /\ CCalm' = CCalm
  BY <1>0, <1>1 DEF CFrameInv, CFramed, CFollows, CHeld, CUpToDate, CCalm
<1>3. CSettled' /\ ContainerNoted'
  BY <1>0, <1>1, <1>2 DEF CSettled, CApplied, ContainerNoted
<1> QED
  BY <1>0, <1>2, <1>3 DEF ContainerInv, ContainerStates, ContainerGoesFirst

LEMMA ContainerStep ==
  ASSUME ContainerInv,
         \/ N!C!ContainerLoop
         \/ (N!C!User \/ N!C!CacheSync \/ N!C!Restart) /\ container' = container
         \/ N!C!Vanish
         \/ N!C!ProjectGoes /\ container' = container
  PROVE  ContainerInv' /\ ContainerGoesFirst
<1>0. budget \in Budgets /\ cqueued \in BOOLEAN /\ cobj.exists \in BOOLEAN
  BY DEF ContainerInv, CFrameInv, CFramed, Q!Objects
<1>1. CASE N!C!ContainerLoop
  BY <1>1, ContainerFrame, ContainerHandleStep, ContainerPrepareStep, ContainerMissingStep,
     ContainerSkipStep, ContainerFinalizerStep, ContainerStatusStep
  DEF N!C!ContainerLoop, N!C!Loop
<1>2. CASE (N!C!User \/ N!C!CacheSync \/ N!C!Restart) /\ container' = container
  BY <1>2, ContainerFrame, ContainerUserStep, ContainerSyncStep, ContainerRestartStep
<1>3. CASE N!C!Vanish
  BY <1>3, ContainerVanishStep
<1>4. CASE N!C!ProjectGoes /\ container' = container
  <2>1. Q!ProjectGoes
    BY <1>4, ContainerFrame
  <2>2. /\ UNCHANGED <<cobj, crec, container>> /\ project' = FALSE /\ cqueued' \in BOOLEAN
        /\ budget' \in Budgets /\ budget'.lagged = budget.lagged
    BY <1>0, <1>4, <2>1, CSpendTyped DEF Q!ProjectGoes
  <2> QED
    BY <2>2, ContainerProjectGoes
<1> QED
  BY <1>1, <1>2, <1>3, <1>4

----------------------------------------------------------------------------
(* The network as a whole: a step of the one controller leaves what the    *)
(* other one relies on.                                                    *)

NetworkInv == PeerInv /\ ContainerInv

\* No step takes back that a cache has lagged.
LEMMA LagStays ==
  ASSUME budget \in Budgets,
         \/ budget' = budget \/ R!Spend("ops") \/ R!Spend("faults")
         \/ budget' = [budget EXCEPT !.faults = @ - 1, !.lagged = TRUE]
  PROVE  budget.lagged => budget'.lagged
<1>1. CASE budget' = [budget EXCEPT !.faults = @ - 1, !.lagged = TRUE]
  BY <1>1 DEF Budgets
<1> QED
  BY <1>1, SpendTyped

LEMMA PeerLeavesTheRest ==
  ASSUME PeerInv,
         \/ N!P!PeeringLoop
         \/ (N!P!User \/ N!P!CacheSync \/ N!P!Restart) /\ peer' = peer
         \/ N!P!AtlasFinishes \/ N!P!Vanish
  PROVE  project' = project /\ (budget.lagged => budget'.lagged)
<1>0. budget \in Budgets
  BY DEF PeerInv, FrameInv, Framed
<1>1. CASE N!P!Handle
  BY <1>1, PeerHandle
<1>2. CASE N!P!Loop
  <2>1. \/ R!PrepareResource \/ R!MissingProject \/ R!Skip
        \/ R!ManageFinalizer(R!Unnoted) \/ R!UpdateStatus
    BY <1>2, PeerFrame DEF N!P!Loop
  <2>2. /\ project' = project
        /\ \/ budget' = budget \/ R!Spend("faults")
           \/ budget' = [budget EXCEPT !.faults = @ - 1, !.lagged = TRUE]
    BY <2>1 DEF R!PrepareResource, R!MissingProject, R!Skip, R!ManageFinalizer, R!UpdateStatus
  <2> QED
    BY <1>0, <2>2, LagStays
<1>3. CASE R!User \/ R!CacheSync \/ R!Restart
  BY <1>0, <1>3, LagStays DEF R!User, R!CacheSync, R!Restart
<1>4. CASE N!P!AtlasFinishes
  BY <1>4 DEF N!P!AtlasFinishes, N!P!resourceVars
<1>5. CASE N!P!Vanish
  BY <1>0, <1>5, PeerFrame, LagStays DEF N!P!Vanish
<1> QED
  BY <1>1, <1>2, <1>3, <1>4, <1>5, PeerFrame DEF N!P!PeeringLoop

LEMMA ContainerLeavesTheRest ==
  ASSUME ContainerInv,
         \/ N!C!ContainerLoop
         \/ (N!C!User \/ N!C!CacheSync \/ N!C!Restart) /\ container' = container
         \/ N!C!Vanish
  PROVE  project' = project /\ (budget.lagged => budget'.lagged)
<1>0. budget \in Budgets /\ \A kind : Q!Spend(kind) = R!Spend(kind)
  BY DEF ContainerInv, CFrameInv, CFramed, Q!Spend, R!Spend
<1>1. CASE N!C!Handle
  BY <1>1, ContainerHandle
<1>2. CASE N!C!Loop
  <2>1. \/ Q!PrepareResource \/ Q!MissingProject \/ Q!Skip
        \/ Q!ManageFinalizer(Q!Unnoted) \/ Q!UpdateStatus
    BY <1>2, ContainerFrame DEF N!C!Loop
  <2>2. /\ project' = project
        /\ \/ budget' = budget \/ Q!Spend("faults")
           \/ budget' = [budget EXCEPT !.faults = @ - 1, !.lagged = TRUE]
    BY <2>1 DEF Q!PrepareResource, Q!MissingProject, Q!Skip, Q!ManageFinalizer, Q!UpdateStatus
  <2> QED
    BY <1>0, <2>2, LagStays
<1>3. CASE Q!User \/ Q!CacheSync \/ Q!Restart
  BY <1>0, <1>3, LagStays DEF Q!User, Q!CacheSync, Q!Restart
<1>4. CASE N!C!Vanish
  BY <1>0, <1>4, ContainerFrame, LagStays DEF N!C!Vanish
<1> QED
  BY <1>1, <1>2, <1>3, <1>4, ContainerFrame DEF N!C!ContainerLoop

LEMMA NetworkStep ==
  ASSUME system = "network", system' = system, NetworkInv, N!NetworkNext
  PROVE  NetworkInv' /\ N!NoOrphan
<1>0. /\ PeerInv /\ ContainerInv
      /\ pqueued \in BOOLEAN /\ pobj.exists \in BOOLEAN /\ cqueued \in BOOLEAN
  BY DEF NetworkInv, PeerInv, FrameInv, Framed, R!Objects, ContainerInv, CFrameInv, CFramed
<1> SUFFICES PeerInv' /\ ContainerInv' /\ PeerGoesFirst /\ ContainerGoesFirst
  BY ContainerFrame DEF NetworkInv, N!NoOrphan, PeerGoesFirst, ContainerGoesFirst, Q!FreshReads
<1>1. CASE \/ N!ContainerUser \/ N!ContainerSync \/ N!ContainerLoop
           \/ N!ContainerRestart \/ N!ContainerVanish
  <2>1. /\ \/ N!C!ContainerLoop
           \/ (N!C!User \/ N!C!CacheSync \/ N!C!Restart) /\ container' = container
           \/ N!C!Vanish
        /\ UNCHANGED <<pobj, prec, peer>>
        /\ pqueued' = pqueued \/ pqueued' = (pqueued \/ pobj.exists)
    BY <1>1 DEF N!ContainerUser, N!ContainerSync, N!ContainerLoop, N!ContainerRestart,
       N!ContainerVanish, N!Watched, N!PeeringWakes, N!pvars
  <2>2. ContainerInv' /\ ContainerGoesFirst
    BY <1>0, <2>1, ContainerStep
  <2>3. budget' \in Budgets
    BY <2>2 DEF ContainerInv, CFrameInv, CFramed
  <2>4. project' = project /\ (budget.lagged => budget'.lagged)
    BY <1>0, <2>1, ContainerLeavesTheRest
  <2>5. pqueued' \in BOOLEAN /\ (pqueued => pqueued')
    BY <1>0, <2>1
  <2>6. PeerInv' /\ PeerGoesFirst
    BY <1>0, <2>1, <2>3, <2>4, <2>5, PeerWoken
  <2> QED
    BY <2>2, <2>6
<1>2. CASE \/ N!PeeringUser \/ N!PeeringSync \/ N!PeeringLoop \/ N!PeeringRestart
           \/ N!PeeringVanish \/ N!AtlasFinishes
  <2>1. /\ \/ N!P!PeeringLoop
           \/ (N!P!User \/ N!P!CacheSync \/ N!P!Restart) /\ peer' = peer
           \/ N!P!AtlasFinishes \/ N!P!Vanish
        /\ UNCHANGED <<cobj, cqueued, crec, container>>
    BY <1>2 DEF N!PeeringUser, N!PeeringSync, N!PeeringLoop, N!PeeringRestart,
       N!PeeringVanish, N!AtlasFinishes, N!cvars
  <2>2. PeerInv' /\ PeerGoesFirst
    BY <1>0, <2>1, PeerStep
  <2>3. budget' \in Budgets
    BY <2>2 DEF PeerInv, FrameInv, Framed
  <2>4. project' = project /\ (budget.lagged => budget'.lagged)
    BY <1>0, <2>1, PeerLeavesTheRest
  <2>5. ContainerInv' /\ ContainerGoesFirst
    BY <1>0, <2>1, <2>3, <2>4, ContainerWoken
  <2> QED
    BY <2>2, <2>5
<1>3. CASE N!ProjectGoes
  <2>1. /\ N!C!ProjectGoes /\ UNCHANGED <<container, pobj, prec, peer>>
        /\ pqueued' = (pqueued \/ pobj.exists)
    BY <1>3 DEF N!ProjectGoes, N!PeeringWakes
  <2>2. ContainerInv' /\ ContainerGoesFirst
    BY <1>0, <2>1, ContainerStep
  <2>3. project' = FALSE /\ budget' \in Budgets /\ budget'.lagged = budget.lagged
    <3>1. budget \in Budgets /\ R!Spend("ops") /\ project' = FALSE
      BY <1>0, <2>1, ContainerFrame
      DEF Q!ProjectGoes, Q!Spend, R!Spend, ContainerInv, CFrameInv, CFramed
    <3> QED
      BY <3>1, SpendTyped
  <2>4. pqueued' \in BOOLEAN
    BY <1>0, <2>1
  <2>5. PeerInv' /\ PeerGoesFirst
    BY <1>0, <2>1, <2>3, <2>4, PeerProjectGoes
  <2> QED
    BY <2>2, <2>5
<1> QED
  BY <1>1, <1>2, <1>3 DEF N!NetworkNext

----------------------------------------------------------------------------
(* The AtlasDatabaseUser.                                                  *)

AccountTyped ==
  /\ U!DatabaseUserTypeOK
  /\ password \in Nat \ {0} /\ expired \in Nat
  /\ budget.faults <= MaxFaults
  /\ pobj.gen > 0

\* What a reconcile has read is what there is, until somebody changes it.
AccountRead ==
  prec.pc # "idle" =>
    /\ 0 < prec.snap.gen /\ prec.snap.gen <= pobj.gen
    /\ prec.snap.deleting => prec.snap.gen = pobj.gen
    /\ prec.snap.gen = pobj.gen =>
         /\ taken.name = wanted.name
         /\ prec.pc \in {"handle", "watch"} => taken.scopes = wanted.scopes
    /\ taken.was \in {noted, U!Nothing}
    /\ ~budget.lagged => taken.was = noted /\ prec.snap.id = pobj.id

\* Nothing but what the spec says was sent, and the version of the password that
\* is noted, or about to be, was sent with it.
AccountSent ==
  /\ noted.pass <= password /\ taken.version <= password
  /\ \A n \in U!UserNames :
       /\ users[n].gen <= pobj.gen
       /\ prec.pc # "idle" => users[n].gen <= prec.snap.gen
       /\ users[n].gen = pobj.gen => n = wanted.name
       /\ users[n].gen = pobj.gen
            /\ (noted.pass = password \/ (prec.pc # "idle" /\ taken.version = password)) =>
          users[n].pass = password

\* A status that names a user comes with the finalizer, unless the user has
\* expired; and the finalizer goes after the user in Atlas.
AccountHeld ==
  /\ pobj.id \/ noted = U!Nothing
  /\ prec.id # "clear"
  /\ pobj.exists /\ noted.name # 0 => pobj.fin \/ expired > 0
  /\ prec.pc = "status" /\ prec.id = "record" => pobj.fin
  /\ prec.pc = "finalizer" =>
       /\ prec.id = "record" => prec.fin = "set"
       /\ prec.fin = "unset" => /\ prec.snap.deleting \/ U!SnapExpired
                                /\ prec.snap.keep \/ U!SnapExpired \/ ~U!Exists(taken.name)

AccountWatch ==
  prec.pc = "watch" =>
    /\ ~prec.snap.deleting
    /\ taken.todo \in {"rename", "readiness"}
    /\ Calm => taken.version = password
    /\ Calm /\ taken.todo = "readiness" /\ pobj.gen > expired => users[wanted.name].gen = pobj.gen

\* As long as nothing fails, only the user and the Secret that the status names
\* are there, and in between those of the new name.
Known(n) ==
  CASE prec.pc \in {"idle", "handle"} -> n = noted.name
    [] prec.pc = "watch"              -> n = noted.name \/ (taken.todo = "rename" /\ n = taken.name)
    [] OTHER                          -> n = IF prec.id = "record" THEN taken.name ELSE noted.name

AccountClean ==
  U!NoFaults /\ pobj.exists /\ ~pobj.deleting =>
    /\ \A n \in U!UserNames : U!Exists(n) \/ secrets[n] # 0 => Known(n)
    /\ prec.pc = "watch" /\ taken.todo = "readiness" => taken.name = noted.name

UserApplied ==
  /\ users[wanted.name] = [gen |-> pobj.gen, pass |-> password]
  /\ cluster # "none" => secrets[wanted.name] = IF wanted.scopes = "other" THEN 0 ELSE password
  /\ U!NoFaults => \A n \in U!UserNames \ {wanted.name} : ~U!Exists(n) /\ secrets[n] = 0

AccountSettled ==
  Calm /\ pobj.gen > expired /\ ~U!GaveUp =>
    /\ prec.pc = "idle" => pobj.fin /\ UserApplied
    /\ prec.pc = "finalizer" => prec.again \/ (prec.fin = "set" /\ UserApplied)
    /\ prec.pc = "status" => prec.again \/ (pobj.fin /\ UserApplied)

AccountInv ==
  /\ FrameInv /\ AccountTyped /\ AccountRead /\ AccountSent /\ AccountHeld
  /\ AccountWatch /\ AccountClean /\ AccountSettled

LEMMA AccountFrame ==
  /\ U!Objects = R!Objects /\ U!Passes = R!Passes /\ U!Idle = R!Idle
  /\ U!User = R!User /\ U!ProjectGoes = R!ProjectGoes /\ U!Restart = R!Restart
  /\ U!CacheSync = R!CacheSync /\ U!PrepareResource = R!PrepareResource
  /\ U!Handling = R!Handling /\ U!Skip = R!Skip /\ U!UpdateStatus = R!UpdateStatus
  /\ U!MissingProject = R!MissingProject
  /\ U!AtRest = R!AtRest /\ U!FreshReads = R!FreshReads /\ U!Unnoted = R!Unnoted
  /\ \A kind : U!Spend(kind) = R!Spend(kind)
  /\ \A op : U!Patched(op) = R!Patched(op)
  /\ \A onError : U!ManageFinalizer(onError) = R!ManageFinalizer(onError)
  /\ \A fin, id, ready, again : U!Answer(fin, id, ready, again) = R!Answer(fin, id, ready, again)
BY DEF U!NewObject, U!Becomes, U!Wakes, U!Edit, U!RequestDeletion, U!ToggleSkip, U!Resync,
       U!User, U!Spend, U!ProjectGoes, U!Done, U!Idle, U!Restart, U!CacheSync, U!Cached,
       U!PrepareResource, U!Answer, U!Release, U!Handling, U!MissingProject, U!Patched,
       U!Refused, U!Skip, U!Unnoted, U!ManageFinalizer, U!UpdateStatus, U!Objects,
       U!Passes, U!FreshReads, U!AtRest, U!Loop, R!NewObject, R!Becomes, R!Wakes, R!Edit,
       R!RequestDeletion, R!ToggleSkip, R!Resync, R!User, R!Spend, R!ProjectGoes, R!Done,
       R!Idle, R!Restart, R!CacheSync, R!Cached, R!PrepareResource, R!Answer, R!Release,
       R!Handling, R!MissingProject, R!Patched, R!Refused, R!Skip, R!Unnoted,
       R!ManageFinalizer, R!UpdateStatus, R!Objects, R!Passes, R!FreshReads, R!AtRest,
       R!Loop


\* The budget of failures, once spent, stays spent.
Later ==
  /\ budget' \in Budgets
  /\ budget'.faults <= budget.faults
  /\ budget.lagged => budget'.lagged

LEMMA Spent ==
  ASSUME budget \in Budgets,
         budget' = budget \/ R!Spend("faults") \/ R!Spend("ops")
  PROVE  /\ Later /\ budget'.lagged = budget.lagged
         /\ R!Spend("faults") => budget'.faults < budget.faults /\ budget' # budget
<1>1. CASE budget' = budget /\ ~R!Spend("faults")
  BY <1>1 DEF Later, Budgets
<1>2. CASE R!Spend("faults")
  <2>1. budget.faults \in Nat /\ budget.faults > 0
    BY <1>2 DEF R!Spend, Budgets
  <2>2. budget' \in Budgets /\ budget'.lagged = budget.lagged
    BY <1>2, SpendTyped
  <2>3. budget'.faults = budget.faults - 1
    BY <1>2, <2>1 DEF R!Spend, Budgets
  <2>4. budget'.faults < budget.faults
    BY <2>1, <2>3
  <2> QED
    BY <2>1, <2>2, <2>3, <2>4 DEF Later
<1>3. CASE R!Spend("ops") /\ ~R!Spend("faults")
  <2>1. budget' \in Budgets /\ budget'.lagged = budget.lagged
    BY <1>3, SpendTyped
  <2>2. budget'.faults = budget.faults /\ budget.faults \in Nat
    BY <1>3 DEF R!Spend, Budgets
  <2> QED
    BY <1>3, <2>1, <2>2 DEF Later
<1> QED
  BY <1>1, <1>2, <1>3

LEMMA NoFaultsBefore ==
  ASSUME budget \in Budgets, budget.faults <= MaxFaults, Later
  PROVE  /\ budget'.faults <= MaxFaults
         /\ U!NoFaults' => U!NoFaults /\ budget'.faults = budget.faults /\ ~R!Spend("faults")
<1>1. budget.faults \in Nat /\ budget'.faults \in Nat /\ MaxFaults \in Nat
  BY BoundsAreNat DEF Later, Budgets
<1>2. budget'.faults <= MaxFaults
  BY <1>1 DEF Later
<1>3. U!NoFaults' => budget.faults = MaxFaults /\ budget'.faults = budget.faults /\ ~budget.lagged
  BY <1>1 DEF Later, U!NoFaults, U!FreshReads
<1>4. R!Spend("faults") => budget'.faults # budget.faults
  BY <1>1, Spent
<1> QED
  BY <1>2, <1>3, <1>4 DEF U!NoFaults, U!FreshReads

\* Scopes that cannot be checked are not checked again.
LEMMA GivenUp ==
  ASSUME budget \in Budgets, budget.faults <= MaxFaults, Later, wanted' = wanted,
         cluster = "none" => cluster' = "none", U!GaveUp
  PROVE  U!GaveUp'
<1>1. budget.faults \in Nat /\ budget'.faults \in Nat /\ MaxFaults \in Nat
  BY BoundsAreNat DEF Later, Budgets
<1> QED
  BY <1>1 DEF U!GaveUp, Later

LEMMA AccountFacts ==
  ASSUME AccountInv
  PROVE  /\ pobj \in R!Objects /\ prec \in R!Passes /\ pqueued \in BOOLEAN /\ project \in BOOLEAN
         /\ budget \in Budgets /\ budget.faults <= MaxFaults
         /\ wanted.name \in U!UserNames /\ wanted.scopes \in {"all", "this", "other"}
         /\ noted.name \in U!UserNames \cup {0} /\ noted.pass \in Nat
         /\ taken.name \in U!UserNames /\ taken.scopes \in {"all", "this", "other"}
         /\ taken.version \in Nat /\ taken.todo \in {"none", "rename", "readiness"}
         /\ taken \in [name : U!UserNames, scopes : {"all", "this", "other"},
                       was : [name : U!UserNames \cup {0}, pass : Nat], version : Nat,
                       todo : {"none", "rename", "readiness"}]
         /\ taken.was.name \in U!UserNames \cup {0} /\ taken.was.pass \in Nat
         /\ users \in [U!UserNames -> [gen : Nat, pass : Nat]]
         /\ \A n \in U!UserNames : users[n].gen \in Nat /\ users[n].pass \in Nat
         /\ cluster \in {"none", "pending", "applied"}
         /\ secrets \in [U!UserNames -> Nat]
         /\ password \in Nat /\ password > 0 /\ expired \in Nat
         /\ pobj.gen \in Nat /\ pobj.gen > 0 /\ prec.snap.gen \in Nat
         /\ pobj.fin \in BOOLEAN /\ pobj.exists \in BOOLEAN /\ pobj.deleting \in BOOLEAN
         /\ prec.snap.id \in BOOLEAN /\ prec.id \in {"record", "clear", "leave"}
         /\ prec.fin \in {"set", "unset", "leave"}
<1>1. /\ pobj \in R!Objects /\ prec \in R!Passes /\ pqueued \in BOOLEAN /\ project \in BOOLEAN
      /\ budget \in Budgets
  BY DEF AccountInv, FrameInv, Framed
<1>2. /\ pobj.gen \in Nat /\ pobj.gen > 0 /\ prec.snap.gen \in Nat
      /\ pobj.fin \in BOOLEAN /\ pobj.exists \in BOOLEAN /\ pobj.deleting \in BOOLEAN
      /\ prec.snap.id \in BOOLEAN /\ prec.id \in {"record", "clear", "leave"}
      /\ prec.fin \in {"set", "unset", "leave"}
  BY <1>1 DEF R!Objects, R!Passes, AccountInv, AccountTyped
<1>3. /\ password \in Nat /\ password > 0 /\ expired \in Nat /\ budget.faults <= MaxFaults
      /\ U!DatabaseUserTypeOK
  BY DEF AccountInv, AccountTyped
<1> QED
  BY <1>1, <1>2, <1>3 DEF U!DatabaseUserTypeOK, U!Specs

UserStates == [gen : Nat, pass : Nat]
TakenStates == [name : U!UserNames, scopes : {"all", "this", "other"},
                was : [name : U!UserNames \cup {0}, pass : Nat], version : Nat,
                todo : {"none", "rename", "readiness"}]

\* What a call may leave in Atlas: a user as it was, none, or the one of the
\* spec with the password of now.
Called ==
  /\ users' \in [U!UserNames -> UserStates]
  /\ \A n \in U!UserNames :
       \/ users'[n] = users[n] \/ users'[n] = U!NoUser
       \/ n = taken.name /\ users'[n] = [gen |-> prec.snap.gen, pass |-> password]
  /\ secrets' \in [U!UserNames -> Nat]
  /\ cluster' \in {"none", "pending", "applied"}
  /\ cluster = "none" => cluster' = "none"
  /\ \/ taken' = taken
     \/ /\ \E todo \in {taken.todo, "rename", "readiness"} :
             taken' = [taken EXCEPT !.version = password, !.todo = todo]
        /\ \/ users'[taken.name] = [gen |-> prec.snap.gen, pass |-> password]
           \/ users' = users /\ taken.was.pass = password
  /\ UNCHANGED <<pobj, pqueued, project, wanted, password, expired, noted>>

\* What the reconcile has read and sent, after a call.
LEMMA AccountCalled ==
  ASSUME AccountInv, Called, Later, FrameInv', prec.pc \in {"handle", "watch"},
         prec'.pc \in {"watch", "finalizer"}, prec'.snap = prec.snap
  PROVE  AccountTyped' /\ AccountRead' /\ AccountSent'
         /\ taken'.name = taken.name /\ taken'.was = taken.was
<1>0. /\ budget \in Budgets /\ budget.faults <= MaxFaults
      /\ password \in Nat /\ password > 0 /\ taken \in TakenStates /\ prec.snap.gen \in Nat
      /\ taken.version \in Nat /\ taken.was.pass \in Nat
      /\ \A n \in U!UserNames : users[n].gen \in Nat
      /\ pobj.gen \in Nat /\ pobj.gen > 0 /\ taken.name \in U!UserNames
      /\ wanted.name \in U!UserNames
  BY AccountFacts DEF TakenStates
<1>1. /\ taken' \in TakenStates /\ taken'.name = taken.name /\ taken'.was = taken.was
      /\ taken'.scopes = taken.scopes
      /\ taken'.version \in {taken.version, password}
  <2>1. CASE taken' = taken
    BY <1>0, <2>1
  <2>2. ASSUME NEW todo \in {taken.todo, "rename", "readiness"},
               taken' = [taken EXCEPT !.version = password, !.todo = todo]
        PROVE  /\ taken' \in TakenStates /\ taken'.name = taken.name /\ taken'.was = taken.was
               /\ taken'.scopes = taken.scopes
               /\ taken'.version \in {taken.version, password}
    <3>1. todo \in {"none", "rename", "readiness"}
      BY <1>0 DEF TakenStates
    <3> QED
      BY <1>0, <2>2, <3>1 DEF TakenStates
  <2> QED
    BY <2>1, <2>2 DEF Called
<1>2. AccountTyped'
  <2>1. budget'.faults <= MaxFaults
    BY <1>0, NoFaultsBefore
  <2>2. pobj' \in U!Objects /\ prec' \in U!Passes /\ wanted' \in U!Specs
        /\ noted' \in [name : U!UserNames \cup {0}, pass : Nat]
    BY AccountFrame DEF AccountInv, AccountTyped, U!DatabaseUserTypeOK, FrameInv, Framed, Called
  <2>3. U!DatabaseUserTypeOK'
    BY <1>1, <2>2 DEF U!DatabaseUserTypeOK, Called, UserStates, TakenStates
  <2> QED
    BY <2>1, <2>3 DEF AccountInv, AccountTyped, Called
<1>3. AccountRead'
  BY <1>1 DEF AccountInv, AccountRead, Called, Later
<1>4. AccountSent'
  <2>0. /\ prec.snap.gen <= pobj.gen
        /\ prec.snap.gen = pobj.gen => taken.name = wanted.name
        /\ taken.was \in {noted, U!Nothing}
    BY DEF AccountInv, AccountRead
  <2>1. noted'.pass <= password' /\ taken'.version <= password'
    BY <1>0, <1>1 DEF AccountInv, AccountSent, Called
  <2> SUFFICES ASSUME NEW n \in U!UserNames
               PROVE  /\ users'[n].gen <= pobj.gen /\ users'[n].gen <= prec.snap.gen
                      /\ users'[n].gen = pobj.gen => n = wanted.name
                      /\ users'[n].gen = pobj.gen
                           /\ (noted.pass = password \/ taken'.version = password) =>
                         users'[n].pass = password
    BY <2>1 DEF AccountSent, Called
  <2>2. /\ users[n].gen <= pobj.gen /\ users[n].gen <= prec.snap.gen
        /\ users[n].gen = pobj.gen => n = wanted.name
        /\ users[n].gen = pobj.gen
             /\ (noted.pass = password \/ taken.version = password) =>
           users[n].pass = password
    BY DEF AccountInv, AccountSent
  <2>3. CASE users'[n] = U!NoUser
    BY <1>0, <2>3 DEF U!NoUser
  <2>4. CASE n = taken.name /\ users'[n] = [gen |-> prec.snap.gen, pass |-> password]
    BY <1>0, <2>0, <2>4
  <2>5. CASE users'[n] = users[n]
    <3>1. CASE taken' = taken
      BY <2>2, <2>5, <3>1
    <3>2. CASE users'[taken.name] = [gen |-> prec.snap.gen, pass |-> password]
      <4>1. users[n].gen = pobj.gen => prec.snap.gen = pobj.gen
        BY <1>0, <2>0, <2>2
      <4>2. users[n].gen = pobj.gen => n = taken.name
        BY <2>0, <2>2, <4>1
      <4> QED
        BY <2>2, <2>5, <3>2, <4>2
    <3>3. CASE taken.was.pass = password
      <4>1. noted.pass = password
        BY <1>0, <2>0, <3>3 DEF U!Nothing
      <4> QED
        BY <2>2, <2>5, <4>1
    <3> QED
      BY <3>1, <3>2, <3>3 DEF Called
  <2> QED
    BY <2>3, <2>4, <2>5 DEF Called
<1> QED
  BY <1>1, <1>2, <1>3, <1>4

\* An answer of the handler.
LEMMA AccountAnswerStep ==
  ASSUME system = "account", system' = system, AccountInv, Called, Later,
         prec.pc \in {"handle", "watch"},
         NEW fin \in {"set", "unset", "leave"}, NEW id \in {"record", "leave"},
         NEW ready \in BOOLEAN, NEW again \in BOOLEAN,
         R!Answer(fin, id, ready, again),
         ready => fin = "set",
         id = "record" => fin = "set",
         fin = "unset" => /\ prec.snap.deleting \/ U!SnapExpired
                          /\ prec.snap.keep \/ U!SnapExpired \/ users'[taken.name] = U!NoUser,
         U!NoFaults' /\ pobj.exists /\ ~pobj.deleting =>
           \A n \in U!UserNames : users'[n] # U!NoUser \/ secrets'[n] # 0 =>
             n = IF id = "record" THEN taken.name ELSE noted.name,
         Calm /\ pobj.gen > expired /\ ~U!GaveUp' => again \/ (fin = "set" /\ UserApplied')
  PROVE  AccountInv' /\ U!NoOrphan
<1>0. FrameInv /\ budget' \in Budgets
      /\ UNCHANGED <<pobj, pqueued, project, wanted, password, expired, noted>>
  BY DEF AccountInv, Called, Later
<1>1. /\ FrameInv' /\ Calm' = Calm
      /\ prec'.pc = "finalizer" /\ prec'.snap = prec.snap /\ prec'.fin = fin /\ prec'.id = id
      /\ prec'.ready = ready /\ prec'.again = again
  BY <1>0, FrameAnswer
<1>2. /\ AccountTyped' /\ AccountRead' /\ AccountSent'
      /\ taken'.name = taken.name /\ taken'.was = taken.was
  BY <1>1, AccountCalled
<1>3. AccountHeld'
  BY <1>0, <1>1, <1>2 DEF AccountInv, AccountHeld, U!SnapExpired, U!Exists
<1>4. AccountWatch'
  BY <1>1 DEF AccountWatch
<1>5. AccountClean'
  BY <1>0, <1>1, <1>2 DEF AccountClean, Known, U!Exists
<1>6. AccountSettled'
  BY <1>0, <1>1 DEF AccountSettled
<1> QED
  BY <1>0, <1>1, <1>2, <1>3, <1>4, <1>5, <1>6 DEF AccountInv, U!NoOrphan

\* The first half of a reconcile that has a second one.
LEMMA AccountThenStep ==
  ASSUME system = "account", system' = system, AccountInv, Called, Later,
         prec.pc = "handle", prec' = [prec EXCEPT !.pc = "watch"], ~prec.snap.deleting,
         NEW todo \in {"rename", "readiness"},
         taken' = [taken EXCEPT !.version = password, !.todo = todo],
         todo = "readiness" => users'[taken.name].gen = prec.snap.gen,
         U!NoFaults' /\ pobj.exists /\ ~pobj.deleting =>
           /\ \A n \in U!UserNames : users'[n] # U!NoUser \/ secrets'[n] # 0 =>
                n = noted.name \/ (todo = "rename" /\ n = taken.name)
           /\ todo = "readiness" => taken.name = noted.name
  PROVE  AccountInv' /\ U!NoOrphan
<1>0. /\ FrameInv /\ budget' \in Budgets /\ prec \in R!Passes /\ taken \in TakenStates
      /\ UNCHANGED <<pobj, pqueued, project, wanted, password, expired, noted>>
  BY AccountFacts DEF AccountInv, Called, Later, TakenStates
<1>1. /\ prec' \in R!Passes /\ prec'.pc = "watch" /\ prec'.snap = prec.snap /\ prec'.id = prec.id
      /\ taken'.todo = todo /\ taken'.version = password
  BY <1>0 DEF R!Passes, TakenStates
<1>2. FrameInv' /\ Calm' = Calm
  BY <1>0, <1>1 DEF FrameInv, Framed, Follows, Held, UpToDate, Calm
<1>3. /\ AccountTyped' /\ AccountRead' /\ AccountSent'
      /\ taken'.name = taken.name /\ taken'.was = taken.was
  BY <1>1, <1>2, AccountCalled
<1>4. AccountHeld'
  BY <1>0, <1>1 DEF AccountInv, AccountHeld
<1>5. AccountWatch'
  <2>1. Calm => prec.snap.gen = pobj.gen /\ taken.name = wanted.name
    BY <1>0 DEF AccountInv, AccountRead, FrameInv, UpToDate
  <2> QED
    BY <1>0, <1>1, <1>2, <2>1 DEF AccountWatch
<1>6. AccountClean'
  BY <1>0, <1>1, <1>3 DEF AccountClean, Known, U!Exists
<1>7. AccountSettled'
  BY <1>1 DEF AccountSettled
<1> QED
  BY <1>0, <1>2, <1>3, <1>4, <1>5, <1>6, <1>7 DEF AccountInv, U!NoOrphan

LEMMA AccountAnswers ==
  /\ U!inProgress = R!Answer("set", "record", FALSE, TRUE)
  /\ U!ready = R!Answer("set", "record", TRUE, FALSE)
  /\ U!terminate = R!Answer("leave", "leave", FALSE, TRUE)
  /\ U!giveUp = R!Answer("leave", "leave", FALSE, FALSE)
BY AccountFrame DEF U!inProgress, U!ready, U!terminate, U!giveUp

\* A call that fails, whatever it has left in Atlas.
LEMMA AccountFails ==
  ASSUME system = "account", system' = system, AccountInv, Called,
         prec.pc \in {"handle", "watch"}, R!Spend("faults"), U!terminate
  PROVE  AccountInv' /\ U!NoOrphan
<1>1. budget \in Budgets /\ budget.faults <= MaxFaults
  BY AccountFacts
<1>2. Later /\ ~U!NoFaults'
  BY <1>1, Spent, NoFaultsBefore
<1> QED
  BY <1>2, AccountAnswers, AccountAnswerStep

\* An answer that leaves Atlas alone.
LEMMA AccountStays ==
  ASSUME system = "account", system' = system, AccountInv, prec.pc = "handle",
         UNCHANGED <<pobj, pqueued, project, wanted, password, expired, noted>>,
         UNCHANGED <<taken, users, cluster, secrets>>,
         budget' = budget \/ R!Spend("faults"),
         NEW again \in BOOLEAN, R!Answer("leave", "leave", FALSE, again),
         Calm /\ pobj.gen > expired /\ ~U!GaveUp' => again
  PROVE  AccountInv' /\ U!NoOrphan
<1>1. /\ budget \in Budgets /\ budget.faults <= MaxFaults
      /\ users \in [U!UserNames -> UserStates] /\ secrets \in [U!UserNames -> Nat]
      /\ cluster \in {"none", "pending", "applied"}
  BY AccountFacts DEF UserStates
<1>2. Later /\ (U!NoFaults' => U!NoFaults)
  BY <1>1, Spent, NoFaultsBefore
<1>3. Called
  BY <1>1 DEF Called
<1>4. U!NoFaults' /\ pobj.exists /\ ~pobj.deleting =>
        \A n \in U!UserNames : users'[n] # U!NoUser \/ secrets'[n] # 0 => n = noted.name
  BY <1>2 DEF AccountInv, AccountClean, Known, U!Exists
<1> QED
  BY <1>2, <1>3, <1>4, AccountAnswerStep

LEMMA AccountSends ==
  ASSUME AccountInv, U!Send
  PROVE  /\ users' \in [U!UserNames -> UserStates]
         /\ users'[taken.name] = [gen |-> prec.snap.gen, pass |-> password]
         /\ users'[taken.name] # U!NoUser
         /\ \A n \in U!UserNames \ {taken.name} : users'[n] = users[n]
         /\ cluster' \in {"none", "pending", "applied"} /\ (cluster = "none" => cluster' = "none")
<1>1. /\ users \in [U!UserNames -> UserStates] /\ taken.name \in U!UserNames
      /\ prec.snap.gen \in Nat /\ password \in Nat /\ password > 0
      /\ cluster \in {"none", "pending", "applied"}
  BY AccountFacts DEF UserStates
<1>2. [gen |-> prec.snap.gen, pass |-> password] \in UserStates
  BY <1>1 DEF UserStates
<1>3. [gen |-> prec.snap.gen, pass |-> password] # U!NoUser
  BY <1>1 DEF U!NoUser
<1> QED
  BY <1>1, <1>2, <1>3 DEF U!Send

\* The connection Secrets go, then the finalizer.
LEMMA AccountUnmanages ==
  ASSUME system = "account", system' = system, AccountInv, prec.pc = "handle",
         UNCHANGED <<pobj, pqueued, project, wanted, password, expired, noted>>,
         UNCHANGED <<taken, cluster>>,
         users' = users \/ users' = [users EXCEPT ![taken.name] = U!NoUser],
         U!unmanage,
         U!SnapExpired \/ prec.snap.deleting,
         prec.snap.keep \/ U!SnapExpired \/ users'[taken.name] = U!NoUser
  PROVE  AccountInv' /\ U!NoOrphan
<1>1. /\ budget \in Budgets /\ budget.faults <= MaxFaults
      /\ users \in [U!UserNames -> UserStates] /\ secrets \in [U!UserNames -> Nat]
      /\ taken.name \in U!UserNames /\ U!NoUser \in UserStates
      /\ cluster \in {"none", "pending", "applied"} /\ pobj.gen \in Nat /\ expired \in Nat
  BY AccountFacts DEF UserStates, U!NoUser
<1>2. /\ users' \in [U!UserNames -> UserStates]
      /\ \A n \in U!UserNames : users'[n] = users[n] \/ users'[n] = U!NoUser
  BY <1>1
<1>3. CASE /\ secrets' = U!SecretsWithout(taken.name)
           /\ U!Answer("unset", "leave", FALSE, FALSE) /\ budget' = budget
  <2>1. /\ secrets' \in [U!UserNames -> Nat]
        /\ \A n \in U!UserNames : secrets'[n] = secrets[n] \/ secrets'[n] = 0
    BY <1>1, <1>3 DEF U!SecretsWithout
  <2>2. Called
    BY <1>1, <1>2, <2>1 DEF Called
  <2>3. Later /\ (U!NoFaults' => U!NoFaults)
    BY <1>1, <1>3, Spent, NoFaultsBefore
  <2>4. ~(Calm /\ pobj.gen > expired)
    BY <1>1 DEF AccountInv, FrameInv, UpToDate, U!SnapExpired
  <2>5. U!NoFaults' /\ pobj.exists /\ ~pobj.deleting =>
          \A n \in U!UserNames : users'[n] # U!NoUser \/ secrets'[n] # 0 => n = noted.name
    BY <1>2, <2>1, <2>3 DEF AccountInv, AccountClean, Known, U!Exists
  <2>6. R!Answer("unset", "leave", FALSE, FALSE)
    BY <1>3, AccountFrame
  <2> QED
    BY <2>2, <2>3, <2>4, <2>5, <2>6, AccountAnswerStep
<1>4. CASE U!Spend("faults") /\ U!terminate /\ secrets' = secrets
  <2>1. Called
    BY <1>1, <1>2, <1>4 DEF Called
  <2> QED
    BY <1>4, <2>1, AccountFails, AccountFrame
<1> QED
  BY <1>3, <1>4 DEF U!unmanage

\* Sending the user, with or without an answer.
LEMMA AccountCreates ==
  ASSUME system = "account", system' = system, AccountInv, prec.pc = "handle",
         UNCHANGED <<pobj, pqueued, project, wanted, password, expired, noted>>,
         U!create
  PROVE  AccountInv' /\ U!NoOrphan
<1>1. /\ budget \in Budgets /\ budget.faults <= MaxFaults
      /\ secrets \in [U!UserNames -> Nat] /\ taken \in TakenStates /\ taken.name \in U!UserNames
      /\ users \in [U!UserNames -> UserStates] /\ cluster \in {"none", "pending", "applied"}
  BY AccountFacts DEF TakenStates, UserStates
<1>2. ~U!Exists(taken.name) /\ ~prec.snap.deleting /\ secrets' = secrets
  BY DEF U!create
<1>3. CASE U!SendFails
  <2>1. U!Spend("faults") /\ U!terminate /\ taken' = taken
        /\ (U!Send \/ (users' = users /\ cluster' = cluster))
    BY <1>3 DEF U!SendFails, U!atlasVars
  <2>2. Called
    BY <1>1, <1>2, <2>1, AccountSends DEF Called
  <2> QED
    BY <2>1, <2>2, AccountFails, AccountFrame
<1>4. CASE U!Send /\ budget' = budget
  <2>1. /\ users'[taken.name] = [gen |-> prec.snap.gen, pass |-> password]
        /\ \A n \in U!UserNames \ {taken.name} : users'[n] = users[n]
    BY <1>4, AccountSends
  <2>2. Later /\ (U!NoFaults' => U!NoFaults)
    BY <1>1, <1>4, Spent, NoFaultsBefore
  <2>3. U!NoFaults' /\ pobj.exists /\ ~pobj.deleting =>
          /\ \A n \in U!UserNames : users'[n] # U!NoUser \/ secrets'[n] # 0 =>
               n \in {noted.name, taken.name}
          /\ taken.was = noted
    BY <1>2, <2>1, <2>2
    DEF AccountInv, AccountClean, AccountRead, Known, U!Exists, U!NoFaults, U!FreshReads
  <2>4. CASE U!Renamed /\ U!Then("rename")
    <3>1. /\ taken' = [taken EXCEPT !.version = password, !.todo = "rename"]
          /\ prec' = [prec EXCEPT !.pc = "watch"]
      BY <2>4 DEF U!Then
    <3>2. Called
      BY <1>1, <1>2, <1>4, <2>1, <3>1, AccountSends DEF Called
    <3> QED
      BY <1>2, <2>2, <2>3, <3>1, <3>2, AccountThenStep
  <2>5. CASE ~U!Renamed /\ U!inProgress /\ taken' = [taken EXCEPT !.version = password]
    <3>1. taken' = [taken EXCEPT !.version = password, !.todo = taken.todo]
      BY <1>1, <2>5 DEF TakenStates
    <3>2. Called
      BY <1>1, <1>2, <1>4, <2>1, <3>1, AccountSends DEF Called
    <3>3. U!NoFaults' /\ pobj.exists /\ ~pobj.deleting =>
            \A n \in U!UserNames : users'[n] # U!NoUser \/ secrets'[n] # 0 => n = taken.name
      <4>1. 0 \notin U!UserNames
        BY DEF U!UserNames
      <4> QED
        BY <2>3, <2>5, <4>1 DEF U!Renamed
    <3>4. R!Answer("set", "record", FALSE, TRUE)
      BY <2>5, AccountAnswers
    <3> QED
      BY <2>2, <3>2, <3>3, <3>4, AccountAnswerStep
  <2> QED
    BY <1>4, <2>4, <2>5, <1>3 DEF U!create
<1> QED
  BY <1>3, <1>4 DEF U!create

LEMMA AccountUpdates ==
  ASSUME system = "account", system' = system, AccountInv, prec.pc = "handle",
         UNCHANGED <<pobj, pqueued, project, wanted, password, expired, noted>>,
         U!update
  PROVE  AccountInv' /\ U!NoOrphan
<1>1. /\ budget \in Budgets /\ budget.faults <= MaxFaults
      /\ secrets \in [U!UserNames -> Nat] /\ taken \in TakenStates /\ taken.name \in U!UserNames
      /\ users \in [U!UserNames -> UserStates] /\ cluster \in {"none", "pending", "applied"}
  BY AccountFacts DEF TakenStates, UserStates
<1>2. U!Exists(taken.name) /\ ~prec.snap.deleting /\ secrets' = secrets
  BY DEF U!update
\* Then it is the user that the status names.
<1>3. U!NoFaults /\ pobj.exists /\ ~pobj.deleting =>
        /\ taken.name = noted.name
        /\ \A n \in U!UserNames : users[n] # U!NoUser \/ secrets[n] # 0 => n = noted.name
  BY <1>1, <1>2 DEF AccountInv, AccountClean, Known, U!Exists
<1>4. CASE U!SendFails
  <2>1. U!Spend("faults") /\ U!terminate /\ taken' = taken
        /\ (U!Send \/ (users' = users /\ cluster' = cluster))
    BY <1>4 DEF U!SendFails, U!atlasVars
  <2>2. Called
    BY <1>1, <1>2, <2>1, AccountSends DEF Called
  <2> QED
    BY <2>1, <2>2, AccountFails, AccountFrame
<1>5. CASE /\ U!Send /\ U!inProgress /\ taken' = [taken EXCEPT !.version = password]
           /\ budget' = budget
  <2>1. /\ users'[taken.name] = [gen |-> prec.snap.gen, pass |-> password]
        /\ \A n \in U!UserNames \ {taken.name} : users'[n] = users[n]
    BY <1>5, AccountSends
  <2>2. Later /\ (U!NoFaults' => U!NoFaults)
    BY <1>1, <1>5, Spent, NoFaultsBefore
  <2>3. taken' = [taken EXCEPT !.version = password, !.todo = taken.todo]
    BY <1>1, <1>5 DEF TakenStates
  <2>4. Called
    BY <1>1, <1>2, <1>5, <2>1, <2>3, AccountSends DEF Called
  <2>5. U!NoFaults' /\ pobj.exists /\ ~pobj.deleting =>
          \A n \in U!UserNames : users'[n] # U!NoUser \/ secrets'[n] # 0 => n = taken.name
    BY <1>2, <1>3, <2>1, <2>2
  <2>6. R!Answer("set", "record", FALSE, TRUE)
    BY <1>5, AccountAnswers
  <2> QED
    BY <2>2, <2>4, <2>5, <2>6, AccountAnswerStep
<1>6. CASE /\ ~U!hasChanged /\ U!Then("readiness")
           /\ users' = users /\ cluster' = cluster /\ budget' = budget
  <2>1. /\ taken' = [taken EXCEPT !.version = password, !.todo = "readiness"]
        /\ prec' = [prec EXCEPT !.pc = "watch"]
        /\ users[taken.name].gen = prec.snap.gen /\ taken.was.pass = password
    BY <1>6 DEF U!Then, U!hasChanged
  <2>2. Later /\ (U!NoFaults' => U!NoFaults)
    BY <1>1, <1>6, Spent, NoFaultsBefore
  <2>3. Called
    BY <1>1, <1>2, <1>6, <2>1 DEF Called
  <2> QED
    BY <1>2, <1>3, <1>6, <2>1, <2>2, <2>3, AccountThenStep
<1> QED
  BY <1>4, <1>5, <1>6 DEF U!update, U!atlasVars

LEMMA AccountDeletes ==
  ASSUME system = "account", system' = system, AccountInv, prec.pc = "handle",
         UNCHANGED <<pobj, pqueued, project, wanted, password, expired, noted>>,
         U!delete
  PROVE  AccountInv' /\ U!NoOrphan
<1> DEFINE gone == [users EXCEPT ![taken.name] = U!NoUser]
<1>1. /\ secrets \in [U!UserNames -> Nat] /\ taken.name \in U!UserNames
      /\ users \in [U!UserNames -> UserStates] /\ cluster \in {"none", "pending", "applied"}
      /\ U!NoUser \in UserStates
  BY AccountFacts DEF UserStates, U!NoUser
<1>2. prec.snap.deleting /\ taken' = taken /\ cluster' = cluster
  BY DEF U!delete
<1>3. CASE U!unmanage /\ ((prec.snap.keep /\ users' = users) \/ users' = gone)
  <2>1. prec.snap.keep \/ users'[taken.name] = U!NoUser
    BY <1>1, <1>3
  <2> QED
    BY <1>2, <1>3, <2>1, AccountUnmanages
<1>4. CASE U!Spend("faults") /\ U!terminate /\ users' \in {users, gone} /\ secrets' = secrets
  <2>1. Called
    BY <1>1, <1>2, <1>4 DEF Called
  <2> QED
    BY <1>4, <2>1, AccountFails, AccountFrame
<1> QED
  BY <1>3, <1>4 DEF U!delete

LEMMA AccountHandleStep ==
  ASSUME system = "account", system' = system, AccountInv, U!handleDatabaseUser
  PROVE  AccountInv' /\ U!NoOrphan
<1>1. /\ prec.pc = "handle"
      /\ UNCHANGED <<pobj, pqueued, project, wanted, password, expired, noted>>
  BY DEF U!handleDatabaseUser, U!Handling, U!specVars
<1>2. CASE U!Unreachable
  <2>1. /\ UNCHANGED <<taken, users, cluster, secrets>>
        /\ budget' = budget \/ R!Spend("faults")
        /\ R!Answer("leave", "leave", FALSE, TRUE)
    BY <1>2, AccountFrame, AccountAnswers DEF U!Unreachable, U!atlasVars
  <2> QED
    BY <1>1, <2>1, AccountStays
<1>3. CASE U!dbuLifeCycle
  <2> DEFINE released == U!SnapExpired \/ (prec.snap.deleting /\ ~U!Exists(taken.name))
             invalid == taken.scopes = "this" /\ cluster = "none"
  <2>1. CASE /\ IF invalid THEN budget' = budget ELSE taken.scopes # "all" /\ U!Spend("faults")
             /\ U!giveUp /\ UNCHANGED <<taken, users, cluster, secrets>>
    <3>1. /\ budget' = budget \/ R!Spend("faults")
          /\ R!Answer("leave", "leave", FALSE, FALSE)
      BY <2>1, AccountFrame, AccountAnswers
    <3>2. Calm => U!GaveUp'
      <4> SUFFICES ASSUME Calm PROVE U!GaveUp'
        OBVIOUS
      <4>1. taken.scopes = wanted.scopes
        BY <1>1 DEF AccountInv, AccountRead, FrameInv, UpToDate
      <4>2. CASE invalid
        BY <1>1, <2>1, <4>1, <4>2 DEF U!GaveUp
      <4>3. CASE taken.scopes # "all" /\ R!Spend("faults")
        <5>1. budget \in Budgets /\ budget.faults <= MaxFaults
          BY AccountFacts
        <5>2. budget'.faults < budget.faults /\ budget'.faults \in Nat /\ budget.faults \in Nat
          BY <4>3, <5>1, Spent DEF Later, Budgets
        <5>3. budget'.faults < MaxFaults
          BY <5>1, <5>2, BoundsAreNat
        <5> QED
          BY <1>1, <4>1, <4>3, <5>3 DEF U!GaveUp
      <4> QED
        BY <2>1, <4>2, <4>3, AccountFrame
    <3> QED
      BY <1>1, <2>1, <3>1, <3>2, AccountStays
  <2>2. CASE released /\ U!unmanage /\ UNCHANGED <<taken, users, cluster>>
    <3>1. ~U!Exists(taken.name) => users'[taken.name] = U!NoUser
      BY <2>2 DEF U!Exists
    <3> QED
      BY <1>1, <2>2, <3>1, AccountUnmanages
  <2>3. CASE U!create \/ U!update \/ U!delete
    BY <1>1, <2>3, AccountCreates, AccountUpdates, AccountDeletes
  <2> QED
    BY <1>3, <2>1, <2>2, <2>3 DEF U!dbuLifeCycle, U!atlasVars
<1> QED
  BY <1>2, <1>3 DEF U!handleDatabaseUser

LEMMA AccountRemovesOld ==
  ASSUME system = "account", system' = system, AccountInv, prec.pc = "watch",
         UNCHANGED <<pobj, pqueued, project, wanted, password, expired, noted, taken>>,
         U!removeOldUser
  PROVE  AccountInv' /\ U!NoOrphan
<1> DEFINE old == taken.was.name
<1>1. /\ budget \in Budgets /\ budget.faults <= MaxFaults
      /\ secrets \in [U!UserNames -> Nat] /\ taken.name \in U!UserNames
      /\ users \in [U!UserNames -> UserStates] /\ cluster \in {"none", "pending", "applied"}
      /\ U!NoUser \in UserStates
  BY AccountFacts DEF UserStates, U!NoUser
<1>2. /\ taken.todo = "rename" /\ cluster' = cluster
      /\ secrets' \in {secrets, U!SecretsWithout(old)}
      /\ users' = users \/ users' = [users EXCEPT ![old] = U!NoUser]
  BY DEF U!removeOldUser
<1>3. Called
  BY <1>1, <1>2 DEF Called, U!SecretsWithout
<1>4. CASE U!Spend("faults") /\ U!terminate
  BY <1>3, <1>4, AccountFails, AccountFrame
<1>5. CASE /\ secrets' = U!SecretsWithout(old) /\ users' = [users EXCEPT ![old] = U!NoUser]
           /\ U!inProgress /\ budget' = budget
  <2>1. Later /\ (U!NoFaults' => U!NoFaults)
    BY <1>1, <1>5, Spent, NoFaultsBefore
  <2>2. U!NoFaults' /\ pobj.exists /\ ~pobj.deleting =>
          \A n \in U!UserNames : users'[n] # U!NoUser \/ secrets'[n] # 0 => n = taken.name
    <3> SUFFICES ASSUME U!NoFaults, pobj.exists, ~pobj.deleting, NEW n \in U!UserNames,
                        users'[n] # U!NoUser \/ secrets'[n] # 0
                 PROVE  n = taken.name
      BY <2>1
    <3>1. taken.was = noted
      BY DEF AccountInv, AccountRead, U!NoFaults, U!FreshReads
    <3>2. n # old
      BY <1>1, <1>5 DEF U!SecretsWithout
    <3>3. users[n] # U!NoUser \/ secrets[n] # 0
      BY <1>1, <1>5, <3>2 DEF U!SecretsWithout
    <3> QED
      BY <3>1, <3>2, <3>3 DEF AccountInv, AccountClean, Known, U!Exists
  <2>3. R!Answer("set", "record", FALSE, TRUE)
    BY <1>5, AccountAnswers
  <2> QED
    BY <1>3, <2>1, <2>2, <2>3, AccountAnswerStep
<1> QED
  BY <1>4, <1>5 DEF U!removeOldUser

\* What comes of a reconcile that finds the user as it is to be.
LEMMA AccountReadiness ==
  ASSUME system = "account", system' = system, AccountInv, prec.pc = "watch",
         UNCHANGED <<pobj, pqueued, project, wanted, password, expired, noted, taken>>,
         U!readiness
  PROVE  AccountInv' /\ U!NoOrphan
<1>1. /\ budget \in Budgets /\ budget.faults <= MaxFaults /\ password \in Nat /\ password > 0
      /\ secrets \in [U!UserNames -> Nat] /\ taken.name \in U!UserNames
      /\ wanted.name \in U!UserNames
      /\ users \in [U!UserNames -> UserStates] /\ cluster \in {"none", "pending", "applied"}
      /\ pobj.gen \in Nat /\ pobj.gen > 0
  BY AccountFacts DEF UserStates
<1>2. taken.todo = "readiness" /\ users' = users /\ cluster' = cluster
  BY DEF U!readiness, U!atlasVars
<1>3. U!NoFaults /\ pobj.exists /\ ~pobj.deleting =>
        /\ taken.name = noted.name /\ taken.was = noted
        /\ \A n \in U!UserNames : users[n] # U!NoUser \/ secrets[n] # 0 => n = noted.name
  BY <1>2 DEF AccountInv, AccountClean, AccountRead, Known, U!Exists, U!NoFaults, U!FreshReads
<1>4. CASE U!Spend("faults") /\ U!terminate /\ secrets' = secrets
  <2>1. Called
    BY <1>1, <1>2, <1>4 DEF Called
  <2> QED
    BY <1>4, <2>1, AccountFails, AccountFrame
<1>5. CASE U!inProgress /\ secrets' = secrets /\ budget' = budget
  <2>1. Called
    BY <1>1, <1>2, <1>5 DEF Called
  <2>2. Later /\ (U!NoFaults' => U!NoFaults)
    BY <1>1, <1>5, Spent, NoFaultsBefore
  <2>3. U!NoFaults' /\ pobj.exists /\ ~pobj.deleting =>
          \A n \in U!UserNames : users'[n] # U!NoUser \/ secrets'[n] # 0 => n = taken.name
    BY <1>2, <1>3, <1>5, <2>2
  <2>4. R!Answer("set", "record", FALSE, TRUE)
    BY <1>5, AccountAnswers
  <2> QED
    BY <2>1, <2>2, <2>3, <2>4, AccountAnswerStep
<1>6. CASE secrets' = U!ConnectionSecrets /\ U!ready /\ budget' = budget
  <2>1. /\ secrets' \in [U!UserNames -> Nat]
        /\ \A n \in U!UserNames \ {taken.name} :
             secrets'[n] = 0 \/ (secrets'[n] = secrets[n] /\ n # taken.was.name)
        /\ cluster # "none" => secrets'[taken.name] = IF U!InScope THEN password ELSE 0
    BY <1>1, <1>6 DEF U!ConnectionSecrets
  <2>2. Called
    BY <1>1, <1>2, <1>6, <2>1 DEF Called
  <2>3. Later /\ (U!NoFaults' => U!NoFaults)
    BY <1>1, <1>6, Spent, NoFaultsBefore
  <2>4. U!NoFaults' /\ pobj.exists /\ ~pobj.deleting =>
          \A n \in U!UserNames : users'[n] # U!NoUser \/ secrets'[n] # 0 => n = taken.name
    BY <1>2, <1>3, <2>1, <2>3
  <2>5. Calm /\ pobj.gen > expired => UserApplied'
    <3> SUFFICES ASSUME Calm, pobj.gen > expired PROVE UserApplied'
      OBVIOUS
    <3>1. /\ taken.name = wanted.name /\ taken.scopes = wanted.scopes
          /\ pobj.exists /\ ~pobj.deleting
      BY DEF AccountInv, AccountRead, FrameInv, UpToDate, Calm
    <3>2. users[wanted.name].gen = pobj.gen /\ taken.version = password
      BY <1>2 DEF AccountInv, AccountWatch
    <3>3. users[wanted.name].pass = password
      BY <1>1, <3>2 DEF AccountInv, AccountSent
    <3>4. users[wanted.name] = [gen |-> pobj.gen, pass |-> password]
      BY <1>1, <3>2, <3>3 DEF UserStates
    <3>5. cluster # "none" => secrets'[wanted.name] = IF wanted.scopes = "other" THEN 0 ELSE password
      BY <2>1, <3>1 DEF U!InScope
    <3>6. U!NoFaults' =>
            \A n \in U!UserNames \ {wanted.name} : users'[n] = U!NoUser /\ secrets'[n] = 0
      BY <2>4, <3>1
    <3> QED
      BY <1>2, <3>4, <3>5, <3>6 DEF UserApplied, U!Exists
  <2>6. R!Answer("set", "record", TRUE, FALSE)
    BY <1>6, AccountAnswers
  <2> QED
    BY <2>2, <2>3, <2>4, <2>5, <2>6, AccountAnswerStep
<1> QED
  BY <1>4, <1>5, <1>6 DEF U!readiness

LEMMA AccountSecondStep ==
  ASSUME system = "account", system' = system, AccountInv, U!SecondHalf
  PROVE  AccountInv' /\ U!NoOrphan
BY AccountRemovesOld, AccountReadiness DEF U!SecondHalf, U!specVars

\* The types, after a step that leaves the users and Secrets alone.
LEMMA AccountStillTyped ==
  ASSUME AccountInv, FrameInv', budget'.faults <= MaxFaults, pobj'.gen > 0,
         wanted' \in U!Specs, noted' \in [name : U!UserNames \cup {0}, pass : Nat],
         taken' \in TakenStates, password' \in Nat \ {0}, expired' \in Nat,
         users' \in [U!UserNames -> UserStates],
         cluster' \in {"none", "pending", "applied"}, secrets' = secrets
  PROVE  AccountTyped'
<1>1. pobj' \in U!Objects /\ prec' \in U!Passes
  BY AccountFrame DEF FrameInv, Framed
<1>2. U!DatabaseUserTypeOK'
  BY <1>1 DEF AccountInv, AccountTyped, U!DatabaseUserTypeOK, UserStates, TakenStates
<1> QED
  BY <1>2 DEF AccountTyped

\* What such a step that also leaves Atlas and the spec alone starts from.
AccountQuiet == UNCHANGED <<wanted, password, expired, users, cluster, secrets>>

LEMMA AccountPrepareStep ==
  ASSUME system = "account", system' = system, AccountInv, U!PrepareUser
  PROVE  AccountInv' /\ U!NoOrphan
<1>0. /\ FrameInv /\ budget \in Budgets /\ budget.faults <= MaxFaults
      /\ wanted \in U!Specs /\ noted \in [name : U!UserNames \cup {0}, pass : Nat]
      /\ password \in Nat \ {0} /\ expired \in Nat /\ pobj.gen \in Nat /\ pobj.gen > 0
      /\ users \in [U!UserNames -> UserStates] /\ cluster \in {"none", "pending", "applied"}
      /\ noted.pass \in Nat
  BY AccountFacts DEF AccountInv, AccountTyped, U!DatabaseUserTypeOK, UserStates
<1>1. /\ R!PrepareResource /\ AccountQuiet /\ noted' = noted
      /\ taken' = [name |-> wanted.name, scopes |-> wanted.scopes, version |-> 0, todo |-> "none",
                   was |-> IF pobj.seen THEN noted ELSE U!Nothing]
      /\ prec.pc = "idle"
  BY AccountFrame DEF U!PrepareUser, U!specVars, U!atlasVars, AccountQuiet, R!PrepareResource
<1>2. /\ taken' \in TakenStates /\ taken'.name = wanted.name /\ taken'.scopes = wanted.scopes
      /\ taken'.version = 0 /\ taken'.was = IF pobj.seen THEN noted ELSE U!Nothing
  BY <1>0, <1>1 DEF TakenStates, U!Specs, U!Nothing
<1>3. /\ FrameInv' /\ pobj' = pobj /\ project' = project /\ ~pqueued'
      /\ IF pobj.exists
         THEN /\ prec'.pc = "handle" /\ prec'.id = "leave"
              /\ prec'.snap.gen = pobj.gen /\ prec'.snap.deleting = pobj.deleting
              /\ prec'.snap.id = pobj.seen
         ELSE prec' = R!Idle
      /\ budget.lagged => budget'.lagged
      /\ pobj.exists /\ pobj.seen # pobj.id => budget'.lagged
      /\ budget'.faults <= budget.faults
  BY <1>0, <1>1, FramePrepare
<1>4. Later
  BY <1>3 DEF Later, FrameInv, Framed
<1>5. budget'.faults <= MaxFaults /\ (U!NoFaults' => U!NoFaults)
  BY <1>0, <1>4, NoFaultsBefore
<1>6. AccountTyped'
  BY <1>0, <1>1, <1>2, <1>3, <1>5, AccountStillTyped DEF AccountQuiet
<1>7. AccountRead'
  <2>1. CASE pobj.exists
    <3>1. ~budget'.lagged => taken'.was = noted
      BY <1>2, <1>3, <2>1 DEF AccountInv, AccountHeld
    <3> QED
      BY <1>0, <1>1, <1>2, <1>3, <2>1, <3>1 DEF AccountRead, AccountQuiet
  <2>2. CASE ~pobj.exists
    BY <1>3, <2>2, IdlePass DEF AccountRead
  <2> QED
    BY <2>1, <2>2
<1>8. AccountSent'
  <2>1. password > 0
    BY <1>0
  <2> QED
    BY <1>0, <1>1, <1>2, <1>3, <2>1, IdlePass DEF AccountInv, AccountSent, AccountQuiet
<1>9. AccountHeld' /\ AccountWatch' /\ AccountSettled'
  <2>0. R!Idle.id = "leave"
    BY DEF R!Idle
  <2>1. prec'.pc \in {"handle", "idle"} /\ prec'.id = "leave"
    BY <1>3, <2>0, IdlePass
  <2>2. prec'.pc = "idle" => ~Calm'
    BY <1>3, IdlePass DEF Calm
  <2> QED
    BY <1>1, <1>3, <2>1, <2>2 DEF AccountInv, AccountHeld, AccountWatch, AccountSettled, AccountQuiet
<1>10. AccountClean'
  BY <1>1, <1>3, <1>5, IdlePass DEF AccountInv, AccountClean, AccountQuiet, Known, U!Exists
<1> QED
  BY <1>3, <1>6, <1>7, <1>8, <1>9, <1>10 DEF AccountInv, U!NoOrphan

LEMMA AccountSkipStep ==
  ASSUME system = "account", system' = system, AccountInv, U!SkipUser
  PROVE  AccountInv' /\ U!NoOrphan
<1>0. /\ FrameInv /\ pobj \in R!Objects /\ prec.pc = "handle" /\ prec.snap.skip
      /\ UNCHANGED <<pobj, project, budget, noted, taken>> /\ AccountQuiet
      /\ prec' = R!Idle /\ pqueued' = (pqueued \/ FALSE)
  BY AccountFrame DEF AccountInv, FrameInv, Framed, U!SkipUser, U!Done, U!dbUserVars, U!specVars,
     U!atlasVars, AccountQuiet
<1>1. Framed' /\ ~Calm'
  BY <1>0, IdlePass DEF FrameInv, Framed, UpToDate, Calm
<1>2. FrameInv'
  BY <1>0, <1>1, FrameIdle
<1>3. AccountTyped'
  BY <1>0, <1>2, AccountFrame DEF AccountInv, AccountTyped, U!DatabaseUserTypeOK, AccountQuiet,
     FrameInv, Framed
<1>4. R!Idle.id = "leave"
  BY DEF R!Idle
<1>5. AccountRead' /\ AccountSent' /\ AccountHeld' /\ AccountWatch'
  BY <1>0, <1>4, IdlePass DEF AccountInv, AccountRead, AccountSent, AccountHeld, AccountWatch,
     AccountQuiet
<1>6. AccountClean' /\ AccountSettled'
  BY <1>0, <1>1, IdlePass DEF AccountInv, AccountClean, AccountSettled, AccountQuiet, Known,
     U!Exists, U!NoFaults, U!FreshReads
<1> QED
  BY <1>0, <1>2, <1>3, <1>5, <1>6 DEF AccountInv, U!NoOrphan

LEMMA AccountRestartStep ==
  ASSUME system = "account", system' = system, AccountInv, U!Restart, UNCHANGED U!dbUserVars
  PROVE  AccountInv' /\ U!NoOrphan
<1>0. /\ FrameInv /\ R!Restart /\ noted' = noted /\ taken' = taken /\ AccountQuiet
      /\ budget \in Budgets /\ budget.faults <= MaxFaults
  BY AccountFrame, AccountFacts DEF AccountInv, U!dbUserVars, U!specVars, U!atlasVars, AccountQuiet
<1>1. FrameInv' /\ ~Calm' /\ pobj' = pobj /\ prec' = R!Idle /\ project' = project
  BY <1>0, FrameRestart
<1>2. Later /\ ~U!NoFaults' /\ budget'.faults <= MaxFaults
  BY <1>0, Spent, NoFaultsBefore DEF R!Restart
<1>3. AccountTyped'
  BY <1>0, <1>1, <1>2, AccountFrame DEF AccountInv, AccountTyped, U!DatabaseUserTypeOK, AccountQuiet,
     FrameInv, Framed
<1>4. R!Idle.id = "leave"
  BY DEF R!Idle
<1>5. AccountRead' /\ AccountSent' /\ AccountHeld' /\ AccountWatch'
  BY <1>0, <1>1, <1>4, IdlePass DEF AccountInv, AccountRead, AccountSent, AccountHeld, AccountWatch,
     AccountQuiet
<1>6. AccountClean' /\ AccountSettled'
  BY <1>1, <1>2 DEF AccountClean, AccountSettled
<1> QED
  BY <1>1, <1>3, <1>5, <1>6 DEF AccountInv, U!NoOrphan

LEMMA AccountSyncStep ==
  ASSUME system = "account", system' = system, AccountInv, U!UserSync
  PROVE  AccountInv' /\ U!NoOrphan
<1>0. /\ FrameInv /\ R!CacheSync /\ noted' = noted /\ taken' = taken /\ AccountQuiet
  BY AccountFrame, AccountFacts
  DEF AccountInv, U!UserSync, U!dbUserVars, U!specVars, U!atlasVars, AccountQuiet
<1>1. /\ FrameInv' /\ pobj' = [pobj EXCEPT !.seen = pobj.id]
      /\ UNCHANGED <<pqueued, prec, project, budget>>
  BY <1>0, FrameSync
<1>2. /\ pobj'.exists = pobj.exists /\ pobj'.deleting = pobj.deleting /\ pobj'.fin = pobj.fin
      /\ pobj'.id = pobj.id /\ pobj'.gen = pobj.gen /\ pobj'.skip = pobj.skip
  BY <1>0, <1>1 DEF FrameInv, Framed, R!Objects
<1>3. AccountTyped'
  BY <1>0, <1>1, <1>2, AccountFrame DEF AccountInv, AccountTyped, U!DatabaseUserTypeOK, AccountQuiet,
     FrameInv, Framed
<1>4. Calm' = Calm
  BY <1>1, <1>2 DEF Calm
<1>5. AccountRead' /\ AccountSent' /\ AccountHeld' /\ AccountWatch'
  BY <1>0, <1>1, <1>2, <1>4 DEF AccountInv, AccountRead, AccountSent, AccountHeld, AccountWatch,
     AccountQuiet, U!SnapExpired, U!Exists
<1>6. AccountClean'
  BY <1>0, <1>1, <1>2 DEF AccountInv, AccountClean, AccountQuiet, Known,
     U!Exists, U!NoFaults, U!FreshReads
<1>7. AccountSettled'
  BY <1>0, <1>1, <1>2, <1>4 DEF AccountInv, AccountSettled, AccountQuiet, UserApplied,
     U!Exists, U!NoFaults, U!FreshReads, U!GaveUp
<1> QED
  BY <1>1, <1>2, <1>3, <1>5, <1>6, <1>7 DEF AccountInv, U!NoOrphan

\* The finalizer goes on, or off, and the name of the spec is read again.
LEMMA AccountPatchStep ==
  ASSUME system = "account", system' = system, AccountInv, prec.pc = "finalizer",
         NEW op \in {"set", "unset"}, prec.fin = op, R!Patched(op), pqueued' = TRUE,
         prec' = [prec EXCEPT !.pc = "status", !.snap = pobj'],
         taken' = [taken EXCEPT !.name = wanted.name],
         budget' = [budget EXCEPT !.lagged = @ \/ taken.name # wanted.name],
         project' = project, AccountQuiet, noted' = noted
  PROVE  AccountInv' /\ U!NoOrphan
<1>0. /\ FrameInv /\ Framed /\ budget \in Budgets /\ budget.faults <= MaxFaults
      /\ wanted \in U!Specs /\ noted \in [name : U!UserNames \cup {0}, pass : Nat]
      /\ wanted.name \in U!UserNames /\ taken \in TakenStates /\ prec \in R!Passes
      /\ password \in Nat \ {0} /\ expired \in Nat /\ pobj.gen \in Nat /\ pobj.gen > 0
      /\ users \in [U!UserNames -> UserStates] /\ cluster \in {"none", "pending", "applied"}
      /\ project \in BOOLEAN /\ pobj.deleting \in BOOLEAN /\ prec.snap.gen \in Nat
  BY AccountFacts DEF AccountInv, AccountTyped, U!DatabaseUserTypeOK, UserStates, TakenStates,
     FrameInv
<1>1. /\ pobj.exists /\ pobj' \in R!Objects
      /\ pobj'.fin = (op = "set") /\ pobj'.exists = (op = "set" \/ ~pobj.deleting)
      /\ op = "set" => ~pobj.deleting
      /\ pobj'.deleting = pobj.deleting /\ pobj'.gen = pobj.gen
      /\ pobj'.id = pobj.id /\ pobj'.keep = pobj.keep
  BY <1>0, FramePatched
<1>2. /\ prec' \in R!Passes /\ prec'.pc = "status" /\ prec'.snap = pobj'
      /\ prec'.id = prec.id /\ prec'.ready = prec.ready
  BY <1>0, <1>1 DEF R!Passes
<1>3. /\ taken' \in TakenStates /\ taken'.name = wanted.name /\ taken'.was = taken.was
      /\ taken'.version = taken.version
  BY <1>0 DEF TakenStates
<1>4. /\ budget' \in Budgets /\ budget'.faults = budget.faults
      /\ budget'.lagged = (budget.lagged \/ taken.name # wanted.name)
  BY <1>0 DEF Budgets
<1>5. U!NoFaults' => U!NoFaults /\ taken.name = wanted.name
  BY <1>4 DEF U!NoFaults, U!FreshReads
<1>6. ~Calm'
  BY DEF Calm
<1>7. FrameInv'
  <2>1. Framed'
    BY <1>0, <1>1, <1>2, <1>4 DEF Framed
  <2>2. Follows' /\ UpToDate'
    BY <1>1, <1>2, <1>6 DEF Follows, UpToDate
  <2>3. Held'
    BY <1>0, <1>1, <1>2 DEF FrameInv, Held
  <2> QED
    BY <2>1, <2>2, <2>3 DEF FrameInv
<1>8. AccountTyped'
  BY <1>0, <1>1, <1>3, <1>4, <1>7, AccountStillTyped DEF AccountQuiet
<1>9. AccountRead'
  <2>1. /\ taken.was \in {noted, U!Nothing} /\ (~budget.lagged => taken.was = noted)
    BY DEF AccountInv, AccountRead
  <2>2. /\ prec'.snap.gen = pobj'.gen /\ 0 < pobj'.gen /\ pobj'.gen <= pobj'.gen
        /\ prec'.snap.id = pobj'.id
    BY <1>0, <1>1, <1>2
  <2> QED
    BY <1>2, <1>3, <1>4, <2>1, <2>2 DEF AccountRead, AccountQuiet, U!Nothing
<1>10. AccountSent'
  BY <1>0, <1>1, <1>2, <1>3 DEF AccountInv, AccountSent, AccountQuiet
<1>11. /\ op = "unset" =>
            /\ prec.snap.deleting \/ U!SnapExpired
            /\ prec.snap.keep \/ U!SnapExpired \/ ~U!Exists(taken.name)
       /\ U!SnapExpired => expired > 0
       /\ prec.snap.deleting => pobj.deleting /\ taken.name = wanted.name
       /\ prec.snap.keep = pobj.keep
  BY <1>0 DEF AccountInv, AccountHeld, AccountRead, U!SnapExpired, FrameInv, Follows
<1>12. AccountHeld'
  BY <1>1, <1>2, <1>11 DEF AccountInv, AccountHeld, AccountQuiet
<1>13. AccountWatch' /\ AccountSettled'
  BY <1>2, <1>6 DEF AccountWatch, AccountSettled
<1>14. AccountClean'
  BY <1>1, <1>2, <1>3, <1>5 DEF AccountInv, AccountClean, AccountQuiet, Known, U!Exists
<1>15. U!NoOrphan
  BY <1>1, <1>11 DEF U!NoOrphan
<1> QED
  BY <1>7, <1>8, <1>9, <1>10, <1>12, <1>13, <1>14, <1>15 DEF AccountInv

\* No patch, or none that is taken.
LEMMA AccountUnpatchedStep ==
  ASSUME system = "account", system' = system, AccountInv, prec.pc = "finalizer",
         UNCHANGED <<pobj, pqueued, taken, project, noted>>, AccountQuiet,
         \/ /\ prec.fin = "set" => pobj.fin
            /\ prec' = [prec EXCEPT !.pc = "status"] /\ budget' = budget
         \/ /\ prec' = [prec EXCEPT !.pc = "status", !.ready = FALSE, !.again = TRUE, !.id = "leave"]
            /\ \/ R!Spend("faults")
               \/ budget' = budget /\ (~pobj.exists \/ pobj.deleting)
  PROVE  AccountInv' /\ U!NoOrphan
<1>0. /\ FrameInv /\ budget \in Budgets /\ budget.faults <= MaxFaults /\ prec \in R!Passes
      /\ wanted \in U!Specs /\ noted \in [name : U!UserNames \cup {0}, pass : Nat]
      /\ taken \in TakenStates /\ password \in Nat \ {0} /\ expired \in Nat /\ pobj.gen > 0
      /\ users \in [U!UserNames -> UserStates] /\ cluster \in {"none", "pending", "applied"}
  BY AccountFacts DEF AccountInv, AccountTyped, U!DatabaseUserTypeOK, UserStates, TakenStates
<1>1. /\ prec' \in R!Passes /\ prec'.pc = "status" /\ prec'.snap = prec.snap
      /\ \/ /\ prec'.id = prec.id /\ prec'.ready = prec.ready /\ prec'.again = prec.again
            /\ prec.fin = "set" => pobj.fin
            /\ budget' = budget
         \/ /\ prec'.id = "leave" /\ ~prec'.ready /\ prec'.again
            /\ R!Spend("faults") \/ ~pobj.exists \/ pobj.deleting
  BY <1>0 DEF R!Passes
<1>2. Later /\ budget'.faults <= MaxFaults /\ (U!NoFaults' => U!NoFaults /\ ~R!Spend("faults"))
  BY <1>0, Spent, NoFaultsBefore
<1>3. Calm' = Calm
  BY DEF Calm
<1>4. FrameInv'
  BY <1>0, <1>1, <1>2, <1>3 DEF FrameInv, Framed, Follows, UpToDate, Held, Later
<1>5. AccountTyped'
  BY <1>0, <1>2, <1>4, AccountStillTyped DEF AccountQuiet
<1>6. AccountRead' /\ AccountSent'
  BY <1>1, <1>2 DEF AccountInv, AccountRead, AccountSent, AccountQuiet, Later
<1>7. AccountHeld' /\ AccountWatch'
  BY <1>1 DEF AccountInv, AccountHeld, AccountWatch, AccountQuiet
<1>8. AccountClean'
  BY <1>1, <1>2 DEF AccountInv, AccountClean, AccountQuiet, Known, U!Exists
<1>9. AccountSettled'
  <2>1. ~U!GaveUp' => ~U!GaveUp
    BY <1>0, <1>2, GivenUp DEF AccountQuiet
  <2>2. UserApplied => UserApplied'
    BY <1>2 DEF UserApplied, AccountQuiet, U!Exists
  <2> QED
    BY <1>1, <1>3, <2>1, <2>2 DEF AccountInv, AccountSettled, AccountQuiet
<1> QED
  BY <1>4, <1>5, <1>6, <1>7, <1>8, <1>9 DEF AccountInv, U!NoOrphan

LEMMA AccountFinalizeStep ==
  ASSUME system = "account", system' = system, AccountInv, U!Finalize
  PROVE  AccountInv' /\ U!NoOrphan
<1> DEFINE change == prec.fin # "leave" /\ (prec.fin = "set") # prec.snap.fin
<1>0. /\ prec.pc = "finalizer" /\ project' = project /\ noted' = noted /\ AccountQuiet
      /\ prec.snap.fin = pobj.fin /\ prec.fin \in {"set", "unset", "leave"} /\ pobj.fin \in BOOLEAN
  BY AccountFacts DEF AccountInv, FrameInv, Follows, U!Finalize, U!specVars, U!atlasVars, AccountQuiet
<1>1. CASE /\ change /\ R!Patched(prec.fin) /\ pqueued' = TRUE
           /\ prec' = [prec EXCEPT !.pc = "status", !.snap = pobj']
           /\ taken' = [taken EXCEPT !.name = wanted.name]
           /\ budget' = [budget EXCEPT !.lagged = @ \/ taken.name # wanted.name]
  BY <1>0, <1>1, AccountPatchStep
<1>2. CASE ~change /\ prec' = [prec EXCEPT !.pc = "status"]
           /\ UNCHANGED <<pobj, pqueued, budget, taken>>
  BY <1>0, <1>2, AccountUnpatchedStep
<1>3. CASE /\ prec' = [prec EXCEPT !.pc = "status", !.ready = FALSE, !.again = TRUE, !.id = "leave"]
           /\ R!Spend("faults") \/ (budget' = budget /\ (~pobj.exists \/ pobj.deleting))
           /\ UNCHANGED <<pobj, pqueued, taken>>
  BY <1>0, <1>3, AccountUnpatchedStep
<1> QED
  BY <1>1, <1>2, <1>3, AccountFrame DEF U!Finalize, U!Refused, R!Refused

\* The name and the version go into the status.
LEMMA AccountStatusStep ==
  ASSUME system = "account", system' = system, AccountInv, U!UpdateUserStatus
  PROVE  AccountInv' /\ U!NoOrphan
<1>0. /\ FrameInv /\ budget \in Budgets /\ budget.faults <= MaxFaults
      /\ noted \in [name : U!UserNames \cup {0}, pass : Nat] /\ noted.pass \in Nat
      /\ taken \in TakenStates /\ taken.name \in U!UserNames /\ taken.version \in Nat
      /\ wanted \in U!Specs /\ password \in Nat \ {0} /\ expired \in Nat /\ pobj.gen > 0
      /\ users \in [U!UserNames -> UserStates] /\ cluster \in {"none", "pending", "applied"}
      /\ prec.id \in {"record", "clear", "leave"} /\ prec.snap.id \in BOOLEAN
  BY AccountFacts DEF AccountInv, AccountTyped, U!DatabaseUserTypeOK, UserStates, TakenStates
<1>1. R!UpdateStatus /\ AccountQuiet /\ taken' = taken
  BY AccountFrame DEF U!UpdateUserStatus, U!specVars, U!atlasVars, AccountQuiet
<1>2. /\ FrameInv' /\ Progress /\ project' = project /\ prec' = R!Idle /\ prec.pc = "status"
      /\ \/ /\ pobj.exists /\ budget' = budget
            /\ prec.id = "record" => pobj'.id
            /\ prec.id = "leave" => pobj'.id = prec.snap.id
         \/ pobj' = pobj /\ (~pobj.exists \/ R!Spend("faults"))
      /\ pobj'.fin = pobj.fin /\ pobj'.exists = pobj.exists /\ pobj'.gen = pobj.gen
      /\ pobj'.deleting = pobj.deleting
  BY <1>0, <1>1, FrameStatus
<1>3. /\ Later /\ budget'.faults <= MaxFaults /\ (R!Spend("faults") => budget' # budget)
      /\ U!NoFaults' => U!NoFaults /\ ~R!Spend("faults")
  BY <1>0, <1>1, Spent, NoFaultsBefore DEF R!UpdateStatus
<1>4. prec'.pc = "idle" /\ prec'.id = "leave"
  <2>1. R!Idle.id = "leave"
    BY DEF R!Idle
  <2> QED
    BY <1>2, <2>1, IdlePass
<1>5. prec.id \in {"record", "leave"}
  BY <1>0 DEF AccountInv, AccountHeld
<1>6. \/ /\ pobj.exists /\ budget' = budget /\ prec.id = "record" /\ pobj'.id
         /\ noted' = [name |-> taken.name, pass |-> taken.version]
      \/ /\ pobj.exists /\ budget' = budget /\ prec.id = "leave" /\ pobj'.id = prec.snap.id
         /\ noted' = IF prec.snap.id THEN noted ELSE U!Nothing
      \/ pobj' = pobj /\ noted' = noted /\ (~pobj.exists \/ R!Spend("faults"))
  BY <1>2, <1>3, <1>5 DEF U!UpdateUserStatus
<1>7. noted' \in [name : U!UserNames \cup {0}, pass : Nat]
  BY <1>0, <1>6 DEF U!Nothing
<1>8. AccountTyped'
  BY <1>0, <1>1, <1>2, <1>3, <1>7, AccountStillTyped DEF AccountQuiet
<1>9. AccountRead' /\ AccountWatch'
  BY <1>4 DEF AccountRead, AccountWatch
<1>10. AccountSent'
  <2>1. /\ password > 0 /\ taken.version <= password /\ noted.pass <= password
        /\ \A n \in U!UserNames :
             /\ users[n].gen <= pobj.gen
             /\ users[n].gen = pobj.gen => n = wanted.name
             /\ users[n].gen = pobj.gen /\ (noted.pass = password \/ taken.version = password) =>
                  users[n].pass = password
    BY <1>0, <1>2 DEF AccountInv, AccountSent
  <2>2. noted'.pass \in {taken.version, noted.pass, 0}
    BY <1>6 DEF U!Nothing
  <2> QED
    BY <1>0, <1>1, <1>2, <1>4, <2>1, <2>2 DEF AccountSent, AccountQuiet
<1>11. AccountHeld'
  <2>1. /\ pobj.id \/ noted = U!Nothing
        /\ pobj.exists /\ noted.name # 0 => pobj.fin \/ expired > 0
        /\ prec.id = "record" => pobj.fin
    BY <1>2 DEF AccountInv, AccountHeld
  <2>2. pobj'.id \/ noted' = U!Nothing
    BY <1>6, <2>1
  <2>3. pobj'.exists /\ noted'.name # 0 => pobj'.fin \/ expired' > 0
    BY <1>1, <1>2, <1>6, <2>1 DEF U!Nothing, AccountQuiet
  <2> QED
    BY <1>4, <2>2, <2>3 DEF AccountHeld
<1>12. AccountClean'
  <2> SUFFICES ASSUME U!NoFaults', pobj'.exists, ~pobj'.deleting
               PROVE  \A n \in U!UserNames : U!Exists(n) \/ secrets[n] # 0 => n = noted'.name
    BY <1>1, <1>4 DEF AccountClean, Known, AccountQuiet, U!Exists
  <2>1. taken.was = noted /\ prec.snap.id = pobj.id
    BY <1>2, <1>3 DEF AccountInv, AccountRead, U!NoFaults, U!FreshReads
  <2>2. \A n \in U!UserNames : U!Exists(n) \/ secrets[n] # 0 =>
          n = IF prec.id = "record" THEN taken.name ELSE noted.name
    BY <1>2, <1>3 DEF AccountInv, AccountClean, Known
  <2>3. ~prec.snap.id => noted = U!Nothing
    BY <2>1 DEF AccountInv, AccountHeld
  <2> QED
    BY <1>2, <1>3, <1>5, <1>6, <2>2, <2>3
<1>13. AccountSettled'
  <2>1. ~U!GaveUp' => ~U!GaveUp
    BY <1>0, <1>1, <1>3, GivenUp DEF AccountQuiet
  <2>2. UserApplied => UserApplied'
    BY <1>1, <1>2, <1>3 DEF UserApplied, AccountQuiet, U!Exists
  <2>3. Calm' => Calm /\ ~prec.again
    BY <1>2, <1>4 DEF Progress
  <2> QED
    BY <1>1, <1>2, <1>4, <2>1, <2>2, <2>3 DEF AccountInv, AccountSettled, AccountQuiet
<1> QED
  BY <1>2, <1>8, <1>9, <1>10, <1>11, <1>12, <1>13 DEF AccountInv, U!NoOrphan

\* A user of the cluster: another spec, a deletion, the annotation.
LEMMA AccountEditStep ==
  ASSUME system = "account", system' = system, AccountInv, U!EditUser
  PROVE  AccountInv' /\ U!NoOrphan
<1>0. /\ FrameInv /\ budget \in Budgets /\ budget.faults <= MaxFaults
      /\ noted \in [name : U!UserNames \cup {0}, pass : Nat]
      /\ taken \in TakenStates /\ pobj \in R!Objects
      /\ wanted \in U!Specs /\ password \in Nat \ {0} /\ expired \in Nat /\ pobj.gen > 0
      /\ users \in [U!UserNames -> UserStates] /\ cluster \in {"none", "pending", "applied"}
      /\ pobj.gen \in Nat /\ prec.snap.gen \in Nat
      /\ \A n \in U!UserNames : users[n].gen \in Nat
  BY AccountFacts DEF AccountInv, AccountTyped, U!DatabaseUserTypeOK, UserStates, TakenStates
<1>1. /\ R!User /\ UNCHANGED <<password, expired, noted, taken, users, cluster, secrets>>
      /\ pobj'.gen = pobj.gen => wanted' = wanted
      /\ wanted' \in U!Specs
  BY <1>0, AccountFrame DEF U!EditUser, U!atlasVars
<1>2. /\ FrameInv' /\ ~Calm' /\ prec' = prec /\ project' = project
      /\ pobj.exists /\ pobj'.fin = pobj.fin /\ pobj'.id = pobj.id /\ pobj'.keep = pobj.keep
      /\ ~pobj'.exists => ~pobj.fin
  BY <1>0, <1>1, FrameUser
<1>3. /\ pobj'.gen = pobj.gen \/ (pobj'.gen = pobj.gen + 1 /\ ~pobj.deleting)
      /\ pobj.deleting => pobj'.deleting
  BY <1>0, <1>1 DEF R!User, R!Edit, R!RequestDeletion, R!ToggleSkip, R!Resync, R!Becomes, R!Objects
<1>4. /\ Later /\ budget'.faults <= MaxFaults /\ budget'.lagged = budget.lagged
      /\ U!NoFaults' => U!NoFaults
  BY <1>0, <1>1, Spent, NoFaultsBefore DEF R!User
<1>5. pobj'.gen > 0
  BY <1>0, <1>3
<1>6. AccountTyped'
  BY <1>0, <1>1, <1>2, <1>4, <1>5, AccountStillTyped
<1>7. AccountRead'
  <2>1. CASE pobj'.gen = pobj.gen
    BY <1>1, <1>2, <1>3, <1>4, <2>1 DEF AccountInv, AccountRead, U!Nothing
  <2>2. CASE pobj'.gen = pobj.gen + 1 /\ ~pobj.deleting
    <3>1. prec.pc # "idle" => ~prec.snap.deleting
      BY <2>2 DEF AccountInv, FrameInv, Follows
    <3> QED
      BY <1>0, <1>1, <1>2, <1>4, <2>2, <3>1 DEF AccountInv, AccountRead, U!Nothing
  <2> QED
    BY <1>3, <2>1, <2>2
<1>8. AccountSent'
  <2>1. CASE pobj'.gen = pobj.gen
    BY <1>1, <1>2, <2>1 DEF AccountInv, AccountSent
  <2>2. CASE pobj'.gen = pobj.gen + 1
    BY <1>0, <1>1, <1>2, <2>2 DEF AccountInv, AccountSent
  <2> QED
    BY <1>3, <2>1, <2>2
<1>9. AccountHeld'
  BY <1>1, <1>2 DEF AccountInv, AccountHeld, U!SnapExpired, U!Exists
<1>10. AccountWatch' /\ AccountSettled'
  BY <1>1, <1>2 DEF AccountInv, AccountWatch, AccountSettled
<1>11. AccountClean'
  <2>1. U!NoFaults' /\ pobj'.exists /\ ~pobj'.deleting => U!NoFaults /\ pobj.exists /\ ~pobj.deleting
    BY <1>2, <1>3, <1>4
  <2> QED
    BY <1>1, <1>2, <2>1 DEF AccountInv, AccountClean, Known, U!Exists
<1>12. U!NoOrphan
  <2>1. ~pobj'.exists /\ noted.name # 0 => expired > 0
    BY <1>2 DEF AccountInv, AccountHeld
  <2>2. noted.name = wanted.name => noted.name # 0
    BY <1>0 DEF U!Specs, U!UserNames
  <2> QED
    BY <1>2, <2>1, <2>2 DEF U!NoOrphan
<1> QED
  BY <1>2, <1>6, <1>7, <1>8, <1>9, <1>10, <1>11, <1>12 DEF AccountInv

\* A new password.
LEMMA AccountRotateStep ==
  ASSUME system = "account", system' = system, AccountInv, U!Rotate
  PROVE  AccountInv' /\ U!NoOrphan
<1>0. /\ FrameInv /\ budget \in Budgets /\ budget.faults <= MaxFaults
      /\ noted \in [name : U!UserNames \cup {0}, pass : Nat] /\ noted.pass \in Nat
      /\ taken \in TakenStates /\ taken.version \in Nat
      /\ wanted \in U!Specs /\ password \in Nat /\ expired \in Nat /\ pobj.gen > 0
      /\ users \in [U!UserNames -> UserStates] /\ cluster \in {"none", "pending", "applied"}
      /\ pqueued \in BOOLEAN /\ pobj.exists \in BOOLEAN
  BY AccountFacts DEF AccountInv, AccountTyped, U!DatabaseUserTypeOK, UserStates, TakenStates
<1>1. /\ password' = password + 1 /\ pqueued' = (pqueued \/ pobj.exists) /\ R!Spend("ops")
      /\ UNCHANGED <<pobj, prec, project, wanted, expired, noted, taken, users, cluster, secrets>>
  BY AccountFrame DEF U!Rotate, U!atlasVars
<1>2. /\ Later /\ budget'.faults <= MaxFaults /\ budget'.lagged = budget.lagged
      /\ U!NoFaults' => U!NoFaults
  BY <1>0, <1>1, Spent, NoFaultsBefore
<1>3. ~Calm'
  BY <1>1 DEF Calm
<1>4. FrameInv'
  BY <1>0, <1>1, <1>2, <1>3 DEF FrameInv, Framed, Follows, UpToDate, Held, Later
<1>5. password' \in Nat \ {0} /\ password' > password
  BY <1>0, <1>1
<1>6. AccountTyped'
  BY <1>0, <1>1, <1>2, <1>4, <1>5, AccountStillTyped
<1>7. AccountRead' /\ AccountHeld' /\ AccountWatch' /\ AccountSettled'
  BY <1>1, <1>2, <1>3 DEF AccountInv, AccountRead, AccountHeld, AccountWatch, AccountSettled,
     U!SnapExpired, U!Exists, U!Nothing
<1>8. AccountSent'
  <2>1. noted.pass < password' /\ taken.version < password'
    BY <1>0, <1>1 DEF AccountInv, AccountSent
  <2>2. noted.pass # password' /\ taken.version # password'
        /\ noted.pass <= password' /\ taken.version <= password'
    BY <1>0, <1>5, <2>1
  <2> QED
    BY <1>1, <2>2 DEF AccountInv, AccountSent
<1>9. AccountClean'
  BY <1>1, <1>2 DEF AccountInv, AccountClean, Known, U!Exists
<1> QED
  BY <1>1, <1>4, <1>6, <1>7, <1>8, <1>9 DEF AccountInv, U!NoOrphan

\* What the changes that wake nobody leave as it is.
LEMMA AccountUnwatchedFrame ==
  ASSUME system = "account", system' = system, AccountInv, UNCHANGED <<pobj, pqueued, prec>>,
         project' \in BOOLEAN, project' => project, Later
  PROVE  FrameInv' /\ (Calm' => Calm)
BY AccountFacts DEF AccountInv, FrameInv, Framed, Follows, UpToDate, Held, Calm, Later

LEMMA AccountUnwatchedStep ==
  ASSUME system = "account", system' = system, AccountInv, U!Unwatched
  PROVE  AccountInv' /\ U!NoOrphan
<1>0. /\ FrameInv /\ budget \in Budgets /\ budget.faults <= MaxFaults
      /\ noted \in [name : U!UserNames \cup {0}, pass : Nat]
      /\ taken \in TakenStates /\ project \in BOOLEAN
      /\ wanted \in U!Specs /\ password \in Nat \ {0} /\ expired \in Nat /\ pobj.gen > 0
      /\ users \in [U!UserNames -> UserStates] /\ cluster \in {"none", "pending", "applied"}
      /\ pobj.gen \in Nat /\ prec.snap.gen \in Nat /\ U!NoUser \in UserStates /\ U!NoUser.gen = 0
  BY AccountFacts DEF AccountInv, AccountTyped, U!DatabaseUserTypeOK, UserStates, TakenStates, U!NoUser
<1>1. R!Spend("ops") /\ UNCHANGED <<pobj, pqueued, prec, wanted, password, noted, taken, secrets>>
  BY AccountFrame DEF U!Unwatched
<1>2. /\ Later /\ budget'.faults <= MaxFaults /\ budget'.lagged = budget.lagged
      /\ U!NoFaults' => U!NoFaults
  BY <1>0, <1>1, Spent, NoFaultsBefore
<1>3. CASE project' = FALSE /\ UNCHANGED <<expired, users, cluster>> /\ project
  <2>1. FrameInv' /\ ~Calm'
    BY <1>1, <1>2, <1>3, AccountUnwatchedFrame DEF Calm
  <2>2. AccountTyped'
    BY <1>0, <1>1, <1>2, <1>3, <2>1, AccountStillTyped
  <2>3. AccountRead' /\ AccountSent' /\ AccountHeld' /\ AccountWatch' /\ AccountSettled'
    BY <1>1, <1>2, <1>3, <2>1 DEF AccountInv, AccountRead, AccountSent, AccountHeld, AccountWatch,
       AccountSettled, U!SnapExpired, U!Exists, U!Nothing
  <2>4. AccountClean'
    BY <1>1, <1>2, <1>3 DEF AccountInv, AccountClean, Known, U!Exists
  <2> QED
    BY <1>1, <2>1, <2>2, <2>3, <2>4 DEF AccountInv, U!NoOrphan
<1>4. CASE cluster' = "none" /\ UNCHANGED <<project, expired, users>>
  <2>1. FrameInv' /\ (Calm' => Calm)
    BY <1>0, <1>1, <1>2, <1>4, AccountUnwatchedFrame
  <2>2. AccountTyped'
    BY <1>0, <1>1, <1>2, <1>4, <2>1, AccountStillTyped
  <2>3. AccountRead' /\ AccountSent' /\ AccountHeld' /\ AccountWatch'
    BY <1>1, <1>2, <1>4, <2>1 DEF AccountInv, AccountRead, AccountSent, AccountHeld, AccountWatch,
       U!SnapExpired, U!Exists, U!Nothing
  <2>4. AccountClean'
    BY <1>1, <1>2, <1>4 DEF AccountInv, AccountClean, Known, U!Exists
  <2>5. ~U!GaveUp' => ~U!GaveUp
    BY <1>0, <1>1, <1>2, <1>4, GivenUp
  <2>6. UserApplied => UserApplied'
    BY <1>1, <1>2, <1>4 DEF UserApplied, U!Exists
  <2>7. AccountSettled'
    BY <1>1, <1>4, <2>1, <2>5, <2>6 DEF AccountInv, AccountSettled
  <2> QED
    BY <1>1, <2>1, <2>2, <2>3, <2>4, <2>7 DEF AccountInv, U!NoOrphan
<1>5. CASE /\ expired' = pobj.gen /\ users' = [n \in U!UserNames |-> U!NoUser]
           /\ UNCHANGED <<project, cluster>> /\ expired < pobj.gen
  <2>1. FrameInv' /\ (Calm' => Calm)
    BY <1>0, <1>1, <1>2, <1>5, AccountUnwatchedFrame
  <2>2. expired' \in Nat /\ expired' > 0 /\ users' \in [U!UserNames -> UserStates]
    BY <1>0, <1>5
  <2>3. AccountTyped'
    BY <1>0, <1>1, <1>2, <1>5, <2>1, <2>2, AccountStillTyped
  <2>4. AccountRead'
    BY <1>1, <1>2, <1>5 DEF AccountInv, AccountRead, U!Nothing
  <2>5. AccountSent'
    <3>1. \A n \in U!UserNames : users'[n].gen = 0
      BY <1>0, <1>5
    <3>2. 0 # pobj.gen /\ 0 <= pobj.gen /\ 0 <= prec.snap.gen
      BY <1>0
    <3> QED
      BY <1>1, <3>1, <3>2 DEF AccountInv, AccountSent
  <2>6. AccountHeld'
    <3>1. prec.pc = "finalizer" => prec.snap.gen <= expired'
      BY <1>5 DEF AccountInv, AccountRead
    <3> QED
      BY <1>1, <1>5, <2>2, <3>1 DEF AccountInv, AccountHeld, U!SnapExpired
  <2>7. ~(pobj'.gen > expired')
    BY <1>0, <1>1, <1>5
  <2>8. AccountWatch' /\ AccountSettled'
    BY <1>1, <1>5, <2>1, <2>7 DEF AccountInv, AccountWatch, AccountSettled
  <2>9. AccountClean'
    <3>1. \A n \in U!UserNames : ~U!Exists(n)'
      BY <1>5 DEF U!Exists
    <3> QED
      BY <1>1, <1>2, <3>1 DEF AccountInv, AccountClean, Known, U!Exists
  <2> QED
    BY <1>1, <2>1, <2>3, <2>4, <2>5, <2>6, <2>8, <2>9 DEF AccountInv, U!NoOrphan
<1> QED
  BY <1>3, <1>4, <1>5 DEF U!Unwatched, U!atlasVars

LEMMA AccountAppliesStep ==
  ASSUME system = "account", system' = system, AccountInv, U!AtlasApplies
  PROVE  AccountInv' /\ U!NoOrphan
<1>0. /\ FrameInv /\ budget \in Budgets /\ budget.faults <= MaxFaults
      /\ noted \in [name : U!UserNames \cup {0}, pass : Nat]
      /\ taken \in TakenStates /\ project \in BOOLEAN
      /\ wanted \in U!Specs /\ password \in Nat \ {0} /\ expired \in Nat /\ pobj.gen > 0
      /\ users \in [U!UserNames -> UserStates]
  BY AccountFacts DEF AccountInv, AccountTyped, U!DatabaseUserTypeOK, UserStates, TakenStates
<1>1. /\ cluster = "pending" /\ cluster' = "applied"
      /\ UNCHANGED <<pobj, pqueued, prec, project, budget, wanted, password, expired, noted, taken,
                     users, secrets>>
  BY DEF U!AtlasApplies, U!resourceVars, U!specVars
<1>2. Later
  BY <1>0, <1>1, Spent
<1>3. FrameInv' /\ (Calm' => Calm)
  BY <1>0, <1>1, <1>2, AccountUnwatchedFrame
<1>4. AccountTyped'
  BY <1>0, <1>1, <1>3, AccountStillTyped
<1>5. AccountRead' /\ AccountSent' /\ AccountHeld' /\ AccountWatch'
  BY <1>1, <1>3 DEF AccountInv, AccountRead, AccountSent, AccountHeld, AccountWatch,
     U!SnapExpired, U!Exists, U!Nothing
<1>6. AccountClean'
  BY <1>1 DEF AccountInv, AccountClean, Known, U!Exists, U!NoFaults, U!FreshReads
<1>7. ~U!GaveUp' => ~U!GaveUp
  BY <1>0, <1>1, <1>2, GivenUp
<1>8. UserApplied => UserApplied'
  BY <1>1 DEF UserApplied, U!Exists, U!NoFaults, U!FreshReads
<1>9. AccountSettled'
  BY <1>1, <1>3, <1>7, <1>8 DEF AccountInv, AccountSettled
<1> QED
  BY <1>1, <1>3, <1>4, <1>5, <1>6, <1>9 DEF AccountInv, U!NoOrphan

\* One step of the AtlasDatabaseUser: also what must hold of the step itself.
LEMMA AccountStep ==
  ASSUME system = "account", system' = system, AccountInv, U!DatabaseUserNext
  PROVE  AccountInv' /\ U!NoOrphan
BY AccountPrepareStep, AccountSkipStep, AccountHandleStep, AccountSecondStep, AccountFinalizeStep,
   AccountStatusStep, AccountEditStep, AccountRotateStep, AccountUnwatchedStep, AccountAppliesStep,
   AccountSyncStep, AccountRestartStep
   DEF U!DatabaseUserNext, U!UserLoop
----------------------------------------------------------------------------
(* The connection Secrets of a user.                                       *)

\* The reconcile in progress.
SecretPasses ==
  [pc : {"idle", "cleanup", "batch", "apply"}, snap : S!Users, listed : SUBSET Names,
   ready : SUBSET Names, name : S!ProjectNames, todo : SUBSET Names,
   target : Names \cup {""}, password : Nat, active : BOOLEAN]

SecretShaped ==
  /\ S!SecretTypeOK
  /\ pass \in SecretPasses
  /\ pass.todo \subseteq pass.listed
  /\ pass.pc = "apply" => pass.target \in pass.listed

\* Before the project has another name no Secret has one.
NamesKnown ==
  group.name = "old" => pass.name = "old" /\ \A s \in secrets : s.project = "old"

\* Nothing has happened that this controller would have to look at.
Undisturbed == user.exists /\ group.known /\ ~pqueued

\* Then the reconcile in progress knows what there is,
Informed ==
  Undisturbed /\ pass.pc # "idle" =>
    /\ pass.snap.scopes = user.scopes
    /\ pass.listed = {t \in Names : targets[t] # "absent"}
    /\ pass.ready = {t \in Names : targets[t] = "ready"}

\* has found no Secret to delete,
Tidy ==
  Undisturbed /\ pass.pc \in {"batch", "apply"} => \A s \in secrets : s.target \in pass.listed

\* and every cluster it is done with has the Secret it should have.
Right(t) ==
  /\ ~S!AllowsByScopes(user, t) => S!Named(t) = {}
  /\ ~user.expired /\ t \in pass.ready /\ S!AllowsByScopes(user, t) =>
       [project |-> pass.name, target |-> t, password |-> password] \in secrets

Finished == {t \in pass.listed \ pass.todo : pass.pc = "apply" => t # pass.target}

Handled == Undisturbed /\ pass.pc \in {"batch", "apply"} => \A t \in Finished : Right(t)

Applying ==
  Undisturbed /\ pass.pc = "apply" =>
    pass.password = password /\ S!AllowsByScopes(user, pass.target)

SecretInv ==
  /\ SecretShaped /\ NamesKnown
  /\ Informed /\ Tidy /\ Handled /\ Applying
  /\ S!QuiescentSecretsAreRight

LEMMA InitSecretInv == S!SecretInit => SecretInv
<1> SUFFICES ASSUME S!SecretInit PROVE SecretInv
  OBVIOUS
<1>1. S!NewUser \in S!Users
  BY DEF S!NewUser, S!Users
<1>2. SecretShaped
  BY <1>1 DEF S!SecretInit, SecretShaped, S!SecretTypeOK, SecretPasses, S!Idle, S!NewGroup,
              S!ProjectNames
<1> QED
  BY <1>2 DEF S!SecretInit, SecretInv, NamesKnown, Informed, Tidy, Handled, Applying,
              Undisturbed, S!QuiescentSecretsAreRight, S!Idle, S!NewGroup

LEMMA SecretIdle == S!Idle \in SecretPasses /\ S!Idle.pc = "idle" /\ S!Idle.todo = {}
BY DEF S!Idle, SecretPasses, S!NewUser, S!Users, S!ProjectNames

\* What leaves a reconcile as it is.
SecretOthers == S!Others \/ S!UserExpires \/ S!UserUnsettles \/ S!UserSettles \/ S!CollectGarbage

LEMMA SecretOthersShaped ==
  ASSUME SecretShaped, SecretOthers
  PROVE  SecretShaped' /\ pass' = pass
<1>0. /\ user \in S!Users /\ password \in Nat /\ secrets \in SUBSET S!Secrets
      /\ group \in [known : BOOLEAN, name : S!ProjectNames]
      /\ targets \in [Names -> {"absent", "pending", "ready"}]
      /\ pqueued \in BOOLEAN /\ user.exists \in BOOLEAN
  BY DEF SecretShaped, S!SecretTypeOK, S!Users
<1>1. user' \in S!Users
  <2>1. ASSUME NEW scopes \in SUBSET Names, user' = [user EXCEPT !.scopes = scopes, !.pending = TRUE]
        PROVE  user' \in S!Users
    BY <1>0, <2>1 DEF S!Users
  <2>2. /\ [user EXCEPT !.pending = TRUE] \in S!Users
        /\ [user EXCEPT !.exists = FALSE] \in S!Users
        /\ [user EXCEPT !.expired = TRUE] \in S!Users
        /\ [user EXCEPT !.ready = FALSE] \in S!Users
        /\ [user EXCEPT !.ready = TRUE, !.pending = FALSE] \in S!Users
    BY <1>0 DEF S!Users
  <2> QED
    BY <1>0, <2>1, <2>2 DEF SecretOthers, S!Others, S!UserExpires, S!UserUnsettles, S!UserSettles,
       S!CollectGarbage, S!EditScopes, S!Rotate, S!TargetChanges, S!Tamper, S!Rename,
       S!GroupGoes, S!DropUser, S!inputs
<1>2. targets' \in [Names -> {"absent", "pending", "ready"}]
  BY <1>0 DEF SecretOthers, S!Others, S!UserExpires, S!UserUnsettles, S!UserSettles,
     S!CollectGarbage, S!EditScopes, S!Rotate, S!TargetChanges, S!Tamper, S!Rename,
     S!GroupGoes, S!DropUser, S!inputs
<1>3. group' \in [known : BOOLEAN, name : S!ProjectNames]
  BY <1>0 DEF SecretOthers, S!Others, S!UserExpires, S!UserUnsettles, S!UserSettles,
     S!CollectGarbage, S!EditScopes, S!Rotate, S!TargetChanges, S!Tamper, S!Rename,
     S!GroupGoes, S!DropUser, S!inputs, S!ProjectNames
<1>4. password' \in Nat /\ pass' = pass /\ cond' = cond
  <2>1. CASE S!Others
    <3>1. pass' = pass /\ cond' = cond
      BY <2>1 DEF S!Others
    <3>2. password' \in {password, password + 1}
      BY <2>1 DEF S!Others, S!EditScopes, S!Rotate, S!TargetChanges, S!Tamper, S!Rename,
         S!GroupGoes, S!DropUser, S!inputs
    <3> QED
      BY <1>0, <3>1, <3>2
  <2>2. CASE S!UserExpires \/ S!UserUnsettles \/ S!UserSettles \/ S!CollectGarbage
    BY <1>0, <2>2 DEF S!UserExpires, S!UserUnsettles, S!UserSettles, S!CollectGarbage, S!inputs
  <2> QED
    BY <2>1, <2>2 DEF SecretOthers
<1>5. secrets' \in SUBSET S!Secrets
  BY <1>0 DEF SecretOthers, S!Others, S!UserExpires, S!UserUnsettles, S!UserSettles,
     S!CollectGarbage, S!EditScopes, S!Rotate, S!TargetChanges, S!Tamper, S!Rename,
     S!GroupGoes, S!DropUser, S!inputs
<1>6. pqueued' \in BOOLEAN
  BY <1>0 DEF SecretOthers, S!Others, S!UserExpires, S!UserUnsettles, S!UserSettles,
     S!CollectGarbage, S!EditScopes, S!Rotate, S!TargetChanges, S!Tamper, S!Rename,
     S!GroupGoes, S!DropUser, S!inputs, S!Enqueue, S!EnqueueForTarget
<1> QED
  BY <1>1, <1>2, <1>3, <1>4, <1>5, <1>6 DEF SecretShaped, S!SecretTypeOK

LEMMA SecretReconcileShaped ==
  ASSUME SecretShaped, S!Reconcile
  PROVE  SecretShaped' /\ UNCHANGED <<user, password, group, targets>>
<1>0. /\ user \in S!Users /\ password \in Nat /\ secrets \in SUBSET S!Secrets
      /\ group \in [known : BOOLEAN, name : S!ProjectNames]
      /\ pqueued \in BOOLEAN /\ user.exists \in BOOLEAN
      /\ cond \in {"none", "ready", "empty", "error"}
      /\ pass \in SecretPasses
  BY DEF SecretShaped, S!SecretTypeOK, S!Users
<1>1. /\ S!Idle \in SecretPasses /\ S!Idle.pc = "idle" /\ S!Idle.todo \subseteq S!Idle.listed
  BY SecretIdle DEF S!Idle
<1>2. user' = user /\ password' = password /\ group' = group /\ targets' = targets
  BY DEF S!Reconcile, S!Begin, S!CleanupStaleSecrets, S!WhenUserIsReady, S!HandleTarget,
     S!EnsureSecret, S!SetCondition, S!Fault, S!inputs
<1>3. pqueued' \in BOOLEAN
  BY <1>0 DEF S!Reconcile, S!Begin, S!CleanupStaleSecrets, S!WhenUserIsReady, S!HandleTarget,
     S!EnsureSecret, S!SetCondition, S!Fault, S!Failed, S!Done, S!Enqueue
<1>4. cond' \in {"none", "ready", "empty", "error"}
  BY <1>0 DEF S!Reconcile, S!Begin, S!CleanupStaleSecrets, S!WhenUserIsReady, S!HandleTarget,
     S!EnsureSecret, S!SetCondition, S!Fault, S!Failed
<1>5. pass' = S!Idle \/ /\ pass' \in SecretPasses /\ pass'.todo \subseteq pass'.listed
                        /\ pass'.pc = "apply" => pass'.target \in pass'.listed
  <2>1. CASE S!Begin
    <3>1. CASE /\ pass' = [S!Idle EXCEPT !.pc = "cleanup", !.snap = user,
                                !.listed = {t \in Names : targets[t] # "absent"},
                                !.ready = {t \in Names : targets[t] = "ready"}]
      BY <1>0, <1>1, <3>1 DEF SecretPasses, S!Idle
    <3> QED
      BY <1>0, <2>1, <3>1 DEF S!Begin, S!Failed, S!Done, SecretShaped
  <2>2. CASE S!CleanupStaleSecrets
    BY <1>0, <2>2 DEF S!CleanupStaleSecrets, S!Fault, S!Failed, S!Done, SecretShaped
  <2>3. CASE S!WhenUserIsReady
    <3>1. CASE pass' = [pass EXCEPT !.pc = "batch", !.todo = pass.listed, !.name = group.name]
      BY <1>0, <3>1 DEF SecretPasses
    <3> QED
      BY <2>3, <3>1 DEF S!WhenUserIsReady, S!Fault, S!Failed, S!Done
  <2>4. CASE S!HandleTarget
    <3>1. CASE S!Fault
      BY <3>1 DEF S!Fault, S!Failed, S!Done
    <3>2. ASSUME NEW t \in pass.todo,
                 \/ pass' = [pass EXCEPT !.todo = @ \ {t}]
                 \/ pass' = [[pass EXCEPT !.todo = @ \ {t}] EXCEPT !.pc = "apply", !.target = t,
                                                                   !.password = password]
          PROVE  /\ pass' \in SecretPasses /\ pass'.todo \subseteq pass'.listed
                 /\ pass'.pc = "apply" => pass'.target \in pass'.listed
      <4>1. t \in Names /\ t \in pass.listed /\ pass.todo \subseteq pass.listed
        BY <1>0 DEF SecretShaped, SecretPasses
      <4>2. CASE pass' = [pass EXCEPT !.todo = @ \ {t}]
        BY <1>0, <2>4, <4>1, <4>2 DEF SecretPasses, S!HandleTarget
      <4>3. CASE pass' = [[pass EXCEPT !.todo = @ \ {t}] EXCEPT !.pc = "apply", !.target = t,
                                                                !.password = password]
        BY <1>0, <4>1, <4>3 DEF SecretPasses
      <4> QED
        BY <3>2, <4>2, <4>3
    <3> QED
      BY <2>4, <3>1, <3>2 DEF S!HandleTarget
  <2>5. CASE S!EnsureSecret
    <3>1. CASE pass' = [pass EXCEPT !.pc = "batch", !.active = TRUE]
      BY <1>0, <3>1 DEF SecretPasses, SecretShaped
    <3> QED
      BY <2>5, <3>1 DEF S!EnsureSecret, S!Fault, S!Failed, S!Done
  <2>6. CASE S!SetCondition
    BY <2>6 DEF S!SetCondition, S!Fault, S!Failed, S!Done
  <2> QED
    BY <2>1, <2>2, <2>3, <2>4, <2>5, <2>6 DEF S!Reconcile
<1>6. secrets' \in SUBSET S!Secrets
  <2>1. CASE S!EnsureSecret
    <3>1. pass.pc = "apply" /\ pass.target \in Names
      BY <1>0, <2>1 DEF S!EnsureSecret, SecretShaped, SecretPasses
    <3>2. [project |-> pass.name, target |-> pass.target, password |-> pass.password] \in S!Secrets
      BY <1>0, <3>1 DEF SecretPasses, S!Secrets
    <3> QED
      BY <1>0, <2>1, <3>2 DEF S!EnsureSecret, S!Fault
  <2> QED
    BY <1>0, <2>1 DEF S!Reconcile, S!Begin, S!CleanupStaleSecrets, S!WhenUserIsReady,
       S!HandleTarget, S!SetCondition, S!Fault
<1>7. pass' \in SecretPasses /\ pass'.todo \subseteq pass'.listed
      /\ (pass'.pc = "apply" => pass'.target \in pass'.listed)
  BY <1>1, <1>5
<1>8. pass'.pc \in {"idle", "cleanup", "batch", "apply"}
  BY <1>7 DEF SecretPasses
<1> QED
  BY <1>0, <1>2, <1>3, <1>4, <1>6, <1>7, <1>8 DEF SecretShaped, S!SecretTypeOK

\* What leaves the reconcile in progress alone and is not reported to it: the
\* project is renamed, the date passes, the user's Ready condition changes.
LEMMA SecretOthersEffect ==
  ASSUME SecretShaped, SecretOthers
  PROVE  /\ Undisturbed' =>
              /\ Undisturbed /\ secrets' = secrets /\ password' = password /\ targets' = targets
              /\ user'.scopes = user.scopes /\ (user.expired => user'.expired)
         /\ secrets' \subseteq secrets
         /\ group'.name = "old" => group.name = "old"
<1>0. /\ user \in S!Users /\ group \in [known : BOOLEAN, name : S!ProjectNames]
      /\ pqueued \in BOOLEAN
  BY DEF SecretShaped, S!SecretTypeOK
<1>1. CASE S!Others
  <2>1. CASE S!EditScopes \/ S!Rotate \/ S!TargetChanges \/ S!Tamper
    <3>1. pqueued'
      BY <1>1, <2>1 DEF S!Others, S!EditScopes, S!Rotate, S!TargetChanges, S!Tamper,
         S!Enqueue, S!EnqueueForTarget
    <3>2. secrets' \subseteq secrets /\ group' = group
      BY <2>1 DEF S!EditScopes, S!Rotate, S!TargetChanges, S!Tamper, S!inputs
    <3> QED
      BY <3>1, <3>2 DEF Undisturbed
  <2>2. CASE S!Rename
    BY <1>0, <2>2 DEF S!Rename, Undisturbed, S!ProjectNames
  <2>3. CASE S!GroupGoes
    BY <1>0, <2>3 DEF S!GroupGoes, Undisturbed
  <2>4. CASE S!DropUser
    BY <1>0, <2>4 DEF S!DropUser, Undisturbed, S!Users
  <2> QED
    BY <1>1, <2>1, <2>2, <2>3, <2>4 DEF S!Others
<1>2. CASE S!UserExpires
  BY <1>0, <1>2 DEF S!UserExpires, Undisturbed, S!Users
<1>3. CASE S!UserUnsettles
  BY <1>0, <1>3 DEF S!UserUnsettles, Undisturbed, S!Users
<1>4. CASE S!UserSettles
  BY <1>0, <1>4 DEF S!UserSettles, Undisturbed, S!Users
<1>5. CASE S!CollectGarbage
  BY <1>5 DEF S!CollectGarbage, S!inputs, Undisturbed
<1> QED
  BY <1>1, <1>2, <1>3, <1>4, <1>5 DEF SecretOthers

LEMMA SecretOthersStep ==
  ASSUME SecretInv, SecretOthers
  PROVE  SecretInv'
<1>1. SecretShaped' /\ pass' = pass
  BY SecretOthersShaped DEF SecretInv
<1>2. /\ Undisturbed' =>
           /\ Undisturbed /\ secrets' = secrets /\ password' = password /\ targets' = targets
           /\ user'.scopes = user.scopes /\ (user.expired => user'.expired)
      /\ secrets' \subseteq secrets
      /\ group'.name = "old" => group.name = "old"
  BY SecretOthersEffect DEF SecretInv
<1>3. NamesKnown'
  BY <1>1, <1>2 DEF SecretInv, NamesKnown
<1>4. Informed'
  BY <1>1, <1>2 DEF SecretInv, Informed
<1>5. Tidy'
  BY <1>1, <1>2 DEF SecretInv, Tidy
<1>6. ASSUME Undisturbed', NEW t, Right(t)
      PROVE  Right(t)'
  BY <1>1, <1>2, <1>6 DEF Right, S!AllowsByScopes, S!Named
<1>7. Handled'
  BY <1>1, <1>2, <1>6 DEF SecretInv, Handled, Finished
<1>8. Applying'
  BY <1>1, <1>2 DEF SecretInv, Applying, S!AllowsByScopes
<1>9. S!QuiescentSecretsAreRight'
  <2> SUFFICES ASSUME Undisturbed', pass'.pc = "idle"
               PROVE  S!QuiescentSecretsAreRight'
    BY DEF S!QuiescentSecretsAreRight, Undisturbed
  <2>1. Undisturbed /\ pass.pc = "idle"
    BY <1>1, <1>2
  <2>2. /\ \A s \in secrets :
              targets[s.target] # "absent"
              /\ (group.name = "old" => S!AllowsByScopes(user, s.target))
        /\ ~user.expired => \A t \in Names : targets[t] = "ready" /\ S!AllowsByScopes(user, t) =>
              \E s \in secrets : s.target = t /\ s.password = password
    BY <2>1 DEF SecretInv, S!QuiescentSecretsAreRight, Undisturbed
  <2> QED
    BY <1>2, <2>2 DEF S!QuiescentSecretsAreRight, S!AllowsByScopes
<1> QED
  BY <1>1, <1>3, <1>4, <1>5, <1>7, <1>8, <1>9 DEF SecretInv

\* A failure, a retry and the change of a Secret bring the key back; nothing
\* is then claimed of what comes after them.
LEMMA SecretDisturbed ==
  ASSUME SecretShaped', NamesKnown', ~Undisturbed'
  PROVE  SecretInv'
BY DEF SecretInv, Informed, Tidy, Handled, Applying, S!QuiescentSecretsAreRight, Undisturbed

LEMMA SecretNames ==
  ASSUME SecretInv, S!Reconcile
  PROVE  NamesKnown'
<1>0. /\ group' = group /\ S!Idle.name = "old"
      /\ group.name = "old" => pass.name = "old" /\ \A s \in secrets : s.project = "old"
      /\ pass \in SecretPasses
  BY SecretReconcileShaped DEF SecretInv, SecretShaped, NamesKnown, S!Idle
<1> SUFFICES ASSUME group.name = "old"
             PROVE  pass'.name = "old" /\ \A s \in secrets' : s.project = "old"
  BY <1>0 DEF NamesKnown
<1>1. pass'.name = "old"
  <2>1. CASE S!Begin
    BY <1>0, <2>1 DEF S!Begin, S!Failed, S!Done, S!Idle
  <2>2. CASE S!CleanupStaleSecrets \/ S!SetCondition
    BY <1>0, <2>2 DEF S!CleanupStaleSecrets, S!SetCondition, S!Fault, S!Failed, S!Done
  <2>3. CASE S!WhenUserIsReady
    BY <1>0, <2>3 DEF S!WhenUserIsReady, S!Fault, S!Failed, S!Done, SecretPasses
  <2>4. CASE S!HandleTarget
    BY <1>0, <2>4 DEF S!HandleTarget, S!Fault, S!Failed, S!Done, SecretPasses
  <2>5. CASE S!EnsureSecret
    BY <1>0, <2>5 DEF S!EnsureSecret, S!Fault, S!Failed, S!Done, SecretPasses
  <2> QED
    BY <2>1, <2>2, <2>3, <2>4, <2>5 DEF S!Reconcile
<1>2. \A s \in secrets' : s.project = "old"
  <2>1. CASE S!EnsureSecret
    <3>1. secrets' = secrets
          \/ secrets' = (secrets \ S!Named(pass.target))
                          \cup {[project |-> pass.name, target |-> pass.target,
                                 password |-> pass.password]}
      BY <2>1 DEF S!EnsureSecret, S!Fault
    <3> QED
      BY <1>0, <3>1
  <2> QED
    BY <1>0, <2>1 DEF S!Reconcile, S!Begin, S!CleanupStaleSecrets, S!WhenUserIsReady,
       S!HandleTarget, S!SetCondition, S!Fault
<1> QED
  BY <1>1, <1>2

LEMMA SecretBeginStep ==
  ASSUME SecretInv, SecretShaped', NamesKnown', S!Begin
  PROVE  SecretInv'
<1> SUFFICES ASSUME Undisturbed' PROVE SecretInv'
  BY SecretDisturbed
<1>1. pass' = [S!Idle EXCEPT !.pc = "cleanup", !.snap = user,
                             !.listed = {t \in Names : targets[t] # "absent"},
                             !.ready = {t \in Names : targets[t] = "ready"}]
      /\ user' = user /\ targets' = targets
  BY DEF S!Begin, S!Failed, S!Done, Undisturbed, S!inputs
<1>2. /\ pass'.pc = "cleanup" /\ pass'.snap = user'
      /\ pass'.listed = {t \in Names : targets'[t] # "absent"}
      /\ pass'.ready = {t \in Names : targets'[t] = "ready"}
  BY <1>1 DEF S!Idle
<1> QED
  BY <1>2 DEF SecretInv, Informed, Tidy, Handled, Applying, S!QuiescentSecretsAreRight

LEMMA SecretCleanupStep ==
  ASSUME SecretInv, SecretShaped', NamesKnown', S!CleanupStaleSecrets
  PROVE  SecretInv'
<1>1. ~Undisturbed'
  BY DEF S!CleanupStaleSecrets, S!Fault, S!Failed, S!Done, S!Enqueue, Undisturbed, S!inputs
<1> QED
  BY <1>1, SecretDisturbed

LEMMA SecretReadyStep ==
  ASSUME SecretInv, SecretShaped', NamesKnown', S!WhenUserIsReady
  PROVE  SecretInv'
<1> SUFFICES ASSUME Undisturbed' PROVE SecretInv'
  BY SecretDisturbed
<1>1. /\ pass' = [pass EXCEPT !.pc = "batch", !.todo = pass.listed, !.name = group.name]
      /\ pqueued' = pqueued
      /\ pass \in SecretPasses /\ pass.pc = "cleanup" /\ S!Stale = {}
      /\ UNCHANGED <<user, password, group, targets, secrets>>
  BY DEF S!WhenUserIsReady, S!Fault, S!Failed, S!Done, Undisturbed, S!inputs, SecretInv, SecretShaped
<1>2. /\ pass'.pc = "batch" /\ pass'.todo = pass'.listed
      /\ pass'.listed = pass.listed /\ pass'.ready = pass.ready /\ pass'.snap = pass.snap
  BY <1>1 DEF SecretPasses
<1>3. Undisturbed
  BY <1>1 DEF Undisturbed
<1>4. Informed'
  BY <1>1, <1>2, <1>3 DEF SecretInv, Informed
<1>5. Tidy'
  BY <1>1, <1>2 DEF Tidy, S!Stale
<1>6. Handled' /\ Applying' /\ S!QuiescentSecretsAreRight'
  BY <1>2 DEF Handled, Finished, Applying, S!QuiescentSecretsAreRight
<1> QED
  BY <1>4, <1>5, <1>6 DEF SecretInv

LEMMA SecretTargetStep ==
  ASSUME SecretInv, SecretShaped', NamesKnown', S!HandleTarget
  PROVE  SecretInv'
<1> SUFFICES ASSUME Undisturbed' PROVE SecretInv'
  BY SecretDisturbed
<1>0. pass \in SecretPasses /\ pass.todo \subseteq pass.listed /\ pass.pc = "batch"
  BY DEF SecretInv, SecretShaped, S!HandleTarget
<1>1. UNCHANGED <<user, password, group, targets>>
  BY SecretReconcileShaped DEF SecretInv, S!Reconcile
<1>2. ~S!Fault
  BY DEF S!Fault, S!Failed, S!Done, Undisturbed
<1>3. PICK t \in pass.todo :
        LET left == [pass EXCEPT !.todo = @ \ {t}] IN
        \/ /\ S!Unwanted(t) /\ S!Named(t) = {}
           /\ pass' = left
        \/ ~S!Unwanted(t) /\ t \notin pass.ready /\ pass' = left
        \/ /\ ~S!Unwanted(t) /\ t \in pass.ready
           /\ pass' = [left EXCEPT !.pc = "apply", !.target = t, !.password = password]
  BY <1>1, <1>2 DEF S!HandleTarget, S!Enqueue, Undisturbed
<1>4. secrets' = secrets /\ pqueued' = pqueued
  BY <1>1, <1>2 DEF S!HandleTarget, S!Enqueue, Undisturbed
<1>5. Undisturbed
  BY <1>1, <1>4 DEF Undisturbed
<1>6. /\ pass'.todo = pass.todo \ {t} /\ pass'.listed = pass.listed /\ pass'.ready = pass.ready
      /\ pass'.snap = pass.snap /\ pass'.name = pass.name
      /\ \/ pass'.pc = "batch"
         \/ pass'.pc = "apply" /\ pass'.target = t /\ pass'.password = password /\ ~S!Unwanted(t)
      /\ pass'.pc = "batch" => (S!Unwanted(t) /\ S!Named(t) = {}) \/ (~S!Unwanted(t) /\ t \notin pass.ready)
  BY <1>0, <1>3 DEF SecretPasses
<1>7. pass.snap.scopes = user.scopes
  BY <1>0, <1>5 DEF SecretInv, Informed
<1>8. Informed' /\ Tidy'
  BY <1>0, <1>1, <1>4, <1>5, <1>6 DEF SecretInv, Informed, Tidy
<1>9. Handled'
  <2>1. pass'.pc = "batch" => Right(t)
    BY <1>6, <1>7 DEF Right, S!Unwanted, S!AllowsByScopes
  <2>2. \A u \in Finished' : Right(u)
    BY <1>0, <1>5, <1>6, <2>1 DEF SecretInv, Handled, Finished
  <2>3. ASSUME NEW u, Right(u) PROVE Right(u)'
    BY <1>1, <1>4, <1>6, <2>3 DEF Right, S!AllowsByScopes, S!Named
  <2> QED
    BY <2>2, <2>3 DEF Handled
<1>10. Applying'
  BY <1>1, <1>6, <1>7 DEF Applying, S!Unwanted, S!AllowsByScopes
<1>11. S!QuiescentSecretsAreRight'
  BY <1>6 DEF S!QuiescentSecretsAreRight
<1> QED
  BY <1>8, <1>9, <1>10, <1>11 DEF SecretInv

LEMMA SecretApplyStep ==
  ASSUME SecretInv, SecretShaped', NamesKnown', S!EnsureSecret
  PROVE  SecretInv'
<1> SUFFICES ASSUME Undisturbed' PROVE SecretInv'
  BY SecretDisturbed
<1> DEFINE secret == [project |-> pass.name, target |-> pass.target, password |-> pass.password]
<1>0. pass \in SecretPasses /\ pass.pc = "apply"
  BY DEF SecretInv, SecretShaped, S!EnsureSecret
<1>1. UNCHANGED <<user, password, group, targets>>
  BY SecretReconcileShaped DEF SecretInv, S!Reconcile
<1>2. /\ pass' = [pass EXCEPT !.pc = "batch", !.active = TRUE]
      /\ secret \in secrets /\ secrets' = secrets /\ pqueued' = pqueued
  BY <1>1 DEF S!EnsureSecret, S!SameData, S!Fault, S!Failed, S!Done, S!Enqueue, Undisturbed
<1>3. Undisturbed
  BY <1>1, <1>2 DEF Undisturbed
<1>4. /\ pass'.pc = "batch" /\ pass'.todo = pass.todo /\ pass'.listed = pass.listed
      /\ pass'.ready = pass.ready /\ pass'.snap = pass.snap /\ pass'.name = pass.name
  BY <1>0, <1>2 DEF SecretPasses
<1>5. Informed' /\ Tidy'
  BY <1>0, <1>1, <1>2, <1>3, <1>4 DEF SecretInv, Informed, Tidy
<1>6. Handled'
  <2>1. Right(pass.target)
    BY <1>0, <1>2, <1>3 DEF SecretInv, Applying, Right
  <2>2. \A u \in Finished' : Right(u)
    BY <1>0, <1>3, <1>4, <2>1 DEF SecretInv, Handled, Finished
  <2>3. ASSUME NEW u, Right(u) PROVE Right(u)'
    BY <1>1, <1>2, <1>4, <2>3 DEF Right, S!AllowsByScopes, S!Named
  <2> QED
    BY <2>2, <2>3 DEF Handled
<1>7. Applying' /\ S!QuiescentSecretsAreRight'
  BY <1>4 DEF Applying, S!QuiescentSecretsAreRight
<1> QED
  BY <1>5, <1>6, <1>7 DEF SecretInv

\* The reconcile ends without a retry: every cluster was found as it should be.
LEMMA SecretConditionStep ==
  ASSUME SecretInv, SecretShaped', NamesKnown', S!SetCondition
  PROVE  SecretInv'
<1> SUFFICES ASSUME Undisturbed' PROVE SecretInv'
  BY SecretDisturbed
<1>1. /\ UNCHANGED <<user, password, group, targets, secrets>>
      /\ pass.pc = "batch" /\ pass.todo = {}
      /\ pass' = S!Idle /\ pqueued' = pqueued
  BY DEF S!SetCondition, S!Fault, S!Failed, S!Done, Undisturbed, S!inputs, SecretInv, SecretShaped,
     S!SecretTypeOK
<1>2. Undisturbed
  BY <1>1 DEF Undisturbed
<1>3. /\ pass.listed = {t \in Names : targets[t] # "absent"}
      /\ pass.ready = {t \in Names : targets[t] = "ready"}
      /\ \A s \in secrets : s.target \in pass.listed
      /\ \A t \in pass.listed : Right(t)
      /\ group.name = "old" => pass.name = "old" /\ \A s \in secrets : s.project = "old"
  BY <1>1, <1>2 DEF SecretInv, Informed, Tidy, Handled, Finished, NamesKnown
<1>4. ASSUME NEW s \in secrets
      PROVE  targets[s.target] # "absent" /\ (group.name = "old" => S!AllowsByScopes(user, s.target))
  <2>1. s.target \in pass.listed /\ Right(s.target)
    BY <1>3
  <2> QED
    BY <1>3, <2>1 DEF Right, S!Named
<1>5. ASSUME ~user.expired, NEW t \in Names, targets[t] = "ready", S!AllowsByScopes(user, t)
      PROVE  \E s \in secrets : s.target = t /\ s.password = password
  <2>1. t \in pass.listed /\ t \in pass.ready
    BY <1>3, <1>5
  <2>2. [project |-> pass.name, target |-> t, password |-> password] \in secrets
    BY <1>3, <1>5, <2>1 DEF Right
  <2> QED
    BY <2>2
<1>6. S!QuiescentSecretsAreRight'
  BY <1>1, <1>4, <1>5 DEF S!QuiescentSecretsAreRight, S!AllowsByScopes
<1>7. pass'.pc = "idle"
  BY <1>1, SecretIdle
<1> QED
  BY <1>6, <1>7 DEF SecretInv, Informed, Tidy, Handled, Applying

LEMMA NextSecretInv ==
  ASSUME SecretInv, S!SecretNext
  PROVE  SecretInv'
<1>1. CASE SecretOthers
  BY <1>1, SecretOthersStep
<1>2. CASE S!Reconcile
  <2>1. SecretShaped' /\ NamesKnown'
    BY <1>2, SecretReconcileShaped, SecretNames DEF SecretInv
  <2> QED
    BY <1>2, <2>1, SecretBeginStep, SecretCleanupStep, SecretReadyStep, SecretTargetStep,
       SecretApplyStep, SecretConditionStep DEF S!Reconcile
<1> QED
  BY <1>1, <1>2 DEF S!SecretNext, SecretOthers

----------------------------------------------------------------------------
(* The five of them, each on its own.                                      *)

\* What the systems that are not at hand have to do with the properties:
\* without a container, or a peering, none is said to be ready.
OtherInv ==
  /\ system \in {"network", "list", "endpoint", "account", "secrets"}
  /\ system = "network" => NetworkInv
  /\ system = "list" => ListInv
  /\ system = "endpoint" => EndpointInv
  /\ system = "account" => AccountInv
  /\ system = "secrets" => SecretInv /\ ~pobj.ready
  /\ system # "network" => ~cobj.ready

LEMMA NewObjects ==
  ASSUME NEW given \in BOOLEAN, NEW keep \in BOOLEAN
  PROVE  /\ R!NewObject(given, keep) \in R!Objects
         /\ R!NewObject(given, keep).exists /\ R!NewObject(given, keep).gen = 1
         /\ ~R!NewObject(given, keep).deleting /\ ~R!NewObject(given, keep).fin
         /\ ~R!NewObject(given, keep).id /\ ~R!NewObject(given, keep).ready
         /\ R!NewObject(given, keep).given = given
BY DEF R!NewObject, R!Objects

LEMMA FullBudgetTyped == FullBudget => budget \in Budgets /\ budget.faults <= MaxFaults
BY BoundsAreNat DEF FullBudget, Budgets

LEMMA FrameStart ==
  ASSUME NEW given \in BOOLEAN, NEW keep \in BOOLEAN, pobj = R!NewObject(given, keep),
         prec = R!Idle, pqueued = TRUE, project = TRUE, FullBudget
  PROVE  FrameInv /\ ~Calm
BY NewObjects, IdlePass, FullBudgetTyped DEF FrameInv, Framed, Follows, Held, UpToDate, Calm

LEMMA NetworkStart ==
  ASSUME pqueued = TRUE, FullBudget, N!NetworkInit
  PROVE  NetworkInv
<1>1. PICK given \in {"nothing", "both"}, keep \in Policies :
        /\ cobj = N!C!NewObject(given # "nothing", keep)
        /\ pobj = N!P!NewObject(given = "both", keep)
        /\ container = [present |-> given # "nothing", cidr |-> IF given = "nothing" THEN 0 ELSE 1]
        /\ peer = IF given = "both" THEN [phase |-> "available", spec |-> 1] ELSE N!P!NoPeer
  BY DEF N!NetworkInit
<1>2. keep \in BOOLEAN /\ (given = "both") \in BOOLEAN /\ (given # "nothing") \in BOOLEAN
  BY PoliciesAreKnown
<1>3. /\ pobj = R!NewObject(given = "both", keep) /\ cobj = Q!NewObject(given # "nothing", keep)
      /\ crec = Q!Idle /\ prec = R!Idle /\ cqueued = TRUE /\ project = TRUE
  BY <1>1, PeerFrame, ContainerFrame
     DEF N!NetworkInit, N!P!NewObject, N!C!NewObject, R!NewObject, Q!NewObject
<1>4. FrameInv /\ ~Calm
  BY <1>2, <1>3, FrameStart
<1>5. /\ ~pobj.id /\ ~pobj.deleting /\ ~pobj.fin /\ pobj.gen = 1
      /\ cobj \in Q!Objects /\ ~cobj.ready /\ ~cobj.id /\ ~cobj.deleting /\ ~cobj.fin
  BY <1>2, <1>3, NewObjects DEF Q!NewObject, Q!Objects
<1>6. CFrameInv /\ ~CCalm
  BY <1>3, <1>5, CIdlePass, FullBudgetTyped
     DEF CFrameInv, CFramed, CFollows, CHeld, CUpToDate, CCalm
<1>7. /\ container \in [present : BOOLEAN, cidr : Nat]
      /\ peer \in [phase : PeerPhases, spec : Nat] /\ peer.phase \in {"none", "available"}
  BY <1>1 DEF PeerPhases, N!P!NoPeer
<1>8. crec.pc = "idle" /\ crec.id = "leave" /\ prec.pc = "idle"
  BY <1>3, IdlePass DEF Q!Idle
<1>9. PeerInv
  BY <1>4, <1>5, <1>7, <1>8 DEF PeerInv, Settled, PeerNoted
<1>10. ContainerInv
  BY <1>5, <1>6, <1>7, <1>8 DEF ContainerInv, CSettled, ContainerNoted
<1> QED
  BY <1>9, <1>10 DEF NetworkInv

LEMMA OneObjectStart ==
  ASSUME NEW keep \in BOOLEAN, OneObject(keep), pqueued = TRUE, FullBudget
  PROVE  /\ FrameInv /\ ~Calm /\ pobj \in R!Objects /\ prec \in R!Passes
         /\ prec.pc = "idle" /\ prec.id = "leave" /\ pobj.exists /\ pobj.gen = 1
         /\ ~pobj.ready /\ ~pobj.deleting
<1>1. /\ pobj = R!NewObject(FALSE, keep) /\ prec = R!Idle /\ project = TRUE
  BY ListFrame DEF OneObject, L!NewObject, R!NewObject
<1>2. prec.id = "leave"
  BY <1>1 DEF R!Idle
<1> QED
  BY <1>1, <1>2, FrameStart, NewObjects, IdlePass

LEMMA ListStart ==
  ASSUME OneObject(FALSE), pqueued = TRUE, FullBudget, NothingRead, wanted \in SUBSET Names,
         list \in [Names -> {"absent", "active"}]
  PROVE  ListInv
<1>1. /\ FrameInv /\ ~Calm /\ pobj \in R!Objects /\ prec \in R!Passes /\ prec.pc = "idle"
  BY OneObjectStart
<1>2. L!ListTypeOK
  BY <1>1, ListFrame DEF L!ListTypeOK, NothingRead
<1> QED
  BY <1>1, <1>2 DEF ListInv, Settled, NothingRead

LEMMA EndpointStart ==
  ASSUME NEW keep \in BOOLEAN, OneObject(keep), pqueued = TRUE, FullBudget, NothingRead,
         wanted \in SUBSET Names, service \in {"none", "available"},
         list \in [Names -> {"none", "available"}]
  PROVE  EndpointInv
<1>1. /\ FrameInv /\ ~Calm /\ pobj \in R!Objects /\ prec \in R!Passes /\ prec.pc = "idle"
  BY OneObjectStart
<1>2. E!EndpointTypeOK
  BY <1>1, EndpointFrame DEF E!EndpointTypeOK, NothingRead
<1> QED
  BY <1>1, <1>2 DEF EndpointInv, Settled

LEMMA AccountStart ==
  ASSUME NEW keep \in BOOLEAN, OneObject(keep), pqueued = TRUE, FullBudget, U!DatabaseUserInit
  PROVE  AccountInv
<1>1. /\ FrameInv /\ ~Calm /\ pobj \in R!Objects /\ prec \in R!Passes
      /\ prec.pc = "idle" /\ prec.id = "leave" /\ pobj.exists /\ pobj.gen = 1
      /\ budget.faults <= MaxFaults
  BY OneObjectStart, FullBudgetTyped
<1>2. /\ wanted \in U!Specs /\ noted = [name |-> 0, pass |-> 0] /\ noted = U!Nothing
      /\ taken \in TakenStates /\ taken.version = 0
      /\ password = 1 /\ expired = 0 /\ cluster \in {"none", "applied"}
      /\ users \in [U!UserNames -> UserStates] /\ secrets \in [U!UserNames -> Nat]
      /\ \A n \in U!UserNames : users[n] = U!NoUser /\ users[n].gen = 0 /\ secrets[n] = 0
  BY DEF U!DatabaseUserInit, U!Specs, U!UserNames, U!Nothing, U!NothingTaken, U!NoUser,
     TakenStates, UserStates
<1>3. U!DatabaseUserTypeOK
  BY <1>1, <1>2, AccountFrame DEF U!DatabaseUserTypeOK, TakenStates, UserStates
<1>4. AccountTyped
  BY <1>1, <1>2, <1>3 DEF AccountTyped
<1>5. AccountRead /\ AccountSent /\ AccountHeld /\ AccountWatch /\ AccountSettled
  BY <1>1, <1>2 DEF AccountRead, AccountSent, AccountHeld, AccountWatch, AccountSettled
<1>6. AccountClean
  BY <1>1, <1>2 DEF AccountClean, Known, U!Exists
<1> QED
  BY <1>1, <1>4, <1>5, <1>6 DEF AccountInv

LEMMA InitOtherInv == OtherInit => OtherInv
<1> SUFFICES ASSUME OtherInit PROVE OtherInv
  OBVIOUS
<1>0. pqueued = TRUE /\ FullBudget
  BY DEF OtherInit
<1>1. NoNetwork => ~cobj.ready
  BY DEF NoNetwork, N!C!NewObject
<1>2. CASE system = "network" /\ N!NetworkInit
  BY <1>0, <1>2, NetworkStart DEF OtherInv
<1>3. CASE /\ system = "list" /\ NoNetwork /\ OneObject(FALSE) /\ NothingRead
           /\ wanted \in SUBSET Names /\ list \in [Names -> {"absent", "active"}]
  BY <1>0, <1>1, <1>3, ListStart DEF OtherInv
<1>4. CASE /\ system = "endpoint" /\ NoNetwork /\ NothingRead
           /\ wanted \in SUBSET Names /\ service \in {"none", "available"}
           /\ list \in [Names -> {"none", "available"}]
           /\ \E keep \in Policies : OneObject(keep)
  BY <1>0, <1>1, <1>4, PoliciesAreKnown, EndpointStart DEF OtherInv
<1>5. CASE /\ system = "account" /\ NoNetwork /\ U!DatabaseUserInit
           /\ \E keep \in Policies : OneObject(keep)
  BY <1>0, <1>1, <1>5, PoliciesAreKnown, AccountStart DEF OtherInv
<1>6. CASE system = "secrets" /\ NoNetwork /\ OneObject(FALSE) /\ S!SecretInit
  BY <1>0, <1>1, <1>6, InitSecretInv, OneObjectStart DEF OtherInv
<1> QED
  BY <1>2, <1>3, <1>4, <1>5, <1>6 DEF OtherInit

\* A step that changes nothing.
LEMMA FrameUnchanged ==
  ASSUME UNCHANGED allVars
  PROVE  /\ FrameInv' = FrameInv /\ Settled' = Settled /\ Calm' = Calm
         /\ UNCHANGED <<system, pobj, prec, pqueued, project, budget>>
         /\ UNCHANGED <<cobj, cqueued, crec, container, peer>>
         /\ UNCHANGED <<wanted, taken, list, service, expired, noted, users, cluster>>
         /\ UNCHANGED <<user, password, group, targets, secrets, cond, pass>>
<1>1. /\ UNCHANGED <<system, pobj, prec, pqueued, project, budget>>
      /\ UNCHANGED <<cobj, cqueued, crec, container, peer>>
      /\ UNCHANGED <<wanted, taken, list, service, expired, noted, users, cluster>>
      /\ UNCHANGED <<user, password, group, targets, secrets, cond, pass>>
  BY DEF allVars, olderVars, containerVars, endpointVars, userVars, accountVars
<1>2. FrameInv' = FrameInv
  BY <1>1 DEF FrameInv, Framed, Follows, Held, UpToDate, Calm
<1>3. Settled' = Settled /\ Calm' = Calm
  BY <1>1 DEF Settled, Calm, Applied, L!Listed
<1> QED
  BY <1>1, <1>2, <1>3

LEMMA NetworkUnchanged ==
  ASSUME UNCHANGED allVars, NetworkInv
  PROVE  NetworkInv'
<1>1. PeerInv'
  BY FrameUnchanged DEF NetworkInv, PeerInv, PeerNoted
<1>2. ContainerInv'
  BY FrameUnchanged DEF NetworkInv, ContainerInv, ContainerNoted, CFrameInv, CFramed, CFollows,
     CHeld, CUpToDate, CCalm, CSettled, CApplied
<1> QED
  BY <1>1, <1>2 DEF NetworkInv

LEMMA ListUnchanged ==
  ASSUME UNCHANGED allVars, ListInv
  PROVE  ListInv'
BY FrameUnchanged DEF ListInv, L!ListTypeOK, L!Listed

LEMMA EndpointUnchanged ==
  ASSUME UNCHANGED allVars, EndpointInv
  PROVE  EndpointInv'
BY FrameUnchanged DEF EndpointInv, E!EndpointTypeOK

LEMMA AccountUnchanged ==
  ASSUME UNCHANGED allVars, AccountInv
  PROVE  AccountInv'
<1>1. AccountTyped' /\ AccountRead' /\ AccountSent'
  BY FrameUnchanged DEF AccountInv, AccountTyped, U!DatabaseUserTypeOK, AccountRead, AccountSent
<1>2. AccountHeld' /\ AccountWatch'
  BY FrameUnchanged DEF AccountInv, AccountHeld, AccountWatch, U!SnapExpired, U!Exists
<1>3. AccountClean' /\ AccountSettled'
  BY FrameUnchanged DEF AccountInv, AccountClean, AccountSettled, Known, UserApplied, U!Exists,
     U!NoFaults, U!FreshReads, U!GaveUp
<1> QED
  BY <1>1, <1>2, <1>3, FrameUnchanged DEF AccountInv

LEMMA SecretUnchanged ==
  ASSUME UNCHANGED allVars, SecretInv
  PROVE  SecretInv'
<1>1. SecretShaped' /\ NamesKnown'
  BY FrameUnchanged DEF SecretInv, SecretShaped, S!SecretTypeOK, NamesKnown
<1>2. Informed' /\ Tidy' /\ Applying'
  BY FrameUnchanged DEF SecretInv, Informed, Tidy, Applying, Undisturbed, S!AllowsByScopes
<1>3. Handled'
  BY FrameUnchanged DEF SecretInv, Handled, Undisturbed, Finished, Right, S!Named, S!AllowsByScopes
<1>4. S!QuiescentSecretsAreRight'
  BY FrameUnchanged DEF SecretInv, S!QuiescentSecretsAreRight, S!AllowsByScopes
<1> QED
  BY <1>1, <1>2, <1>3, <1>4 DEF SecretInv

LEMMA OtherStep ==
  ASSUME OtherInv, [OtherNext]_allVars
  PROVE  /\ OtherInv'
         /\ [system = "network" => N!NoOrphan]_allVars
         /\ [/\ system = "list" => L!NoOrphan
             /\ system = "endpoint" => E!NoOrphan
             /\ system = "account" => U!NoOrphan]_allVars
<1>1. CASE Network(N!NetworkNext)
  <2>1. system = "network" /\ system' = system /\ NetworkInv
    BY <1>1 DEF Network, OtherInv
  <2>2. NetworkInv' /\ N!NoOrphan
    BY <1>1, <2>1, NetworkStep DEF Network
  <2> QED
    BY <2>1, <2>2 DEF OtherInv
<1>2. CASE List(L!ListNext)
  <2>1. system = "list" /\ system' = system /\ ListInv /\ cobj' = cobj
    BY <1>2 DEF List, OtherInv, containerVars
  <2>2. ListInv' /\ L!NoOrphan
    BY <1>2, <2>1, ListStep DEF List
  <2> QED
    BY <2>1, <2>2 DEF OtherInv
<1>3. CASE Endpoint(E!EndpointNext)
  <2>1. system = "endpoint" /\ system' = system /\ EndpointInv /\ cobj' = cobj
    BY <1>3 DEF Endpoint, OtherInv, containerVars
  <2>2. EndpointInv' /\ E!NoOrphan
    BY <1>3, <2>1, EndpointStep DEF Endpoint
  <2> QED
    BY <2>1, <2>2 DEF OtherInv
<1>4. CASE Account(U!DatabaseUserNext)
  <2>1. system = "account" /\ system' = system /\ AccountInv /\ cobj' = cobj
    BY <1>4 DEF Account, OtherInv, containerVars
  <2>2. AccountInv' /\ U!NoOrphan
    BY <1>4, <2>1, AccountStep DEF Account
  <2> QED
    BY <2>1, <2>2 DEF OtherInv
<1>5. CASE Secrets(S!SecretNext)
  <2>1. system = "secrets" /\ system' = system /\ SecretInv /\ cobj' = cobj /\ pobj' = pobj
    BY <1>5 DEF Secrets, OtherInv, olderVars, containerVars
  <2>2. SecretInv'
    BY <1>5, <2>1, NextSecretInv DEF Secrets
  <2> QED
    BY <2>1, <2>2 DEF OtherInv
<1>6. CASE UNCHANGED allVars
  BY <1>6, FrameUnchanged, NetworkUnchanged, ListUnchanged, EndpointUnchanged, AccountUnchanged,
     SecretUnchanged DEF OtherInv
<1> QED
  BY <1>1, <1>2, <1>3, <1>4, <1>5, <1>6 DEF OtherNext

\* What the invariant says of a system that has come to rest, and of its types.
LEMMA OtherInvImplies ==
  ASSUME OtherInv
  PROVE  OtherTypeOK /\ AtRestMeansApplied /\ ReadyIsHeld /\ QuiescentSecretsAreRight
<1>1. R!AtRest => Calm /\ prec.pc = "idle"
  BY IdlePass DEF R!AtRest, Calm
<1>2. Q!AtRest => CCalm /\ crec.pc = "idle"
  BY CIdlePass DEF Q!AtRest, CCalm
<1>3. CASE system = "network"
  <2>1. PeerInv /\ ContainerInv
    BY <1>3 DEF OtherInv, NetworkInv
  <2>2. N!NetworkTypeOK
    BY <2>1, PeerFrame, ContainerFrame
       DEF N!NetworkTypeOK, PeerInv, FrameInv, Framed, PeerPhases, ContainerInv, CFrameInv, CFramed
  <2>3. N!AtRestMeansApplied
    BY <1>1, <1>2, <1>3, <2>1, PeerFrame, ContainerFrame
       DEF N!AtRestMeansApplied, PeerInv, Settled, Applied, ContainerInv, CSettled, CApplied
  <2>4. N!ReadyIsHeld
    BY <1>3, <2>1 DEF N!ReadyIsHeld, PeerInv, FrameInv, Held, ContainerInv, CFrameInv, CHeld
  <2> QED
    BY <1>3, <2>2, <2>3, <2>4
       DEF OtherTypeOK, AtRestMeansApplied, ReadyIsHeld, QuiescentSecretsAreRight
<1>4. CASE system = "list"
  <2>1. ListInv /\ ~cobj.ready
    BY <1>4 DEF OtherInv
  <2>2. L!AtRestMeansApplied
    BY <1>1, <1>4, <2>1, ListFrame DEF L!AtRestMeansApplied, ListInv, Settled, Applied
  <2>3. N!ReadyIsHeld
    BY <1>4, <2>1 DEF N!ReadyIsHeld, ListInv, FrameInv, Held
  <2> QED
    BY <1>4, <2>1, <2>2, <2>3
       DEF OtherTypeOK, AtRestMeansApplied, ReadyIsHeld, QuiescentSecretsAreRight, ListInv
<1>5. CASE system = "endpoint"
  <2>1. EndpointInv /\ ~cobj.ready
    BY <1>5 DEF OtherInv
  <2>2. E!AtRestMeansApplied
    BY <1>1, <1>5, <2>1, EndpointFrame DEF E!AtRestMeansApplied, EndpointInv, Settled, Applied
  <2>3. N!ReadyIsHeld
    BY <1>5, <2>1 DEF N!ReadyIsHeld, EndpointInv, FrameInv, Held
  <2> QED
    BY <1>5, <2>1, <2>2, <2>3
       DEF OtherTypeOK, AtRestMeansApplied, ReadyIsHeld, QuiescentSecretsAreRight, EndpointInv
<1>6. CASE system = "account"
  <2>1. AccountInv
    BY <1>6 DEF OtherInv
  <2>2. U!AtRestMeansApplied
    BY <1>1, <2>1, AccountFrame
       DEF U!AtRestMeansApplied, AccountInv, AccountSettled, UserApplied
  <2> QED
    BY <1>6, <2>1, <2>2
       DEF OtherTypeOK, AtRestMeansApplied, ReadyIsHeld, QuiescentSecretsAreRight, AccountInv,
           AccountTyped
<1>7. CASE system = "secrets"
  <2>1. SecretInv /\ ~pobj.ready /\ ~cobj.ready
    BY <1>7 DEF OtherInv
  <2> QED
    BY <1>7, <2>1
       DEF OtherTypeOK, AtRestMeansApplied, ReadyIsHeld, QuiescentSecretsAreRight, SecretInv,
           SecretShaped, N!ReadyIsHeld
<1> QED
  BY <1>3, <1>4, <1>5, <1>6, <1>7 DEF OtherInv

----------------------------------------------------------------------------
(* The properties of the run, with or without fairness.                    *)

\* The invariant of the one system that a behaviour has, and what its steps do.
LEMMA OtherInvariant == OtherSpec => []OtherInv
<1>1. OtherInv /\ [OtherNext]_allVars => OtherInv'
  BY OtherStep
<1> QED
  BY InitOtherInv, <1>1, PTL DEF OtherSpec

LEMMA Unfair == FairOtherSpec => OtherSpec
BY PTL DEF FairOtherSpec

\* Every object, every reconcile in progress and everything in Atlas is of its
\* type, for any number of operations and faults.
THEOREM OtherControllersTyped == OtherSpec => []OtherTypeOK
BY OtherInvariant, OtherInvImplies, PTL

\* A controller with nothing left to do has brought Atlas to the spec, however
\* many edits, deletions, lost calls, restarts and reads of a lagging cache
\* came in between.
THEOREM RestMeansApplied == OtherSpec => []AtRestMeansApplied
BY OtherInvariant, OtherInvImplies, PTL

\* What the status calls Ready is held by its finalizer as long as its
\* AtlasProject is there.
THEOREM ReadyHeld == OtherSpec => []ReadyIsHeld
BY OtherInvariant, OtherInvImplies, PTL

\* With the queue empty the connection Secrets follow the clusters, the scopes
\* and the password.
THEOREM QuietSecretsAreRight == OtherSpec => []QuiescentSecretsAreRight
BY OtherInvariant, OtherInvImplies, PTL

\* A container, or a peering, whose id was noted does not lose its object
\* before it is gone in Atlas, or skipped, as long as no cache has lagged.
THEOREM NetworkGoesFirst == OtherSpec => NoNetworkOrphan
<1>1. OtherInv /\ [OtherNext]_allVars => [system = "network" => N!NoOrphan]_allVars
  BY OtherStep
<1> QED
  BY OtherInvariant, <1>1, PTL DEF OtherSpec, NoNetworkOrphan

\* Nor does a list, an endpoint or a user lose its finalizer before what it
\* holds is gone in Atlas.
THEOREM FinalizersGoLast == OtherSpec => HeldUntilGone
<1>1. OtherInv /\ [OtherNext]_allVars =>
        [/\ system = "list" => L!NoOrphan
         /\ system = "endpoint" => E!NoOrphan
         /\ system = "account" => U!NoOrphan]_allVars
  BY OtherStep
<1> QED
  BY OtherInvariant, <1>1, PTL DEF OtherSpec, HeldUntilGone
================================================================================
