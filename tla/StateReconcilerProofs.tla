------------------------ MODULE StateReconcilerProofs ------------------------
(***************************************************************************)
(* What the reconcile loop guarantees whatever its StateHandler does, for  *)
(* every value of the bounds, and why a generated handler is one of those. *)
(***************************************************************************)
EXTENDS StateHandler, TLAPS

\* A new object and the updates of one are well formed.
LEMMA NewObjectTyped ==
  ASSUME NEW keep \in BOOLEAN, NEW external \in {"none", "full", "partial"},
         NEW period \in {"none", "valid", "invalid"}
  PROVE  NewObject(keep, external, period) \in Objects
BY DEF NewObject, Objects, Finalizers, States, Settled, Polled

LEMMA IdleTyped == Idle \in Records
BY NewObjectTyped DEF Idle, Records, Outcomes, States, Settled, Polled

LEMMA StoredTyped ==
  ASSUME NEW o \in Objects
  PROVE  Stored(o) \in Objects
<1>1. [o EXCEPT !.exists = FALSE] \in Objects
  BY DEF Objects
<1> QED
  BY <1>1 DEF Stored

LEMMA AgedTyped ==
  ASSUME NEW o \in Objects
  PROVE  Aged(o) \in Objects
<1>1. [o EXCEPT !.stamp = "due"] \in Objects
  BY DEF Objects
<1> QED
  BY <1>1 DEF Aged

LEMMA SpendTyped ==
  ASSUME NEW kind \in {"ops", "faults", "stale"}, Spend(kind),
         budget \in [ops : Nat, faults : Nat, stale : Nat]
  PROVE  budget' \in [ops : Nat, faults : Nat, stale : Nat]
BY DEF Spend

\* The status patch writes a state, a generation and a reason.
LEMMA WithStatusTyped ==
  ASSUME NEW o \in Objects, rec \in Records
  PROVE  WithStatus(o) \in Objects
<1>1. rec.snap \in Objects /\ rec.next \in States \cup {""}
  BY DEF Records
<1>2. ObservedGeneration(rec.snap, rec.next) \in Nat
  BY <1>1 DEF ObservedGeneration, Objects
<1>3. ReadyReason(rec.next, rec.outcome # "ok") \in {"Pending", "Settled", "Error"}
  BY DEF ReadyReason
<1> QED
  BY <1>1, <1>2, <1>3 DEF WithStatus, Objects

\* Ending a reconcile.
LEMMA DoneTyped ==
  ASSUME NEW again \in BOOLEAN, queued \in BOOLEAN, Done(again)
  PROVE  rec' \in Records /\ queued' \in BOOLEAN
BY IdleTyped DEF Done

\* One field of an object is written.
LEMMA UpdateTyped ==
  ASSUME NEW o \in Objects
  PROVE  /\ \A n \in Nat : [o EXCEPT !.gen = n] \in Objects
         /\ \A n \in Nat : [o EXCEPT !.deleting = TRUE, !.gen = n] \in Objects
         /\ \A b \in BOOLEAN : [o EXCEPT !.skip = b] \in Objects
         /\ \A b \in BOOLEAN : [o EXCEPT !.keep = b] \in Objects
         /\ \A p \in {"none", "valid", "invalid"} : [o EXCEPT !.period = p] \in Objects
         /\ \A f \in SUBSET Finalizers : [o EXCEPT !.fin = f] \in Objects
         /\ [o EXCEPT !.stamp = "fresh"] \in Objects
         /\ \A n \in Nat : [o EXCEPT !.tracker = n] \in Objects
         /\ [o EXCEPT !.recorded = TRUE] \in Objects
BY DEF Objects

----------------------------------------------------------------------------
(* Type correctness.                                                       *)

LEMMA InitTyped == ReconcilerInit => TypeOK
<1> SUFFICES ASSUME ReconcilerInit PROVE TypeOK
  OBVIOUS
<1>1. obj \in Objects
  BY NewObjectTyped, PoliciesAreBoolean, ExternalsAreKnown, PeriodsAreKnown
     DEF ReconcilerInit
<1> QED
  BY <1>1, IdleTyped, BoundsAreNatural DEF ReconcilerInit, TypeOK

\* What users and other controllers do to the object.
LEMMA UserTyped == TypeOK /\ User => TypeOK'
<1> SUFFICES ASSUME TypeOK, User PROVE TypeOK'
  OBVIOUS
<1>1. obj \in Objects /\ obj.gen \in Nat /\ obj.fin \in SUBSET Finalizers
      /\ obj.skip \in BOOLEAN /\ obj.keep \in BOOLEAN
  BY DEF TypeOK, Objects
<1>2. obj.gen + 1 \in Nat
  BY <1>1
<1>3. obj' \in Objects
  <2>1. CASE EditSpec
    BY <2>1, <1>1, <1>2, UpdateTyped DEF EditSpec
  <2>2. CASE RequestDeletion
    BY <2>2, <1>1, <1>2, UpdateTyped, StoredTyped DEF RequestDeletion
  <2>3. CASE ToggleSkip
    BY <2>3, <1>1, UpdateTyped DEF ToggleSkip
  <2>4. CASE ToggleKeep
    BY <2>4, <1>1, UpdateTyped DEF ToggleKeep
  <2>5. CASE ChangePeriod
    <3>1. PICK period \in Periods : obj' = [obj EXCEPT !.period = period]
      BY <2>5 DEF ChangePeriod
    <3>2. period \in {"none", "valid", "invalid"}
      BY PeriodsAreKnown
    <3> QED
      BY <3>1, <3>2, <1>1, UpdateTyped
  <2>6. CASE AddForeignFinalizer
    BY <2>6, <1>1, UpdateTyped DEF AddForeignFinalizer, Finalizers
  <2>7. CASE RemoveForeignFinalizer
    <3>1. obj.fin \ {Foreign} \in SUBSET Finalizers
      BY <1>1
    <3> QED
      BY <2>7, <3>1, <1>1, UpdateTyped, StoredTyped DEF RemoveForeignFinalizer
  <2> QED
    BY <2>1, <2>2, <2>3, <2>4, <2>5, <2>6, <2>7 DEF User
<1>4. budget' \in [ops : Nat, faults : Nat, stale : Nat]
  BY SpendTyped DEF User, TypeOK
<1> QED
  BY <1>3, <1>4 DEF User, envVars, TypeOK

\* The moves of the environment.
LEMMA EnvironmentTyped == TypeOK /\ Environment => TypeOK'
<1> SUFFICES ASSUME TypeOK, Environment PROVE TypeOK'
  OBVIOUS
<1>1. CASE CacheSync
  <2>1. queued' \in BOOLEAN
    BY <1>1 DEF CacheSync, TypeOK
  <2> QED
    BY <1>1, <2>1 DEF CacheSync, TypeOK
<1>2. CASE Resync
  BY <1>2 DEF Resync, TypeOK
<1>3. CASE User
  BY <1>3, UserTyped
<1>4. CASE PeriodElapses
  <2>1. obj' \in Objects /\ cache' \in Objects
    BY <1>4, AgedTyped DEF PeriodElapses, TypeOK
  <2>2. rec' \in Records
    BY <1>4, AgedTyped DEF PeriodElapses, TypeOK, Records
  <2> QED
    BY <1>4, <2>1, <2>2 DEF PeriodElapses, TypeOK
<1>5. CASE Crash
  <2>1. obj.exists \in BOOLEAN
    BY DEF TypeOK, Objects
  <2> QED
    BY <1>5, <2>1, IdleTyped, SpendTyped DEF Crash, TypeOK
<1> QED
  BY <1>1, <1>2, <1>3, <1>4, <1>5 DEF Environment

\* A call that fails ends the reconcile.
LEMMA GiveUpTyped == TypeOK /\ GiveUp => TypeOK'
BY DoneTyped, SpendTyped DEF GiveUp, TypeOK

\* The steps of the reconcile.
LEMMA LoopTyped == TypeOK /\ Loop => TypeOK'
<1> SUFFICES ASSUME TypeOK, Loop PROVE TypeOK'
  OBVIOUS
<1>0. /\ obj \in Objects /\ rec \in Records /\ rec.snap \in Objects
      /\ obj.fin \in SUBSET Finalizers /\ rec.snap.fin \in SUBSET Finalizers
      /\ rec.snap.gen \in Nat /\ queued \in BOOLEAN /\ handled \in Nat
  BY DEF TypeOK, Records, Objects
<1>1. CASE Start
  <2>1. rec' \in Records
    BY <1>1, IdleTyped DEF Start, TypeOK, Records
  <2>2. budget' \in [ops : Nat, faults : Nat, stale : Nat]
    BY <1>1, SpendTyped DEF Start, TypeOK
  <2> QED
    BY <1>1, <2>1, <2>2 DEF Start, TypeOK
<1>2. CASE EnsureFinalizers
  <2> DEFINE list == WithOurs(rec.snap)
  <2>1. list \in SUBSET Finalizers
    BY <1>0 DEF WithOurs, Finalizers
  <2>2. CASE Ours \in rec.snap.fin /\ ~GiveUp
    <3>1. rec' \in Records /\ handled' \in Nat
      BY <1>0, <1>2, <2>2 DEF EnsureFinalizers, Records, TypeOK
    <3> QED
      BY <1>2, <2>2, <3>1 DEF EnsureFinalizers, TypeOK
  <2>3. CASE Ours \notin rec.snap.fin /\ MayReplaceFinalizers(list) /\ ~GiveUp
    <3>1. obj' \in Objects
      BY <1>0, <1>2, <2>1, <2>3, UpdateTyped DEF EnsureFinalizers
    <3>2. rec' \in Records
      BY <1>0, <1>2, <2>3, <3>1 DEF EnsureFinalizers, Records
    <3> QED
      BY <1>2, <2>3, <3>1, <3>2 DEF EnsureFinalizers, TypeOK
  <2>4. CASE Ours \notin rec.snap.fin /\ ~MayReplaceFinalizers(list) /\ ~GiveUp
    BY <1>2, <2>4, DoneTyped DEF EnsureFinalizers, TypeOK
  <2>5. CASE GiveUp
    BY <2>5, GiveUpTyped
  <2> QED
    BY <2>2, <2>3, <2>4, <2>5
<1>3. CASE RejectState
  BY <1>0, <1>3 DEF RejectState, Records, Outcomes, TypeOK, envVars
<1>4. CASE Reapply
  <2>1. obj' \in Objects
    BY <1>0, <1>4, UpdateTyped DEF Reapply
  <2>2. rec' \in Records
    BY <1>0, <1>4, <2>1 DEF Reapply, Records, Outcomes
  <2>3. budget' \in [ops : Nat, faults : Nat, stale : Nat]
    BY <1>4, SpendTyped DEF Reapply, TypeOK
  <2> QED
    BY <1>4, <2>1, <2>2, <2>3 DEF Reapply, TypeOK, envVars
<1>5. CASE UnsetFinalizers
  <2> DEFINE list == rec.snap.fin \ {Ours}
  <2>1. list \in SUBSET Finalizers
    BY <1>0
  <2>2. CASE MayReplaceFinalizers(list) /\ ~GiveUp
    <3>1. obj' \in Objects
      BY <1>0, <1>5, <2>1, <2>2, UpdateTyped, StoredTyped DEF UnsetFinalizers
    <3>2. Done(FALSE)
      BY <1>5, <2>2 DEF UnsetFinalizers
    <3> QED
      BY <1>0, <1>5, <2>2, <3>1, <3>2, DoneTyped DEF UnsetFinalizers, TypeOK
  <2>3. CASE ~MayReplaceFinalizers(list) /\ ~GiveUp
    BY <1>5, <2>3, DoneTyped DEF UnsetFinalizers, TypeOK
  <2>4. CASE GiveUp
    BY <2>4, GiveUpTyped
  <2> QED
    BY <2>2, <2>3, <2>4
<1>6. CASE PatchStatus
  <2>1. CASE obj.exists /\ ~GiveUp
    <3>1. obj' \in Objects
      BY <1>0, <1>6, <2>1, WithStatusTyped DEF PatchStatus
    <3>2. rec' \in Records /\ queued' \in BOOLEAN
      BY <1>0, <1>6, <2>1, IdleTyped DEF PatchStatus, Done, Requeues
    <3> QED
      BY <1>6, <2>1, <3>1, <3>2 DEF PatchStatus, TypeOK
  <2>2. CASE ~obj.exists /\ ~GiveUp
    BY <1>6, <2>2, DoneTyped DEF PatchStatus, TypeOK
  <2>3. CASE GiveUp
    BY <2>3, GiveUpTyped
  <2> QED
    BY <2>1, <2>2, <2>3
<1> QED
  BY <1>1, <1>2, <1>3, <1>4, <1>5, <1>6 DEF Loop

\* The handler.
LEMMA HandlerTyped == TypeOK /\ (HandlerWrites \/ HandlerReturns) => TypeOK'
<1> SUFFICES ASSUME TypeOK, HandlerWrites \/ HandlerReturns PROVE TypeOK'
  OBVIOUS
<1>0. obj \in Objects /\ rec \in Records /\ rec.snap.gen \in Nat
  BY DEF TypeOK, Records, Objects
<1>1. CASE HandlerWrites
  <2>1. PICK kind \in Writes : obj' = Written(kind)
    BY <1>1 DEF HandlerWrites
  <2>2. obj' \in Objects
    BY <1>0, <2>1, UpdateTyped DEF Written, StateTracker
  <2> QED
    BY <1>1, <2>2 DEF HandlerWrites, TypeOK, envVars
<1>2. CASE HandlerReturns
  <2>1. PICK next \in Answers, outcome \in Outcomes : Returned(next, outcome)
    BY <1>2 DEF HandlerReturns
  <2>2. next \in States \cup {""} /\ "Initial" \in States
    BY AnswersAreStates DEF States
  <2>3. rec' \in Records
    BY <1>0, <2>1, <2>2 DEF Returned, Records
  <2>4. budget' \in [ops : Nat, faults : Nat, stale : Nat]
    BY <1>2, SpendTyped DEF HandlerReturns, TypeOK
  <2> QED
    BY <1>2, <2>3, <2>4 DEF HandlerReturns, TypeOK, envVars
<1> QED
  BY <1>1, <1>2

LEMMA StepTyped == TypeOK /\ [ReconcilerNext]_vars => TypeOK'
<1>1. TypeOK /\ UNCHANGED vars => TypeOK'
  BY DEF vars, TypeOK
<1> QED
  BY <1>1, EnvironmentTyped, LoopTyped, HandlerTyped DEF ReconcilerNext

\* The copies of the object, the queue and the reconcile in progress keep
\* their shape through every step of the loop and of its environment.
THEOREM ReconcilerTyped == ReconcilerSpec => []TypeOK
BY InitTyped, StepTyped, PTL DEF ReconcilerSpec

----------------------------------------------------------------------------
(* The object on the server only moves forward, and only the end of a      *)
(* reconcile writes its conditions.                                        *)

Forward(o, p) ==
  /\ o.deleting => p.deleting
  /\ o.gen <= p.gen
  /\ o.stamp # "none" => p.stamp # "none"
  /\ ~o.exists => ~p.exists

SameStatus(o, p) == p.state = o.state /\ p.ogen = o.ogen

LEMMA GenNat == \A o \in Objects : o.gen \in Nat
BY DEF Objects

LEMMA SameForward ==
  ASSUME NEW o \in Objects, NEW p,
         p.gen = o.gen, p.deleting = o.deleting, p.stamp = o.stamp,
         p.exists = o.exists
  PROVE  Forward(o, p)
BY GenNat DEF Forward

LEMMA StoredForward ==
  ASSUME NEW o \in Objects
  PROVE  /\ Forward(o, Stored(o)) /\ SameStatus(o, Stored(o))
         /\ Stored(o).fin = o.fin /\ Stored(o).gen = o.gen
         /\ Stored(o).stamp = o.stamp /\ Stored(o).deleting = o.deleting
<1>1. CASE o.deleting /\ o.fin = {}
  <2>1. Stored(o) = [o EXCEPT !.exists = FALSE]
    BY <1>1 DEF Stored
  <2>2. LET p == [o EXCEPT !.exists = FALSE] IN
          /\ p.fin = o.fin /\ p.gen = o.gen /\ p.stamp = o.stamp
          /\ p.deleting = o.deleting /\ p.exists = FALSE
          /\ p.state = o.state /\ p.ogen = o.ogen
    BY DEF Objects
  <2> QED
    BY <2>1, <2>2, GenNat DEF Forward, SameStatus
<1>2. CASE ~(o.deleting /\ o.fin = {})
  <2>1. Stored(o) = o
    BY <1>2 DEF Stored
  <2> QED
    BY <2>1, SameForward DEF SameStatus
<1> QED
  BY <1>1, <1>2

LEMMA AgedForward ==
  ASSUME NEW o \in Objects
  PROVE  /\ Forward(o, Aged(o)) /\ SameStatus(o, Aged(o))
         /\ Aged(o).fin = o.fin /\ Aged(o).gen = o.gen /\ Aged(o).deleting = o.deleting
         /\ Aged(o).skip = o.skip /\ Aged(o).exists = o.exists
         /\ Aged(o).external = o.external
         /\ Aged(o).stamp = "none" <=> o.stamp = "none"
<1>1. CASE o.stamp = "fresh"
  <2>1. Aged(o) = [o EXCEPT !.stamp = "due"]
    BY <1>1 DEF Aged
  <2>2. LET p == [o EXCEPT !.stamp = "due"] IN
          /\ p.fin = o.fin /\ p.gen = o.gen /\ p.deleting = o.deleting
          /\ p.skip = o.skip /\ p.exists = o.exists /\ p.external = o.external
          /\ p.stamp = "due" /\ p.state = o.state /\ p.ogen = o.ogen
    BY DEF Objects
  <2> QED
    BY <1>1, <2>1, <2>2, GenNat DEF Forward, SameStatus
<1>2. CASE o.stamp # "fresh"
  <2>1. Aged(o) = o
    BY <1>2 DEF Aged
  <2> QED
    BY <2>1, SameForward DEF SameStatus
<1> QED
  BY <1>1, <1>2

\* A write of one field that is none of these.
LEMMA UpdateForward ==
  ASSUME NEW o \in Objects
  PROVE  /\ \A b : LET p == [o EXCEPT !.skip = b]
                  IN  Forward(o, p) /\ SameStatus(o, p) /\ p.fin = o.fin
         /\ \A b : LET p == [o EXCEPT !.keep = b]
                  IN  Forward(o, p) /\ SameStatus(o, p) /\ p.fin = o.fin
         /\ \A b : LET p == [o EXCEPT !.period = b]
                  IN  Forward(o, p) /\ SameStatus(o, p) /\ p.fin = o.fin
         /\ \A b : LET p == [o EXCEPT !.tracker = b]
                  IN  Forward(o, p) /\ SameStatus(o, p) /\ p.fin = o.fin
         /\ LET p == [o EXCEPT !.recorded = TRUE]
            IN  Forward(o, p) /\ SameStatus(o, p) /\ p.fin = o.fin
         /\ LET p == [o EXCEPT !.stamp = "fresh"]
            IN  Forward(o, p) /\ SameStatus(o, p) /\ p.fin = o.fin
         /\ \A f : LET p == [o EXCEPT !.fin = f]
                  IN  Forward(o, p) /\ SameStatus(o, p) /\ p.fin = f
<1> DEFINE Same(p) == /\ p.gen = o.gen /\ p.deleting = o.deleting /\ p.exists = o.exists
                      /\ p.state = o.state /\ p.ogen = o.ogen
<1>1. \A b : LET p == [o EXCEPT !.skip = b] IN Same(p) /\ p.stamp = o.stamp /\ p.fin = o.fin
  BY DEF Objects
<1>2. \A b : LET p == [o EXCEPT !.keep = b] IN Same(p) /\ p.stamp = o.stamp /\ p.fin = o.fin
  BY DEF Objects
<1>3. \A b : LET p == [o EXCEPT !.period = b] IN Same(p) /\ p.stamp = o.stamp /\ p.fin = o.fin
  BY DEF Objects
<1>4. \A b : LET p == [o EXCEPT !.tracker = b] IN Same(p) /\ p.stamp = o.stamp /\ p.fin = o.fin
  BY DEF Objects
<1>5. LET p == [o EXCEPT !.recorded = TRUE] IN Same(p) /\ p.stamp = o.stamp /\ p.fin = o.fin
  BY DEF Objects
<1>6. LET p == [o EXCEPT !.stamp = "fresh"] IN Same(p) /\ p.stamp = "fresh" /\ p.fin = o.fin
  BY DEF Objects
<1>7. \A f : LET p == [o EXCEPT !.fin = f] IN Same(p) /\ p.stamp = o.stamp /\ p.fin = f
  BY DEF Objects
<1>8. ASSUME NEW p, Same(p), p.stamp = o.stamp \/ p.stamp = "fresh"
      PROVE  Forward(o, p) /\ SameStatus(o, p)
  BY <1>8, GenNat DEF Forward, SameStatus
<1> HIDE DEF Same
<1> QED
  BY <1>1, <1>2, <1>3, <1>4, <1>5, <1>6, <1>7, <1>8

\* An edit and a deletion move the generation.
LEMMA EditForward ==
  ASSUME NEW o \in Objects
  PROVE  /\ LET p == [o EXCEPT !.gen = o.gen + 1]
            IN  Forward(o, p) /\ SameStatus(o, p) /\ p.fin = o.fin
         /\ LET p == [o EXCEPT !.deleting = TRUE, !.gen = o.gen + 1]
            IN  Forward(o, p) /\ SameStatus(o, p) /\ p.fin = o.fin
<1>1. o.gen \in Nat
  BY GenNat
<1>2. LET p == [o EXCEPT !.gen = o.gen + 1] IN
        /\ p.gen = o.gen + 1 /\ p.deleting = o.deleting /\ p.exists = o.exists
        /\ p.stamp = o.stamp /\ SameStatus(o, p) /\ p.fin = o.fin
  BY DEF Objects, SameStatus
<1>3. LET p == [o EXCEPT !.deleting = TRUE, !.gen = o.gen + 1] IN
        /\ p.gen = o.gen + 1 /\ p.deleting = TRUE /\ p.exists = o.exists
        /\ p.stamp = o.stamp /\ SameStatus(o, p) /\ p.fin = o.fin
  BY DEF Objects, SameStatus
<1> QED
  BY <1>1, <1>2, <1>3 DEF Forward

LEMMA ForwardTransitive ==
  ASSUME NEW o \in Objects, NEW p \in Objects, NEW q \in Objects,
         Forward(o, p), Forward(p, q), SameStatus(o, p), SameStatus(p, q)
  PROVE  Forward(o, q) /\ SameStatus(o, q)
BY GenNat DEF Forward, SameStatus

LEMMA UserForward ==
  TypeOK /\ User => Forward(obj, obj') /\ SameStatus(obj, obj') /\ obj.fin \ obj'.fin \subseteq {Foreign}
<1> SUFFICES ASSUME TypeOK, User
             PROVE  /\ Forward(obj, obj') /\ SameStatus(obj, obj')
                    /\ obj.fin \ obj'.fin \subseteq {Foreign}
  OBVIOUS
<1>1. obj \in Objects /\ obj.gen \in Nat /\ obj.fin \in SUBSET Finalizers
  BY DEF TypeOK, Objects
<1>2. CASE EditSpec
  BY <1>1, <1>2, EditForward DEF EditSpec
<1>3. CASE RequestDeletion
  <2> DEFINE p == [obj EXCEPT !.deleting = TRUE, !.gen = obj.gen + 1]
  <2>1. obj.gen + 1 \in Nat
    BY <1>1
  <2>2. p \in Objects
    BY <1>1, <2>1, UpdateTyped
  <2>3. Forward(obj, p) /\ SameStatus(obj, p) /\ p.fin = obj.fin
    BY <1>1, EditForward
  <2>4. obj' = Stored(p)
    BY <1>3 DEF RequestDeletion
  <2> HIDE DEF p
  <2> QED
    BY <1>1, <2>2, <2>3, <2>4, StoredForward, StoredTyped, ForwardTransitive
<1>4. CASE ToggleSkip
  BY <1>1, <1>4, UpdateForward DEF ToggleSkip
<1>5. CASE ToggleKeep
  BY <1>1, <1>5, UpdateForward DEF ToggleKeep
<1>6. CASE ChangePeriod
  <2>1. PICK period \in Periods : obj' = [obj EXCEPT !.period = period]
    BY <1>6 DEF ChangePeriod
  <2> QED
    BY <1>1, <2>1, UpdateForward
<1>7. CASE AddForeignFinalizer
  <2> DEFINE list == obj.fin \cup {Foreign}
  <2>1. obj' = [obj EXCEPT !.fin = list]
    BY <1>7 DEF AddForeignFinalizer
  <2>2. Forward(obj, obj') /\ SameStatus(obj, obj') /\ obj'.fin = list
    BY <1>1, <2>1, UpdateForward
  <2> QED
    BY <2>2
<1>8. CASE RemoveForeignFinalizer
  <2> DEFINE p == [obj EXCEPT !.fin = obj.fin \ {Foreign}]
  <2>2. obj.fin \ {Foreign} \in SUBSET Finalizers
    BY <1>1
  <2>3. p \in Objects
    BY <1>1, <2>2, UpdateTyped
  <2>4. Forward(obj, p) /\ SameStatus(obj, p) /\ p.fin = obj.fin \ {Foreign}
    BY <1>1, UpdateForward
  <2>5. obj' = Stored(p)
    BY <1>8 DEF RemoveForeignFinalizer
  <2> HIDE DEF p
  <2> QED
    BY <1>1, <2>3, <2>4, <2>5, StoredForward, StoredTyped, ForwardTransitive
<1> QED
  BY <1>2, <1>3, <1>4, <1>5, <1>6, <1>7, <1>8 DEF User

\* Every step moves the object forward, and where the two copies of it, the
\* cache and the snapshot, come from.
CopiesMove ==
  /\ cache' \in {cache, obj, Aged(cache)}
  /\ rec'.snap \in {rec.snap, Aged(rec.snap), cache, obj', Idle.snap}

LEMMA EnvironmentMoves ==
  TypeOK /\ Environment => Forward(obj, obj') /\ SameStatus(obj, obj') /\ CopiesMove
<1> SUFFICES ASSUME TypeOK, Environment
             PROVE  Forward(obj, obj') /\ SameStatus(obj, obj') /\ CopiesMove
  OBVIOUS
<1>1. obj \in Objects /\ rec \in Records
  BY DEF TypeOK
<1>2. obj' = obj => Forward(obj, obj') /\ SameStatus(obj, obj')
  BY <1>1, SameForward DEF SameStatus
<1>3. CASE CacheSync
  BY <1>2, <1>3 DEF CacheSync, CopiesMove
<1>4. CASE Resync
  BY <1>2, <1>4 DEF Resync, CopiesMove
<1>5. CASE User
  BY <1>5, UserForward DEF User, envVars, CopiesMove
<1>6. CASE PeriodElapses
  <2>1. rec'.snap = Aged(rec.snap)
    BY <1>1, <1>6 DEF PeriodElapses, Records
  <2> QED
    BY <1>1, <1>6, <2>1, AgedForward DEF PeriodElapses, CopiesMove
<1>7. CASE Crash
  BY <1>2, <1>7 DEF Crash, CopiesMove
<1> QED
  BY <1>3, <1>4, <1>5, <1>6, <1>7 DEF Environment

LEMMA WithStatusForward ==
  ASSUME NEW o \in Objects
  PROVE  /\ Forward(o, WithStatus(o)) /\ WithStatus(o).fin = o.fin
         /\ WithStatus(o).deleting = o.deleting
         /\ WithStatus(o).state = rec.next
         /\ WithStatus(o).ogen = ObservedGeneration(rec.snap, rec.next)
<1> DEFINE p == WithStatus(o)
<1>1. /\ p.gen = o.gen /\ p.deleting = o.deleting /\ p.exists = o.exists
      /\ p.stamp = o.stamp /\ p.fin = o.fin /\ p.state = rec.next
      /\ p.ogen = ObservedGeneration(rec.snap, rec.next)
  BY DEF Objects, WithStatus
<1> QED
  BY <1>1, SameForward

\* A finalizer patch: only the finalizers change, and the object may go.
LEMMA FinalizersForward ==
  ASSUME NEW o \in Objects, NEW list \in SUBSET Finalizers
  PROVE  LET p == Stored([o EXCEPT !.fin = list])
         IN  Forward(o, p) /\ SameStatus(o, p) /\ p.fin = list
<1> DEFINE q == [o EXCEPT !.fin = list]
<1>1. q \in Objects
  BY UpdateTyped
<1>2. Forward(o, q) /\ SameStatus(o, q) /\ q.fin = list
  BY UpdateForward
<1> HIDE DEF q
<1>3. LET p == Stored(q) IN Forward(o, p) /\ SameStatus(o, p) /\ p.fin = list
  BY <1>1, <1>2, StoredForward, StoredTyped, ForwardTransitive
<1> QED
  BY <1>3 DEF q

LEMMA LoopMoves ==
  TypeOK /\ Loop =>
    Forward(obj, obj') /\ (PatchStatus \/ SameStatus(obj, obj')) /\ CopiesMove
<1> SUFFICES ASSUME TypeOK, Loop
             PROVE  /\ Forward(obj, obj') /\ (PatchStatus \/ SameStatus(obj, obj'))
                    /\ CopiesMove
  OBVIOUS
<1>0. /\ obj \in Objects /\ rec \in Records /\ rec.snap \in Objects
      /\ rec.snap.fin \in SUBSET Finalizers
  BY DEF TypeOK, Records, Objects
<1>1. obj' = obj => Forward(obj, obj') /\ SameStatus(obj, obj')
  BY <1>0, SameForward DEF SameStatus
<1>2. CASE GiveUp
  BY <1>1, <1>2 DEF GiveUp, Done, CopiesMove
<1>3. CASE Start
  BY <1>0, <1>1, <1>3 DEF Start, Idle, Records, CopiesMove
<1>4. CASE EnsureFinalizers /\ ~GiveUp
  <2> DEFINE list == WithOurs(rec.snap)
  <2>1. list \in SUBSET Finalizers
    BY <1>0 DEF WithOurs, Finalizers
  <2>2. rec' = Idle \/ rec'.snap \in {rec.snap, obj'}
    BY <1>0, <1>4 DEF EnsureFinalizers, Done, Records
  <2>3. cache' = cache
    BY <1>4 DEF EnsureFinalizers
  <2>4. obj' = obj \/ obj' = [obj EXCEPT !.fin = list]
    BY <1>4 DEF EnsureFinalizers
  <2>5. obj' = [obj EXCEPT !.fin = list] => Forward(obj, obj') /\ SameStatus(obj, obj')
    BY <1>0, UpdateForward
  <2> QED
    BY <1>1, <2>2, <2>3, <2>4, <2>5 DEF CopiesMove
<1>5. CASE RejectState
  <2>1. rec'.snap = rec.snap
    BY <1>0, <1>5 DEF RejectState, Records
  <2> QED
    BY <1>1, <1>5, <2>1 DEF RejectState, CopiesMove, envVars
<1>6. CASE Reapply
  <2>1. rec'.snap \in {rec.snap, obj'}
    BY <1>0, <1>6 DEF Reapply, Records
  <2>2. obj' = obj \/ obj' = [obj EXCEPT !.stamp = "fresh"]
    BY <1>6 DEF Reapply
  <2>3. cache' = cache
    BY <1>6 DEF Reapply, envVars
  <2> QED
    BY <1>0, <1>1, <2>1, <2>2, <2>3, UpdateForward DEF CopiesMove
<1>7. CASE UnsetFinalizers /\ ~GiveUp
  <2>1. cache' = cache /\ rec' = Idle
    BY <1>7 DEF UnsetFinalizers, Done
  <2>2. obj' = obj \/ obj' = Stored([obj EXCEPT !.fin = rec.snap.fin \ {Ours}])
    BY <1>7 DEF UnsetFinalizers
  <2>3. rec.snap.fin \ {Ours} \in SUBSET Finalizers
    BY <1>0
  <2>4. Forward(obj, obj') /\ SameStatus(obj, obj')
    BY <1>0, <1>1, <2>2, <2>3, FinalizersForward
  <2> QED
    BY <2>1, <2>4 DEF CopiesMove
<1>8. CASE PatchStatus /\ ~GiveUp
  <2>1. cache' = cache /\ rec' = Idle
    BY <1>8 DEF PatchStatus, Done
  <2>2. obj' = obj \/ obj' = WithStatus(obj)
    BY <1>8 DEF PatchStatus
  <2>3. Forward(obj, obj')
    BY <1>0, <1>1, <2>2, WithStatusForward
  <2> QED
    BY <1>8, <2>1, <2>3 DEF CopiesMove
<1> QED
  BY <1>2, <1>3, <1>4, <1>5, <1>6, <1>7, <1>8 DEF Loop

LEMMA HandlerMoves ==
  TypeOK /\ (HandlerWrites \/ HandlerReturns)
    => Forward(obj, obj') /\ SameStatus(obj, obj') /\ CopiesMove
<1> SUFFICES ASSUME TypeOK, HandlerWrites \/ HandlerReturns
             PROVE  Forward(obj, obj') /\ SameStatus(obj, obj') /\ CopiesMove
  OBVIOUS
<1>0. obj \in Objects /\ rec \in Records
  BY DEF TypeOK
<1>1. CASE HandlerWrites
  <2>1. PICK kind \in Writes : obj' = Written(kind)
    BY <1>1 DEF HandlerWrites
  <2>2. Forward(obj, obj') /\ SameStatus(obj, obj')
    BY <1>0, <2>1, UpdateForward DEF Written
  <2> QED
    BY <1>1, <2>2 DEF HandlerWrites, CopiesMove, envVars
<1>2. CASE HandlerReturns
  <2>1. PICK next \in Answers, outcome \in Outcomes : Returned(next, outcome)
    BY <1>2 DEF HandlerReturns
  <2>2. rec'.snap = rec.snap
    BY <1>0, <2>1 DEF Returned, Records
  <2>3. obj' = obj /\ cache' = cache
    BY <1>2 DEF HandlerReturns, envVars
  <2> QED
    BY <1>0, <2>2, <2>3, SameForward DEF SameStatus, CopiesMove
<1> QED
  BY <1>1, <1>2

LEMMA StepMoves ==
  TypeOK /\ [ReconcilerNext]_vars =>
    Forward(obj, obj') /\ (PatchStatus \/ SameStatus(obj, obj')) /\ CopiesMove
<1>1. TypeOK /\ UNCHANGED vars => Forward(obj, obj') /\ SameStatus(obj, obj') /\ CopiesMove
  BY SameForward DEF TypeOK, vars, SameStatus, CopiesMove
<1> QED
  BY <1>1, EnvironmentMoves, LoopMoves, HandlerMoves DEF ReconcilerNext

LEMMA IdleFields ==
  /\ Idle.pc = "idle" /\ Idle.next = "Initial" /\ Idle.outcome = "ok"
  /\ Idle.snap.state = "Initial" /\ Idle.snap.deleting = FALSE
  /\ Idle.snap.gen = 1 /\ Idle.snap.ogen = 0 /\ Idle.snap.stamp = "none"
BY DEF Idle, NewObject

\* Where the answer a reconcile carries comes from: an earlier step, a
\* handler, a state without a handler, or a stamp that failed.
Answering == rec.pc \in {"reapply", "settle"}

AnswerMoves ==
  \/ /\ Answering
     /\ rec'.next = rec.next /\ rec'.outcome = rec.outcome
     /\ \/ rec'.snap \in {rec.snap, Aged(rec.snap)}
        \/ rec'.snap = obj' /\ obj'.stamp = "fresh"
  \/ rec'.pc = "settle" /\ rec'.next = "" /\ rec'.outcome = "retry"
  \/ HandlerReturns

LEMMA StepAnswers ==
  TypeOK /\ [ReconcilerNext]_vars /\ Answering' => AnswerMoves
<1> SUFFICES ASSUME TypeOK, [ReconcilerNext]_vars, Answering' PROVE AnswerMoves
  OBVIOUS
<1>0. rec \in Records
  BY DEF TypeOK
<1>1. rec' # Idle
  BY IdleFields DEF Answering
<1>2. CASE rec' = rec
  BY <1>2 DEF Answering, AnswerMoves
<1>3. CASE PeriodElapses
  <2>1. /\ rec'.pc = rec.pc /\ rec'.next = rec.next /\ rec'.outcome = rec.outcome
        /\ rec'.snap = Aged(rec.snap)
    BY <1>0, <1>3 DEF PeriodElapses, Records
  <2> QED
    BY <2>1 DEF Answering, AnswerMoves
<1>4. CASE Start
  BY <1>1, <1>4 DEF Start, Answering, Idle
<1>5. CASE EnsureFinalizers
  <2>1. rec' = Idle \/ rec'.pc \in {"finalizer", "handler"}
    BY <1>0, <1>5 DEF EnsureFinalizers, Done, GiveUp, Records
  <2> QED
    BY <1>1, <2>1 DEF Answering
<1>6. CASE RejectState
  BY <1>0, <1>6 DEF RejectState, Records, AnswerMoves
<1>7. CASE Reapply
  <2>0. obj' = [obj EXCEPT !.stamp = "fresh"] => obj'.stamp = "fresh"
    BY DEF TypeOK, Objects
  <2>1. \/ /\ rec'.next = rec.next /\ rec'.outcome = rec.outcome
           /\ \/ rec'.snap = rec.snap
              \/ rec'.snap = obj' /\ obj' = [obj EXCEPT !.stamp = "fresh"]
        \/ rec'.pc = "settle" /\ rec'.next = "" /\ rec'.outcome = "retry"
    BY <1>0, <1>7 DEF Reapply, Records
  <2>2. Answering
    BY <1>7 DEF Reapply, Answering
  <2> QED
    BY <2>0, <2>1, <2>2 DEF AnswerMoves
<1>8. CASE UnsetFinalizers \/ PatchStatus \/ Crash
  BY <1>1, <1>8 DEF UnsetFinalizers, PatchStatus, Crash, GiveUp, Done
<1>9. CASE HandlerReturns
  BY <1>9 DEF AnswerMoves
<1> QED
  BY <1>2, <1>3, <1>4, <1>5, <1>6, <1>7, <1>8, <1>9
     DEF ReconcilerNext, Environment, Loop, CacheSync, Resync, User, HandlerWrites,
         envVars, vars

----------------------------------------------------------------------------
(* The finalizer stays until the deletion of the object was requested.     *)

\* A copy of the object that carries a state of a deletion, or a deletion
\* timestamp, is a copy of an object whose deletion was requested.
Asked(o) ==
  /\ o.state \in Deletion => o.deleting
  /\ o.deleting => obj.deleting

\* The strengthening: so are the copies in the cache and in the reconcile,
\* and a reconcile answers with a state of a deletion only after the request.
DeletionKnown ==
  /\ Asked(obj) /\ Asked(cache) /\ Asked(rec.snap)
  /\ Answering /\ rec.next \in Deletion \cup {"Deleted"} => obj.deleting

LEMMA InitDeletionKnown == ReconcilerInit => DeletionKnown
<1> SUFFICES ASSUME ReconcilerInit PROVE DeletionKnown
  OBVIOUS
<1>1. obj.state = "Initial" /\ ~obj.deleting /\ cache = obj
  BY DEF ReconcilerInit, NewObject
<1> QED
  BY <1>1, IdleFields DEF ReconcilerInit, DeletionKnown, Asked, Deletion, Answering

\* Only a handler of a deletion answers with a state of a deletion.
LEMMA DispatchAsked ==
  ASSUME NEW o \in Objects, o.state \in Deletion => o.deleting, Dispatch(o) \in Deletion
  PROVE  o.deleting
BY DEF Dispatch, Deletion

LEMMA StepDeletionKnown ==
  TypeOK /\ DeletionKnown /\ [ReconcilerNext]_vars => DeletionKnown'
<1> SUFFICES ASSUME TypeOK, DeletionKnown, [ReconcilerNext]_vars PROVE DeletionKnown'
  OBVIOUS
<1>0. obj \in Objects /\ cache \in Objects /\ rec \in Records /\ rec.snap \in Objects
  BY DEF TypeOK, Records
<1>1. /\ Forward(obj, obj') /\ (PatchStatus \/ SameStatus(obj, obj')) /\ CopiesMove
  BY StepMoves
<1>2. obj'.state \in Deletion => obj'.deleting
  <2>1. CASE PatchStatus /\ obj' # obj
    <3>1. obj' = WithStatus(obj) /\ rec.pc = "settle"
      BY <2>1 DEF PatchStatus, GiveUp
    <3>2. obj'.state = rec.next /\ obj'.deleting = obj.deleting
      BY <1>0, <3>1, WithStatusForward
    <3> QED
      BY <3>1, <3>2 DEF DeletionKnown, Asked, Answering
  <2>2. CASE SameStatus(obj, obj') \/ obj' = obj
    BY <1>1, <2>2 DEF SameStatus, Forward, DeletionKnown, Asked
  <2> QED
    BY <1>1, <2>1, <2>2
<1>3. ASSUME NEW o \in Objects, Asked(o)
      PROVE  /\ o.state \in Deletion => o.deleting
             /\ o.deleting => obj'.deleting
             /\ Aged(o).state \in Deletion => Aged(o).deleting
             /\ Aged(o).deleting => obj'.deleting
  BY <1>1, <1>3, AgedForward DEF Asked, Forward, SameStatus
<1>4. Asked(cache)'
  BY <1>0, <1>1, <1>3 DEF CopiesMove, Asked, DeletionKnown
<1>5. Asked(rec.snap)'
  BY <1>0, <1>1, <1>2, <1>3, IdleFields DEF CopiesMove, Asked, DeletionKnown, Deletion
<1>6. Answering' /\ rec'.next \in Deletion \cup {"Deleted"} => obj'.deleting
  <2> SUFFICES ASSUME Answering', rec'.next \in Deletion \cup {"Deleted"}
               PROVE  obj.deleting
    BY <1>1 DEF Forward
  <2>1. AnswerMoves /\ rec'.next # ""
    BY StepAnswers DEF Deletion
  <2>2. CASE HandlerReturns
    <3>1. PICK next \in Answers, outcome \in Outcomes :
            MayReturn(next, outcome) /\ Returned(next, outcome)
      BY <2>2 DEF HandlerReturns
    <3>2. rec'.snap = rec.snap /\ rec'.next = (IF next = "" THEN "Initial" ELSE next)
      BY <1>0, <3>1 DEF Returned, Records
    <3>3. next \in Deletion \cup {"Deleted"}
      BY <3>2 DEF Deletion
    <3>4. Dispatch(rec.snap) \in Deletion
      BY <3>1, <3>3 DEF MayReturn
    <3> QED
      BY <1>0, <3>2, <3>4, DispatchAsked DEF DeletionKnown, Asked
  <2>3. CASE ~HandlerReturns
    BY <2>1, <2>3 DEF AnswerMoves, DeletionKnown
  <2> QED
    BY <2>2, <2>3
<1> QED
  BY <1>2, <1>4, <1>5, <1>6 DEF DeletionKnown, Asked

\* Our finalizer leaves the list at the end of a deletion only.
LEMMA OursLeaves ==
  TypeOK /\ [ReconcilerNext]_vars /\ Ours \in obj.fin \ obj'.fin => UnsetFinalizers
<1> SUFFICES ASSUME TypeOK, [ReconcilerNext]_vars, Ours \in obj.fin \ obj'.fin
             PROVE  UnsetFinalizers
  OBVIOUS
<1>0. /\ obj \in Objects /\ rec.snap \in Objects /\ obj' # obj
      /\ rec.snap.fin \in SUBSET Finalizers
  BY DEF TypeOK, Records, Objects
<1>1. CASE User
  BY <1>1, UserForward DEF Ours, Foreign
<1>2. CASE PeriodElapses
  BY <1>0, <1>2, AgedForward DEF PeriodElapses
<1>3. CASE EnsureFinalizers
  <2>1. obj' = [obj EXCEPT !.fin = WithOurs(rec.snap)]
    BY <1>0, <1>3 DEF EnsureFinalizers, GiveUp
  <2>2. obj'.fin = WithOurs(rec.snap)
    BY <1>0, <2>1, UpdateForward
  <2> QED
    BY <2>2 DEF WithOurs
<1>4. CASE Reapply
  <2>1. obj' = [obj EXCEPT !.stamp = "fresh"]
    BY <1>0, <1>4 DEF Reapply
  <2> QED
    BY <1>0, <2>1, UpdateForward
<1>5. CASE UnsetFinalizers
  BY <1>5
<1>6. CASE PatchStatus
  <2>1. obj' = WithStatus(obj)
    BY <1>0, <1>6 DEF PatchStatus, GiveUp
  <2> QED
    BY <1>0, <2>1, WithStatusForward
<1>7. CASE HandlerWrites
  <2>1. PICK kind \in Writes : obj' = Written(kind)
    BY <1>7 DEF HandlerWrites
  <2> QED
    BY <1>0, <2>1, UpdateForward DEF Written
<1> QED
  BY <1>0, <1>1, <1>2, <1>3, <1>4, <1>5, <1>6, <1>7
     DEF ReconcilerNext, Environment, Loop, CacheSync, Resync, Crash, Start, RejectState,
         HandlerReturns, envVars, vars

LEMMA StepFinalizerHeld ==
  TypeOK /\ DeletionKnown /\ [ReconcilerNext]_vars
    => (Ours \in obj.fin \ obj'.fin => obj.deleting)
BY OursLeaves DEF UnsetFinalizers, DeletionKnown, Answering, Asked

\* However the handler behaves within its contract, whatever fails and
\* however far the cache lags, the operator lets go of an object only after
\* its deletion was requested.
THEOREM FinalizerIsHeld == ReconcilerSpec => FinalizerHeldUntilDeletion
<1>1. ReconcilerInit => TypeOK /\ DeletionKnown
  BY InitTyped, InitDeletionKnown
<1>2. TypeOK /\ DeletionKnown /\ [ReconcilerNext]_vars => (TypeOK /\ DeletionKnown)'
  BY StepTyped, StepDeletionKnown
<1>3. TypeOK /\ DeletionKnown /\ [ReconcilerNext]_vars
        => [(Ours \in obj.fin \ obj'.fin) => obj.deleting]_vars
  BY StepFinalizerHeld
<1> QED
  BY <1>1, <1>2, <1>3, PTL DEF ReconcilerSpec, FinalizerHeldUntilDeletion

\* The list of another controller is replaced by the snapshot of it only.
LEMMA StepForeignKept ==
  TypeOK /\ [ReconcilerNext]_vars =>
    (Foreign \in obj.fin \ obj'.fin => budget'.ops < budget.ops \/ Foreign \notin rec.snap.fin)
<1> SUFFICES ASSUME TypeOK, [ReconcilerNext]_vars, Foreign \in obj.fin \ obj'.fin
             PROVE  budget'.ops < budget.ops \/ Foreign \notin rec.snap.fin
  OBVIOUS
<1>0. /\ obj \in Objects /\ rec.snap \in Objects /\ obj' # obj
      /\ rec.snap.fin \in SUBSET Finalizers
  BY DEF TypeOK, Records, Objects
<1>1. CASE User
  <2>1. budget' = [budget EXCEPT !["ops"] = budget["ops"] - 1]
    BY <1>1 DEF User, Spend
  <2>2. budget \in [ops : Nat, faults : Nat, stale : Nat]
    BY DEF TypeOK
  <2> QED
    BY <2>1, <2>2
<1>2. CASE PeriodElapses
  BY <1>0, <1>2, AgedForward DEF PeriodElapses
<1>3. CASE EnsureFinalizers
  <2>1. obj' = [obj EXCEPT !.fin = WithOurs(rec.snap)]
    BY <1>0, <1>3 DEF EnsureFinalizers, GiveUp
  <2>2. obj'.fin = WithOurs(rec.snap)
    BY <1>0, <2>1, UpdateForward
  <2> QED
    BY <2>2 DEF WithOurs
<1>4. CASE Reapply
  <2>1. obj' = [obj EXCEPT !.stamp = "fresh"]
    BY <1>0, <1>4 DEF Reapply
  <2> QED
    BY <1>0, <2>1, UpdateForward
<1>5. CASE UnsetFinalizers
  <2> DEFINE list == rec.snap.fin \ {Ours}
  <2>1. obj' = Stored([obj EXCEPT !.fin = list])
    BY <1>0, <1>5 DEF UnsetFinalizers, GiveUp
  <2>2. list \in SUBSET Finalizers
    BY <1>0
  <2>3. obj'.fin = list
    BY <1>0, <2>1, <2>2, FinalizersForward
  <2> QED
    BY <2>3 DEF Ours, Foreign
<1>6. CASE PatchStatus
  <2>1. obj' = WithStatus(obj)
    BY <1>0, <1>6 DEF PatchStatus, GiveUp
  <2> QED
    BY <1>0, <2>1, WithStatusForward
<1>7. CASE HandlerWrites
  <2>1. PICK kind \in Writes : obj' = Written(kind)
    BY <1>7 DEF HandlerWrites
  <2> QED
    BY <1>0, <2>1, UpdateForward DEF Written
<1> QED
  BY <1>0, <1>1, <1>2, <1>3, <1>4, <1>5, <1>6, <1>7
     DEF ReconcilerNext, Environment, Loop, CacheSync, Resync, Crash, Start, RejectState,
         HandlerReturns, envVars, vars

\* Both finalizer patches write a whole list.  A finalizer of somebody else
\* is lost in them only if it was not on the list the reconcile had read.
THEOREM ForeignIsKept == ReconcilerSpec => ForeignFinalizerKept
<1>1. ReconcilerInit => TypeOK
  BY InitTyped
<1>2. TypeOK /\ [ReconcilerNext]_vars => TypeOK'
  BY StepTyped
<1>3. TypeOK /\ [ReconcilerNext]_vars
        => [(Foreign \in obj.fin \ obj'.fin)
              => budget'.ops < budget.ops \/ Foreign \notin rec.snap.fin]_vars
  BY StepForeignKept
<1> QED
  BY <1>1, <1>2, <1>3, PTL DEF ReconcilerSpec, ForeignFinalizerKept

----------------------------------------------------------------------------
(* The conditions claim no generation that no handler was given.           *)

\* The strengthening: so do the copies of the object; the stamp is never
\* taken off again; and by the time a handler runs, or has answered, the
\* generation it works on counts as handled.
Claimed(o) ==
  /\ o.ogen <= handled \/ o.stamp # "none" \/ o.state = ""
  /\ o.stamp # "none" => obj.stamp # "none"

GenerationsKnown ==
  /\ Claimed(obj) /\ Claimed(cache) /\ Claimed(rec.snap)
  /\ rec.pc = "handler" /\ Dispatch(rec.snap) \notin Unsupported => rec.snap.gen <= handled
  /\ Answering /\ rec.next # "" => rec.snap.gen <= handled \/ rec.snap.stamp # "none"

LEMMA InitGenerationsKnown == ReconcilerInit => GenerationsKnown
<1> SUFFICES ASSUME ReconcilerInit PROVE GenerationsKnown
  OBVIOUS
<1>1. obj.ogen = 0 /\ obj.stamp = "none" /\ cache = obj /\ handled = 0
  BY DEF ReconcilerInit, NewObject
<1> QED
  BY <1>1, IdleFields DEF ReconcilerInit, GenerationsKnown, Claimed, Answering

LEMMA AtMostTrans == \A a, b, c \in Nat : a <= b /\ b <= c => a <= c
OBVIOUS

\* A handler is reached through the finalizer; then it is left alone.
LEMMA StepToHandler ==
  TypeOK /\ [ReconcilerNext]_vars /\ rec'.pc = "handler" =>
    /\ handled <= handled'
    /\ \/ /\ rec.pc = "handler"
          /\ rec'.snap \in {rec.snap, Aged(rec.snap)}
       \/ /\ rec.pc = "finalizer" /\ rec'.snap = rec.snap
          /\ cache' = cache /\ queued' = queued /\ Ours \in rec.snap.fin
          /\ Dispatch(rec.snap) \notin Unsupported => rec.snap.gen <= handled'
<1> SUFFICES ASSUME TypeOK, [ReconcilerNext]_vars, rec'.pc = "handler"
             PROVE  /\ handled <= handled'
                    /\ \/ /\ rec.pc = "handler"
                          /\ rec'.snap \in {rec.snap, Aged(rec.snap)}
                       \/ /\ rec.pc = "finalizer" /\ rec'.snap = rec.snap
                          /\ cache' = cache /\ queued' = queued /\ Ours \in rec.snap.fin
                          /\ Dispatch(rec.snap) \notin Unsupported => rec.snap.gen <= handled'
  OBVIOUS
<1>0. /\ rec \in Records /\ rec.snap.gen \in Nat /\ handled \in Nat /\ rec' # Idle
  BY IdleFields DEF TypeOK, Records, Objects
<1>1. CASE rec' = rec /\ handled' = handled
  BY <1>0, <1>1
<1>2. CASE PeriodElapses
  <2>1. rec'.pc = rec.pc /\ rec'.snap = Aged(rec.snap) /\ handled' = handled
    BY <1>0, <1>2 DEF PeriodElapses, Records
  <2> QED
    BY <1>0, <2>1
<1>3. CASE EnsureFinalizers
  <2>0. ~GiveUp /\ ~Done(TRUE)
    BY <1>0 DEF GiveUp, Done
  <2>1. CASE Ours \in rec.snap.fin
    <3>1. /\ rec.pc = "finalizer" /\ rec'.snap = rec.snap
          /\ cache' = cache /\ queued' = queued
          /\ Ours \in rec.snap.fin
          /\ handled' = IF Dispatch(rec.snap) \in Unsupported \/ rec.snap.gen < handled
                        THEN handled ELSE rec.snap.gen
      BY <1>0, <1>3, <2>1 DEF EnsureFinalizers, Records
    <3> QED
      BY <1>0, <3>1, AtMostTrans
  <2>2. CASE Ours \notin rec.snap.fin
    <3>1. rec.pc = "finalizer" /\ rec' = [rec EXCEPT !.snap = obj']
      BY <1>3, <2>0, <2>2 DEF EnsureFinalizers
    <3>2. rec'.pc = "finalizer"
      BY <1>0, <3>1 DEF Records
    <3> QED
      BY <3>2
  <2> QED
    BY <2>1, <2>2
<1>4. CASE Start
  <2>1. rec' = [Idle EXCEPT !.pc = "finalizer", !.snap = cache]
    BY <1>0, <1>4 DEF Start
  <2>2. rec'.pc = "finalizer"
    BY <2>1 DEF Idle
  <2> QED
    BY <2>2
<1>5. CASE RejectState \/ Reapply \/ HandlerReturns
  <2>1. rec'.pc \in {"reapply", "settle"}
    BY <1>0, <1>5 DEF RejectState, Reapply, HandlerReturns, Returned, Records
  <2> QED
    BY <2>1
<1>6. CASE UnsetFinalizers \/ PatchStatus \/ Crash
  BY <1>0, <1>6 DEF UnsetFinalizers, PatchStatus, Crash, GiveUp, Done
<1> QED
  BY <1>1, <1>2, <1>3, <1>4, <1>5, <1>6
     DEF ReconcilerNext, Environment, Loop, CacheSync, Resync, User, HandlerWrites,
         envVars, vars

LEMMA HandledGrows == TypeOK /\ [ReconcilerNext]_vars => handled <= handled'
<1> SUFFICES ASSUME TypeOK, [ReconcilerNext]_vars PROVE handled <= handled'
  OBVIOUS
<1>0. handled \in Nat /\ rec.snap.gen \in Nat
  BY DEF TypeOK, Records, Objects
<1>1. CASE handled' = handled
  BY <1>0, <1>1
<1>2. CASE EnsureFinalizers
  <2>1. handled' = handled \/ (handled' = rec.snap.gen /\ ~(rec.snap.gen < handled))
    BY <1>2 DEF EnsureFinalizers, GiveUp
  <2> QED
    BY <1>0, <2>1
<1> QED
  BY <1>1, <1>2
     DEF ReconcilerNext, Environment, Loop, CacheSync, Resync, User, PeriodElapses, Crash,
         Start, RejectState, Reapply, UnsetFinalizers, PatchStatus, GiveUp,
         HandlerWrites, HandlerReturns, envVars, vars

\* A generation the conditions take over is one they claimed before.
LEMMA ContinuesFromAState == \A s, t : <<s, t>> \in Continues => s # ""
BY DEF Continues

LEMMA AgedDispatch ==
  ASSUME NEW o \in Objects
  PROVE  Dispatch(Aged(o)) = Dispatch(o)
BY AgedForward DEF Dispatch, SameStatus

LEMMA StepGenerationsKnown ==
  TypeOK /\ GenerationsKnown /\ [ReconcilerNext]_vars => GenerationsKnown'
<1> SUFFICES ASSUME TypeOK, GenerationsKnown, [ReconcilerNext]_vars PROVE GenerationsKnown'
  OBVIOUS
<1>0. /\ obj \in Objects /\ cache \in Objects /\ rec \in Records /\ rec.snap \in Objects
      /\ rec.snap.gen \in Nat /\ rec.snap.ogen \in Nat /\ handled \in Nat
  BY DEF TypeOK, Records, Objects
<1>1. /\ Forward(obj, obj') /\ (PatchStatus \/ SameStatus(obj, obj')) /\ CopiesMove
  BY StepMoves
<1>2. handled <= handled' /\ handled' \in Nat
  BY StepTyped, HandledGrows DEF TypeOK
<1>kept. rec.snap.gen <= handled => rec.snap.gen <= handled'
  BY <1>0, <1>2, AtMostTrans
<1>3. ASSUME NEW o \in Objects, Claimed(o)
      PROVE  /\ o.ogen <= handled' \/ o.stamp # "none" \/ o.state = ""
             /\ o.stamp # "none" => obj'.stamp # "none"
  <2>1. o.ogen \in Nat
    BY DEF Objects
  <2>2. o.ogen <= handled => o.ogen <= handled'
    BY <1>0, <1>2, <2>1, AtMostTrans
  <2> QED
    BY <1>1, <1>3, <2>2 DEF Claimed, Forward
<1>4. ASSUME NEW o \in Objects, Claimed(o)
      PROVE  /\ Aged(o).ogen <= handled' \/ Aged(o).stamp # "none" \/ Aged(o).state = ""
             /\ Aged(o).stamp # "none" => obj'.stamp # "none"
  BY <1>3, <1>4, AgedForward DEF SameStatus
<1>5. obj'.ogen <= handled' \/ obj'.stamp # "none" \/ obj'.state = ""
  <2>1. CASE PatchStatus /\ obj' # obj
    <3>1. obj' = WithStatus(obj) /\ Answering
      BY <2>1 DEF PatchStatus, GiveUp, Answering
    <3>2. /\ obj'.state = rec.next
          /\ obj'.ogen = ObservedGeneration(rec.snap, rec.next)
      BY <1>0, <3>1, WithStatusForward
    <3>3. rec.next # "" => rec.snap.gen <= handled \/ rec.snap.stamp # "none"
      BY <3>1 DEF GenerationsKnown
    <3>4. rec.snap.stamp # "none" => obj'.stamp # "none"
      BY <1>0, <1>3 DEF GenerationsKnown
    <3>5. CASE <<rec.snap.state, rec.next>> \in Continues /\ rec.snap.ready # "None"
      <4>1. obj'.ogen = rec.snap.ogen /\ rec.snap.state # ""
        BY <3>2, <3>5, ContinuesFromAState DEF ObservedGeneration
      <4> QED
        BY <1>0, <1>3, <3>4, <4>1 DEF GenerationsKnown
    <3>6. CASE ~(<<rec.snap.state, rec.next>> \in Continues /\ rec.snap.ready # "None")
      <4>1. obj'.ogen = rec.snap.gen
        BY <3>2, <3>6 DEF ObservedGeneration
      <4> QED
        BY <3>2, <3>3, <3>4, <4>1, <1>kept
    <3> QED
      BY <3>5, <3>6
  <2>2. CASE SameStatus(obj, obj') \/ obj' = obj
    <3>1. obj'.ogen = obj.ogen /\ obj'.state = obj.state
      BY <2>2 DEF SameStatus
    <3>2. obj.ogen <= handled' \/ obj.stamp # "none" \/ obj.state = ""
      BY <1>0, <1>3 DEF GenerationsKnown
    <3> QED
      BY <1>1, <3>1, <3>2 DEF Forward
  <2> QED
    BY <1>1, <2>1, <2>2
<1>6. Claimed(cache)'
  BY <1>0, <1>1, <1>3, <1>4 DEF CopiesMove, Claimed, GenerationsKnown
<1>7. Claimed(rec.snap)'
  <2>1. CASE rec'.snap \in {rec.snap, Aged(rec.snap), cache}
    BY <1>0, <1>3, <1>4, <2>1 DEF Claimed, GenerationsKnown
  <2>2. CASE rec'.snap = obj'
    BY <1>5, <2>2 DEF Claimed
  <2>3. CASE rec'.snap = Idle.snap
    <3>1. 0 <= handled'
      BY <1>2
    <3> QED
      BY <2>3, <3>1, IdleFields DEF Claimed
  <2> QED
    BY <1>1, <2>1, <2>2, <2>3 DEF CopiesMove
<1>8. rec'.pc = "handler" /\ Dispatch(rec'.snap) \notin Unsupported => rec'.snap.gen <= handled'
  <2> SUFFICES ASSUME rec'.pc = "handler", Dispatch(rec'.snap) \notin Unsupported
               PROVE  rec'.snap.gen <= handled'
    OBVIOUS
  <2>1. CASE rec.pc = "handler" /\ rec'.snap \in {rec.snap, Aged(rec.snap)}
    <3>1. rec'.snap.gen = rec.snap.gen /\ Dispatch(rec.snap) \notin Unsupported
      BY <1>0, <2>1, AgedForward, AgedDispatch
    <3>2. rec.snap.gen <= handled
      BY <2>1, <3>1 DEF GenerationsKnown
    <3> QED
      BY <1>kept, <3>1, <3>2
  <2>2. CASE rec'.snap = rec.snap /\ (Dispatch(rec.snap) \notin Unsupported => rec.snap.gen <= handled')
    BY <2>2
  <2> QED
    BY <2>1, <2>2, StepToHandler
<1>9. Answering' /\ rec'.next # "" => rec'.snap.gen <= handled' \/ rec'.snap.stamp # "none"
  <2> SUFFICES ASSUME Answering', rec'.next # ""
               PROVE  rec'.snap.gen <= handled' \/ rec'.snap.stamp # "none"
    OBVIOUS
  <2>1. CASE HandlerReturns
    <3>1. rec'.snap = rec.snap
      BY <1>0, <2>1 DEF HandlerReturns, Returned, Records
    <3>2. rec.snap.gen <= handled
      BY <2>1 DEF HandlerReturns, GenerationsKnown
    <3> QED
      BY <1>kept, <3>1, <3>2
  <2>2. CASE /\ Answering /\ rec'.next = rec.next
             /\ \/ rec'.snap \in {rec.snap, Aged(rec.snap)}
                \/ rec'.snap = obj' /\ obj'.stamp = "fresh"
    <3>1. rec.snap.gen <= handled' \/ rec.snap.stamp # "none"
      BY <1>kept, <2>2 DEF GenerationsKnown
    <3>2. Aged(rec.snap).gen = rec.snap.gen /\ (Aged(rec.snap).stamp = "none" <=> rec.snap.stamp = "none")
      BY <1>0, AgedForward
    <3> QED
      BY <2>2, <3>1, <3>2
  <2> QED
    BY <2>1, <2>2, StepAnswers DEF AnswerMoves
<1> QED
  BY <1>3, <1>5, <1>6, <1>7, <1>8, <1>9 DEF GenerationsKnown, Claimed

\* The observedGeneration of the conditions, outside the reapply and the
\* empty state, is a generation a handler was given.
THEOREM ObservedWasHandled == ReconcilerSpec => []ObservedGenerationWasHandled
<1>1. ReconcilerInit => TypeOK /\ GenerationsKnown
  BY InitTyped, InitGenerationsKnown
<1>2. TypeOK /\ GenerationsKnown /\ [ReconcilerNext]_vars => (TypeOK /\ GenerationsKnown)'
  BY StepTyped, StepGenerationsKnown
<1>3. GenerationsKnown => ObservedGenerationWasHandled
  BY DEF GenerationsKnown, Claimed, ObservedGenerationWasHandled
<1> QED
  BY <1>1, <1>2, <1>3, PTL DEF ReconcilerSpec

----------------------------------------------------------------------------
(* No wakeup is lost.                                                      *)

\* The strengthening: as long as the key is not in the queue, whatever the
\* cache shows was handled, or is in the hands of the reconcile in progress,
\* which handles it or puts the key back.
Awake ==
  CASE rec.pc = "idle"                   -> cache.skip \/ cache.gen <= handled
    [] rec.pc \in {"finalizer", "handler"} -> cache.gen <= rec.snap.gen
    [] rec.pc = "reapply"                -> cache.gen <= handled
    [] rec.pc = "settle"                 -> cache.gen <= handled
                                              \/ (rec.outcome = "retry" /\ rec.next = "")

NothingLost ==
  /\ 1 <= obj.gen /\ cache.gen <= obj.gen /\ rec.snap.gen <= obj.gen /\ handled <= obj.gen
  /\ obj.exists => cache.exists
  /\ ~queued /\ cache.exists => Awake

LEMMA InitNothingLost == ReconcilerInit => NothingLost
<1> SUFFICES ASSUME ReconcilerInit PROVE NothingLost
  OBVIOUS
<1>1. obj.gen = 1 /\ cache = obj /\ handled = 0 /\ queued = TRUE /\ rec = Idle
  BY DEF ReconcilerInit, NewObject
<1> QED
  BY <1>1, IdleFields DEF NothingLost

\* The generations of the copies are behind the one of the object.
LEMMA StepBehind ==
  TypeOK /\ NothingLost /\ [ReconcilerNext]_vars =>
    /\ 1 <= obj'.gen /\ cache'.gen <= obj'.gen
    /\ rec'.snap.gen <= obj'.gen /\ handled' <= obj'.gen
<1> SUFFICES ASSUME TypeOK, NothingLost, [ReconcilerNext]_vars
             PROVE  /\ 1 <= obj'.gen /\ cache'.gen <= obj'.gen
                    /\ rec'.snap.gen <= obj'.gen /\ handled' <= obj'.gen
  OBVIOUS
<1>0. /\ obj \in Objects /\ cache \in Objects /\ rec \in Records /\ rec.snap \in Objects
      /\ obj' \in Objects /\ handled \in Nat
  BY StepTyped DEF TypeOK, Records
<1>1. /\ obj.gen \in Nat /\ obj'.gen \in Nat /\ cache.gen \in Nat /\ rec.snap.gen \in Nat
      /\ obj.gen <= obj'.gen /\ CopiesMove
  BY <1>0, GenNat, StepMoves DEF Forward
<1>2. ASSUME NEW n \in Nat, n <= obj.gen PROVE n <= obj'.gen
  BY <1>1, <1>2, AtMostTrans
<1>3. /\ 1 <= obj'.gen /\ cache.gen <= obj'.gen /\ obj.gen <= obj'.gen /\ rec.snap.gen <= obj'.gen
      /\ handled <= obj'.gen /\ obj'.gen <= obj'.gen
  BY <1>0, <1>1, <1>2 DEF NothingLost
<1>4. Aged(cache).gen = cache.gen /\ Aged(rec.snap).gen = rec.snap.gen
  BY <1>0, AgedForward
<1>5. cache'.gen <= obj'.gen
  BY <1>1, <1>3, <1>4 DEF CopiesMove
<1>6. rec'.snap.gen <= obj'.gen
  <2>1. CASE rec'.snap = Idle.snap
    BY <1>3, <2>1, IdleFields
  <2> QED
    BY <1>1, <1>3, <1>4, <2>1 DEF CopiesMove
<1>7. handled' = handled \/ handled' = rec.snap.gen
  <2>1. CASE EnsureFinalizers
    BY <2>1 DEF EnsureFinalizers, GiveUp
  <2> QED
    BY <2>1
       DEF ReconcilerNext, Environment, Loop, CacheSync, Resync, User, PeriodElapses, Crash,
           Start, RejectState, Reapply, UnsetFinalizers, PatchStatus, GiveUp,
           HandlerWrites, HandlerReturns, envVars, vars
<1> QED
  BY <1>3, <1>5, <1>6, <1>7

\* The cache follows the server and does not invent objects.
LEMMA StepCached ==
  TypeOK /\ NothingLost /\ [ReconcilerNext]_vars => (obj'.exists => cache'.exists)
<1> SUFFICES ASSUME TypeOK, NothingLost, [ReconcilerNext]_vars, obj'.exists
             PROVE  cache'.exists
  OBVIOUS
<1>1. /\ cache \in Objects /\ obj \in Objects /\ obj' \in Objects
      /\ Forward(obj, obj') /\ CopiesMove
  BY StepTyped, StepMoves DEF TypeOK
<1>2. obj.exists /\ cache.exists
  BY <1>1 DEF Forward, NothingLost, Objects
<1>3. Aged(cache).exists = cache.exists
  BY <1>1, AgedForward
<1> QED
  BY <1>1, <1>2, <1>3 DEF CopiesMove

\* The steps that touch the cache or the queue but not the reconcile.
LEMMA EnvironmentAwake ==
  TypeOK /\ NothingLost /\ Environment /\ ~queued' /\ cache'.exists => Awake'
<1> SUFFICES ASSUME TypeOK, NothingLost, Environment, ~queued', cache'.exists
             PROVE  Awake'
  OBVIOUS
<1>0. /\ cache \in Objects /\ rec \in Records /\ rec.snap \in Objects
      /\ obj \in Objects /\ queued \in BOOLEAN
      /\ rec.pc \in {"idle", "finalizer", "handler", "reapply", "settle"}
  BY DEF TypeOK, Records
<1>1. CASE CacheSync
  <2>1. /\ cache' = obj /\ ~queued /\ ~Triggers(cache, obj) /\ obj.exists
        /\ rec' = rec /\ handled' = handled
    BY <1>1 DEF CacheSync
  <2>2. cache.exists /\ obj.gen = cache.gen /\ ~(cache.skip /\ ~obj.skip)
    BY <2>1 DEF Triggers, NothingLost
  <2>3. Awake
    BY <2>1, <2>2 DEF NothingLost
  <2> QED
    BY <1>0, <2>1, <2>2, <2>3 DEF Awake
<1>2. CASE Resync
  BY <1>2 DEF Resync
<1>3. CASE User
  <2>1. cache' = cache /\ queued' = queued /\ rec' = rec /\ handled' = handled
    BY <1>3 DEF User, envVars
  <2> QED
    BY <2>1 DEF Awake, NothingLost
<1>4. CASE PeriodElapses
  <2>1. /\ cache' = Aged(cache) /\ rec'.snap = Aged(rec.snap) /\ rec'.pc = rec.pc
        /\ rec'.next = rec.next /\ rec'.outcome = rec.outcome
        /\ queued' = queued /\ handled' = handled
    BY <1>0, <1>4 DEF PeriodElapses, Records
  <2>2. /\ cache'.gen = cache.gen /\ cache'.skip = cache.skip /\ cache'.exists = cache.exists
        /\ rec'.snap.gen = rec.snap.gen
    BY <1>0, <2>1, AgedForward
  <2>3. Awake
    BY <2>1, <2>2 DEF NothingLost
  <2> QED
    BY <1>0, <2>1, <2>2, <2>3 DEF Awake
<1>5. CASE Crash
  BY <1>5 DEF Crash
<1> QED
  BY <1>1, <1>2, <1>3, <1>4, <1>5 DEF Environment

LEMMA LoopAwake ==
  TypeOK /\ NothingLost /\ Loop /\ ~queued' /\ cache'.exists => Awake'
<1> SUFFICES ASSUME TypeOK, NothingLost, Loop, ~queued', cache'.exists
             PROVE  Awake'
  OBVIOUS
<1>0. /\ cache \in Objects /\ rec \in Records /\ obj \in Objects /\ rec.snap \in Objects
      /\ cache.gen \in Nat /\ rec.snap.gen \in Nat /\ handled \in Nat
  BY GenNat DEF TypeOK, Records
<1>1. ~Done(TRUE) /\ ~GiveUp
  BY DEF Done, GiveUp
<1>2. CASE Start
  <2>1. cache' = cache /\ cache.exists
    BY <1>2 DEF Start
  <2>2. CASE cache.skip
    <3>1. rec' = Idle
      BY <1>2, <2>2 DEF Start
    <3> QED
      BY <2>1, <2>2, <3>1, IdleFields DEF Awake
  <2>3. CASE ~cache.skip
    <3>1. rec' = [Idle EXCEPT !.pc = "finalizer", !.snap = cache]
      BY <1>2, <2>1, <2>3 DEF Start
    <3>2. rec'.pc = "finalizer" /\ rec'.snap = cache
      BY <3>1 DEF Idle
    <3>3. cache.gen <= cache.gen
      BY <1>0
    <3> QED
      BY <2>1, <3>2, <3>3 DEF Awake
  <2> QED
    BY <2>2, <2>3
<1>3. CASE EnsureFinalizers
  <2>1. rec.pc = "finalizer" /\ cache' = cache /\ queued' = queued
    BY <1>1, <1>3 DEF EnsureFinalizers
  <2>2. cache.gen <= rec.snap.gen
    BY <2>1 DEF NothingLost, Awake
  <2>3. CASE Ours \in rec.snap.fin
    <3>1. rec'.pc = "handler" /\ rec'.snap = rec.snap
      BY <1>0, <1>1, <1>3, <2>3 DEF EnsureFinalizers, Records
    <3> QED
      BY <2>1, <2>2, <3>1 DEF Awake
  <2>4. CASE Ours \notin rec.snap.fin
    <3> DEFINE list == WithOurs(rec.snap)
    <3>1. obj' = [obj EXCEPT !.fin = list] /\ rec' = [rec EXCEPT !.snap = obj']
      BY <1>1, <1>3, <2>4 DEF EnsureFinalizers
    <3>2. rec'.pc = "finalizer" /\ rec'.snap = obj' /\ obj'.gen = obj.gen
      BY <1>0, <2>1, <3>1 DEF Records, Objects
    <3>3. cache.gen <= obj'.gen
      BY <3>2 DEF NothingLost
    <3> QED
      BY <2>1, <3>2, <3>3 DEF Awake
  <2> QED
    BY <2>3, <2>4
<1>4. CASE RejectState
  <2>1. rec'.pc = "settle" /\ rec'.outcome = "retry" /\ rec'.next = ""
    BY <1>0, <1>4 DEF RejectState, Records
  <2> QED
    BY <2>1 DEF Awake
<1>5. CASE Reapply
  <2>1. /\ rec.pc = "reapply" /\ rec'.pc = "settle" /\ cache' = cache
        /\ queued' = queued /\ handled' = handled
    BY <1>0, <1>5 DEF Reapply, Records, envVars
  <2>2. cache.gen <= handled
    BY <2>1 DEF NothingLost, Awake
  <2> QED
    BY <2>1, <2>2 DEF Awake
<1>6. CASE UnsetFinalizers \/ PatchStatus
  <2>1. /\ rec.pc = "settle" /\ rec' = Idle /\ cache' = cache /\ handled' = handled
        /\ ~queued
    BY <1>1, <1>6 DEF UnsetFinalizers, PatchStatus, Done
  <2>2. ~(rec.outcome = "retry" /\ rec.next = "")
    BY <1>1, <1>6 DEF UnsetFinalizers, PatchStatus, Done
  <2>3. cache.gen <= handled
    BY <2>1, <2>2 DEF NothingLost, Awake
  <2> QED
    BY <2>1, <2>3, IdleFields DEF Awake
<1> QED
  BY <1>2, <1>3, <1>4, <1>5, <1>6 DEF Loop

LEMMA StepNothingLost ==
  TypeOK /\ GenerationsKnown /\ NothingLost /\ [ReconcilerNext]_vars => NothingLost'
<1> SUFFICES ASSUME TypeOK, GenerationsKnown, NothingLost, [ReconcilerNext]_vars
             PROVE  NothingLost'
  OBVIOUS
<1>0. /\ cache.gen \in Nat /\ rec.snap.gen \in Nat /\ handled \in Nat /\ rec \in Records
      /\ rec.pc \in {"idle", "finalizer", "handler", "reapply", "settle"}
  BY GenNat DEF TypeOK, Records
<1>1. ~queued' /\ cache'.exists => Awake'
  <2> SUFFICES ASSUME ~queued', cache'.exists PROVE Awake'
    OBVIOUS
  <2>1. CASE UNCHANGED <<cache, queued, rec, handled>>
    BY <2>1 DEF Awake, NothingLost
  <2>2. CASE HandlerReturns
    <3>1. /\ rec'.pc = "reapply" /\ rec.pc = "handler" /\ cache' = cache
          /\ queued' = queued /\ handled' = handled
      BY <1>0, <2>2 DEF HandlerReturns, Returned, Records, envVars
    <3>2. cache.gen <= rec.snap.gen /\ rec.snap.gen <= handled
      BY <2>2, <3>1 DEF HandlerReturns, NothingLost, Awake, GenerationsKnown
    <3>3. cache.gen <= handled
      BY <1>0, <3>2, AtMostTrans
    <3> QED
      BY <3>1, <3>3 DEF Awake
  <2> QED
    BY <2>1, <2>2, EnvironmentAwake, LoopAwake
       DEF ReconcilerNext, HandlerWrites, envVars, vars
<1> QED
  BY <1>1, StepBehind, StepCached DEF NothingLost

\* When nothing is left to do, the last generation of the object has been
\* given to a handler, or the user asked for the object to be skipped.
THEOREM NoWakeupIsLost == ReconcilerSpec => []QuiescentMeansHandled
<1>1. ReconcilerInit => TypeOK /\ GenerationsKnown /\ NothingLost
  BY InitTyped, InitGenerationsKnown, InitNothingLost
<1>2. TypeOK /\ GenerationsKnown /\ NothingLost /\ [ReconcilerNext]_vars
        => (TypeOK /\ GenerationsKnown /\ NothingLost)'
  BY StepTyped, StepGenerationsKnown, StepNothingLost
<1>3. TypeOK /\ NothingLost => QuiescentMeansHandled
  <2> SUFFICES ASSUME TypeOK, NothingLost, rec.pc = "idle", ~queued, cache = obj,
                      obj.exists, ~obj.skip
               PROVE  handled = obj.gen
    BY DEF QuiescentMeansHandled
  <2>1. obj.gen <= handled /\ handled <= obj.gen
    BY DEF NothingLost, Awake
  <2>2. obj.gen \in Nat /\ handled \in Nat
    BY GenNat DEF TypeOK
  <2> QED
    BY <2>1, <2>2
<1> QED
  BY <1>1, <1>2, <1>3, PTL DEF ReconcilerSpec

----------------------------------------------------------------------------
(* As long as no reconcile has read a lagging cache, handlers run under    *)
(* the finalizer of the operator.                                          *)

UnderFinalizer ==
  /\ obj.fin # {} => obj.exists
  /\ budget.stale <= MaxStale
  /\ rec.pc = "handler" => Ours \in rec.snap.fin
  /\ FreshReads /\ rec.pc \in {"finalizer", "handler"} /\ Ours \in rec.snap.fin => Ours \in obj.fin

LEMMA InitUnderFinalizer == ReconcilerInit => UnderFinalizer
<1> SUFFICES ASSUME ReconcilerInit PROVE UnderFinalizer
  OBVIOUS
<1>1. obj.fin = {} /\ budget.stale = MaxStale /\ rec = Idle
  BY DEF ReconcilerInit, NewObject
<1>2. MaxStale <= MaxStale
  BY BoundsAreNatural
<1> QED
  BY <1>1, <1>2, IdleFields DEF UnderFinalizer

\* An object goes only with the last finalizer of a deletion.
LEMMA StoredGone ==
  ASSUME NEW o \in Objects, o.exists, ~Stored(o).exists
  PROVE  Stored(o).fin = {}
<1>1. o.deleting /\ o.fin = {}
  BY DEF Stored
<1> QED
  BY <1>1, StoredForward

LEMMA StepGone ==
  TypeOK /\ [ReconcilerNext]_vars /\ obj.exists /\ ~obj'.exists => obj'.fin = {}
<1> SUFFICES ASSUME TypeOK, [ReconcilerNext]_vars, obj.exists, ~obj'.exists
             PROVE  obj'.fin = {}
  OBVIOUS
<1>0. /\ obj \in Objects /\ rec \in Records /\ rec.snap \in Objects /\ obj' # obj
      /\ obj.fin \in SUBSET Finalizers /\ rec.snap.fin \in SUBSET Finalizers
  BY DEF TypeOK, Records, Objects
<1>1. ASSUME NEW p \in Objects, p.exists = obj.exists, obj' = Stored(p)
      PROVE  obj'.fin = {}
  BY <1>1, StoredGone
<1>2. CASE RequestDeletion
  <2> DEFINE p == [obj EXCEPT !.deleting = TRUE, !.gen = obj.gen + 1]
  <2>1. obj.gen + 1 \in Nat
    BY GenNat, <1>0
  <2>2. p \in Objects
    BY <1>0, <2>1, UpdateTyped
  <2>3. p.exists = obj.exists
    BY <1>0 DEF Objects
  <2>4. obj' = Stored(p)
    BY <1>2 DEF RequestDeletion
  <2> QED
    BY <1>1, <2>2, <2>3, <2>4
<1>3. CASE RemoveForeignFinalizer \/ UnsetFinalizers
  <2>1. PICK list \in SUBSET Finalizers : obj' = Stored([obj EXCEPT !.fin = list])
    <3>1. obj.fin \ {Foreign} \in SUBSET Finalizers /\ rec.snap.fin \ {Ours} \in SUBSET Finalizers
      BY <1>0
    <3>2. \/ obj' = Stored([obj EXCEPT !.fin = obj.fin \ {Foreign}])
          \/ obj' = Stored([obj EXCEPT !.fin = rec.snap.fin \ {Ours}])
      BY <1>0, <1>3 DEF RemoveForeignFinalizer, UnsetFinalizers, GiveUp
    <3> QED
      BY <3>1, <3>2
  <2>2. [obj EXCEPT !.fin = list].exists = obj.exists
    BY <1>0 DEF Objects
  <2>3. [obj EXCEPT !.fin = list] \in Objects
    BY <1>0, UpdateTyped
  <2> QED
    BY <1>1, <2>1, <2>2, <2>3
<1>4. ~(EditSpec \/ ToggleSkip \/ ToggleKeep \/ ChangePeriod \/ AddForeignFinalizer)
  <2>1. obj.gen + 1 \in Nat /\ obj.fin \cup {Foreign} \in SUBSET Finalizers
    BY <1>0, GenNat DEF Finalizers
  <2> QED
    BY <1>0, <2>1 DEF EditSpec, ToggleSkip, ToggleKeep, ChangePeriod, AddForeignFinalizer, Objects
<1>5. ~(EnsureFinalizers \/ Reapply \/ HandlerWrites)
  BY <1>0 DEF EnsureFinalizers, GiveUp, Reapply, HandlerWrites, Written, Objects
<1>6. ~PatchStatus
  BY <1>0 DEF PatchStatus, GiveUp, WithStatus, Objects
<1>7. ~PeriodElapses
  BY <1>0, AgedForward DEF PeriodElapses
<1> QED
  BY <1>0, <1>2, <1>3, <1>4, <1>5, <1>6, <1>7
     DEF ReconcilerNext, Environment, Loop, CacheSync, Resync, User, Crash, Start,
         RejectState, HandlerReturns, envVars, vars

\* What is gone stays as it was.
LEMMA StepGoneStays ==
  TypeOK /\ [ReconcilerNext]_vars /\ ~obj.exists => obj' = obj \/ obj' = Aged(obj)
BY DEF TypeOK, ReconcilerNext, Environment, Loop, CacheSync, Resync, User, PeriodElapses,
       Crash, Start, EnsureFinalizers, MayReplaceFinalizers, RejectState, Reapply,
       UnsetFinalizers, PatchStatus, GiveUp, HandlerWrites, HandlerReturns, envVars, vars

LEMMA StepFinalizerExists ==
  TypeOK /\ UnderFinalizer /\ [ReconcilerNext]_vars => (obj'.fin # {} => obj'.exists)
<1> SUFFICES ASSUME TypeOK, UnderFinalizer, [ReconcilerNext]_vars, obj'.fin # {}
             PROVE  obj'.exists
  OBVIOUS
<1>1. obj \in Objects
  BY DEF TypeOK
<1>2. CASE obj.exists
  BY <1>2, StepGone
<1>3. CASE ~obj.exists
  <2>1. obj'.fin = obj.fin
    BY <1>1, <1>3, StepGoneStays, AgedForward
  <2> QED
    BY <1>3, <2>1 DEF UnderFinalizer
<1> QED
  BY <1>2, <1>3

\* The budget of stale reads is never refilled, and a reconcile that starts
\* from a lagging cache takes from it.
LEMMA StepStale ==
  TypeOK /\ UnderFinalizer /\ [ReconcilerNext]_vars =>
    /\ budget'.stale <= MaxStale
    /\ FreshReads' => FreshReads /\ (Start => cache = obj)
<1> SUFFICES ASSUME TypeOK, UnderFinalizer, [ReconcilerNext]_vars
             PROVE  /\ budget'.stale <= MaxStale
                    /\ FreshReads' => FreshReads /\ (Start => cache = obj)
  OBVIOUS
<1>0. budget \in [ops : Nat, faults : Nat, stale : Nat] /\ MaxStale \in Nat
  BY BoundsAreNatural DEF TypeOK
<1>1. budget'.stale = budget.stale \/ Spend("stale")
  BY <1>0 DEF ReconcilerNext, Environment, Loop, CacheSync, Resync, User, PeriodElapses,
       Crash, Start, EnsureFinalizers, RejectState, Reapply, UnsetFinalizers, PatchStatus,
       GiveUp, Spend, HandlerWrites, HandlerReturns, envVars, vars
<1>2. Spend("stale") => budget'.stale = budget.stale - 1 /\ budget.stale > 0
  BY <1>0 DEF Spend
<1>3. Start => cache = obj \/ Spend("stale")
  BY DEF Start
<1>4. budget.stale \in Nat /\ budget.stale <= MaxStale
  BY <1>0 DEF UnderFinalizer
<1> QED
  BY <1>0, <1>1, <1>2, <1>3, <1>4 DEF FreshReads

\* A reconcile is in front of its handler because it has just started, has
\* just put the finalizer on, or was there before.
LEMMA StepToFinalizer ==
  TypeOK /\ [ReconcilerNext]_vars /\ rec'.pc = "finalizer" =>
    \/ rec.pc = "finalizer" /\ rec'.snap \in {rec.snap, Aged(rec.snap)}
    \/ rec'.snap = obj'
    \/ Start /\ rec'.snap = cache /\ obj' = obj
<1> SUFFICES ASSUME TypeOK, [ReconcilerNext]_vars, rec'.pc = "finalizer"
             PROVE  \/ rec.pc = "finalizer" /\ rec'.snap \in {rec.snap, Aged(rec.snap)}
                    \/ rec'.snap = obj'
                    \/ Start /\ rec'.snap = cache /\ obj' = obj
  OBVIOUS
<1>0. rec \in Records /\ rec' # Idle
  BY IdleFields DEF TypeOK
<1>1. CASE rec' = rec
  BY <1>1
<1>2. CASE PeriodElapses
  BY <1>0, <1>2 DEF PeriodElapses, Records
<1>3. CASE Start
  <2>1. rec' = [Idle EXCEPT !.pc = "finalizer", !.snap = cache]
    BY <1>0, <1>3 DEF Start
  <2> QED
    BY <1>3, <2>1 DEF Start, Idle
<1>4. CASE EnsureFinalizers
  <2>1. rec' = [rec EXCEPT !.pc = "handler"] \/ rec' = [rec EXCEPT !.snap = obj']
    BY <1>0, <1>4 DEF EnsureFinalizers, GiveUp, Done
  <2> QED
    BY <1>0, <2>1 DEF Records
<1>5. ~(RejectState \/ Reapply \/ HandlerReturns)
  BY <1>0 DEF RejectState, Reapply, HandlerReturns, Returned, Records
<1>6. ~(UnsetFinalizers \/ PatchStatus \/ Crash)
  BY <1>0 DEF UnsetFinalizers, PatchStatus, Crash, GiveUp, Done
<1> QED
  BY <1>1, <1>2, <1>3, <1>4, <1>5, <1>6
     DEF ReconcilerNext, Environment, Loop, CacheSync, Resync, User, HandlerWrites,
         envVars, vars

LEMMA StepUnderFinalizer ==
  TypeOK /\ UnderFinalizer /\ [ReconcilerNext]_vars => UnderFinalizer'
<1> SUFFICES ASSUME TypeOK, UnderFinalizer, [ReconcilerNext]_vars PROVE UnderFinalizer'
  OBVIOUS
<1>0. rec.snap \in Objects
  BY DEF TypeOK, Records
<1>1. Aged(rec.snap).fin = rec.snap.fin
  BY <1>0, AgedForward
<1>2. rec'.pc = "handler" => Ours \in rec.snap.fin /\ rec'.snap.fin = rec.snap.fin
  BY <1>1, StepToHandler DEF UnderFinalizer
<1>3. ASSUME FreshReads', rec'.pc \in {"finalizer", "handler"}, Ours \in rec'.snap.fin
      PROVE  Ours \in obj'.fin
  <2>1. FreshReads /\ (Start => cache = obj)
    BY <1>3, StepStale
  <2>2. CASE rec.pc \in {"finalizer", "handler"} /\ rec'.snap.fin = rec.snap.fin
    <3>1. Ours \in obj.fin /\ ~UnsetFinalizers
      BY <1>3, <2>1, <2>2 DEF UnderFinalizer, UnsetFinalizers
    <3> QED
      BY <3>1, OursLeaves
  <2>3. CASE rec'.snap = obj'
    BY <1>3, <2>3
  <2>4. CASE Start /\ rec'.snap = cache /\ obj' = obj
    BY <1>3, <2>1, <2>4
  <2> QED
    BY <1>1, <1>3, <2>2, <2>3, <2>4, StepToFinalizer, StepToHandler
<1> QED
  BY <1>2, <1>3, StepFinalizerExists, StepStale DEF UnderFinalizer

----------------------------------------------------------------------------
(* The deletion policy of an object that is being deleted is known.        *)

SameKeep(o, p) == p.keep = o.keep

KeepKnown ==
  /\ cache.deleting => SameKeep(obj, cache)
  /\ rec.snap.deleting => SameKeep(obj, rec.snap)

LEMMA InitKeepKnown == ReconcilerInit => KeepKnown
BY IdleFields DEF ReconcilerInit, KeepKnown, NewObject

\* No write but that of the policy itself changes it.
LEMMA UpdateKeep ==
  ASSUME NEW o \in Objects
  PROVE  /\ \A n : SameKeep(o, [o EXCEPT !.gen = n])
         /\ \A b : SameKeep(o, [o EXCEPT !.skip = b])
         /\ \A b : SameKeep(o, [o EXCEPT !.period = b])
         /\ \A n : SameKeep(o, [o EXCEPT !.tracker = n])
         /\ SameKeep(o, [o EXCEPT !.recorded = TRUE])
         /\ \A t : SameKeep(o, [o EXCEPT !.stamp = t])
         /\ \A f : SameKeep(o, [o EXCEPT !.fin = f])
         /\ SameKeep(o, [o EXCEPT !.exists = FALSE])
<1>1. \A n : SameKeep(o, [o EXCEPT !.gen = n])
  BY DEF Objects, SameKeep
<1>2. \A b : SameKeep(o, [o EXCEPT !.skip = b])
  BY DEF Objects, SameKeep
<1>3. \A b : SameKeep(o, [o EXCEPT !.period = b])
  BY DEF Objects, SameKeep
<1>4. \A n : SameKeep(o, [o EXCEPT !.tracker = n])
  BY DEF Objects, SameKeep
<1>5. SameKeep(o, [o EXCEPT !.recorded = TRUE])
  BY DEF Objects, SameKeep
<1>6. \A t : SameKeep(o, [o EXCEPT !.stamp = t])
  BY DEF Objects, SameKeep
<1>7. \A f : SameKeep(o, [o EXCEPT !.fin = f])
  BY DEF Objects, SameKeep
<1>8. SameKeep(o, [o EXCEPT !.exists = FALSE])
  BY DEF Objects, SameKeep
<1> QED
  BY <1>1, <1>2, <1>3, <1>4, <1>5, <1>6, <1>7, <1>8

LEMMA CopyKeep ==
  ASSUME NEW o \in Objects
  PROVE  SameKeep(o, o) /\ SameKeep(o, Stored(o)) /\ SameKeep(o, Aged(o))
<1>1. SameKeep(o, o)
  BY DEF SameKeep
<1> QED
  BY <1>1, UpdateKeep DEF Stored, Aged

\* Once the deletion is requested nobody changes the policy.
LEMMA StepKeep ==
  TypeOK /\ [ReconcilerNext]_vars /\ (obj.deleting \/ "keep" \notin Ops) => SameKeep(obj, obj')
<1> SUFFICES ASSUME TypeOK, [ReconcilerNext]_vars, obj.deleting \/ "keep" \notin Ops
             PROVE  SameKeep(obj, obj')
  OBVIOUS
<1>0. obj \in Objects /\ rec.snap \in Objects
  BY DEF TypeOK, Records
<1>a. SameKeep(obj, obj)
  BY <1>0, CopyKeep
<1>b. ASSUME NEW list \in SUBSET Finalizers
      PROVE  SameKeep(obj, Stored([obj EXCEPT !.fin = list]))
  <2> DEFINE p == [obj EXCEPT !.fin = list]
  <2>1. p \in Objects /\ SameKeep(obj, p)
    BY <1>0, UpdateTyped, UpdateKeep
  <2>2. SameKeep(p, Stored(p))
    <3> HIDE DEF p
    <3> QED
      BY <2>1, CopyKeep
  <2> QED
    BY <2>1, <2>2 DEF SameKeep
<1>1. CASE RemoveForeignFinalizer
  <2>1. obj.fin \ {Foreign} \in SUBSET Finalizers
    BY <1>0 DEF Objects
  <2> QED
    BY <1>1, <1>b, <2>1 DEF RemoveForeignFinalizer
<1>2. CASE UnsetFinalizers
  <2>1. rec.snap.fin \ {Ours} \in SUBSET Finalizers
    BY <1>0 DEF Objects
  <2> QED
    BY <1>2, <1>a, <1>b, <2>1 DEF UnsetFinalizers, GiveUp
<1>3. CASE EditSpec \/ ToggleSkip \/ ChangePeriod \/ AddForeignFinalizer
  BY <1>0, <1>3, UpdateKeep DEF EditSpec, ToggleSkip, ChangePeriod, AddForeignFinalizer
<1>4. CASE RequestDeletion
  <2> DEFINE p == [obj EXCEPT !.deleting = TRUE, !.gen = obj.gen + 1]
  <2>1. obj.gen + 1 \in Nat
    BY <1>0, GenNat
  <2>a. p \in Objects
    BY <1>0, <2>1, UpdateTyped
  <2>2. p \in Objects /\ SameKeep(obj, p)
    BY <1>0, <2>a DEF Objects, SameKeep
  <2>3. SameKeep(p, Stored(p))
    <3> HIDE DEF p
    <3> QED
      BY <2>2, CopyKeep
  <2>4. obj' = Stored(p)
    BY <1>4 DEF RequestDeletion
  <2> QED
    BY <2>2, <2>3, <2>4 DEF SameKeep
<1>11. ~ToggleKeep
  BY DEF ToggleKeep
<1>5. CASE EnsureFinalizers
  <2>1. obj' = obj \/ obj' = [obj EXCEPT !.fin = WithOurs(rec.snap)]
    BY <1>5 DEF EnsureFinalizers, GiveUp
  <2> QED
    BY <1>0, <1>a, <2>1, UpdateKeep
<1>6. CASE Reapply
  <2>1. obj' = obj \/ obj' = [obj EXCEPT !.stamp = "fresh"]
    BY <1>6 DEF Reapply
  <2>2. SameKeep(obj, [obj EXCEPT !.stamp = "fresh"])
    BY <1>0, UpdateKeep
  <2> QED
    BY <1>a, <2>1, <2>2
<1>7. CASE HandlerWrites
  BY <1>0, <1>7, UpdateKeep DEF HandlerWrites, Written
<1>8. CASE PatchStatus
  <2>1. SameKeep(obj, WithStatus(obj))
    BY <1>0 DEF WithStatus, Objects, SameKeep
  <2> QED
    BY <1>a, <1>8, <2>1 DEF PatchStatus, GiveUp
<1>9. CASE PeriodElapses
  BY <1>0, <1>9, CopyKeep DEF PeriodElapses
<1>10. CASE CacheSync \/ Resync \/ Crash \/ Start \/ RejectState \/ HandlerReturns \/ UNCHANGED vars
  BY <1>a, <1>10 DEF CacheSync, Resync, Crash, Start, RejectState, HandlerReturns, vars
<1> QED
  BY <1>1, <1>2, <1>3, <1>4, <1>5, <1>6, <1>7, <1>8, <1>9, <1>10, <1>11
     DEF ReconcilerNext, Environment, Loop, User

LEMMA StepKeepKnown ==
  TypeOK /\ DeletionKnown /\ KeepKnown /\ [ReconcilerNext]_vars => KeepKnown'
<1> SUFFICES ASSUME TypeOK, DeletionKnown, KeepKnown, [ReconcilerNext]_vars PROVE KeepKnown'
  OBVIOUS
<1>1. cache \in Objects /\ rec.snap \in Objects
  BY DEF TypeOK, Records
<1> DEFINE Known(o) == o.deleting => SameKeep(obj', o)
<1>2. obj.deleting => SameKeep(obj, obj')
  BY StepKeep
<1>3. ASSUME NEW o \in Objects, o.deleting => obj.deleting, o.deleting => SameKeep(obj, o)
      PROVE  Known(o) /\ Known(Aged(o))
  <2>1. Known(o)
    BY <1>2, <1>3 DEF SameKeep
  <2>2. (Aged(o).deleting => o.deleting) /\ SameKeep(o, Aged(o))
    BY CopyKeep, AgedForward
  <2> QED
    BY <2>1, <2>2 DEF SameKeep
<1>4. Known(cache) /\ Known(Aged(cache)) /\ Known(rec.snap) /\ Known(Aged(rec.snap))
  BY <1>1, <1>3 DEF DeletionKnown, Asked, KeepKnown
<1>5. Known(obj) /\ Known(obj') /\ Known(Idle.snap)
  BY <1>2, IdleFields DEF SameKeep
<1>6. CopiesMove
  BY StepMoves
<1>7. Known(cache') /\ Known(rec'.snap)
  <2> HIDE DEF Known
  <2> QED
    BY <1>4, <1>5, <1>6 DEF CopiesMove
<1> QED
  BY <1>7 DEF KeepKnown

----------------------------------------------------------------------------
(* What handlers write on the object, and what the user asked to import.   *)

SameWork(o, p) ==
  p.recorded = o.recorded /\ p.tracker = o.tracker /\ p.external = o.external

\* No write but that of the record changes it, and none the annotations.
LEMMA UpdateWork ==
  ASSUME NEW o \in Objects
  PROVE  /\ \A n : SameWork(o, [o EXCEPT !.gen = n])
         /\ \A n : SameWork(o, [o EXCEPT !.deleting = TRUE, !.gen = n])
         /\ \A b : SameWork(o, [o EXCEPT !.skip = b])
         /\ \A b : SameWork(o, [o EXCEPT !.keep = b])
         /\ \A b : SameWork(o, [o EXCEPT !.period = b])
         /\ \A t : SameWork(o, [o EXCEPT !.stamp = t])
         /\ \A f : SameWork(o, [o EXCEPT !.fin = f])
         /\ SameWork(o, [o EXCEPT !.exists = FALSE])
         /\ \A n : LET p == [o EXCEPT !.tracker = n]
                  IN  p.external = o.external /\ p.recorded = o.recorded /\ p.tracker = n
         /\ LET p == [o EXCEPT !.recorded = TRUE]
            IN  p.external = o.external /\ p.tracker = o.tracker /\ p.recorded = TRUE
<1>1. \A n : SameWork(o, [o EXCEPT !.gen = n])
  BY DEF Objects, SameWork
<1>2. \A n : SameWork(o, [o EXCEPT !.deleting = TRUE, !.gen = n])
  BY DEF Objects, SameWork
<1>3. \A b : SameWork(o, [o EXCEPT !.skip = b])
  BY DEF Objects, SameWork
<1>4. \A b : SameWork(o, [o EXCEPT !.keep = b])
  BY DEF Objects, SameWork
<1>5. \A b : SameWork(o, [o EXCEPT !.period = b])
  BY DEF Objects, SameWork
<1>6. \A n : LET p == [o EXCEPT !.tracker = n]
            IN  p.external = o.external /\ p.recorded = o.recorded /\ p.tracker = n
  BY DEF Objects
<1>7. \A t : SameWork(o, [o EXCEPT !.stamp = t])
  BY DEF Objects, SameWork
<1>8. \A f : SameWork(o, [o EXCEPT !.fin = f])
  BY DEF Objects, SameWork
<1>9. SameWork(o, [o EXCEPT !.exists = FALSE])
  BY DEF Objects, SameWork
<1>10. LET p == [o EXCEPT !.recorded = TRUE]
       IN  p.external = o.external /\ p.tracker = o.tracker /\ p.recorded = TRUE
  BY DEF Objects
<1> QED
  BY <1>1, <1>2, <1>3, <1>4, <1>5, <1>6, <1>7, <1>8, <1>9, <1>10

LEMMA CopyWork ==
  ASSUME NEW o \in Objects
  PROVE  SameWork(o, o) /\ SameWork(o, Stored(o)) /\ SameWork(o, Aged(o))
<1>1. SameWork(o, o)
  BY DEF SameWork
<1> QED
  BY <1>1, UpdateWork DEF Stored, Aged

LEMMA UserWork == TypeOK /\ User => SameWork(obj, obj')
<1> SUFFICES ASSUME TypeOK, User PROVE SameWork(obj, obj')
  OBVIOUS
<1>0. obj \in Objects /\ obj.gen + 1 \in Nat
  BY GenNat DEF TypeOK
<1>1. ASSUME NEW p \in Objects, SameWork(obj, p), obj' = Stored(p)
      PROVE  SameWork(obj, obj')
  BY <1>1, CopyWork DEF SameWork
<1>2. CASE RequestDeletion
  <2> DEFINE p == [obj EXCEPT !.deleting = TRUE, !.gen = obj.gen + 1]
  <2>1. p \in Objects /\ SameWork(obj, p)
    BY <1>0, UpdateTyped, UpdateWork
  <2>2. obj' = Stored(p)
    BY <1>2 DEF RequestDeletion
  <2> QED
    BY <1>1, <2>1, <2>2
<1>3. CASE RemoveForeignFinalizer
  <2> DEFINE p == [obj EXCEPT !.fin = obj.fin \ {Foreign}]
  <2>1. obj.fin \ {Foreign} \in SUBSET Finalizers
    BY <1>0 DEF Objects
  <2>2. p \in Objects /\ SameWork(obj, p)
    BY <1>0, <2>1, UpdateTyped, UpdateWork
  <2>3. obj' = Stored(p)
    BY <1>3 DEF RemoveForeignFinalizer
  <2> QED
    BY <1>1, <2>2, <2>3
<1>4. CASE EditSpec \/ ToggleSkip \/ ToggleKeep
  BY <1>0, <1>4 DEF EditSpec, ToggleSkip, ToggleKeep, Objects, SameWork
<1>5. CASE ChangePeriod \/ AddForeignFinalizer
  BY <1>0, <1>5 DEF ChangePeriod, AddForeignFinalizer, Objects, SameWork
<1> QED
  BY <1>2, <1>3, <1>4, <1>5 DEF User

\* The loop writes neither.
LEMMA LoopWork == TypeOK /\ (Environment \/ Loop) => SameWork(obj, obj')
<1> SUFFICES ASSUME TypeOK, Environment \/ Loop, ~SameWork(obj, obj')
             PROVE  FALSE
  OBVIOUS
<1>0. /\ obj \in Objects /\ rec.snap \in Objects
      /\ obj.fin \in SUBSET Finalizers /\ rec.snap.fin \in SUBSET Finalizers
  BY DEF TypeOK, Records, Objects
<1>1. obj' # obj
  BY <1>0, CopyWork
<1>2. ~User
  BY UserWork
<1>3. ~PeriodElapses
  BY <1>0, CopyWork DEF PeriodElapses
<1>4. ~EnsureFinalizers
  <2>1. \A f : SameWork(obj, [obj EXCEPT !.fin = f])
    BY <1>0, UpdateWork
  <2>2. SameWork(obj, [obj EXCEPT !.fin = WithOurs(rec.snap)])
    BY <2>1
  <2> QED
    BY <1>1, <2>2 DEF EnsureFinalizers, GiveUp
<1>5. ~Reapply
  <2>1. SameWork(obj, [obj EXCEPT !.stamp = "fresh"])
    BY <1>0, UpdateWork
  <2> QED
    BY <1>1, <2>1 DEF Reapply
<1>6. ~UnsetFinalizers
  <2> DEFINE p == [obj EXCEPT !.fin = rec.snap.fin \ {Ours}]
  <2>1. rec.snap.fin \ {Ours} \in SUBSET Finalizers
    BY <1>0
  <2>2. p \in Objects /\ SameWork(obj, p)
    BY <1>0, <2>1, UpdateTyped, UpdateWork
  <2>3. SameWork(p, Stored(p))
    <3> HIDE DEF p
    <3> QED
      BY <2>2, CopyWork
  <2>4. obj' # Stored(p)
    BY <2>2, <2>3 DEF SameWork
  <2> QED
    BY <1>1, <2>4 DEF UnsetFinalizers, GiveUp
<1>7. ~PatchStatus
  <2>1. SameWork(obj, WithStatus(obj))
    BY <1>0 DEF WithStatus, Objects, SameWork
  <2> QED
    BY <1>1, <2>1 DEF PatchStatus, GiveUp
<1> QED
  BY <1>1, <1>2, <1>3, <1>4, <1>5, <1>6, <1>7
     DEF Environment, Loop, CacheSync, Resync, Crash, Start, RejectState, envVars

\* What a handler writes on the object.
LEMMA WrittenWork ==
  ASSUME TypeOK
  PROVE  /\ LET p == Written("recorded") IN
              /\ p.external = obj.external /\ p.tracker = obj.tracker /\ p.recorded = TRUE
              /\ SameStatus(obj, p)
         /\ LET p == Written("tracker") IN
              /\ p.external = obj.external /\ p.recorded = obj.recorded
              /\ p.tracker = rec.snap.gen /\ SameStatus(obj, p)
<1>1. obj \in Objects
  BY DEF TypeOK
<1>2. SameStatus(obj, Written("recorded")) /\ SameStatus(obj, Written("tracker"))
  BY <1>1, UpdateForward DEF Written
<1> QED
  BY <1>1, <1>2, UpdateWork DEF Written, StateTracker

\* Only handlers write on it, and the record is never taken back.
LEMMA StepWork ==
  TypeOK /\ [ReconcilerNext]_vars =>
    /\ obj'.external = obj.external
    /\ obj'.recorded = obj.recorded \/ obj'.recorded = TRUE
<1> SUFFICES ASSUME TypeOK, [ReconcilerNext]_vars
             PROVE  /\ obj'.external = obj.external
                    /\ obj'.recorded = obj.recorded \/ obj'.recorded = TRUE
  OBVIOUS
<1>1. CASE HandlerWrites
  <2>1. PICK kind \in {"recorded", "tracker"} : obj' = Written(kind)
    BY <1>1, WritesAreKnown DEF HandlerWrites
  <2> QED
    BY <2>1, WrittenWork
<1>2. CASE HandlerReturns \/ UNCHANGED vars
  BY <1>2 DEF HandlerReturns, vars
<1> QED
  BY <1>1, <1>2, LoopWork DEF ReconcilerNext, SameWork

\* A copy of the object carries the same import annotations, in the cache
\* and in a reconcile that still needs them.
ExternalKnown ==
  /\ cache.external = obj.external
  /\ rec.pc \in {"finalizer", "handler"} => rec.snap.external = obj.external

LEMMA InitExternalKnown == ReconcilerInit => ExternalKnown
BY IdleFields DEF ReconcilerInit, ExternalKnown

LEMMA StepExternalKnown ==
  TypeOK /\ ExternalKnown /\ [ReconcilerNext]_vars => ExternalKnown'
<1> SUFFICES ASSUME TypeOK, ExternalKnown, [ReconcilerNext]_vars PROVE ExternalKnown'
  OBVIOUS
<1>0. cache \in Objects /\ rec.snap \in Objects
  BY DEF TypeOK, Records
<1>1. obj'.external = obj.external
  BY StepWork
<1>2. CopiesMove
  BY StepMoves
<1>3. Aged(cache).external = cache.external /\ Aged(rec.snap).external = rec.snap.external
  BY <1>0, AgedForward
<1>4. cache'.external = obj.external
  BY <1>2, <1>3 DEF CopiesMove, ExternalKnown
<1>5. rec'.pc \in {"finalizer", "handler"} => rec'.snap.external = obj.external
  BY <1>1, <1>3, StepToFinalizer, StepToHandler DEF ExternalKnown
<1> QED
  BY <1>1, <1>4, <1>5 DEF ExternalKnown

----------------------------------------------------------------------------
(* As long as no reconcile has read a lagging cache, the finalizer of the  *)
(* operator is on the object from the handler to the end of the reconcile. *)

Held == FreshReads /\ rec.pc \in {"handler", "reapply", "settle"} => Ours \in obj.fin

LEMMA InitHeld == ReconcilerInit => Held
BY IdleFields DEF ReconcilerInit, Held

LEMMA StepHeld ==
  TypeOK /\ UnderFinalizer /\ Held /\ [ReconcilerNext]_vars => Held'
<1> SUFFICES ASSUME TypeOK, UnderFinalizer, Held, [ReconcilerNext]_vars, FreshReads',
                    rec'.pc \in {"handler", "reapply", "settle"}
             PROVE  Ours \in obj'.fin
  BY DEF Held
<1>1. CASE rec'.pc = "handler"
  BY <1>1, StepUnderFinalizer DEF UnderFinalizer
<1>2. CASE Answering'
  <2>0. rec \in Records /\ rec' # Idle
    BY <1>2, IdleFields DEF TypeOK, Answering
  <2>1. FreshReads
    BY StepStale
  <2>2. ~UnsetFinalizers
    BY <2>0 DEF UnsetFinalizers, Done, GiveUp
  <2>3. rec.pc \in {"handler", "reapply", "settle"}
    <3>1. HandlerReturns => rec.pc = "handler"
      BY DEF HandlerReturns
    <3>2. ~Start /\ ~EnsureFinalizers
      <4>1. Start => rec'.pc = "finalizer"
        BY <2>0 DEF Start, Idle
      <4>2. EnsureFinalizers => rec'.pc \in {"finalizer", "handler"}
        BY <2>0 DEF EnsureFinalizers, Done, GiveUp, Records
      <4> QED
        BY <1>2, <4>1, <4>2 DEF Answering
    <3>3. PeriodElapses => rec'.pc = rec.pc
      BY <2>0 DEF PeriodElapses, Records
    <3> QED
      BY <1>2, <2>0, <3>1, <3>2, <3>3
         DEF Answering, ReconcilerNext, Environment, Loop, CacheSync, Resync, User, Crash,
             RejectState, Reapply, UnsetFinalizers, PatchStatus, HandlerWrites, envVars, vars
  <2> QED
    BY <2>1, <2>2, <2>3, OursLeaves DEF Held
<1> QED
  BY <1>1, <1>2 DEF Answering

\* Then the object is there to be patched.
LEMMA HeldExists ==
  UnderFinalizer /\ Held /\ FreshReads /\ rec.pc \in {"handler", "reapply", "settle"}
    => obj.exists
BY DEF UnderFinalizer, Held

----------------------------------------------------------------------------
(* Calls that fail take from a budget that is never refilled.              *)

FaultsKnown == budget.faults <= MaxFaults

LEMMA InitFaultsKnown == ReconcilerInit => FaultsKnown
<1>1. MaxFaults <= MaxFaults
  BY BoundsAreNatural
<1> QED
  BY <1>1 DEF ReconcilerInit, FaultsKnown

LEMMA StepCalm ==
  TypeOK /\ UnderFinalizer /\ FaultsKnown /\ [ReconcilerNext]_vars =>
    /\ FaultsKnown'
    /\ Calm' => Calm /\ ~Spend("faults")
<1> SUFFICES ASSUME TypeOK, UnderFinalizer, FaultsKnown, [ReconcilerNext]_vars
             PROVE  /\ FaultsKnown'
                    /\ Calm' => Calm /\ ~Spend("faults")
  OBVIOUS
<1>0. budget \in [ops : Nat, faults : Nat, stale : Nat] /\ MaxFaults \in Nat
  BY BoundsAreNatural DEF TypeOK
<1>1. budget' = budget \/ \E kind \in {"ops", "faults", "stale"} : Spend(kind)
  BY DEF ReconcilerNext, Environment, Loop, CacheSync, Resync, User, PeriodElapses,
       Crash, Start, EnsureFinalizers, RejectState, Reapply, UnsetFinalizers, PatchStatus,
       GiveUp, HandlerWrites, HandlerReturns, envVars, vars
<1>2. Spend("faults") => budget'.faults = budget.faults - 1 /\ budget.faults > 0
  BY <1>0 DEF Spend
<1>3. Spend("ops") \/ Spend("stale") \/ budget' = budget => budget'.faults = budget.faults
  BY <1>0 DEF Spend
<1>4. budget.faults \in Nat
  BY <1>0
<1>5. FreshReads' => FreshReads
  BY StepStale
<1> QED
  BY <1>0, <1>1, <1>2, <1>3, <1>4, <1>5 DEF FaultsKnown, Calm

\* The invariants above that the handlers' proofs rest on.
LoopInv ==
  /\ DeletionKnown /\ KeepKnown /\ UnderFinalizer /\ Held /\ ExternalKnown /\ FaultsKnown

LEMMA InitLoopInv == ReconcilerInit => LoopInv
BY InitDeletionKnown, InitKeepKnown, InitUnderFinalizer, InitHeld, InitExternalKnown,
   InitFaultsKnown DEF LoopInv

LEMMA StepLoopInv == TypeOK /\ LoopInv /\ [ReconcilerNext]_vars => LoopInv'
BY StepDeletionKnown, StepKeepKnown, StepUnderFinalizer, StepHeld, StepExternalKnown,
   StepCalm DEF LoopInv

\* The policy of an object that is going away is settled.
LEMMA StepPolicy ==
  ASSUME TypeOK, [ReconcilerNext]_vars, obj.deleting, ~obj'.keep
  PROVE  ~obj.keep
BY StepKeep DEF SameKeep

\* The patch of the conditions goes through, or it fails.
LEMMA PatchStatusFields ==
  ASSUME TypeOK, PatchStatus, obj.exists, ~Spend("faults")
  PROVE  obj'.state = rec.next /\ rec' = Idle
<1>1. obj' = WithStatus(obj) /\ rec' = Idle
  BY DEF PatchStatus, GiveUp, Done
<1> QED
  BY <1>1, WithStatusForward DEF TypeOK

\* The state of the object is the answer of the reconcile that wrote it.
LEMMA StepState ==
  ASSUME TypeOK, [ReconcilerNext]_vars
  PROVE  \/ obj'.state = obj.state
         \/ obj' = WithStatus(obj) /\ Answering /\ obj'.state = rec.next
<1>1. CASE PatchStatus /\ obj' # obj
  <2>1. obj' = WithStatus(obj) /\ Answering
    BY <1>1 DEF PatchStatus, GiveUp, Answering
  <2> QED
    BY <2>1, WithStatusForward DEF TypeOK
<1> QED
  BY <1>1, StepMoves DEF SameStatus

----------------------------------------------------------------------------
(* A copy of the object is no newer than the object, and the request of    *)
(* the deletion is an edit of its own.                                     *)

LEMMA StepRequest ==
  ASSUME TypeOK, [ReconcilerNext]_vars, ~obj.deleting, obj'.deleting
  PROVE  obj.gen < obj'.gen
<1>a. obj \in Objects /\ rec.snap \in Objects
  BY DEF TypeOK, Records
<1>b. obj.gen \in Nat
  BY <1>a, GenNat
<1>0. obj \in Objects /\ rec.snap \in Objects /\ obj.gen + 1 \in Nat /\ obj.gen < obj.gen + 1
  BY <1>a, <1>b
<1>1. CASE RequestDeletion
  <2> DEFINE p == [obj EXCEPT !.deleting = TRUE, !.gen = obj.gen + 1]
  <2>1. p \in Objects /\ obj' = Stored(p)
    BY <1>0, <1>1, UpdateTyped DEF RequestDeletion
  <2>2. p.gen = obj.gen + 1
    BY <1>0 DEF Objects
  <2>3. Stored(p).gen = p.gen
    <3> HIDE DEF p
    <3> QED
      BY <2>1, StoredForward
  <2> QED
    BY <1>0, <2>1, <2>2, <2>3
<1>2. ASSUME NEW list \in SUBSET Finalizers
      PROVE  Stored([obj EXCEPT !.fin = list]).deleting = obj.deleting
  <2> DEFINE p == [obj EXCEPT !.fin = list]
  <2>0. p.deleting = obj.deleting
    BY <1>0 DEF Objects
  <2>1. p \in Objects /\ p.deleting = obj.deleting
    BY <1>0, <2>0, UpdateTyped
  <2> HIDE DEF p
  <2>2. Stored(p).deleting = p.deleting
    BY <2>1, StoredForward
  <2> QED
    BY <2>1, <2>2 DEF p
<1>3. ~RemoveForeignFinalizer
  <2>1. obj.fin \ {Foreign} \in SUBSET Finalizers
    BY <1>0 DEF Objects
  <2> QED
    BY <1>2, <2>1 DEF RemoveForeignFinalizer
<1>4. ~UnsetFinalizers
  <2>1. rec.snap.fin \ {Ours} \in SUBSET Finalizers
    BY <1>0 DEF Objects
  <2> QED
    BY <1>2, <2>1 DEF UnsetFinalizers, GiveUp
<1>5. ~EditSpec /\ ~ToggleSkip /\ ~ToggleKeep
  BY <1>0 DEF EditSpec, ToggleSkip, ToggleKeep, Objects
<1>6. ~ChangePeriod /\ ~AddForeignFinalizer
  BY <1>0 DEF ChangePeriod, AddForeignFinalizer, Objects
<1>7. ~EnsureFinalizers /\ ~Reapply
  <2>1. /\ \A f : [obj EXCEPT !.fin = f].deleting = obj.deleting
        /\ [obj EXCEPT !.stamp = "fresh"].deleting = obj.deleting
    BY <1>0 DEF Objects
  <2> QED
    BY <2>1 DEF EnsureFinalizers, Reapply, GiveUp
<1>8. ~HandlerWrites
  <2>1. \A kind : Written(kind).deleting = obj.deleting
    BY <1>0 DEF Written, Objects
  <2> QED
    BY <2>1 DEF HandlerWrites
<1>9. ~PatchStatus
  BY <1>0, WithStatusForward DEF PatchStatus, GiveUp
<1>10. ~PeriodElapses
  BY <1>0, AgedForward DEF PeriodElapses
<1> QED
  BY <1>1, <1>3, <1>4, <1>5, <1>6, <1>7, <1>8, <1>9, <1>10
     DEF ReconcilerNext, Environment, Loop, User, CacheSync, Resync, Crash, Start, RejectState,
         HandlerReturns, envVars, vars

Older(o, p) == o.gen <= p.gen /\ (p.deleting /\ ~o.deleting => o.gen < p.gen)

AgesKnown == Older(cache, obj) /\ Older(rec.snap, obj) /\ Older(Idle.snap, obj)

LEMMA InitAgesKnown == ReconcilerInit => AgesKnown
<1> SUFFICES ASSUME ReconcilerInit PROVE AgesKnown
  OBVIOUS
<1>1. obj.gen = 1 /\ ~obj.deleting /\ cache = obj /\ rec = Idle
  BY DEF ReconcilerInit, NewObject
<1> QED
  BY <1>1, IdleFields DEF AgesKnown, Older

LEMMA StepOlder ==
  ASSUME TypeOK, [ReconcilerNext]_vars, NEW o \in Objects, Older(o, obj)
  PROVE  Older(o, obj') /\ Older(Aged(o), obj')
<1>1. /\ o.gen \in Nat /\ obj.gen \in Nat /\ obj'.gen \in Nat /\ Forward(obj, obj')
  BY StepTyped, StepMoves, GenNat DEF TypeOK
<1>2. Older(o, obj')
  BY <1>1, StepRequest DEF Older, Forward
<1> QED
  BY <1>2, AgedForward DEF Older

LEMMA StepAgesKnown == TypeOK /\ AgesKnown /\ [ReconcilerNext]_vars => AgesKnown'
<1> SUFFICES ASSUME TypeOK, AgesKnown, [ReconcilerNext]_vars PROVE AgesKnown'
  OBVIOUS
<1>1. /\ obj \in Objects /\ cache \in Objects /\ rec.snap \in Objects /\ obj' \in Objects
      /\ Idle.snap \in Objects
  BY StepTyped, IdleTyped DEF TypeOK, Records
<1>2. Older(obj, obj) /\ Older(obj', obj')
  BY <1>1, GenNat DEF Older
<1>3. CopiesMove
  BY StepMoves
<1>4. Older(cache', obj')
  BY <1>1, <1>2, <1>3, StepOlder DEF CopiesMove, AgesKnown
<1>5. Older(rec'.snap, obj')
  BY <1>1, <1>2, <1>3, StepOlder DEF CopiesMove, AgesKnown
<1>6. Older(Idle.snap, obj')
  BY <1>1, StepOlder DEF AgesKnown
<1> QED
  BY <1>4, <1>5, <1>6 DEF AgesKnown

----------------------------------------------------------------------------
(* Any handler at all.  Some handlers keep to no contract: they answer     *)
(* with a state of a deletion nobody asked for, write what is no           *)
(* generation into the tracker, take the response of a patch for their     *)
(* copy, or panic.  What follows holds all the same.                       *)

AnyAnswer ==
  /\ \E next \in States \cup {""}, outcome \in Outcomes : Returned(next, outcome)
  /\ UNCHANGED <<obj, queued>>

AnyWrite ==
  /\ \/ obj' = [obj EXCEPT !.recorded = TRUE]
     \/ \E tracker \in Nat : obj' = [obj EXCEPT !.tracker = tracker]
  /\ rec' = rec \/ (obj = rec.snap /\ rec' = [rec EXCEPT !.snap = obj'])
  /\ UNCHANGED queued

Panic == Done(TRUE) /\ UNCHANGED obj

AnyHandler ==
  /\ rec.pc = "handler"
  /\ Dispatch(rec.snap) \notin Unsupported
  /\ AnyAnswer \/ AnyWrite \/ Panic
  /\ UNCHANGED budget \/ Spend("faults")
  /\ UNCHANGED <<cache, handled>>

\* What happens in Atlas, to a Secret or on a watch with other predicates
\* brings the cache up to date and wakes the operator at most.
Elsewhere ==
  /\ queued' \in {queued, TRUE}
  /\ cache' \in {cache, obj}
  /\ UNCHANGED budget \/ Spend("ops")
  /\ UNCHANGED <<obj, rec, handled>>

AnyNext == Environment \/ Loop \/ AnyHandler \/ Elsewhere

LEMMA ContractIsAny == TypeOK /\ [ReconcilerNext]_vars => AnyNext
<1> SUFFICES ASSUME TypeOK, [ReconcilerNext]_vars PROVE AnyNext
  OBVIOUS
<1>1. CASE HandlerWrites
  <2>1. PICK kind \in {"recorded", "tracker"} : obj' = Written(kind)
    BY <1>1, WritesAreKnown DEF HandlerWrites
  <2>2. rec.snap.gen \in Nat
    BY GenNat DEF TypeOK, Records
  <2>3. AnyWrite
    BY <1>1, <2>1, <2>2 DEF HandlerWrites, Written, StateTracker, AnyWrite, envVars
  <2> QED
    BY <1>1, <2>3 DEF HandlerWrites, AnyHandler, AnyNext, envVars
<1>2. CASE HandlerReturns
  <2>1. AnyAnswer
    BY <1>2, AnswersAreStates DEF HandlerReturns, AnyAnswer, envVars
  <2> QED
    BY <1>2, <2>1 DEF HandlerReturns, AnyHandler, AnyNext, envVars
<1>3. CASE UNCHANGED vars
  BY <1>3 DEF vars, Elsewhere, AnyNext
<1> QED
  BY <1>1, <1>2, <1>3 DEF ReconcilerNext, AnyNext

\* What a write of any handler does, and does not.
LEMMA AnyWriteFields ==
  ASSUME TypeOK, AnyWrite
  PROVE  /\ obj' \in Objects /\ Forward(obj, obj') /\ SameStatus(obj, obj') /\ SameKeep(obj, obj')
         /\ obj'.fin = obj.fin /\ obj'.external = obj.external /\ obj'.period = obj.period
         /\ obj'.gen = obj.gen /\ obj'.deleting = obj.deleting
         /\ obj'.exists = obj.exists
         /\ obj'.recorded \in {obj.recorded, TRUE}
<1>0. obj \in Objects
  BY DEF TypeOK
<1>1. CASE obj' = [obj EXCEPT !.recorded = TRUE]
  <2>1. /\ obj'.period = obj.period /\ obj'.gen = obj.gen /\ obj'.deleting = obj.deleting
        /\ obj'.exists = obj.exists
    BY <1>0, <1>1 DEF Objects
  <2> QED
    BY <1>0, <1>1, <2>1, UpdateTyped, UpdateForward, UpdateKeep, UpdateWork
<1>2. CASE \E tracker \in Nat : obj' = [obj EXCEPT !.tracker = tracker]
  <2>1. PICK tracker \in Nat : obj' = [obj EXCEPT !.tracker = tracker]
    BY <1>2
  <2>2. /\ obj'.period = obj.period /\ obj'.gen = obj.gen /\ obj'.deleting = obj.deleting
        /\ obj'.exists = obj.exists
    BY <1>0, <2>1 DEF Objects
  <2> QED
    BY <1>0, <2>1, <2>2, UpdateTyped, UpdateForward, UpdateKeep, UpdateWork
<1> QED
  BY <1>1, <1>2 DEF AnyWrite

LEMMA AnyHandlerFields ==
  ASSUME TypeOK, AnyHandler
  PROVE  /\ obj' = obj \/ AnyWrite
         /\ rec' \in Records
         /\ \/ rec' = rec
            \/ rec' = Idle /\ queued'
            \/ rec'.pc = "reapply" /\ AnyAnswer /\ rec'.snap = rec.snap
            \/ AnyWrite /\ obj = rec.snap /\ rec' = [rec EXCEPT !.snap = obj']
               /\ rec'.snap = obj' /\ rec'.pc = "handler" /\ rec'.next = rec.next
<1>0. rec \in Records /\ "Initial" \in States /\ rec.pc = "handler"
  BY DEF TypeOK, States, AnyHandler
<1>1. CASE AnyAnswer
  <2>1. PICK next \in States \cup {""}, outcome \in Outcomes : Returned(next, outcome)
    BY <1>1 DEF AnyAnswer
  <2> QED
    BY <1>0, <1>1, <2>1 DEF Returned, Records, AnyAnswer
<1>2. CASE AnyWrite
  <2>1. obj' \in Objects
    BY <1>2, AnyWriteFields
  <2> QED
    BY <1>0, <1>2, <2>1 DEF AnyWrite, Records
<1>3. CASE Panic
  BY <1>3, IdleTyped DEF Panic, Done
<1> QED
  BY <1>1, <1>2, <1>3 DEF AnyHandler

LEMMA AnyTyped == TypeOK /\ AnyNext => TypeOK'
<1> SUFFICES ASSUME TypeOK, AnyNext PROVE TypeOK'
  OBVIOUS
<1>1. CASE Environment \/ Loop
  BY <1>1, EnvironmentTyped, LoopTyped
<1>2. CASE AnyHandler
  <2>1. rec' \in Records /\ obj' \in Objects
    BY <1>2, AnyHandlerFields, AnyWriteFields DEF TypeOK
  <2>2. queued' \in BOOLEAN
    BY <1>2 DEF AnyHandler, AnyAnswer, AnyWrite, Panic, Done, TypeOK
  <2>3. budget' \in [ops : Nat, faults : Nat, stale : Nat]
    BY <1>2, SpendTyped DEF AnyHandler, TypeOK
  <2> QED
    BY <1>2, <2>1, <2>2, <2>3 DEF AnyHandler, TypeOK
<1>3. CASE Elsewhere
  <2>1. budget' \in [ops : Nat, faults : Nat, stale : Nat]
    BY <1>3, SpendTyped DEF Elsewhere, TypeOK
  <2> QED
    BY <1>3, <2>1 DEF Elsewhere, TypeOK
<1> QED
  BY <1>1, <1>2, <1>3 DEF AnyNext

LEMMA AnyMoves ==
  TypeOK /\ AnyNext =>
    Forward(obj, obj') /\ (PatchStatus \/ SameStatus(obj, obj')) /\ CopiesMove
<1> SUFFICES ASSUME TypeOK, AnyNext
             PROVE  Forward(obj, obj') /\ (PatchStatus \/ SameStatus(obj, obj')) /\ CopiesMove
  OBVIOUS
<1>0. obj \in Objects /\ Forward(obj, obj) /\ SameStatus(obj, obj)
  BY SameForward DEF TypeOK, SameStatus
<1>1. CASE Environment \/ Loop
  BY <1>1, EnvironmentMoves, LoopMoves
<1>2. CASE AnyHandler
  BY <1>0, <1>2, AnyHandlerFields, AnyWriteFields DEF AnyHandler, CopiesMove
<1>3. CASE Elsewhere
  BY <1>0, <1>3 DEF Elsewhere, CopiesMove
<1> QED
  BY <1>1, <1>2, <1>3 DEF AnyNext

LEMMA AnyOursLeaves == TypeOK /\ AnyNext /\ Ours \in obj.fin \ obj'.fin => UnsetFinalizers
<1> SUFFICES ASSUME TypeOK, AnyNext, Ours \in obj.fin \ obj'.fin PROVE UnsetFinalizers
  OBVIOUS
<1>1. CASE Environment \/ Loop
  BY <1>1, OursLeaves DEF ReconcilerNext
<1>2. CASE AnyHandler \/ Elsewhere
  BY <1>2, AnyHandlerFields, AnyWriteFields DEF Elsewhere
<1> QED
  BY <1>1, <1>2 DEF AnyNext

\* A write whose response becomes the snapshot.
Refreshes == AnyHandler /\ AnyWrite /\ obj = rec.snap /\ rec'.snap = obj'

LEMMA AnyToHandler ==
  TypeOK /\ AnyNext /\ rec'.pc = "handler" =>
    \/ rec.pc = "handler" /\ rec'.snap \in {rec.snap, Aged(rec.snap)}
    \/ Refreshes
    \/ /\ rec.pc = "finalizer" /\ rec'.snap = rec.snap
       /\ cache' = cache /\ Ours \in rec.snap.fin
       /\ Dispatch(rec.snap) \notin Unsupported => rec.snap.gen <= handled'
<1> SUFFICES ASSUME TypeOK, AnyNext, rec'.pc = "handler"
             PROVE  \/ rec.pc = "handler" /\ rec'.snap \in {rec.snap, Aged(rec.snap)}
                    \/ Refreshes
                    \/ /\ rec.pc = "finalizer" /\ rec'.snap = rec.snap
                       /\ cache' = cache /\ Ours \in rec.snap.fin
                       /\ Dispatch(rec.snap) \notin Unsupported => rec.snap.gen <= handled'
  OBVIOUS
<1>1. CASE Environment \/ Loop
  BY <1>1, StepToHandler DEF ReconcilerNext
<1>2. CASE AnyHandler
  BY <1>2, AnyHandlerFields, IdleFields DEF Refreshes, AnyHandler
<1>3. CASE Elsewhere
  BY <1>3 DEF Elsewhere
<1> QED
  BY <1>1, <1>2, <1>3 DEF AnyNext

LEMMA AnyToFinalizer ==
  TypeOK /\ AnyNext /\ rec'.pc = "finalizer" =>
    \/ rec.pc = "finalizer" /\ rec'.snap \in {rec.snap, Aged(rec.snap)}
    \/ rec'.snap = obj'
    \/ Start /\ rec'.snap = cache /\ obj' = obj
<1> SUFFICES ASSUME TypeOK, AnyNext, rec'.pc = "finalizer"
             PROVE  \/ rec.pc = "finalizer" /\ rec'.snap \in {rec.snap, Aged(rec.snap)}
                    \/ rec'.snap = obj'
                    \/ Start /\ rec'.snap = cache /\ obj' = obj
  OBVIOUS
<1>1. CASE Environment \/ Loop
  BY <1>1, StepToFinalizer DEF ReconcilerNext
<1>2. ~AnyHandler
  BY AnyHandlerFields, IdleFields DEF AnyHandler
<1>3. CASE Elsewhere
  BY <1>3 DEF Elsewhere
<1> QED
  BY <1>1, <1>2, <1>3 DEF AnyNext

LEMMA AnyStale ==
  TypeOK /\ UnderFinalizer /\ AnyNext =>
    /\ budget'.stale <= MaxStale
    /\ FreshReads' => FreshReads /\ (Start => cache = obj)
<1> SUFFICES ASSUME TypeOK, UnderFinalizer, AnyNext
             PROVE  /\ budget'.stale <= MaxStale
                    /\ FreshReads' => FreshReads /\ (Start => cache = obj)
  OBVIOUS
<1>1. CASE Environment \/ Loop
  BY <1>1, StepStale DEF ReconcilerNext
<1>2. CASE AnyHandler \/ Elsewhere
  <2>1. budget'.stale = budget.stale
    BY <1>2 DEF AnyHandler, Elsewhere, Spend, TypeOK
  <2>2. Start => cache = obj \/ budget'.stale < budget.stale
    BY DEF Start, Spend, TypeOK
  <2> QED
    BY <2>1, <2>2 DEF FreshReads, UnderFinalizer, TypeOK
<1> QED
  BY <1>1, <1>2 DEF AnyNext

LEMMA AnyUnderFinalizer == TypeOK /\ UnderFinalizer /\ AnyNext => UnderFinalizer'
<1> SUFFICES ASSUME TypeOK, UnderFinalizer, AnyNext PROVE UnderFinalizer'
  OBVIOUS
<1>1. CASE Environment \/ Loop
  BY <1>1, StepUnderFinalizer DEF ReconcilerNext
<1>2. CASE AnyHandler
  <2>1. obj'.fin = obj.fin /\ (obj'.exists <=> obj.exists) /\ rec.pc = "handler"
    BY <1>2, AnyHandlerFields, AnyWriteFields DEF AnyWrite, AnyHandler
  <2>2. rec'.pc \in {"finalizer", "handler"} => rec'.snap.fin = rec.snap.fin
    BY <1>2, <2>1, AnyHandlerFields, IdleFields
  <2> QED
    BY <2>1, <2>2, AnyStale DEF AnyNext, UnderFinalizer
<1>3. CASE Elsewhere
  BY <1>3, AnyStale DEF AnyNext, UnderFinalizer, Elsewhere
<1> QED
  BY <1>1, <1>2, <1>3 DEF AnyNext

LEMMA AnyHeld == TypeOK /\ UnderFinalizer /\ Held /\ AnyNext => Held'
<1> SUFFICES ASSUME TypeOK, UnderFinalizer, Held, AnyNext PROVE Held'
  OBVIOUS
<1>1. CASE Environment \/ Loop
  BY <1>1, StepHeld DEF ReconcilerNext
<1>2. CASE AnyHandler
  BY <1>2, AnyHandlerFields, AnyWriteFields, AnyStale DEF AnyNext, AnyHandler, Held
<1>3. CASE Elsewhere
  BY <1>3, AnyStale DEF AnyNext, Held, Elsewhere
<1> QED
  BY <1>1, <1>2, <1>3 DEF AnyNext

LEMMA AnyWork ==
  TypeOK /\ AnyNext =>
    obj'.external = obj.external /\ (obj'.recorded = obj.recorded \/ obj'.recorded = TRUE)
BY StepWork, AnyHandlerFields, AnyWriteFields DEF AnyNext, ReconcilerNext, Elsewhere

LEMMA AnyExternalKnown == TypeOK /\ ExternalKnown /\ AnyNext => ExternalKnown'
<1> SUFFICES ASSUME TypeOK, ExternalKnown, AnyNext PROVE ExternalKnown'
  OBVIOUS
<1>1. CASE Environment \/ Loop
  BY <1>1, StepExternalKnown DEF ReconcilerNext
<1>2. CASE AnyHandler
  BY <1>2, AnyWork, AnyHandlerFields, IdleFields DEF AnyNext, AnyHandler, ExternalKnown
<1>3. CASE Elsewhere
  BY <1>3 DEF Elsewhere, ExternalKnown
<1> QED
  BY <1>1, <1>2, <1>3 DEF AnyNext

LEMMA AnyKeep ==
  TypeOK /\ AnyNext /\ (obj.deleting \/ "keep" \notin Ops) => SameKeep(obj, obj')
BY StepKeep, AnyHandlerFields, AnyWriteFields
   DEF AnyNext, ReconcilerNext, Elsewhere, SameKeep

\* What the handlers of a deletion promise.
AsksFirst ==
  rec.pc = "handler" /\ Answering' /\ rec'.next \in Deletion \cup {"Deleted"} => obj.deleting

LEMMA AnyDeletionKnown == TypeOK /\ DeletionKnown /\ AnyNext /\ AsksFirst => DeletionKnown'
<1> SUFFICES ASSUME TypeOK, DeletionKnown, AnyNext, AsksFirst PROVE DeletionKnown'
  OBVIOUS
<1>1. CASE Environment \/ Loop
  BY <1>1, StepDeletionKnown DEF ReconcilerNext
<1>2. CASE AnyHandler
  <2>1. Forward(obj, obj') /\ SameStatus(obj, obj') /\ obj'.deleting = obj.deleting
    BY <1>2, AnyMoves, AnyHandlerFields, AnyWriteFields DEF AnyNext, SameStatus
  <2>2. rec.pc = "handler" /\ cache' = cache
    BY <1>2 DEF AnyHandler
  <2>3. Asked(obj)' /\ Asked(cache)'
    BY <2>1, <2>2 DEF DeletionKnown, Asked, SameStatus
  <2>4. Asked(rec.snap)'
    BY <1>2, <2>1, <2>3, AnyHandlerFields, IdleFields DEF DeletionKnown, Asked, Deletion
  <2> QED
    BY <2>1, <2>2, <2>3, <2>4 DEF DeletionKnown, AsksFirst
<1>3. CASE Elsewhere
  BY <1>3 DEF Elsewhere, DeletionKnown, Asked, Answering
<1> QED
  BY <1>1, <1>2, <1>3 DEF AnyNext

LEMMA AnyKeepKnown == TypeOK /\ DeletionKnown /\ KeepKnown /\ AnyNext => KeepKnown'
<1> SUFFICES ASSUME TypeOK, DeletionKnown, KeepKnown, AnyNext PROVE KeepKnown'
  OBVIOUS
<1>1. CASE Environment \/ Loop
  BY <1>1, StepKeepKnown DEF ReconcilerNext
<1>2. CASE AnyHandler
  <2>1. SameKeep(obj, obj') /\ cache' = cache
    BY <1>2, AnyHandlerFields, AnyWriteFields DEF SameKeep, AnyHandler
  <2> QED
    BY <1>2, <2>1, AnyHandlerFields, IdleFields DEF KeepKnown, SameKeep
<1>3. CASE Elsewhere
  BY <1>3 DEF Elsewhere, KeepKnown, SameKeep
<1> QED
  BY <1>1, <1>2, <1>3 DEF AnyNext

\* The invariants of the loop, for such a handler.
LEMMA AnyLoopInv == TypeOK /\ LoopInv /\ AnyNext /\ AsksFirst => LoopInv'
<1> SUFFICES ASSUME TypeOK, LoopInv, AnyNext, AsksFirst PROVE LoopInv'
  OBVIOUS
<1>1. FaultsKnown'
  <2>1. CASE Environment \/ Loop
    BY <2>1, StepCalm DEF LoopInv, ReconcilerNext
  <2>2. CASE AnyHandler \/ Elsewhere
    <3>0. budget \in [ops : Nat, faults : Nat, stale : Nat] /\ budget.faults \in Nat
      BY DEF TypeOK
    <3>1. budget'.faults <= budget.faults
      <4>0. UNCHANGED budget \/ Spend("faults") \/ Spend("ops")
        BY <2>2 DEF AnyHandler, Elsewhere
      <4>1. Spend("faults") => budget'.faults = budget.faults - 1
        BY <3>0 DEF Spend
      <4>2. Spend("ops") => budget'.faults = budget.faults
        BY <3>0 DEF Spend
      <4>3. UNCHANGED budget => budget'.faults = budget.faults
        OBVIOUS
      <4> QED
        BY <3>0, <4>0, <4>1, <4>2, <4>3
    <3>2. budget'.faults \in Nat /\ budget.faults \in Nat /\ MaxFaults \in Nat
      BY AnyTyped, BoundsAreNatural DEF TypeOK
    <3> QED
      BY <3>1, <3>2 DEF LoopInv, FaultsKnown
  <2> QED
    BY <2>1, <2>2 DEF AnyNext
<1> QED
  BY <1>1, AnyDeletionKnown, AnyKeepKnown, AnyUnderFinalizer, AnyHeld, AnyExternalKnown
     DEF LoopInv

\* Nothing but the end of a reconcile writes the state, and nothing but the
\* user the reapply period.
LEMMA AnyState ==
  ASSUME TypeOK, AnyNext
  PROVE  obj'.state = obj.state \/ (Answering /\ obj'.state = rec.next)
<1>1. CASE Environment \/ Loop
  BY <1>1, StepState DEF ReconcilerNext
<1>2. CASE AnyHandler \/ Elsewhere
  BY <1>2, AnyHandlerFields, AnyWriteFields DEF Elsewhere, SameStatus
<1> QED
  BY <1>1, <1>2 DEF AnyNext

LEMMA StoredPeriod ==
  ASSUME NEW o \in Objects
  PROVE  /\ Stored(o).period = o.period /\ Aged(o).period = o.period
         /\ Stored(o).gen = o.gen /\ Aged(o).gen = o.gen
BY DEF Stored, Aged, Objects

LEMMA UserPeriod ==
  ASSUME TypeOK, User
  PROVE  obj'.period \in {obj.period} \cup Periods /\ obj'.gen \in {obj.gen, obj.gen + 1}
<1>0. obj \in Objects /\ obj.gen + 1 \in Nat
  BY GenNat DEF TypeOK
<1>1. CASE EditSpec \/ ToggleSkip \/ ToggleKeep \/ AddForeignFinalizer
  BY <1>0, <1>1 DEF EditSpec, ToggleSkip, ToggleKeep, AddForeignFinalizer, Objects
<1>2. CASE RequestDeletion
  <2>1. [obj EXCEPT !.deleting = TRUE, !.gen = @ + 1] \in Objects
    BY <1>0, UpdateTyped
  <2> QED
    BY <1>0, <1>2, <2>1, StoredPeriod DEF RequestDeletion, Objects
<1>3. CASE RemoveForeignFinalizer
  <2>1. [obj EXCEPT !.fin = @ \ {Foreign}] \in Objects
    BY <1>0 DEF Objects
  <2> QED
    BY <1>0, <1>3, <2>1, StoredPeriod DEF RemoveForeignFinalizer, Objects
<1>4. CASE ChangePeriod
  BY <1>0, <1>4 DEF ChangePeriod, Objects
<1> QED
  BY <1>1, <1>2, <1>3, <1>4 DEF User

LEMMA LoopPeriod ==
  ASSUME TypeOK, Loop
  PROVE  obj'.period = obj.period /\ obj'.gen = obj.gen
<1>0. obj \in Objects /\ rec \in Records /\ rec.snap.fin \in SUBSET Finalizers
  BY DEF TypeOK, Records, Objects
<1>1. CASE EnsureFinalizers
  BY <1>0, <1>1 DEF EnsureFinalizers, GiveUp, Objects
<1>2. CASE Reapply
  BY <1>0, <1>2 DEF Reapply, Objects
<1>3. CASE UnsetFinalizers
  <2>1. [obj EXCEPT !.fin = rec.snap.fin \ {Ours}] \in Objects
    BY <1>0 DEF Objects
  <2> QED
    BY <1>0, <1>3, <2>1, StoredPeriod DEF UnsetFinalizers, GiveUp, Objects
<1>4. CASE PatchStatus
  BY <1>0, <1>4 DEF PatchStatus, WithStatus, GiveUp, Objects
<1> QED
  BY <1>1, <1>2, <1>3, <1>4 DEF Loop, Start, RejectState

LEMMA AnyPeriod ==
  ASSUME TypeOK, AnyNext
  PROVE  obj'.period \in {obj.period} \cup Periods
<1>0. obj \in Objects
  BY DEF TypeOK
<1>1. CASE Environment \/ Loop
  BY <1>0, <1>1, UserPeriod, LoopPeriod, StoredPeriod
     DEF Environment, CacheSync, Resync, PeriodElapses, Crash
<1>2. CASE AnyHandler \/ Elsewhere
  BY <1>2, AnyHandlerFields, AnyWriteFields DEF Elsewhere
<1> QED
  BY <1>1, <1>2 DEF AnyNext

\* What users do takes from a budget that is never refilled.
SpentOps == budget'.ops <= budget.ops /\ (User => budget'.ops = budget.ops - 1)

LEMMA AnySpends ==
  ASSUME TypeOK, AnyNext
  PROVE  SpentOps
<1>0. budget \in [ops : Nat, faults : Nat, stale : Nat] /\ budget.ops \in Nat
  BY DEF TypeOK
<1>1. Spend("ops") => budget'.ops = budget.ops - 1
  BY <1>0 DEF Spend
<1>2. Spend("faults") \/ Spend("stale") \/ UNCHANGED budget => budget'.ops = budget.ops
  BY <1>0 DEF Spend
<1>3. User => Spend("ops")
  BY DEF User
<1>4. Spend("ops") \/ Spend("faults") \/ Spend("stale") \/ UNCHANGED budget
  BY DEF AnyNext, AnyHandler, Elsewhere, Environment, CacheSync, Resync, User, PeriodElapses,
         Crash, Loop, Start, EnsureFinalizers, RejectState, Reapply, UnsetFinalizers,
         PatchStatus, GiveUp, envVars
<1> QED
  BY <1>0, <1>1, <1>2, <1>3, <1>4 DEF SpentOps

\* So the generation stays within the bound of the run.
LEMMA AnyGenerations ==
  ASSUME TypeOK, AnyNext
  PROVE  obj.gen <= obj'.gen /\ obj'.gen + budget'.ops <= obj.gen + budget.ops
<1>0. obj \in Objects /\ obj.gen \in Nat /\ budget.ops \in Nat /\ budget'.ops \in Nat
  BY AnyTyped, GenNat DEF TypeOK
<1>1. CASE User
  BY <1>0, <1>1, UserPeriod, AnySpends DEF SpentOps
<1>2. CASE ~User
  <2>1. obj'.gen = obj.gen
    BY <1>0, <1>2, LoopPeriod, StoredPeriod, AnyHandlerFields, AnyWriteFields
       DEF AnyNext, Environment, CacheSync, Resync, PeriodElapses, Crash, Elsewhere
  <2> QED
    BY <1>0, <2>1, AnySpends DEF SpentOps
<1> QED
  BY <1>1, <1>2

\* An object that a handler was given is held, or was let go for a deletion.
HandledHeld == FreshReads /\ handled > 0 => Ours \in obj.fin \/ obj.deleting

\* Only the finalizer step lets a handler have the object.
LEMMA AnyHandles ==
  ASSUME TypeOK, AnyNext
  PROVE  handled' = handled \/ (rec.pc = "finalizer" /\ Ours \in rec.snap.fin)
<1>1. handled' = handled \/ EnsureFinalizers
  BY DEF AnyNext, AnyHandler, Elsewhere, Environment, CacheSync, Resync, User, PeriodElapses,
         Crash, Loop, Start, RejectState, Reapply, UnsetFinalizers, PatchStatus,
         GiveUp, envVars
<1> QED
  BY <1>1 DEF EnsureFinalizers, GiveUp

LEMMA AnyHandledHeld ==
  TypeOK /\ LoopInv /\ HandledHeld /\ AnyNext => HandledHeld'
<1> SUFFICES ASSUME TypeOK, LoopInv, HandledHeld, AnyNext, FreshReads', handled' > 0,
                    ~obj'.deleting
             PROVE  Ours \in obj'.fin
  BY DEF HandledHeld
<1>1. FreshReads /\ ~obj.deleting
  BY AnyStale, AnyMoves DEF LoopInv, Forward
<1>2. Ours \in obj.fin
  BY <1>1, AnyHandles DEF HandledHeld, LoopInv, UnderFinalizer
<1>3. ~UnsetFinalizers
  BY <1>1 DEF UnsetFinalizers, LoopInv, DeletionKnown, Answering
<1> QED
  BY <1>2, <1>3, AnyOursLeaves

----------------------------------------------------------------------------
(* The steps a generated handler is made of keep to the contract of        *)
(* StateReconciler: each of them is a write or the return of an arbitrary  *)
(* handler, or changes nothing the reconcile loop can see.                 *)

\* The constants leave room for everything a handler may answer or write, and
\* for the wake-up when the Group of a resource vanishes: a resync, to the loop.
RoomForHandlers ==
  /\ States \subseteq Answers
  /\ {"recorded", "tracker"} \subseteq Writes
  /\ "group" \in Ops => "resync" \in Ops

\* A handler in progress works on a state that has a handler, and it will
\* not answer with a state of a deletion: those it answers at once.
Patient == States \ (Deletion \cup {"Deleted"})

CallKnown ==
  /\ call \in [busy : BOOLEAN, todo : SUBSET {"status", "tracker"}, to : Patient, back : Patient]
  /\ call.todo # {} => call.busy
  /\ call.busy => rec.pc = "handler" /\ Dispatch(rec.snap) \notin Unsupported

\* The handler of the reconcile in progress may take a step.
InHandler == rec.pc = "handler" /\ Dispatch(rec.snap) \notin Unsupported

LEMMA NoCallKnown ==
  /\ NoCall \in [busy : BOOLEAN, todo : SUBSET {"status", "tracker"}, to : Patient, back : Patient]
  /\ ~NoCall.busy /\ NoCall.todo = {} /\ Patient \subseteq States
BY DEF NoCall, Patient, States, Deletion

LEMMA KnownIsTyped == CallKnown => call \in Calls
BY NoCallKnown DEF CallKnown, Calls

\* A handler in progress works on a state that has a handler.
CallShaped ==
  /\ call \in Calls
  /\ call.todo # {} => call.busy
  /\ call.busy => InHandler

LEMMA NoCallShaped == NoCall \in Calls /\ ~NoCall.busy /\ NoCall.todo = {}
BY DEF NoCall, Calls, States

LEMMA KnownIsShaped == CallKnown => CallShaped
BY NoCallKnown DEF CallKnown, CallShaped, Calls, InHandler

\* What an answer of a handler is to the loop.
LEMMA AnswerReturns ==
  ASSUME RoomForHandlers, InHandler,
         NEW state \in States, NEW outcome \in Outcomes,
         MayReturn(state, outcome), Answer(state, outcome),
         UNCHANGED budget \/ (outcome = "retry" /\ Spend("faults")),
         TypeOK
  PROVE  HandlerReturns /\ CallKnown'
<1>1. state \in Answers /\ Returned(state, outcome)
  BY DEF RoomForHandlers, Answer
<1>2. rec'.outcome = outcome
  BY <1>1 DEF Returned, TypeOK, Records
<1>3. HandlerReturns
  BY <1>1, <1>2 DEF HandlerReturns, InHandler, Answer
<1> QED
  BY <1>3, NoCallKnown DEF CallKnown, Answer

LEMMA ReplyReturns ==
  ASSUME RoomForHandlers, InHandler, TypeOK, NEW state \in States,
         state \in Deletion \cup {"Deleted"} => Dispatch(rec.snap) \in Deletion,
         Reply(state)
  PROVE  HandlerReturns /\ CallKnown'
<1>1. MayReturn(state, "ok") /\ "ok" \in Outcomes
  BY DEF MayReturn, Outcomes
<1> QED
  BY <1>1, AnswerReturns DEF Reply

LEMMA FailReturns ==
  ASSUME RoomForHandlers, InHandler, TypeOK, NEW state \in States \ {"Deleted"},
         state \in Deletion => Dispatch(rec.snap) \in Deletion,
         Fail(state) \/ Fault(state) \/ FailForGood(state)
  PROVE  HandlerReturns /\ CallKnown'
<1>1. /\ MayReturn(state, "retry") /\ MayReturn(state, "terminal")
      /\ "retry" \in Outcomes /\ "terminal" \in Outcomes
  BY DEF MayReturn, Outcomes
<1> QED
  BY <1>1, AnswerReturns DEF Fail, Fault, FailForGood

LEMMA ContinueIsSilent ==
  ASSUME InHandler, NEW todo \in SUBSET {"status", "tracker"},
         NEW to \in Patient, NEW back \in Patient, Continue(todo, to, back)
  PROVE  UNCHANGED vars /\ CallKnown'
BY DEF Continue, CallKnown, InHandler, vars

\* The dispatcher, the patches and the return.
LEMMA PatchingReturns ==
  ASSUME RoomForHandlers, TypeOK, CallKnown,
         NEW name \in {"status", "tracker"}, NEW kind \in {"recorded", "tracker"},
         Patching(name, Written(kind))
  PROVE  (HandlerWrites \/ HandlerReturns) /\ CallKnown'
<1>1. InHandler
  BY DEF Patching, CallKnown, InHandler
<1>2. CASE Fail(call.back) \/ Fault(call.back)
  <2>1. call.back \in States \ {"Deleted"} /\ call.back \notin Deletion
    BY DEF CallKnown, Patient
  <2> QED
    BY <1>1, <1>2, <2>1, FailReturns
<1>3. CASE /\ obj.exists
           /\ obj' = Written(kind)
           /\ call' = [call EXCEPT !.todo = @ \ {name}]
           /\ UNCHANGED <<envVars, rec, budget>>
  <2>1. HandlerWrites
    BY <1>1, <1>3 DEF HandlerWrites, InHandler, RoomForHandlers
  <2>2. CallKnown'
    BY <1>1, <1>3 DEF CallKnown, InHandler
  <2> QED
    BY <2>1, <2>2
<1> QED
  BY <1>2, <1>3 DEF Patching

LEMMA HandlerCommonReturns ==
  ASSUME RoomForHandlers, TypeOK, CallKnown, HandlerCommon
  PROVE  (HandlerWrites \/ HandlerReturns) /\ CallKnown'
<1>1. CASE NoHandler
  <2> DEFINE s == Dispatch(rec.snap)
  <2>1. InHandler /\ s \in States \ {"Deleted"} /\ Fault(s)
    BY <1>1 DEF NoHandler, Handling, InHandler, Unsupported
  <2> QED
    BY <2>1, FailReturns
<1>2. CASE PatcherStatus
  <2>1. Patching("status", Written("recorded"))
    BY <1>2 DEF PatcherStatus, Written
  <2> QED
    BY <2>1, PatchingReturns
<1>3. CASE PatcherTracker
  <2>1. Patching("tracker", Written("tracker"))
    BY <1>3 DEF PatcherTracker, Written
  <2> QED
    BY <2>1, PatchingReturns
<1>4. CASE HandlerEnds
  <2>1. InHandler /\ call.to \in States /\ call.to \notin Deletion \cup {"Deleted"}
    BY <1>4 DEF HandlerEnds, CallKnown, InHandler, Patient
  <2> QED
    BY <1>4, <2>1, ReplyReturns DEF HandlerEnds
<1> QED
  BY <1>1, <1>2, <1>3, <1>4 DEF HandlerCommon

\* The loop does not move while a handler is in progress.
LEMMA AroundKnown ==
  ASSUME TypeOK, CallKnown, Around
  PROVE  ReconcilerNext /\ CallKnown'
<1>0. rec \in Records /\ rec.snap \in Objects
  BY DEF TypeOK, Records
<1>1. CASE Crash /\ call' = NoCall
  BY <1>1, NoCallKnown DEF CallKnown, ReconcilerNext, Environment
<1>2. CASE (CacheSync \/ Resync \/ User) /\ UNCHANGED call
  <2>1. rec' = rec
    BY <1>2 DEF CacheSync, Resync, User
  <2> QED
    BY <1>2, <2>1 DEF CallKnown, ReconcilerNext, Environment
<1>3. CASE PeriodElapses /\ UNCHANGED call
  <2>1. rec'.pc = rec.pc /\ rec'.snap = Aged(rec.snap)
    BY <1>0, <1>3 DEF PeriodElapses, Records
  <2>2. Dispatch(rec'.snap) = Dispatch(rec.snap)
    BY <1>0, <2>1, AgedDispatch
  <2> QED
    BY <1>3, <2>1, <2>2 DEF CallKnown, ReconcilerNext, Environment
<1>4. CASE Loop /\ UNCHANGED call
  <2>1. ~InHandler
    BY <1>4
       DEF Loop, Start, EnsureFinalizers, RejectState, Reapply, UnsetFinalizers, PatchStatus,
           InHandler
  <2> QED
    BY <1>4, <2>1 DEF CallKnown, InHandler, ReconcilerNext
<1> QED
  BY <1>1, <1>2, <1>3, <1>4 DEF Around

----------------------------------------------------------------------------
(* What the first step of a handler is made of.                            *)

LEMMA StatesOfHandlers ==
  /\ {"Initial", "ImportRequested", "Imported", "Creating", "Created", "Updating", "Updated"}
       \subseteq Patient
  /\ Settled \subseteq Patient /\ Patient \subseteq States \ {"Deleted"}
  /\ Patient \cap (Deletion \cup {"Deleted"}) = {}
  /\ Deletion \cup {"Deleted"} \subseteq States
BY DEF Patient, States, Settled, Polled, Deletion

\* One step of a handler: a return, or a silent call to Atlas.
HandlerStep == (HandlerReturns \/ UNCHANGED vars) /\ CallKnown'

\* Every branch of a handler ends in one of these.
LEMMA ReplySteps ==
  ASSUME RoomForHandlers, InHandler, TypeOK, NEW state \in States,
         state \in Deletion \cup {"Deleted"} => Dispatch(rec.snap) \in Deletion,
         Reply(state)
  PROVE  HandlerStep
BY ReplyReturns DEF HandlerStep

LEMMA FailSteps ==
  ASSUME RoomForHandlers, InHandler, TypeOK, NEW state \in States \ {"Deleted"},
         state \in Deletion => Dispatch(rec.snap) \in Deletion,
         Fail(state) \/ Fault(state) \/ FailForGood(state)
  PROVE  HandlerStep
BY FailReturns DEF HandlerStep

LEMMA ContinueSteps ==
  ASSUME InHandler, NEW todo \in SUBSET {"status", "tracker"},
         NEW to \in Patient, NEW back \in Patient, Continue(todo, to, back)
  PROVE  HandlerStep
BY ContinueIsSilent DEF HandlerStep

LEMMA HandlingStates ==
  ASSUME NEW states \in SUBSET (States \ Unsupported), Handling(states)
  PROVE  InHandler /\ Dispatch(rec.snap) \in states
BY DEF Handling, InHandler

LEMMA OutcomesKnown == "ok" \in Outcomes /\ "retry" \in Outcomes /\ "terminal" \in Outcomes
BY DEF Outcomes

LEMMA AnswerFields ==
  ASSUME TypeOK, NEW state \in States, NEW outcome \in Outcomes, Answer(state, outcome)
  PROVE  /\ rec'.pc = "reapply" /\ rec'.next = state /\ rec'.snap = rec.snap
         /\ rec'.outcome = outcome /\ call' = NoCall
         /\ obj' = obj /\ cache' = cache
<1>1. state # ""
  BY DEF States, Settled, Polled
<1>2. rec \in Records
  BY DEF TypeOK
<1>3. obj' = obj /\ cache' = cache
  BY DEF Answer, envVars
<1> QED
  BY <1>1, <1>2, <1>3 DEF Answer, Returned, Records

----------------------------------------------------------------------------
(* What the steps of a controller do to its object.                        *)

\* The first step of a handler writes nothing on the object.
FirstStep == rec.pc = "handler" /\ ~call.busy /\ obj' = obj /\ cache' = cache

ControllerStep == Around \/ HandlerCommon \/ FirstStep \/ UNCHANGED <<obj, cache, rec, call>>

LEMMA AnswerIsFirst ==
  ASSUME NEW state, Reply(state) \/ Fail(state) \/ Fault(state) \/ FailForGood(state)
  PROVE  obj' = obj /\ cache' = cache
BY DEF Reply, Fail, Fault, FailForGood, Answer, envVars

LEMMA ContinueIsFirst ==
  ASSUME NEW todo, NEW to, NEW back, Continue(todo, to, back)
  PROVE  obj' = obj /\ cache' = cache
BY DEF Continue, vars

\* The loop by itself makes up no answer but the empty one.
LEMMA AroundAnswers ==
  ASSUME TypeOK, Around, Answering'
  PROVE  \/ Answering /\ rec'.next = rec.next
         \/ rec'.next = ""
<1>0. rec \in Records /\ rec' # Idle
  BY IdleFields DEF TypeOK, Answering
<1>1. [ReconcilerNext]_vars
  BY DEF Around, ReconcilerNext, Environment
<1>2. CASE HandlerReturns
  <2>1. rec.pc = "handler"
    BY <1>2 DEF HandlerReturns
  <2>2. ~(User \/ CacheSync \/ Resync)
    BY <2>1 DEF User, CacheSync, Resync, Answering
  <2>3. ~PeriodElapses
    BY <1>0, <2>1 DEF PeriodElapses, Answering, Records
  <2>4. ~Crash /\ ~Start /\ ~EnsureFinalizers /\ ~Reapply /\ ~UnsetFinalizers /\ ~PatchStatus
    BY <1>0, <2>1 DEF Crash, Start, EnsureFinalizers, Reapply, UnsetFinalizers, PatchStatus
  <2>5. RejectState
    BY <2>2, <2>3, <2>4 DEF Around, Loop
  <2> QED
    BY <1>0, <2>5 DEF RejectState, Records
<1> QED
  BY <1>1, <1>2, StepAnswers DEF AnswerMoves

\* Nothing around a handler in progress disturbs it but a crash.
LEMMA BusyAround ==
  ASSUME TypeOK, CallKnown, Around, call.busy, ~Spend("faults")
  PROVE  rec'.pc = "handler" /\ call' = call
<1>0. rec \in Records /\ rec.pc = "handler" /\ Dispatch(rec.snap) \notin Unsupported
  BY DEF TypeOK, CallKnown
<1>1. ~Loop
  BY <1>0 DEF Loop, Start, EnsureFinalizers, RejectState, Reapply, UnsetFinalizers, PatchStatus
<1>2. ~Crash
  BY DEF Crash
<1>3. CASE PeriodElapses
  BY <1>0, <1>2, <1>3 DEF PeriodElapses, Records, Around
<1> QED
  BY <1>0, <1>1, <1>2, <1>3 DEF Around, CacheSync, Resync, User

\* A patch goes through and leaves the rest of the handler, or it ends it.
LEMMA PatchingFields ==
  ASSUME TypeOK, CallShaped, NEW name \in {"status", "tracker"}, NEW kind \in {"recorded", "tracker"},
         Patching(name, Written(kind))
  PROVE  /\ rec.pc = "handler" /\ call.busy /\ name \in call.todo
         /\ \/ /\ obj' = Written(kind) /\ SameStatus(obj, obj')
               /\ rec' = rec /\ cache' = cache
               /\ call'.busy /\ call'.to = call.to /\ call'.back = call.back
               /\ call'.todo = call.todo \ {name}
            \/ ~obj.exists /\ Fail(call.back)
            \/ Fault(call.back)
<1>1. obj \in Objects /\ call.busy
  BY DEF TypeOK, CallShaped, Patching
<1>2. SameStatus(obj, Written(kind))
  BY <1>1, UpdateForward DEF Written
<1> QED
  BY <1>1, <1>2 DEF Patching, CallShaped, Calls, envVars

\* The steps the handlers share do not answer with it.
LEMMA CommonNotDeleted ==
  ASSUME TypeOK, CallKnown, HandlerCommon
  PROVE  ~(Answering' /\ rec'.next = "Deleted")
<1>0. call.to \in States \ {"Deleted"} /\ call.back \in States \ {"Deleted"}
  BY DEF CallKnown, Patient
<1>1. ASSUME NEW state \in States \ {"Deleted"}, Reply(state) \/ Fail(state) \/ Fault(state)
      PROVE  rec'.next # "Deleted"
  <2>1. PICK outcome \in Outcomes : Answer(state, outcome)
    BY <1>1, OutcomesKnown DEF Reply, Fail, Fault
  <2> QED
    BY <2>1, AnswerFields
<1>2. CASE NoHandler
  BY <1>1, <1>2 DEF NoHandler, Handling, Unsupported
<1>3. ASSUME NEW name, NEW result, Patching(name, result)
      PROVE  ~(Answering' /\ rec'.next = "Deleted")
  BY <1>0, <1>1, <1>3 DEF Patching, Answering
<1>4. CASE HandlerEnds
  BY <1>0, <1>1, <1>4 DEF HandlerEnds
<1> QED
  BY <1>2, <1>3, <1>4 DEF HandlerCommon, PatcherStatus, PatcherTracker

\* Only the patches write the record and the tracker.
LEMMA WorkMoves ==
  ASSUME TypeOK, CallShaped, ControllerStep
  PROVE  /\ obj'.recorded = obj.recorded \/ PatcherStatus
         /\ obj'.tracker = obj.tracker \/ PatcherTracker
<1>1. CASE Around
  BY <1>1, LoopWork DEF Around, Environment, SameWork
<1>2. CASE HandlerCommon
  <2>1. CASE NoHandler \/ HandlerEnds
    BY <2>1 DEF NoHandler, HandlerEnds, Reply, Fault, Answer
  <2>2. ASSUME NEW name, NEW kind, Patching(name, Written(kind))
        PROVE  obj' = obj \/ obj' = Written(kind)
    BY <2>2 DEF Patching, Fail, Fault, Answer
  <2>3. CASE PatcherTracker
    BY <2>2, <2>3, WrittenWork DEF PatcherTracker, Written
  <2>4. CASE PatcherStatus
    BY <2>2, <2>4, WrittenWork DEF PatcherStatus, Written
  <2> QED
    BY <1>2, <2>1, <2>3, <2>4 DEF HandlerCommon
<1>3. CASE obj' = obj
  BY <1>3
<1> QED
  BY <1>1, <1>2, <1>3 DEF ControllerStep, FirstStep

\* The reconcile has its snapshot, and its handler has sent nothing to Atlas.
Undecided == rec.pc = "finalizer" \/ (rec.pc = "handler" /\ ~call.busy)

LEMMA CommonDecided ==
  ASSUME TypeOK, CallShaped, HandlerCommon
  PROVE  ~Undecided'
<1>0. call.to \in States /\ call.back \in States
  BY DEF CallShaped, Calls
<1>1. ASSUME NEW state \in States, Reply(state) \/ Fail(state) \/ Fault(state)
      PROVE  ~Undecided'
  <2>1. PICK outcome \in Outcomes : Answer(state, outcome)
    BY <1>1, OutcomesKnown DEF Reply, Fail, Fault
  <2> QED
    BY <2>1, AnswerFields DEF Undecided
<1>2. CASE NoHandler
  BY <1>1, <1>2 DEF NoHandler, Handling
<1>3. ASSUME NEW name \in {"status", "tracker"}, NEW kind \in {"recorded", "tracker"},
             Patching(name, Written(kind))
      PROVE  ~Undecided'
  BY <1>0, <1>1, <1>3, PatchingFields DEF Undecided
<1>4. CASE HandlerEnds
  BY <1>0, <1>1, <1>4 DEF HandlerEnds
<1> QED
  BY <1>2, <1>3, <1>4 DEF HandlerCommon, PatcherStatus, PatcherTracker, Written

\* Until it has, the snapshot is the object as it was last seen, and nothing
\* is written on the object meanwhile.
LEMMA StepUndecided ==
  ASSUME TypeOK, CallShaped, UnderFinalizer, AnyNext, ControllerStep,
         FreshReads', Undecided'
  PROVE  /\ FreshReads
         /\ \/ rec'.snap = obj'
            \/ /\ Undecided /\ rec'.snap \in {rec.snap, Aged(rec.snap)}
               /\ obj'.recorded = obj.recorded /\ obj'.tracker = obj.tracker
<1>1. FreshReads /\ (Start => cache = obj)
  BY AnyStale
<1>2. ~HandlerCommon
  BY CommonDecided
<1>3. obj'.recorded = obj.recorded /\ obj'.tracker = obj.tracker
  BY <1>2, WorkMoves DEF HandlerCommon
<1>4. CASE rec'.pc = "finalizer"
  BY <1>1, <1>3, <1>4, AnyToFinalizer DEF Undecided
<1>5. CASE rec'.pc = "handler" /\ ~call'.busy
  <2>1. call' = call \/ ~call.busy
    BY <1>2, <1>5, IdleFields DEF ControllerStep, Around, Crash, FirstStep
  <2> QED
    BY <1>1, <1>3, <1>5, <2>1, AnyToHandler DEF Undecided, Refreshes
<1> QED
  BY <1>4, <1>5 DEF Undecided

\* The snapshot then says what the object says about the record.
Copied == FreshReads /\ Undecided => rec.snap.recorded = obj.recorded

LEMMA InitCopied == ReconcilerInit => Copied
BY IdleFields DEF ReconcilerInit, Copied, Undecided

LEMMA StepCopied ==
  TypeOK /\ CallShaped /\ UnderFinalizer /\ Copied /\ AnyNext /\ ControllerStep => Copied'
<1> SUFFICES ASSUME TypeOK, CallShaped, UnderFinalizer, Copied, AnyNext, ControllerStep,
                    FreshReads', Undecided'
             PROVE  rec'.snap.recorded = obj'.recorded
  BY DEF Copied
<1>1. rec.snap \in Objects
  BY DEF TypeOK, Records
<1>2. Aged(rec.snap).recorded = rec.snap.recorded
  BY <1>1, CopyWork DEF SameWork
<1> QED
  BY <1>2, StepUndecided DEF Copied

----------------------------------------------------------------------------
(* Which states the object is said to be in.                               *)

\* Some copy of the object, or the answer in preparation, says so.
ClaimsSettled ==
  \/ obj.state \in Settled
  \/ cache.state \in Settled
  \/ rec.snap.state \in Settled
  \/ Answering /\ rec.next \in Settled
  \/ call.busy /\ (call.to \in Settled \/ call.back \in Settled)

\* An answer of a handler claims what it says, and nothing else is new.
LEMMA AnswerClaims ==
  ASSUME TypeOK, NEW state \in States, NEW outcome \in Outcomes, Answer(state, outcome),
         ClaimsSettled'
  PROVE  ClaimsSettled \/ state \in Settled
<1>1. /\ rec'.next = state /\ rec'.snap = rec.snap /\ call' = NoCall
      /\ obj' = obj /\ cache' = cache
  BY AnswerFields
<1> QED
  BY <1>1, NoCallKnown DEF ClaimsSettled

\* The same for each form of the answer.
LEMMA AnswersClaim ==
  ASSUME TypeOK, ClaimsSettled', NEW state \in States,
         Reply(state) \/ Fail(state) \/ Fault(state) \/ FailForGood(state)
  PROVE  ClaimsSettled \/ state \in Settled
BY OutcomesKnown, AnswerClaims DEF Reply, Fail, Fault, FailForGood

\* So does the answer a handler has in store.
LEMMA ContinueClaims ==
  ASSUME NEW todo, NEW to, NEW back, Continue(todo, to, back), ClaimsSettled'
  PROVE  ClaimsSettled \/ to \in Settled \/ back \in Settled
BY DEF Continue, ClaimsSettled, vars, Answering

LEMMA SettledDispatch == \A o \in Objects : Dispatch(o) \in Settled => o.state \in Settled
BY DEF Dispatch, Settled

LEMMA AroundClaims ==
  ASSUME TypeOK, Around, ClaimsSettled'
  PROVE  ClaimsSettled
<1>0. cache \in Objects /\ rec.snap \in Objects /\ "Initial" \notin Settled /\ "" \notin Settled
  BY DEF TypeOK, Records, Settled
<1>1. [ReconcilerNext]_vars
  BY DEF Around, ReconcilerNext, Environment
<1>2. CopiesMove /\ (PatchStatus \/ SameStatus(obj, obj'))
  BY <1>1, StepMoves
<1>3. obj'.state \in Settled => ClaimsSettled
  <2>1. CASE PatchStatus /\ obj' # obj
    <3>1. obj' = WithStatus(obj) /\ Answering
      BY <2>1 DEF PatchStatus, GiveUp, Answering
    <3>2. obj'.state = rec.next
      BY <3>1, WithStatusForward DEF TypeOK
    <3> QED
      BY <3>1, <3>2 DEF ClaimsSettled
  <2> QED
    BY <1>2, <2>1 DEF SameStatus, ClaimsSettled
<1>4. Aged(cache).state = cache.state /\ Aged(rec.snap).state = rec.snap.state
  BY <1>0, AgedForward DEF SameStatus
<1>5. cache'.state \in Settled => ClaimsSettled
  BY <1>2, <1>4 DEF CopiesMove, ClaimsSettled
<1>6. rec'.snap.state \in Settled => ClaimsSettled
  BY <1>0, <1>2, <1>3, <1>4, IdleFields DEF CopiesMove, ClaimsSettled
<1>7. Answering' /\ rec'.next \in Settled => ClaimsSettled
  BY <1>0, AroundAnswers DEF ClaimsSettled
<1>8. call'.busy /\ (call'.to \in Settled \/ call'.back \in Settled) => ClaimsSettled
  BY NoCallKnown DEF Around, ClaimsSettled
<1> QED
  BY <1>3, <1>5, <1>6, <1>7, <1>8 DEF ClaimsSettled

LEMMA CommonClaims ==
  ASSUME TypeOK, CallShaped, HandlerCommon, ClaimsSettled'
  PROVE  ClaimsSettled
<1>0. /\ rec.snap \in Objects /\ obj \in Objects /\ call.to \in States /\ call.back \in States
      /\ call.todo # {} => call.busy
  BY DEF TypeOK, Records, CallShaped, Calls
<1>1. CASE NoHandler
  <2>1. Dispatch(rec.snap) \in States /\ Fault(Dispatch(rec.snap))
    BY <1>1 DEF NoHandler, Handling
  <2> QED
    BY <1>0, <2>1, AnswersClaim, SettledDispatch DEF ClaimsSettled
<1>2. ASSUME NEW name, NEW kind \in {"recorded", "tracker"}, Patching(name, Written(kind))
      PROVE  ClaimsSettled
  <2>1. call.busy
    BY <1>0, <1>2 DEF Patching
  <2>2. CASE Fail(call.back) \/ Fault(call.back)
    BY <1>0, <2>1, <2>2, AnswersClaim DEF ClaimsSettled
  <2>3. CASE /\ obj' = Written(kind)
             /\ call' = [call EXCEPT !.todo = @ \ {name}]
             /\ UNCHANGED <<envVars, rec, budget>>
    <3>1. obj'.state = obj.state
      BY <1>0, <2>3, UpdateForward DEF Written, SameStatus
    <3>2. call'.to = call.to /\ call'.back = call.back
      BY <2>3 DEF CallShaped, Calls
    <3> QED
      BY <2>1, <2>3, <3>1, <3>2 DEF ClaimsSettled, envVars, Answering
  <2> QED
    BY <1>2, <2>2, <2>3 DEF Patching
<1>3. CASE PatcherStatus
  BY <1>2, <1>3 DEF PatcherStatus, Written
<1>4. CASE PatcherTracker
  BY <1>2, <1>4 DEF PatcherTracker, Written
<1>5. CASE HandlerEnds
  BY <1>0, <1>5, AnswersClaim DEF HandlerEnds, ClaimsSettled
<1> QED
  BY <1>1, <1>3, <1>4, <1>5 DEF HandlerCommon

----------------------------------------------------------------------------
(* The handlers that keep to no contract, written with the same steps.     *)

\* An answer, whatever it says.
Replies(state) == Reply(state) \/ Fail(state) \/ Fault(state) \/ FailForGood(state)

LEMMA RepliesAreAny ==
  ASSUME TypeOK, InHandler, NEW state \in States, Replies(state)
  PROVE  /\ AnyNext /\ AnyHandler /\ CallShaped' /\ call' = NoCall
         /\ obj' = obj /\ cache' = cache /\ Answering'
         /\ rec'.pc = "reapply" /\ rec'.next = state /\ rec'.snap = rec.snap
<1>1. PICK outcome \in Outcomes :
        Answer(state, outcome) /\ (UNCHANGED budget \/ Spend("faults"))
  BY OutcomesKnown DEF Replies, Reply, Fail, Fault, FailForGood
<1>2. AnyAnswer
  BY <1>1 DEF AnyAnswer, Answer, envVars
<1>3. AnyHandler /\ call' = NoCall
  BY <1>1, <1>2 DEF AnyHandler, InHandler, Answer, envVars
<1> QED
  BY <1>1, <1>3, AnswerFields, NoCallShaped DEF AnyNext, CallShaped, Answering

\* A call to Atlas went through.
LEMMA ContinueIsAny ==
  ASSUME InHandler, NEW todo \in SUBSET {"status", "tracker"}, NEW to \in States,
         NEW back \in States, Continue(todo, to, back)
  PROVE  UNCHANGED vars /\ AnyNext /\ CallShaped' /\ call'.busy
<1>1. call' = [busy |-> TRUE, todo |-> todo, to |-> to, back |-> back] /\ UNCHANGED vars
  BY DEF Continue
<1> QED
  BY <1>1 DEF Calls, CallShaped, InHandler, vars, AnyNext, Elsewhere

\* A patch.
LEMMA PatchIsAny ==
  ASSUME TypeOK, CallShaped, NEW name \in {"status", "tracker"}, NEW result, Patching(name, result),
         \/ result = [obj EXCEPT !.recorded = TRUE]
         \/ \E n \in Nat : result = [obj EXCEPT !.tracker = n]
  PROVE  /\ AnyNext /\ AnyHandler /\ CallShaped'
         /\ InHandler /\ call.busy /\ name \in call.todo
         /\ \/ Replies(call.back)
            \/ /\ obj' = result /\ AnyWrite /\ UNCHANGED <<cache, rec, queued, handled, budget>>
               /\ call' = [call EXCEPT !.todo = @ \ {name}]
<1>1. InHandler /\ call.busy /\ name \in call.todo /\ call \in Calls /\ call.back \in States
  BY DEF Patching, CallShaped, Calls
<1>2. CASE Replies(call.back)
  BY <1>1, <1>2, RepliesAreAny
<1>3. CASE /\ obj' = result /\ call' = [call EXCEPT !.todo = @ \ {name}]
           /\ UNCHANGED <<envVars, rec, budget>>
  <2>1. AnyWrite /\ AnyHandler
    BY <1>1, <1>3 DEF AnyWrite, AnyHandler, InHandler, envVars
  <2>2. CallShaped'
    BY <1>1, <1>3 DEF CallShaped, Calls, InHandler
  <2> QED
    BY <1>1, <1>3, <2>1, <2>2 DEF AnyNext, envVars
<1> QED
  BY <1>2, <1>3 DEF Patching, Replies

\* The loop does not move while a handler is in progress.
LEMMA AroundIsAny ==
  ASSUME TypeOK, CallShaped, Around
  PROVE  /\ AnyNext /\ CallShaped'
         /\ call'.busy => call' = call /\ rec'.snap \in {rec.snap, Aged(rec.snap)}
<1>1. AnyNext
  BY DEF Around, AnyNext, Environment
<1>2. CASE call' = NoCall
  BY <1>1, <1>2, NoCallShaped DEF CallShaped
<1>3. CASE call' = call /\ (CacheSync \/ Resync \/ User \/ PeriodElapses \/ Loop)
  <2>1. CASE ~call.busy
    BY <1>1, <1>3, <2>1 DEF CallShaped
  <2>2. CASE call.busy
    <3>1. rec.pc = "handler" /\ Dispatch(rec.snap) \notin Unsupported /\ rec \in Records
      BY <2>2 DEF CallShaped, InHandler, TypeOK
    <3>2. ~Loop
      BY <3>1
         DEF Loop, Start, EnsureFinalizers, RejectState, Reapply, UnsetFinalizers, PatchStatus
    <3>3. rec' = rec \/ rec' = [rec EXCEPT !.snap = Aged(@)]
      BY <1>3, <3>2 DEF CacheSync, Resync, User, PeriodElapses
    <3>4. /\ rec'.pc = "handler" /\ Dispatch(rec'.snap) = Dispatch(rec.snap)
          /\ rec'.snap \in {rec.snap, Aged(rec.snap)}
      BY <3>1, <3>3, AgedDispatch DEF Records
    <3> QED
      BY <1>1, <1>3, <3>1, <3>4 DEF CallShaped, InHandler
  <2> QED
    BY <2>1, <2>2
<1> QED
  BY <1>1, <1>2, <1>3 DEF Around
=============================================================================
