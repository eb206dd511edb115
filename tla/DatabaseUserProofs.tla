-------------------------- MODULE DatabaseUserProofs ---------------------------
(***************************************************************************)
(* The handler of the DatabaseUser controller writes a hash of its own     *)
(* into the tracker and answers an expired user with a deletion nobody     *)
(* asked for.  It is a handler all the same, and what is known of any      *)
(* handler carries its properties: no edit and no rotation is taken for    *)
(* one that Atlas has, and the user goes with the object.                  *)
(***************************************************************************)
EXTENDS DatabaseUser, StateReconcilerProofs

Users == [present : BOOLEAN, deleting : BOOLEAN, applied : BOOLEAN, spec : Nat, password : Nat]

\* Every move of the user takes from the budget: generations stay small.
GenerationsLeft ==
  /\ 1 <= obj.gen
  /\ obj.gen + budget.ops <= MaxOps + 1

\* The versions of the Secret follow one another.
VersionsKnown ==
  /\ secret \in [server : Nat, cache : Nat, read : Nat]
  /\ 1 <= secret.cache /\ secret.cache <= secret.server
  /\ secret.read <= secret.cache

UserShaped ==
  /\ user \in Users
  /\ group \in BOOLEAN
  /\ dates \subseteq Generations
  /\ elapsed \in BOOLEAN

UserInv == TypeOK /\ CallShaped /\ GenerationsLeft /\ VersionsKnown /\ UserShaped

LEMMA InitUserInv == UserInit => ReconcilerInit /\ UserInv
<1> SUFFICES ASSUME UserInit PROVE ReconcilerInit /\ UserInv
  OBVIOUS
<1>1. ReconcilerInit /\ TypeOK
  BY InitTyped DEF UserInit
<1>2. obj.gen = 1 /\ budget.ops = MaxOps /\ MaxOps \in Nat
  BY <1>1, BoundsAreNatural DEF ReconcilerInit, NewObject
<1>3. GenerationsLeft
  BY <1>2 DEF GenerationsLeft
<1>4. CallShaped
  BY NoCallShaped DEF UserInit, CallShaped
<1>5. VersionsKnown
  BY DEF UserInit, VersionsKnown
<1>6. user \in Users
  <2>1. NoUser \in Users
    BY DEF NoUser, Users
  <2>2. (obj.external # "none") \in BOOLEAN
    OBVIOUS
  <2> QED
    BY <2>1, <2>2 DEF UserInit, Users
<1>7. dates \subseteq Generations
  BY <1>2 DEF UserInit, Generations
<1>8. UserShaped
  BY <1>6, <1>7 DEF UserInit, UserShaped
<1> QED
  BY <1>1, <1>3, <1>4, <1>5, <1>8 DEF UserInv

----------------------------------------------------------------------------
(* The steps of the handlers, as the loop sees them.                       *)

\* The first step of a handler answers, or goes on to the patches.
Decides ==
  /\ InHandler /\ ~call.busy
  /\ \/ \E state \in States : Replies(state)
     \/ \E to \in States, back \in States : Continue({"status", "tracker"}, to, back)

\* The steps that follow leave Atlas and the Secret alone.
Follows ==
  /\ \/ PatcherStatus \/ TrackerPatch \/ HandlerEnds
     \/ NoHandler
  /\ UNCHANGED userVars

LEMMA UserStates ==
  /\ Settled \cup {"Initial", "ImportRequested", "Imported", "Creating", "Created", "Updating",
                   "Updated", "DeletionRequested", "Deleting"} \subseteq States \ Unsupported
  /\ "Deleted" \in States
BY DEF States, Settled, Polled, Unsupported

LEMMA HandlersDecide ==
  ASSUME UserHandler, ~Follows
  PROVE  Decides
<1> DEFINE d == Dispatch(rec.snap)
<1>1. ASSUME NEW states \in SUBSET (States \ Unsupported), Handling(states)
      PROVE  InHandler /\ ~call.busy /\ d \in states
  BY <1>1 DEF Handling, InHandler
<1>2. CASE HandleInitial
  BY <1>1, <1>2, UserStates DEF HandleInitial, LostCall, Decides, Replies
<1>3. CASE HandleImportRequested
  BY <1>1, <1>3, UserStates DEF HandleImportRequested, Decides, Replies
<1>4. CASE HandleUpserting("Creating", "Created") \/ HandleUpserting("Updating", "Updated")
  BY <1>1, <1>4, UserStates DEF HandleUpserting, Decides, Replies
<1>5. CASE HandleExpired
  BY <1>1, <1>5, UserStates DEF HandleExpired, Decides, Replies
<1>6. CASE HandleUpserted
  <2>1. InHandler /\ ~call.busy /\ d \in States
    BY <1>1, <1>6, UserStates DEF HandleUpserted
  <2> QED
    BY <1>6, <2>1, UserStates DEF HandleUpserted, LostCall, Decides, Replies
<1>7. CASE HandleDeletionRequested
  BY <1>1, <1>7, UserStates DEF HandleDeletionRequested, LostCall, Decides, Replies
<1>8. CASE HandleDeleting
  BY <1>1, <1>8, UserStates DEF HandleDeleting, Decides, Replies
<1>9. CASE NoDependencies
  <2>1. {"Initial", "Creating", "Updating"} \cup Settled \subseteq States \ Unsupported
    BY UserStates
  <2>2. InHandler /\ ~call.busy /\ d \in States /\ Fail(d)
    BY <1>1, <1>9, <2>1 DEF NoDependencies
  <2> QED
    BY <2>2 DEF Decides, Replies
<1> QED
  BY <1>2, <1>3, <1>4, <1>5, <1>6, <1>7, <1>8, <1>9 DEF UserHandler, Follows

LEMMA DecidesIsAny ==
  ASSUME TypeOK, CallShaped, Decides
  PROVE  AnyNext /\ CallShaped' /\ obj' = obj /\ cache' = cache
<1>1. CASE \E state \in States : Replies(state)
  BY <1>1, RepliesAreAny DEF Decides
<1>2. CASE \E to \in States, back \in States : Continue({"status", "tracker"}, to, back)
  BY <1>2, ContinueIsAny DEF Decides, vars
<1> QED
  BY <1>1, <1>2 DEF Decides

LEMMA TrackerNat ==
  ASSUME UserInv
  PROVE  Tracker(rec.snap, secret.read) \in Nat
<1>1. rec.snap.gen \in Nat /\ secret.read \in Nat /\ MaxOps \in Nat
  BY GenNat, BoundsAreNatural DEF UserInv, TypeOK, Records, VersionsKnown
<1> QED
  BY <1>1 DEF Tracker, StateTracker

\* Either patch goes through, or the handler answers.
LEMMA FollowsIsAny ==
  ASSUME UserInv, Follows
  PROVE  /\ AnyNext /\ CallShaped' /\ cache' = cache
         /\ \/ call' = NoCall /\ obj' = obj /\ Answering'
            \/ /\ call.busy /\ rec' = rec /\ AnyWrite
               /\ \/ /\ call' = [call EXCEPT !.todo = @ \ {"status"}]
                     /\ obj' = [obj EXCEPT !.recorded = TRUE]
                  \/ /\ call' = [call EXCEPT !.todo = @ \ {"tracker"}]
                     /\ "tracker" \in call.todo
                     /\ obj' = [obj EXCEPT !.tracker = Tracker(rec.snap, secret.read)]
<1>0. TypeOK /\ CallShaped /\ call.to \in States /\ call.back \in States
  BY DEF UserInv, CallShaped, Calls
<1>1. CASE PatcherStatus
  <2>1. Patching("status", [obj EXCEPT !.recorded = TRUE])
    BY <1>1 DEF PatcherStatus
  <2> QED
    BY <1>0, <2>1, PatchIsAny, RepliesAreAny
<1>2. CASE TrackerPatch
  <2>1. Patching("tracker", [obj EXCEPT !.tracker = Tracker(rec.snap, secret.read)])
    BY <1>2 DEF TrackerPatch
  <2> QED
    BY <1>0, <2>1, TrackerNat, PatchIsAny, RepliesAreAny
<1>3. CASE HandlerEnds
  BY <1>0, <1>3, RepliesAreAny DEF HandlerEnds, Replies, CallShaped
<1>4. CASE NoHandler
  <2>1. InHandler /\ Dispatch(rec.snap) \in States /\ Replies(Dispatch(rec.snap))
    BY <1>4 DEF NoHandler, Handling, InHandler, Replies
  <2> QED
    BY <1>0, <2>1, RepliesAreAny
<1> QED
  BY <1>1, <1>2, <1>3, <1>4 DEF Follows

----------------------------------------------------------------------------
(* The other steps.                                                        *)

\* In Atlas, on the Secret, with the Group and the clock.
Beyond ==
  AtlasApplies \/ AtlasExpires \/ DateElapses \/ Rotate \/ SecretSync \/ GroupVanishes

LEMMA BeyondIsAny ==
  ASSUME UserInv, Beyond
  PROVE  /\ AnyNext /\ CallShaped' /\ UNCHANGED <<obj, cache, rec, call>>
         /\ secret'.read = secret.read
<1>1. UNCHANGED <<obj, cache, rec, call>>
  BY DEF Beyond, AtlasApplies, AtlasExpires, DateElapses, Rotate, SecretSync, GroupVanishes,
         handlerVars, vars, envVars
<1>2. cache.exists \in BOOLEAN /\ queued \in BOOLEAN
  BY DEF UserInv, TypeOK, Objects
<1>3. Elsewhere
  BY <1>2 DEF Beyond, AtlasApplies, AtlasExpires, DateElapses, Rotate, SecretSync,
              GroupVanishes, handlerVars, vars, envVars, Elsewhere
<1>4. secret'.read = secret.read
  BY DEF UserInv, VersionsKnown, Beyond, AtlasApplies, AtlasExpires, DateElapses, Rotate,
         SecretSync, GroupVanishes
<1> QED
  BY <1>1, <1>3, <1>4 DEF AnyNext, UserInv, CallShaped, InHandler

\* A step is one of these, or nothing happens.
LEMMA UserSteps ==
  ASSUME UserInv, [UserNext]_allVars
  PROVE  \/ Around /\ DatesFollow /\ UNCHANGED <<user, secret, group, elapsed>>
         \/ UserHandler /\ Decides /\ ~Follows
         \/ Follows
         \/ Beyond
         \/ UNCHANGED allVars
BY HandlersDecide DEF UserNext, Beyond

LEMMA UserIsAny ==
  ASSUME UserInv, [UserNext]_allVars
  PROVE  AnyNext /\ CallShaped'
<1>1. CASE UNCHANGED allVars
  BY <1>1 DEF allVars, handlerVars, vars, UserInv, CallShaped, InHandler, AnyNext, Elsewhere
<1> QED
  BY <1>1, UserSteps, AroundIsAny, DecidesIsAny, FollowsIsAny, BeyondIsAny DEF UserInv

\* What happens to the user in Atlas.
UserMoves ==
  \/ UNCHANGED user
  \/ user' = NoUser
  \/ user' = [user EXCEPT !.applied = TRUE]
  \/ DeleteInAtlas /\ Handling({"DeletionRequested"}) /\ UNCHANGED secret
  \/ (CreateInAtlas \/ UpdateInAtlas) /\ Handling({"Initial"} \cup Settled)

LEMMA UserStep ==
  ASSUME UserInv, [UserNext]_allVars
  PROVE  UserMoves
BY DEF UserNext, UserHandler, UserMoves, userVars, allVars, HandleInitial,
       HandleImportRequested, HandleUpserting, HandleExpired, HandleUpserted,
       HandleDeletionRequested, HandleDeleting, NoDependencies, LostCall, Handling,
       AtlasApplies, AtlasExpires, DateElapses, Rotate, SecretSync, GroupVanishes

\* And to the Secret.
LEMMA SecretMoves ==
  ASSUME UserInv, [UserNext]_allVars
  PROVE  \/ UNCHANGED secret
         \/ secret' = [secret EXCEPT !.server = @ + 1] /\ UNCHANGED <<user, call>>
         \/ secret' = [secret EXCEPT !.cache = secret.server] /\ UNCHANGED <<user, call>>
         \/ /\ Hashing(secret.cache) \/ Hashing(0)
            /\ UserHandler /\ ~Follows
BY DEF UserNext, UserHandler, Follows, userVars, allVars, handlerVars, HandleInitial,
       HandleImportRequested, HandleUpserting, HandleExpired, HandleUpserted,
       HandleDeletionRequested, HandleDeleting, NoDependencies,
       AtlasApplies, AtlasExpires, DateElapses, Rotate, SecretSync, GroupVanishes

LEMMA StepVersions ==
  ASSUME UserInv, [UserNext]_allVars
  PROVE  VersionsKnown' /\ secret.cache <= secret'.cache /\ secret.server <= secret'.server
<1>0. /\ secret \in [server : Nat, cache : Nat, read : Nat]
      /\ 1 <= secret.cache /\ secret.cache <= secret.server /\ secret.read <= secret.cache
      /\ secret.server \in Nat /\ secret.cache \in Nat /\ secret.read \in Nat
  BY DEF UserInv, VersionsKnown
<1>1. CASE UNCHANGED secret
  BY <1>0, <1>1 DEF VersionsKnown
<1>2. CASE secret' = [secret EXCEPT !.server = @ + 1]
  BY <1>0, <1>2 DEF VersionsKnown
<1>3. CASE secret' = [secret EXCEPT !.cache = secret.server]
  BY <1>0, <1>3 DEF VersionsKnown
<1>4. CASE Hashing(secret.cache) \/ Hashing(0)
  BY <1>0, <1>4 DEF Hashing, VersionsKnown
<1> QED
  BY <1>1, <1>2, <1>3, <1>4, SecretMoves

LEMMA StepUserShaped ==
  ASSUME UserInv, [UserNext]_allVars
  PROVE  UserShaped' /\ (elapsed => elapsed')
<1>0. /\ rec.snap.gen \in Nat /\ secret.cache \in Nat /\ user \in Users
      /\ obj'.gen \in Nat /\ budget'.ops \in Nat /\ obj.gen \in Nat /\ MaxOps \in Nat
  BY UserIsAny, AnyTyped, GenNat, BoundsAreNatural
     DEF UserInv, TypeOK, Records, VersionsKnown, UserShaped
<1>1. user' \in Users
  <2>1. NoUser \in Users
    BY DEF NoUser, Users
  <2>2. CASE CreateInAtlas \/ UpdateInAtlas
    <3>1. user' = [present |-> TRUE, deleting |-> FALSE, applied |-> FALSE,
                   spec |-> rec.snap.gen, password |-> secret.cache]
      BY <2>2 DEF CreateInAtlas, UpdateInAtlas, SendSpec
    <3> QED
      BY <1>0, <3>1 DEF Users
  <2>3. CASE DeleteInAtlas \/ user' = [user EXCEPT !.applied = TRUE]
    BY <1>0, <2>3 DEF DeleteInAtlas, Users
  <2> QED
    BY <1>0, <2>1, <2>2, <2>3, UserStep DEF UserMoves
<1>2. group' \in BOOLEAN /\ elapsed' \in BOOLEAN /\ (elapsed => elapsed')
  BY DEF UserInv, UserShaped, UserNext, UserHandler, userVars, allVars, HandleInitial,
         HandleImportRequested, HandleUpserting, HandleExpired, HandleUpserted,
         HandleDeletionRequested, HandleDeleting, NoDependencies,
         AtlasApplies, AtlasExpires, DateElapses, Rotate, SecretSync, GroupVanishes
<1>3. dates' \subseteq Generations
  <2>1. dates' = dates \/ dates' = dates \cup {obj'.gen}
    BY DEF UserNext, UserHandler, userVars, allVars, DatesFollow, HandleInitial,
           HandleImportRequested, HandleUpserting, HandleExpired, HandleUpserted,
           HandleDeletionRequested, HandleDeleting, NoDependencies,
           AtlasApplies, AtlasExpires, DateElapses, Rotate, SecretSync, GroupVanishes
  <2>2. obj.gen <= obj'.gen /\ obj'.gen + budget'.ops <= obj.gen + budget.ops
    BY UserIsAny, AnyGenerations DEF UserInv
  <2>3. budget.ops \in Nat
    BY DEF UserInv, TypeOK
  <2>4. obj'.gen \in Generations
    BY <1>0, <2>2, <2>3 DEF UserInv, GenerationsLeft, Generations
  <2> QED
    BY <2>1, <2>4 DEF UserInv, UserShaped
<1> QED
  BY <1>1, <1>2, <1>3 DEF UserShaped

LEMMA StepUserInv ==
  ASSUME UserInv, [UserNext]_allVars
  PROVE  AnyNext /\ UserInv'
<1>1. AnyNext /\ CallShaped' /\ TypeOK'
  BY UserIsAny, AnyTyped DEF UserInv
<1>2. GenerationsLeft'
  <2>1. obj.gen <= obj'.gen /\ obj'.gen + budget'.ops <= obj.gen + budget.ops
    BY <1>1, AnyGenerations DEF UserInv
  <2>2. /\ obj.gen \in Nat /\ obj'.gen \in Nat /\ budget.ops \in Nat /\ budget'.ops \in Nat
        /\ MaxOps \in Nat
    BY <1>1, GenNat, BoundsAreNatural DEF UserInv, TypeOK
  <2> QED
    BY <2>1, <2>2 DEF UserInv, GenerationsLeft
<1> QED
  BY <1>1, <1>2, StepVersions, StepUserShaped DEF UserInv

\* The object, the handler in progress, the user, the versions of its Secret
\* and the dates keep their shape, and the generations their bound.
THEOREM UserTypes == UserSpec => []UserTypeOK
<1>1. UserInit => UserInv
  BY InitUserInv
<1>2. UserInv /\ [UserNext]_allVars => UserInv'
  BY StepUserInv
<1>3. UserInv => UserTypeOK
  BY DEF UserInv, CallShaped, VersionsKnown, UserShaped, Users, UserTypeOK
<1> QED
  BY <1>1, <1>2, <1>3, PTL DEF UserSpec

----------------------------------------------------------------------------
(* What the tracker says of Atlas.                                         *)

TrackerSays(g, version) == obj.tracker = g + (MaxOps + 2) * version

\* Within the bounds of a run no two generations or versions hash alike.
LEMMA HashesDiffer ==
  ASSUME NEW g \in Generations, NEW h \in Generations, NEW v \in Nat, NEW w \in Nat,
         g + (MaxOps + 2) * v = h + (MaxOps + 2) * w
  PROVE  g = h /\ v = w
<1> DEFINE n == MaxOps + 2
<1>0. n \in Nat /\ g \in 1..(n - 1) /\ h \in 1..(n - 1) /\ g + n * v = h + n * w
  BY BoundsAreNatural DEF Generations
<1>1. ASSUME NEW a \in 1..(n - 1), NEW b \in 1..(n - 1), NEW x \in Nat, NEW y \in Nat,
             x < y, a + n * x = b + n * y
      PROVE  FALSE
  <2> HIDE DEF n
  <2> DEFINE d == y - x - 1
  <2>1. d \in Nat /\ y = x + d + 1
    BY <1>1
  <2>2. n * y = n * x + n * d + n
    BY <1>0, <2>1
  <2>3. n * d \in Nat /\ n * x \in Nat
    BY <1>0, <2>1
  <2> QED
    BY <1>0, <1>1, <2>2, <2>3
<1>2. v = w
  <2>1. v < w \/ w < v \/ v = w
    OBVIOUS
  <2> QED
    BY <1>0, <1>1, <2>1
<1>3. n * v \in Nat
  BY <1>0
<1> QED
  BY <1>0, <1>2, <1>3

\* The copies of the object are older than it is.
GensKnown ==
  /\ cache.gen \in 1..obj.gen
  /\ rec.snap.gen \in 1..obj.gen

\* The tracker never names what is still to come.
Ahead ==
  \A g \in Generations, version \in Nat \ {0} :
    TrackerSays(g, version) => g <= obj.gen /\ version <= secret.cache

\* A handler that is about to decide has seen what the tracker names.
SnapshotAhead ==
  FreshReads /\ Undecided =>
    \A g \in Generations, version \in Nat \ {0} :
      TrackerSays(g, version) => g <= rec.snap.gen

\* What the tracker names was sent, and what a patch under way will name.
Sent ==
  FreshReads /\ user.present =>
    /\ \A g \in Generations, version \in Nat \ {0} :
         TrackerSays(g, version) => g <= user.spec /\ version <= user.password
    /\ "tracker" \in call.todo /\ secret.read >= 1 =>
         rec.snap.gen <= user.spec /\ secret.read <= user.password

SentInv == UnderFinalizer /\ GensKnown /\ Ahead /\ SnapshotAhead /\ Sent

LEMMA InitSentInv == UserInit => SentInv
<1> SUFFICES ASSUME UserInit PROVE SentInv
  OBVIOUS
<1>1. ReconcilerInit /\ obj.gen = 1 /\ cache = obj /\ rec = Idle /\ obj.tracker = 0
  <2>1. ReconcilerInit
    BY DEF UserInit
  <2>2. PICK keep \in Policies, external \in Externals, period \in Periods :
          obj = NewObject(keep, external, period)
    BY <2>1 DEF ReconcilerInit
  <2> QED
    BY <2>1, <2>2 DEF ReconcilerInit, NewObject
<1>2. UnderFinalizer /\ GensKnown
  BY <1>1, InitUnderFinalizer, IdleFields DEF GensKnown
<1>3. ASSUME NEW g \in Generations, NEW version \in Nat \ {0} PROVE ~TrackerSays(g, version)
  <2>1. (MaxOps + 2) * version \in Nat /\ g >= 1 /\ g \in Nat
    BY BoundsAreNatural DEF Generations
  <2> QED
    BY <1>1, <2>1 DEF TrackerSays
<1>4. ~("tracker" \in call.todo)
  BY DEF UserInit, NoCall
<1> QED
  BY <1>2, <1>3, <1>4 DEF SentInv, Ahead, SnapshotAhead, Sent

LEMMA GenInBounds == UserInv => obj.gen \in Generations
<1> SUFFICES ASSUME UserInv PROVE obj.gen \in Generations
  OBVIOUS
<1>1. obj.gen \in Nat /\ budget.ops \in Nat /\ MaxOps \in Nat
  BY GenNat, BoundsAreNatural DEF UserInv, TypeOK
<1> QED
  BY <1>1 DEF UserInv, GenerationsLeft, Generations

LEMMA StepGensKnown ==
  ASSUME UserInv, GensKnown, AnyNext, UserInv'
  PROVE  GensKnown' /\ obj.gen <= obj'.gen
<1>0. /\ obj \in Objects /\ cache \in Objects /\ rec.snap \in Objects /\ obj' \in Objects
      /\ obj.gen \in Nat /\ obj'.gen \in Nat /\ cache.gen \in Nat /\ rec.snap.gen \in Nat
  BY GenNat DEF UserInv, TypeOK, Records
<1>1. obj.gen <= obj'.gen /\ CopiesMove
  BY AnyMoves DEF UserInv, Forward
<1>2. Aged(cache).gen = cache.gen /\ Aged(rec.snap).gen = rec.snap.gen
  BY <1>0, AgedForward
<1>3. 1 <= obj.gen /\ 1 <= obj'.gen /\ Idle.snap.gen = 1
  BY IdleFields DEF UserInv, GenerationsLeft
<1>4. cache'.gen \in {cache.gen, obj.gen}
  BY <1>1, <1>2 DEF CopiesMove
<1>5. rec'.snap.gen \in {rec.snap.gen, cache.gen, obj'.gen, 1}
  BY <1>1, <1>2, <1>3 DEF CopiesMove
<1> QED
  BY <1>0, <1>1, <1>3, <1>4, <1>5 DEF GensKnown

\* The tracker stays what it is but for the second patch.
LEMMA TrackerMoves ==
  ASSUME UserInv, [UserNext]_allVars
  PROVE  \/ obj'.tracker = obj.tracker
         \/ /\ obj'.tracker = Tracker(rec.snap, secret.read) /\ "tracker" \in call.todo
            /\ user' = user /\ secret' = secret /\ rec' = rec
            /\ call' = [call EXCEPT !.todo = @ \ {"tracker"}]
<1>0. obj \in Objects
  BY DEF UserInv, TypeOK
<1>1. CASE Around
  BY <1>1, LoopWork DEF Around, Environment, UserInv, SameWork
<1>2. CASE Decides \/ UNCHANGED allVars \/ Beyond
  BY <1>2, DecidesIsAny, BeyondIsAny DEF UserInv, allVars, handlerVars, vars
<1>3. CASE Follows
  <2>1. user' = user /\ secret' = secret
    BY <1>3 DEF Follows, userVars
  <2> QED
    BY <1>0, <1>3, <2>1, FollowsIsAny DEF Objects
<1> QED
  BY <1>1, <1>2, <1>3, UserSteps

LEMMA StepAhead ==
  ASSUME UserInv, GensKnown, Ahead, [UserNext]_allVars, UserInv', AnyNext
  PROVE  Ahead'
<1>0. /\ secret.cache \in Nat /\ secret'.cache \in Nat /\ secret.read \in Nat
      /\ secret.cache <= secret'.cache /\ secret.read <= secret.cache
      /\ obj.gen \in Nat /\ obj'.gen \in Nat /\ obj.gen <= obj'.gen
      /\ rec.snap.gen \in 1..obj.gen
  BY StepVersions, StepGensKnown, GenNat DEF UserInv, VersionsKnown, TypeOK, GensKnown
<1> SUFFICES ASSUME NEW g \in Generations, NEW version \in Nat \ {0},
                    obj'.tracker = g + (MaxOps + 2) * version
             PROVE  g <= obj'.gen /\ version <= secret'.cache
  BY DEF Ahead, TrackerSays
<1>1. CASE obj'.tracker = obj.tracker
  <2>1. g <= obj.gen /\ version <= secret.cache
    BY <1>1 DEF Ahead, TrackerSays
  <2> QED
    BY <1>0, <2>1 DEF Generations
<1>2. CASE obj'.tracker = Tracker(rec.snap, secret.read)
  <2>1. rec.snap.gen \in Generations
    BY <1>0, GenInBounds, BoundsAreNatural DEF Generations
  <2>2. g = rec.snap.gen /\ version = secret.read
    BY <1>0, <1>2, <2>1, HashesDiffer DEF Tracker, StateTracker
  <2> QED
    BY <1>0, <2>2
<1> QED
  BY <1>1, <1>2, TrackerMoves

LEMMA StepUndecidedUser ==
  ASSUME UserInv, UnderFinalizer, [UserNext]_allVars, FreshReads', Undecided'
  PROVE  /\ FreshReads
         /\ \/ rec'.snap = obj'
            \/ /\ Undecided /\ rec'.snap.gen = rec.snap.gen /\ obj'.tracker = obj.tracker
<1>0. TypeOK /\ CallShaped /\ rec.snap \in Objects
  BY DEF UserInv, TypeOK, Records
<1>1. AnyNext /\ FreshReads /\ (Start => cache = obj)
  BY <1>0, UserIsAny, AnyStale
<1>2. Aged(rec.snap).gen = rec.snap.gen
  BY <1>0, AgedForward
<1>3. CASE Around
  <2>1. obj'.tracker = obj.tracker
    BY <1>0, <1>3, LoopWork DEF Around, Environment, SameWork
  <2>2. rec' # Idle /\ call' = call
    BY <1>3, IdleFields DEF Undecided, Around, Crash
  <2>3. CASE rec'.pc = "finalizer"
    BY <1>0, <1>1, <1>2, <2>1, <2>3, AnyToFinalizer DEF Undecided
  <2>4. CASE rec'.pc = "handler" /\ ~call.busy
    BY <1>0, <1>1, <1>2, <2>1, <2>4, AnyToHandler DEF Undecided, Refreshes
  <2> QED
    BY <2>2, <2>3, <2>4 DEF Undecided
<1>4. CASE Decides
  <2>1. CASE \E state \in States : Replies(state)
    BY <1>0, <1>4, <2>1, RepliesAreAny DEF Decides, Undecided
  <2>2. CASE \E to \in States, back \in States : Continue({"status", "tracker"}, to, back)
    BY <1>4, <2>2, ContinueIsAny DEF Decides, vars, Undecided, InHandler
  <2> QED
    BY <1>4, <2>1, <2>2 DEF Decides
<1>5. CASE Follows
  <2>1. CASE call' = NoCall /\ obj' = obj /\ Answering'
    BY <2>1 DEF Undecided, Answering
  <2>2. CASE call.busy /\ rec' = rec /\ call'.busy = call.busy
    BY <1>0, <2>2 DEF Undecided, CallShaped, InHandler
  <2>3. ASSUME NEW todo, call' = [call EXCEPT !.todo = todo] PROVE call'.busy = call.busy
    BY <1>0, <2>3 DEF CallShaped, Calls
  <2> QED
    BY <1>5, <2>1, <2>2, <2>3, FollowsIsAny
<1>6. CASE Beyond \/ UNCHANGED allVars
  <2>1. UNCHANGED <<obj, rec, call>>
    BY <1>6, BeyondIsAny DEF allVars, handlerVars, vars
  <2> QED
    BY <1>1, <2>1 DEF Undecided
<1> QED
  BY <1>3, <1>4, <1>5, <1>6, UserSteps

LEMMA StepSnapshotAhead ==
  ASSUME UserInv, UnderFinalizer, Ahead', SnapshotAhead, [UserNext]_allVars
  PROVE  SnapshotAhead'
<1> SUFFICES ASSUME FreshReads', Undecided',
                    NEW g \in Generations, NEW version \in Nat \ {0},
                    obj'.tracker = g + (MaxOps + 2) * version
             PROVE  g <= rec'.snap.gen
  BY DEF SnapshotAhead, TrackerSays
<1>1. g <= obj'.gen
  BY DEF Ahead, TrackerSays
<1> QED
  BY <1>1, StepUndecidedUser DEF SnapshotAhead, TrackerSays

\* Where the patch of the tracker comes from: the first step has sent what it
\* will hash, or it hashes no version.
LEMMA PatchesComeFrom ==
  ASSUME UserInv, UserHandler, ~Follows, "tracker" \in call'.todo
  PROVE  /\ UNCHANGED vars
         /\ \/ user' = user /\ secret'.read = 0
            \/ (CreateInAtlas \/ UpdateInAtlas) /\ secret'.read = secret.cache
<1>0. ASSUME NEW state, NEW outcome, Answer(state, outcome) PROVE FALSE
  BY <1>0 DEF Answer, NoCall
<1>1. ~Fault("Initial") /\ ~Fault("ImportRequested") /\ ~Fault("DeletionRequested")
      /\ ~Fault("Deleting") /\ ~Fault("Creating") /\ ~Fault("Updating")
      /\ ~Fault(Dispatch(rec.snap))
  BY <1>0 DEF Fault
<1>2. \A state : ~Reply(state) /\ ~Fail(state) /\ ~FailForGood(state)
  BY <1>0 DEF Reply, Fail, FailForGood
<1>3. secret \in [server : Nat, cache : Nat, read : Nat]
  BY DEF UserInv, VersionsKnown
<1>4. /\ Hashing(0) => secret'.read = 0
      /\ Hashing(secret.cache) => secret'.read = secret.cache
  BY <1>3 DEF Hashing
<1>5. CASE HandleInitial
  BY <1>1, <1>2, <1>4, <1>5 DEF HandleInitial, LostCall, Continue
<1>6. CASE HandleImportRequested
  BY <1>1, <1>2, <1>4, <1>6 DEF HandleImportRequested, Continue
<1>7. CASE HandleUpserted
  BY <1>1, <1>2, <1>4, <1>7 DEF HandleUpserted, LostCall, Continue
<1>8. ~HandleUpserting("Creating", "Created") /\ ~HandleUpserting("Updating", "Updated")
      /\ ~HandleExpired /\ ~HandleDeletionRequested /\ ~HandleDeleting /\ ~NoDependencies
  BY <1>1, <1>2 DEF HandleUpserting, HandleExpired, HandleDeletionRequested, HandleDeleting,
                    NoDependencies, LostCall
<1> QED
  BY <1>5, <1>6, <1>7, <1>8 DEF UserHandler, Follows

\* A patch that was to be sent is still the same patch.
LEMMA PatchesStay ==
  ASSUME UserInv, [UserNext]_allVars, "tracker" \in call'.todo
  PROVE  \/ UserHandler /\ ~Follows
         \/ /\ "tracker" \in call.todo
            /\ rec'.snap.gen = rec.snap.gen /\ secret'.read = secret.read
<1>0. TypeOK /\ CallShaped /\ CallShaped' /\ rec.snap \in Objects /\ NoCall.todo = {}
  BY UserIsAny, NoCallShaped DEF UserInv, TypeOK, Records
<1>1. Aged(rec.snap).gen = rec.snap.gen
  BY <1>0, AgedForward
<1>2. CASE Around /\ UNCHANGED secret
  BY <1>0, <1>1, <1>2, AroundIsAny DEF CallShaped
<1>3. CASE Follows
  <2>1. secret' = secret
    BY <1>3 DEF Follows, userVars
  <2>2. call' # NoCall
    BY <1>0
  <2>3. ASSUME NEW x, call' = [call EXCEPT !.todo = @ \ {x}] PROVE "tracker" \in call.todo
    BY <1>0, <2>3 DEF CallShaped, Calls
  <2> QED
    BY <1>3, <2>1, <2>2, <2>3, FollowsIsAny
<1>4. CASE Beyond \/ UNCHANGED allVars
  BY <1>4, BeyondIsAny DEF allVars, handlerVars, userVars, vars
<1> QED
  BY <1>2, <1>3, <1>4, UserSteps

LEMMA StepSent ==
  ASSUME UserInv, SentInv, [UserNext]_allVars, AnyNext, UserInv'
  PROVE  Sent'
<1> SUFFICES ASSUME FreshReads', user'.present PROVE Sent'
  BY DEF Sent
<1>0. /\ UnderFinalizer /\ GensKnown /\ Ahead /\ SnapshotAhead /\ Sent
      /\ TypeOK /\ user \in Users /\ secret.read \in Nat /\ secret.cache \in Nat
      /\ rec.snap.gen \in Generations /\ rec.snap.gen \in Nat
  <2>1. obj.gen \in Generations /\ MaxOps \in Nat /\ rec.snap.gen \in 1..obj.gen
    BY GenInBounds, BoundsAreNatural DEF SentInv, GensKnown
  <2>2. rec.snap.gen \in Generations /\ rec.snap.gen \in Nat
    BY <2>1 DEF Generations
  <2> QED
    BY <2>2 DEF SentInv, UserInv, UserShaped, VersionsKnown
<1>1. FreshReads
  BY <1>0, AnyStale
<1>2. CASE user'.spec = user.spec /\ user'.password = user.password /\ user.present
  <2>1. /\ \A g \in Generations, version \in Nat \ {0} :
             TrackerSays(g, version) => g <= user.spec /\ version <= user.password
        /\ "tracker" \in call.todo /\ secret.read >= 1 =>
             rec.snap.gen <= user.spec /\ secret.read <= user.password
    BY <1>0, <1>1, <1>2 DEF Sent
  <2>2. ASSUME NEW g \in Generations, NEW version \in Nat \ {0},
               obj'.tracker = g + (MaxOps + 2) * version
        PROVE  g <= user'.spec /\ version <= user'.password
    <3>1. CASE obj'.tracker = obj.tracker
      BY <1>2, <2>1, <2>2, <3>1 DEF TrackerSays
    <3>2. CASE obj'.tracker = Tracker(rec.snap, secret.read) /\ "tracker" \in call.todo
      <4>1. g = rec.snap.gen /\ version = secret.read
        BY <1>0, <2>2, <3>2, HashesDiffer DEF Tracker, StateTracker
      <4> QED
        BY <1>2, <2>1, <3>2, <4>1
    <3> QED
      BY <3>1, <3>2, TrackerMoves
  <2>3. ASSUME "tracker" \in call'.todo, secret'.read >= 1
        PROVE  rec'.snap.gen <= user'.spec /\ secret'.read <= user'.password
    <3>1. CASE "tracker" \in call.todo /\ rec'.snap.gen = rec.snap.gen /\ secret'.read = secret.read
      BY <1>2, <2>1, <2>3, <3>1
    <3>2. CASE UserHandler /\ ~Follows
      <4>1. UNCHANGED vars /\ (CreateInAtlas \/ UpdateInAtlas) /\ secret'.read = secret.cache
        BY <2>3, <3>2, PatchesComeFrom
      <4>2. user'.spec = rec.snap.gen /\ user'.password = secret.cache
        BY <4>1 DEF CreateInAtlas, UpdateInAtlas, SendSpec
      <4> QED
        BY <1>0, <4>1, <4>2 DEF vars
    <3> QED
      BY <2>3, <3>1, <3>2, PatchesStay
  <2> QED
    BY <2>2, <2>3 DEF Sent, TrackerSays
<1>3. CASE (CreateInAtlas \/ UpdateInAtlas) /\ Handling({"Initial"} \cup Settled)
  <2>1. user'.spec = rec.snap.gen /\ user'.password = secret.cache
    BY <1>3 DEF CreateInAtlas, UpdateInAtlas, SendSpec
  <2>2. Undecided
    BY <1>3 DEF Handling, Undecided
  <2>3. ASSUME "tracker" \in call'.todo, secret'.read >= 1
        PROVE  rec'.snap.gen <= user'.spec /\ secret'.read <= user'.password
    <3>1. ~("tracker" \in call.todo)
      BY <1>3 DEF Handling, UserInv, CallShaped
    <3>2. UNCHANGED vars /\ secret'.read \in {0, secret.cache}
      BY <2>3, <3>1, PatchesStay, PatchesComeFrom
    <3> QED
      BY <1>0, <2>1, <3>2 DEF vars
  <2>4. obj'.tracker = obj.tracker
    <3>1. ~("tracker" \in call.todo)
      BY <1>3 DEF Handling, UserInv, CallShaped
    <3> QED
      BY <3>1, TrackerMoves
  <2> QED
    BY <1>0, <1>1, <2>1, <2>2, <2>3, <2>4 DEF Sent, Ahead, SnapshotAhead, TrackerSays
<1>4. CASE UNCHANGED user \/ user' = [user EXCEPT !.applied = TRUE] \/ DeleteInAtlas
  BY <1>0, <1>2, <1>4 DEF Users, DeleteInAtlas
<1>5. user' # NoUser
  BY DEF NoUser
<1> QED
  BY <1>3, <1>4, <1>5, UserStep DEF UserMoves

LEMMA StepSentInv ==
  UserInv /\ SentInv /\ [UserNext]_allVars => SentInv'
<1> SUFFICES ASSUME UserInv, SentInv, [UserNext]_allVars PROVE SentInv'
  OBVIOUS
<1>1. AnyNext /\ UserInv'
  BY StepUserInv
<1>2. UnderFinalizer'
  BY <1>1, AnyUnderFinalizer DEF SentInv, UserInv
<1>3. GensKnown'
  BY <1>1, StepGensKnown DEF SentInv
<1>4. Ahead'
  BY <1>1, StepAhead DEF SentInv
<1>5. SnapshotAhead'
  BY <1>4, StepSnapshotAhead DEF SentInv
<1> QED
  BY <1>1, <1>2, <1>3, <1>4, <1>5, StepSent DEF SentInv

LEMMA SentInvDetects == UserInv /\ SentInv => ChangesAreDetected
<1> SUFFICES ASSUME UserInv, SentInv, FreshReads, user.present, Behind,
                    ~UpdateIsDue(obj, secret.server)
             PROVE  FALSE
  BY DEF ChangesAreDetected
<1>0. /\ obj \in Objects /\ obj.gen \in Nat /\ obj.gen \in Generations /\ obj.gen >= 1
      /\ secret.server \in Nat \ {0} /\ secret.cache \in Nat /\ secret.cache <= secret.server
      /\ user.spec \in Nat /\ user.password \in Nat
  BY GenInBounds, GenNat
     DEF UserInv, TypeOK, VersionsKnown, UserShaped, Users, GenerationsLeft
<1>1. obj.tracker = Tracker(obj, secret.server)
  <2> DEFINE o == [obj EXCEPT !.tracker = IF @ = Tracker(obj, secret.server) THEN obj.gen ELSE 0]
  <2>1. o.tracker = obj.gen
    BY <1>0 DEF UpdateIsDue, ShouldUpdate, StateTracker, Objects
  <2>2. obj.tracker # Tracker(obj, secret.server) => o.tracker = 0
    BY <1>0 DEF Objects
  <2> QED
    BY <1>0, <2>1, <2>2
<1>2. TrackerSays(obj.gen, secret.server)
  BY <1>1 DEF TrackerSays, Tracker, StateTracker
<1>3. obj.gen <= user.spec /\ secret.server <= user.password
  BY <1>0, <1>2 DEF SentInv, Sent
<1> QED
  BY <1>0, <1>3 DEF Behind

\* Neither an edit nor a rotation of the password is taken for one that Atlas
\* has: the tracker hashes what the handler read before it called Atlas, and
\* it is patched only when the call went through, so that a settled user that
\* is behind stays due for an update, as long as no reconcile has read a
\* lagging cache.
THEOREM UpdatesAreDetected == UserSpec => []ChangesAreDetected
<1>1. UserInit => UserInv /\ SentInv
  BY InitUserInv, InitSentInv
<1>2. UserInv /\ SentInv /\ [UserNext]_allVars => UserInv' /\ SentInv'
  BY StepUserInv, StepSentInv
<1>3. UserInv /\ SentInv => ChangesAreDetected
  BY SentInvDetects
<1> QED
  BY <1>1, <1>2, <1>3, PTL DEF UserSpec

----------------------------------------------------------------------------
(* A deletion.  An expired user is answered with a deletion nobody asked   *)
(* for and under a keep policy it is let go, so that the policy must not   *)
(* change afterwards for the promise to hold.                              *)

\* A reconcile that decides what to do about the user knows the policy.
KeepSame ==
  /\ cache.keep = obj.keep
  /\ rec.pc \in {"finalizer", "handler"} => rec.snap.keep = obj.keep

\* A handler in progress does not end a deletion.
NotDone == call.busy => call.to # "Deleted" /\ call.back # "Deleted"

\* The user is gone, or nobody was to delete it.
Gone == ~user.present \/ user.deleting \/ obj.external # "none" \/ obj.keep

\* Before the finalizer is taken off, and as long as it is not on.
Released == FreshReads /\ Answering /\ rec.next = "Deleted" => Gone
Unheld == FreshReads /\ Ours \notin obj.fin => Gone

GoneInv == UnderFinalizer /\ Held /\ KeepSame /\ NotDone /\ Released /\ Unheld

LEMMA InitGoneInv == UserInit => GoneInv
<1> SUFFICES ASSUME UserInit PROVE GoneInv
  OBVIOUS
<1>1. ReconcilerInit /\ cache = obj /\ rec = Idle /\ call = NoCall
  BY DEF UserInit, ReconcilerInit
<1>2. UnderFinalizer /\ Held
  BY <1>1, InitUnderFinalizer, InitHeld
<1>3. KeepSame /\ NotDone /\ Released
  BY <1>1, IdleFields, NoCallShaped DEF KeepSame, NotDone, Released, Answering
<1>4. Gone
  <2>1. user.present = (obj.external # "none")
    BY DEF UserInit, NoUser
  <2> QED
    BY <2>1 DEF Gone
<1> QED
  BY <1>2, <1>3, <1>4 DEF GoneInv, Unheld

LEMMA StepKeepSame ==
  ASSUME UserInv, KeepSame, AnyNext, "keep" \notin Ops
  PROVE  KeepSame' /\ obj'.keep = obj.keep
<1>0. TypeOK /\ cache \in Objects /\ rec.snap \in Objects
  BY DEF UserInv, TypeOK, Records
<1>1. obj'.keep = obj.keep
  BY <1>0, AnyKeep DEF SameKeep
<1>2. Aged(cache).keep = cache.keep /\ Aged(rec.snap).keep = rec.snap.keep
  BY <1>0, CopyKeep DEF SameKeep
<1>3. cache'.keep = obj.keep
  BY <1>0, <1>2, AnyMoves DEF CopiesMove, KeepSame
<1>4. rec'.pc \in {"finalizer", "handler"} => rec'.snap.keep = obj.keep
  BY <1>0, <1>1, <1>2, AnyToFinalizer, AnyToHandler DEF KeepSame, Refreshes
<1> QED
  BY <1>1, <1>3, <1>4 DEF KeepSame

\* Only a deletion answers that it is done, and only when the user is gone or
\* is to be kept.
LEMMA DoneWhenGone ==
  ASSUME UserInv, KeepSame, UserHandler, ~Follows
  PROVE  /\ NotDone'
         /\ Answering' /\ rec'.next = "Deleted" => ~user'.present \/ obj.keep
<1>0. /\ rec.pc = "handler" => rec.snap.keep = obj.keep
      /\ ~Answering \/ rec.pc # "handler"
      /\ TypeOK
  BY DEF KeepSame, UserInv, Answering
<1>1. ASSUME NEW state \in States, Replies(state), InHandler
      PROVE  NotDone' /\ Answering' /\ rec'.next = state
  BY <1>0, <1>1, RepliesAreAny, NoCallShaped DEF NotDone
<1>2. ASSUME NEW todo, NEW to, NEW back, Continue(todo, to, back), to # "Deleted",
             back # "Deleted", rec.pc = "handler"
      PROVE  NotDone' /\ ~Answering'
  BY <1>2 DEF Continue, NotDone, Answering, vars
<1>3. ASSUME NEW states \in SUBSET (States \ Unsupported), Handling(states)
      PROVE  InHandler /\ rec.pc = "handler" /\ Dispatch(rec.snap) \in states
             /\ Dispatch(rec.snap) \in States \ Unsupported
  BY <1>3 DEF Handling, InHandler
<1>4. "Deleted" \notin States \ Unsupported /\ "Deleted" \in States
  BY UserStates DEF Unsupported
<1>5. CASE HandleInitial
  <2>1. /\ InHandler /\ rec.pc = "handler"
        /\ Replies("Initial") \/ Continue({"status", "tracker"}, "Creating", "Initial")
    BY <1>3, <1>5, UserStates DEF HandleInitial, LostCall, Replies
  <2> QED
    BY <1>1, <1>2, <2>1, UserStates
<1>6. CASE HandleImportRequested
  <2>1. /\ InHandler /\ rec.pc = "handler"
        /\ \/ Replies("ImportRequested")
           \/ Continue({"status", "tracker"}, "Imported", "ImportRequested")
    BY <1>3, <1>6, UserStates DEF HandleImportRequested, Replies
  <2> QED
    BY <1>1, <1>2, <2>1, UserStates
<1>7. CASE HandleUpserting("Creating", "Created") \/ HandleUpserting("Updating", "Updated")
  <2>1. InHandler /\ \E state \in {"Creating", "Created", "Updating", "Updated"} : Replies(state)
    BY <1>3, <1>7, UserStates DEF HandleUpserting, Replies
  <2> QED
    BY <1>1, <2>1, UserStates
<1>8. CASE HandleExpired
  <2>1. InHandler /\ Replies("DeletionRequested")
    BY <1>3, <1>8, UserStates DEF HandleExpired, Replies
  <2> QED
    BY <1>1, <2>1, UserStates
<1>9. CASE HandleUpserted
  <2> DEFINE d == Dispatch(rec.snap)
  <2>1. InHandler /\ rec.pc = "handler" /\ d \in States \ Unsupported
    BY <1>3, <1>9, UserStates DEF HandleUpserted
  <2>2. Replies(d) \/ Continue({"status", "tracker"}, "Updating", d)
    BY <1>9 DEF HandleUpserted, LostCall, Replies
  <2> QED
    BY <1>1, <1>2, <1>4, <2>1, <2>2
<1>10. CASE HandleDeletionRequested
  <2>1. InHandler /\ rec.pc = "handler"
    BY <1>3, <1>10, UserStates DEF HandleDeletionRequested
  <2>2. CASE Replies("Deleting") \/ Replies("DeletionRequested")
    BY <1>1, <2>1, <2>2, UserStates
  <2>3. CASE Replies("Deleted") /\ (rec.snap.keep \/ (~user.present /\ user' = user))
    BY <1>0, <1>1, <2>1, <2>3, UserStates
  <2> QED
    BY <1>10, <2>2, <2>3 DEF HandleDeletionRequested, LostCall, Replies
<1>11. CASE HandleDeleting
  <2>1. InHandler /\ user' = user
    BY <1>3, <1>11, UserStates DEF HandleDeleting, userVars
  <2>2. CASE Replies("Deleting")
    BY <1>1, <2>1, <2>2, UserStates
  <2>3. CASE Replies("Deleted") /\ ~user.present
    BY <1>1, <2>1, <2>3, UserStates
  <2> QED
    BY <1>11, <2>2, <2>3 DEF HandleDeleting, Replies
<1>12. CASE NoDependencies
  <2>1. {"Initial", "Creating", "Updating"} \cup Settled \subseteq States \ Unsupported
    BY UserStates
  <2>2. InHandler /\ Dispatch(rec.snap) \in States \ Unsupported /\ Replies(Dispatch(rec.snap))
    BY <1>3, <1>12, <2>1 DEF NoDependencies, Replies
  <2> QED
    BY <1>1, <1>4, <2>2
<1> QED
  BY <1>5, <1>6, <1>7, <1>8, <1>9, <1>10, <1>11, <1>12 DEF UserHandler, Follows

\* Nor does the rest of a handler, or the loop.
LEMMA NothingElseIsDone ==
  ASSUME UserInv, NotDone, [UserNext]_allVars, ~(UserHandler /\ ~Follows)
  PROVE  /\ NotDone'
         /\ Answering' /\ rec'.next = "Deleted" => Answering /\ rec.next = "Deleted"
<1>0. TypeOK /\ CallShaped /\ ~NoCall.busy
  BY NoCallShaped DEF UserInv
<1>1. CASE Around
  <2>1. NotDone'
    BY <1>0, <1>1 DEF Around, NotDone
  <2> QED
    BY <1>0, <1>1, <2>1, AroundAnswers
<1>2. CASE Follows
  <2>1. ASSUME NEW state \in States, Replies(state), InHandler, state # "Deleted"
        PROVE  NotDone' /\ rec'.next # "Deleted"
    BY <1>0, <2>1, RepliesAreAny DEF NotDone
  <2>2. ASSUME NEW x, call' = [call EXCEPT !.todo = @ \ {x}], rec' = rec
        PROVE  NotDone' /\ (Answering' => Answering)
    BY <1>0, <2>2 DEF CallShaped, Calls, NotDone, Answering
  <2>3. call.to \in States /\ call.back \in States
    BY <1>0 DEF CallShaped, Calls
  <2>4. CASE NoHandler
    <3>1. InHandler /\ Dispatch(rec.snap) \in States \ Unsupported /\ Replies(Dispatch(rec.snap))
      BY <2>4 DEF NoHandler, Handling, InHandler, Replies
    <3> QED
      BY <2>1, <3>1 DEF Unsupported
  <2>5. CASE HandlerEnds
    BY <1>0, <2>1, <2>3, <2>5 DEF HandlerEnds, Replies, CallShaped, NotDone
  <2>6. ASSUME NEW kind \in {"status", "tracker"}, NEW result, Patching(kind, result)
        PROVE  NotDone' /\ (Answering' /\ rec'.next = "Deleted" => Answering /\ rec.next = "Deleted")
    <3>1. call.busy /\ InHandler
      BY <1>0, <2>6 DEF Patching, CallShaped
    <3>2. CASE Replies(call.back)
      BY <2>1, <2>3, <3>1, <3>2 DEF NotDone
    <3>3. CASE call' = [call EXCEPT !.todo = @ \ {kind}] /\ rec' = rec
      BY <2>2, <3>3
    <3> QED
      BY <2>6, <3>2, <3>3 DEF Patching, Replies
  <2> QED
    BY <1>2, <2>4, <2>5, <2>6 DEF Follows, PatcherStatus, TrackerPatch
<1>3. CASE Beyond \/ UNCHANGED allVars
  <2>1. UNCHANGED <<rec, call>>
    BY <1>3, BeyondIsAny DEF allVars, handlerVars, vars
  <2> QED
    BY <2>1 DEF NotDone, Answering
<1> QED
  BY <1>1, <1>2, <1>3, UserSteps

\* Who is gone stays gone, unless a handler creates the user again.
LEMMA GoneStays ==
  ASSUME UserInv, GoneInv, Gone, [UserNext]_allVars, AnyNext, "keep" \notin Ops
  PROVE  Gone' \/ (CreateInAtlas /\ rec.pc = "handler")
<1>1. obj'.keep = obj.keep /\ obj'.external = obj.external /\ user \in Users
  BY StepKeepSame, AnyWork DEF GoneInv, UserInv, UserShaped
<1>2. CASE obj.external # "none" \/ obj.keep
  BY <1>1, <1>2 DEF Gone
<1>3. CASE ~user.present \/ user.deleting
  <2>1. CASE UNCHANGED user \/ user' = NoUser \/ user' = [user EXCEPT !.applied = TRUE]
             \/ DeleteInAtlas
    BY <1>1, <1>3, <2>1 DEF Users, NoUser, DeleteInAtlas, Gone
  <2>2. ~UpdateInAtlas
    BY <1>3 DEF UpdateInAtlas, SendSpec
  <2> QED
    BY <2>1, <2>2, UserStep DEF UserMoves, Handling
<1> QED
  BY <1>2, <1>3 DEF Gone

LEMMA CreatesInitially ==
  ASSUME UserInv, GoneInv, CreateInAtlas, rec.pc = "handler", [UserNext]_allVars
  PROVE  obj' = obj /\ (Answering' => rec'.next # "Deleted" \/ Gone')
<1>0. user'.present /\ user \in Users /\ user' # user
  BY DEF CreateInAtlas, SendSpec, UserInv, UserShaped
<1>1. UserHandler /\ ~Follows
  <2>1. CASE UNCHANGED user
    BY <1>0, <2>1
  <2>2. CASE Beyond
    BY <1>0, <2>2 DEF Beyond, AtlasApplies, AtlasExpires, DateElapses, Rotate, SecretSync,
                      GroupVanishes, NoUser, CreateInAtlas, SendSpec, Users
  <2> QED
    BY <1>0, <2>1, <2>2, UserSteps DEF Follows, userVars, allVars
<1>2. Decides
  BY <1>1, HandlersDecide
<1>3. obj' = obj
  BY <1>2, DecidesIsAny DEF UserInv
<1>4. Answering' /\ rec'.next = "Deleted" => obj.keep
  BY <1>0, <1>1, DoneWhenGone DEF GoneInv
<1> QED
  BY <1>3, <1>4 DEF Gone

LEMMA StepGoneInv ==
  "keep" \notin Ops => (UserInv /\ GoneInv /\ [UserNext]_allVars => GoneInv')
<1> SUFFICES ASSUME "keep" \notin Ops, UserInv, GoneInv, [UserNext]_allVars PROVE GoneInv'
  OBVIOUS
<1>1. AnyNext /\ TypeOK
  BY StepUserInv DEF UserInv
<1>2. UnderFinalizer' /\ Held' /\ KeepSame' /\ obj'.keep = obj.keep
  BY <1>1, AnyUnderFinalizer, AnyHeld, StepKeepSame DEF GoneInv
<1>3. NotDone'
  BY DoneWhenGone, NothingElseIsDone DEF GoneInv
<1>4. Released'
  <2> SUFFICES ASSUME FreshReads', Answering', rec'.next = "Deleted" PROVE Gone'
    BY DEF Released
  <2>1. CASE UserHandler /\ ~Follows
    BY <1>2, <2>1, DoneWhenGone DEF GoneInv, Gone
  <2>2. CASE ~(UserHandler /\ ~Follows)
    <3>1. Answering /\ rec.next = "Deleted" /\ FreshReads
      BY <1>1, <2>2, NothingElseIsDone, AnyStale DEF GoneInv
    <3>2. Gone /\ rec.pc # "handler"
      BY <3>1 DEF GoneInv, Released, Answering
    <3> QED
      BY <1>1, <3>2, GoneStays
  <2> QED
    BY <2>1, <2>2
<1>5. Unheld'
  <2> SUFFICES ASSUME FreshReads', Ours \notin obj'.fin PROVE Gone'
    BY DEF Unheld
  <2>1. FreshReads
    BY <1>1, AnyStale DEF GoneInv
  <2>2. CASE Ours \in obj.fin
    <3>1. UnsetFinalizers
      BY <1>1, <2>2, AnyOursLeaves
    <3>2. Gone /\ rec.pc # "handler"
      BY <2>1, <3>1 DEF UnsetFinalizers, GoneInv, Released, Answering
    <3> QED
      BY <1>1, <3>2, GoneStays
  <2>3. CASE Ours \notin obj.fin
    <3>1. Gone /\ rec.pc # "handler"
      BY <2>1, <2>3 DEF GoneInv, Unheld, Held
    <3> QED
      BY <1>1, <3>1, GoneStays
  <2> QED
    BY <2>2, <2>3
<1> QED
  BY <1>2, <1>3, <1>4, <1>5 DEF GoneInv

\* An object that is not to be kept goes only after its user: the finalizer
\* holds it until a deletion that found the user gone, or being deleted, and
\* an expired user goes the same way, as long as nobody changes the policy
\* and no reconcile has read a lagging cache.
THEOREM UserGoesWithObject ==
  ASSUME "keep" \notin Ops
  PROVE  UserSpec => []DeletionReachesAtlas
<1>1. UserInit => UserInv /\ GoneInv
  BY InitUserInv, InitGoneInv
<1>2. UserInv /\ GoneInv /\ [UserNext]_allVars => UserInv' /\ GoneInv'
  BY StepUserInv, StepGoneInv
<1>3. GoneInv => DeletionReachesAtlas
  BY DEF GoneInv, UnderFinalizer, Unheld, Gone, DeletionReachesAtlas
<1> QED
  BY <1>1, <1>2, <1>3, PTL DEF UserSpec
================================================================================
