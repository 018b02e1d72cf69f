----------------------------- MODULE FetchProofs -----------------------------
(***************************************************************************)
(* Proofs about FetchSnapshot, for any jobs in its three groups, any       *)
(* options, and with or without a caller that gives up. Each group is a    *)
(* call of the worker pool, so the invariant of the pool (ListJobsProofs)  *)
(* is reused; what is added says which jobs the current call runs and what *)
(* the earlier calls have left behind.                                     *)
(***************************************************************************)
EXTENDS Fetch, ListJobsProofs

AtRest == \A j \in Jobs : pc[j] \in {"idle", "done", "skipped"}

\* Each stage runs its own jobs, and the fetch leaves no goroutine behind.
StageInv ==
  /\ (stage = "returned") = (result # "pending")
  /\ stage = "ensure" => batch = {} /\ ~returned /\ assigned = {}
  /\ stage = "core" => batch = CoreJobs
  /\ stage = "extended" => batch = ExtendedJobs
  /\ stage = "dynamic" =>
       /\ plan.dynamic
       /\ batch \subseteq DynamicJobs
       /\ BuiltinDynamicJobs \subseteq batch
       /\ plan.provided => customResourceEntries(plan, TRUE) \subseteq batch
  /\ stage = "returned" => AtRest

\* The jobs of a group that is through have their answers, and the lists among
\* them are in the snapshot.
Settled(S) == \A j \in S : Resolved(j) /\ (data[j] = "listed" => j \in assigned)

PastCore ==
  \/ stage \in {"extended", "dynamic"}
  \/ result = "snapshot"
  \/ \E j \in Jobs \ CoreJobs : pc[j] # "idle"
PastExtended == stage = "dynamic" \/ result = "snapshot"

KeptInv ==
  ~parentDone =>
    /\ PastCore => Settled(CoreJobs)
    /\ PastExtended => Settled(ExtendedJobs)
    /\ result = "snapshot" => Settled(Wanted)

FetchInv == FetchTypeOK /\ PoolInv /\ StageInv /\ KeptInv

-----------------------------------------------------------------------------

\* The dynamic group's concurrency argument is an integer.
LEMMA DynamicConcurrency == dynamicFetchConcurrency(FetchConcurrency) \in Int
BY ConcurrencyAssumption DEF dynamicFetchConcurrency

\* The custom resources of a fetch are custom resources.
LEMMA CustomEntries ==
  ASSUME NEW p \in Plans, NEW d \in BOOLEAN
  PROVE  customResourceEntries(p, d) \subseteq CustomJobs
BY StagesAssumption DEF Plans, customResourceEntries

\* A fresh call satisfies the pool's invariant, whatever ran before it.
LEMMA StartCallPoolInv ==
  ASSUME TypeOK, NEW S \in SUBSET Jobs, NEW c \in Int, StartCall(S, c)
  PROVE  PoolInv'
<1>1. limit' \in Nat \ {0}
  BY PoolLimitPositive DEF StartCall
<1>2. TypeOK'
  BY <1>1 DEF StartCall, TypeOK, PC, Cause
<1>3. (OnceInv /\ IdleInv /\ JobInv /\ CauseInv)'
  BY DEF StartCall, TypeOK, OnceInv, IdleInv, JobInv, CauseInv
<1>4. QED
  BY <1>2, <1>3 DEF PoolInv

\* A goroutine touches its own job only.
LEMMA JobFrame ==
  ASSUME TypeOK, NEW j \in Jobs, JobStep(j)
  PROVE  /\ UNCHANGED <<batch, parentDone, returned>>
         /\ \A k \in Jobs \ {j} : data'[k] = data[k] /\ pc'[k] = pc[k]
<1>1. CASE Acquire(j)
  BY <1>1 DEF Acquire, TypeOK
<1>2. CASE Skip(j)
  BY <1>2 DEF Skip, TypeOK
<1>3. CASE ListOK(j)
  BY <1>3 DEF ListOK, TypeOK
<1>4. CASE Tolerate(j)
  BY <1>4 DEF Tolerate, TypeOK
<1>5. ASSUME NEW cause \in {"api", "ctx"}, Fail(j, cause)
      PROVE  /\ UNCHANGED <<batch, parentDone, returned>>
             /\ \A k \in Jobs \ {j} : data'[k] = data[k] /\ pc'[k] = pc[k]
  BY <1>5 DEF Fail, TypeOK
<1>6. CASE Record(j)
  BY <1>6 DEF Record, TypeOK
<1>7. CASE Cancel(j)
  BY <1>7 DEF Cancel, TypeOK
<1>8. CASE Drop(j)
  BY <1>8 DEF Drop, TypeOK
<1>9. CASE Release(j)
  BY <1>9 DEF Release, TypeOK
<1>10. QED
  BY <1>1, <1>2, <1>3, <1>4, <1>5, <1>6, <1>7, <1>8, <1>9 DEF JobStep

\* Answers stay in the snapshot as long as they are not asked for again.
LEMMA SettledStays ==
  ASSUME NEW S, Settled(S), assigned \subseteq assigned',
         \A j \in S : data'[j] = data[j]
  PROVE  Settled(S)'
BY DEF Settled, Resolved

\* A call that returned no error to a living caller settles its group once the
\* lists are assigned.
LEMMA CallSettles ==
  ASSUME PoolInv, returned, firstErr = "none", ~parentDone, AssignLists,
         UNCHANGED data
  PROVE  \A j \in batch : /\ Resolved(j)' 
                          /\ data'[j] = "listed" => j \in assigned'
<1>1. CompleteOrError
  BY PoolInvGives
<1>2. QED
  BY <1>1 DEF CompleteOrError, AssignLists, Resolved

\* When a call has returned, its goroutines are gone.
LEMMA ReturnedAtRest == ASSUME PoolInv, returned PROVE AtRest
BY DEF PoolInv, OnceInv, IdleInv, TypeOK, AtRest

-----------------------------------------------------------------------------

\* A fetch starts in the invariant.
LEMMA InitFetchInv == FetchInit => FetchInv
<1> SUFFICES ASSUME FetchInit PROVE FetchInv
  OBVIOUS
<1>1. limit \in Nat \ {0}
  BY PoolLimitPositive, ConcurrencyAssumption DEF FetchInit
<1>2. TypeOK
  BY <1>1 DEF FetchInit, TypeOK, PC, Cause, Data
<1>3. FetchTypeOK
  BY <1>2 DEF FetchInit, FetchTypeOK
<1>4. PoolInv
  BY <1>2 DEF FetchInit, PoolInv, OnceInv, IdleInv, JobInv, CauseInv
<1>5. StageInv
  BY DEF FetchInit, StageInv
<1>6. KeptInv
  BY DEF FetchInit, KeptInv, PastCore, PastExtended
<1>7. QED
  BY <1>3, <1>4, <1>5, <1>6 DEF FetchInv

\* Reading the target keeps the invariant.
LEMMA EnsureTargetInv == ASSUME FetchInv, EnsureTarget PROVE FetchInv'
<1> USE DEF FetchInv
<1>1. CASE stage' = "core" /\ StartCall(CoreJobs, FetchConcurrency)
              /\ UNCHANGED <<result, plan, assigned>>
  <2>1. CoreJobs \in SUBSET Jobs /\ FetchConcurrency \in Int
    BY StagesAssumption, ConcurrencyAssumption
  <2>2. TypeOK
    BY DEF FetchTypeOK
  <2>3. PoolInv'
    BY <1>1, <2>1, <2>2, StartCallPoolInv
  <2>4. FetchTypeOK'
    BY <1>1, <2>3 DEF FetchTypeOK, PoolInv
  <2>5. result = "pending"
    BY DEF EnsureTarget, StageInv
  <2>6. StageInv'
    BY <1>1, <2>5 DEF StartCall, StageInv
  <2>7. \A j \in Jobs \ CoreJobs : pc'[j] = "idle"
    BY <1>1 DEF StartCall
  <2>8. KeptInv'
    BY <1>1, <2>5, <2>7 DEF KeptInv, PastCore, PastExtended
  <2>9. QED
    BY <2>3, <2>4, <2>6, <2>8
<1>2. CASE Finish("error") /\ UNCHANGED <<poolVars, plan, assigned>>
  <2>1. PoolInv'
    BY <1>2, StutterPoolInv
  <2>2. FetchTypeOK'
    BY <1>2, <2>1 DEF Finish, FetchTypeOK, PoolInv
  <2>3. \A j \in Jobs : pc[j] = "idle"
    BY DEF EnsureTarget, StageInv, PoolInv, IdleInv
  <2>4. StageInv'
    BY <1>2, <2>3 DEF Finish, StageInv, AtRest, poolVars
  <2>5. KeptInv'
    BY <1>2, <2>3 DEF Finish, KeptInv, PastCore, PastExtended, poolVars
  <2>6. QED
    BY <2>1, <2>2, <2>4, <2>5
<1>3. QED
  BY <1>1, <1>2 DEF EnsureTarget

\* Steps of the running call leave the earlier groups alone.
LEMMA PoolStepInv == ASSUME FetchInv, PoolStep PROVE FetchInv'
<1> USE DEF FetchInv
<1>1. /\ stage \in {"core", "extended", "dynamic"}
      /\ result = "pending"
      /\ UNCHANGED <<plan, stage, assigned, result>>
  BY DEF PoolStep, fetchVars, StageInv
<1>2. batch \subseteq Jobs
  BY DEF FetchTypeOK, TypeOK
<1>3. /\ UNCHANGED <<batch, parentDone>>
      /\ \A k \in Jobs \ batch : data'[k] = data[k] /\ pc'[k] = pc[k]
  <2>1. CASE Return
    BY <2>1 DEF Return
  <2>2. ASSUME NEW j \in batch, JobStep(j)
        PROVE  /\ UNCHANGED <<batch, parentDone>>
               /\ \A k \in Jobs \ batch : data'[k] = data[k] /\ pc'[k] = pc[k]
    BY <1>2, <2>2, JobFrame DEF FetchTypeOK
  <2>3. QED
    BY <2>1, <2>2 DEF PoolStep
<1>4. PoolInv'
  BY JobStepPoolInv, ReturnPoolInv DEF PoolStep
<1>5. FetchTypeOK'
  BY <1>1, <1>4 DEF FetchTypeOK, PoolInv
<1>6. StageInv'
  BY <1>1, <1>3 DEF StageInv, Return, PoolStep, Wanted
<1>7. ASSUME ~parentDone', PastCore' PROVE Settled(CoreJobs)'
  <2>1. CoreJobs \cap ExtendedJobs = {} /\ CoreJobs \cap DynamicJobs = {}
        /\ CoreJobs \subseteq Jobs
    BY StagesAssumption
  <2>2. stage \in {"extended", "dynamic"}
    <3>1. CASE stage = "core"
      <4>1. \A j \in Jobs \ CoreJobs : pc'[j] = "idle"
        BY <1>3, <3>1 DEF StageInv, PoolInv, IdleInv
      <4>2. QED
        BY <1>1, <1>7, <3>1, <4>1 DEF PastCore
    <3>2. QED
      BY <1>1, <3>1
  <2>3. Settled(CoreJobs)
    BY <1>3, <1>7, <2>2 DEF KeptInv, PastCore
  <2>4. \A j \in CoreJobs : data'[j] = data[j]
    BY <1>3, <2>1, <2>2 DEF StageInv
  <2>5. QED
    BY <1>1, <2>3, <2>4, SettledStays
<1>8. ASSUME ~parentDone', PastExtended' PROVE Settled(ExtendedJobs)'
  <2>1. ExtendedJobs \cap DynamicJobs = {} /\ ExtendedJobs \subseteq Jobs
    BY StagesAssumption
  <2>2. stage = "dynamic"
    BY <1>1, <1>8 DEF PastExtended
  <2>3. Settled(ExtendedJobs)
    BY <1>3, <1>8, <2>2 DEF KeptInv, PastExtended
  <2>4. \A j \in ExtendedJobs : data'[j] = data[j]
    BY <1>3, <2>1, <2>2 DEF StageInv
  <2>5. QED
    BY <1>1, <2>3, <2>4, SettledStays
<1>9. KeptInv'
  BY <1>1, <1>7, <1>8 DEF KeptInv
<1>10. QED
  BY <1>4, <1>5, <1>6, <1>9

\* A failed group ends the fetch with an error.
LEMMA AbortInv == ASSUME FetchInv, Abort PROVE FetchInv'
<1> USE DEF FetchInv
<1>1. PoolInv'
  BY StutterPoolInv DEF Abort
<1>2. FetchTypeOK'
  BY <1>1 DEF Abort, Finish, FetchTypeOK, PoolInv
<1>3. StageInv'
  BY ReturnedAtRest DEF Abort, Finish, StageInv, AtRest, poolVars
<1>4. KeptInv'
  BY DEF Abort, Finish, KeptInv, PastCore, PastExtended, Settled, Resolved,
         poolVars, StageInv
<1>5. QED
  BY <1>1, <1>2, <1>3, <1>4

\* The core group is through.
LEMMA CoreDoneInv == ASSUME FetchInv, CoreDone PROVE FetchInv'
<1> USE DEF FetchInv
<1>1. ExtendedJobs \in SUBSET Jobs /\ FetchConcurrency \in Int
  BY StagesAssumption, ConcurrencyAssumption
<1>2. PoolInv'
  BY <1>1, StartCallPoolInv DEF CoreDone, FetchTypeOK
<1>3. FetchTypeOK'
  BY <1>2 DEF CoreDone, AssignLists, FetchTypeOK, PoolInv, TypeOK
<1>4. result = "pending" /\ batch = CoreJobs
  BY DEF CoreDone, StageInv
<1>5. StageInv'
  BY <1>4 DEF CoreDone, StartCall, StageInv
<1>6. ~parentDone => Settled(CoreJobs)'
  BY <1>4, CallSettles DEF CoreDone, StartCall, Settled
<1>7. KeptInv'
  BY <1>4, <1>6 DEF CoreDone, StartCall, KeptInv, PastCore, PastExtended
<1>8. QED
  BY <1>2, <1>3, <1>5, <1>7

\* The extended group is through; without a dynamic client the fetch is, too.
LEMMA ExtendedDoneInv == ASSUME FetchInv, ExtendedDone PROVE FetchInv'
<1> USE DEF FetchInv
<1>1. result = "pending" /\ batch = ExtendedJobs /\ stage = "extended"
  BY DEF ExtendedDone, StageInv
<1>2. UNCHANGED <<data, parentDone, plan>> /\ assigned \subseteq assigned'
  BY DEF ExtendedDone, StartCall, poolVars, AssignLists
<1>3. ~parentDone => Settled(CoreJobs)'
  BY <1>1, <1>2, SettledStays DEF KeptInv, PastCore
<1>4. ~parentDone => Settled(ExtendedJobs)'
  BY <1>1, <1>2, CallSettles DEF ExtendedDone, Settled
<1>5. assigned' \subseteq Jobs
  BY DEF ExtendedDone, AssignLists, FetchTypeOK, TypeOK
<1>6. ASSUME plan.dynamic, NEW d \in BOOLEAN, plan.provided => d,
             StartCall(BuiltinDynamicJobs \cup customResourceEntries(plan, d),
                       dynamicFetchConcurrency(FetchConcurrency)),
             stage' = "dynamic", UNCHANGED result
      PROVE  FetchInv'
  <2> DEFINE S == BuiltinDynamicJobs \cup customResourceEntries(plan, d)
  <2>1. S \subseteq DynamicJobs /\ S \in SUBSET Jobs
    BY CustomEntries, StagesAssumption DEF FetchTypeOK, DynamicJobs
  <2>2. PoolInv'
    BY <1>6, <2>1, DynamicConcurrency, StartCallPoolInv DEF FetchTypeOK
  <2>3. FetchTypeOK'
    BY <1>2, <1>5, <1>6, <2>2 DEF FetchTypeOK, PoolInv
  <2>4. batch' = S
    BY <1>6 DEF StartCall
  <2>5. plan.provided =>
          customResourceEntries(plan, TRUE) \subseteq S
    BY <1>6
  <2>6. StageInv'
    BY <1>1, <1>2, <1>6, <2>1, <2>4, <2>5 DEF StageInv
  <2>7. KeptInv'
    BY <1>1, <1>2, <1>3, <1>4, <1>6 DEF KeptInv
  <2>8. QED
    BY <2>2, <2>3, <2>6, <2>7
<1>7. ASSUME ~plan.dynamic, Finish("snapshot"), UNCHANGED poolVars
      PROVE  FetchInv'
  <2>1. PoolInv'
    BY <1>7, StutterPoolInv
  <2>2. FetchTypeOK'
    BY <1>2, <1>5, <1>7, <2>1 DEF Finish, FetchTypeOK, PoolInv
  <2>3. StageInv'
    BY <1>7, ReturnedAtRest
    DEF ExtendedDone, Finish, StageInv, AtRest, poolVars
  <2>4. Wanted' = CoreJobs \cup ExtendedJobs
    BY <1>2, <1>7 DEF Wanted
  <2>5. ~parentDone => Settled(Wanted)'
    BY <1>3, <1>4, <2>4 DEF Settled
  <2>6. KeptInv'
    BY <1>2, <1>3, <1>4, <2>5 DEF KeptInv
  <2>7. QED
    BY <2>1, <2>2, <2>3, <2>6
<1>8. QED
  BY <1>6, <1>7 DEF ExtendedDone

\* The dynamic group is through.
LEMMA DynamicDoneInv == ASSUME FetchInv, DynamicDone PROVE FetchInv'
<1> USE DEF FetchInv
<1>1. PoolInv'
  BY StutterPoolInv DEF DynamicDone
<1>2. FetchTypeOK'
  BY <1>1 DEF DynamicDone, Finish, AssignLists, FetchTypeOK, PoolInv, TypeOK
<1>3. StageInv'
  BY ReturnedAtRest DEF DynamicDone, Finish, StageInv, AtRest, poolVars
<1>4. UNCHANGED <<data, parentDone, plan>> /\ assigned \subseteq assigned'
  BY DEF DynamicDone, poolVars, AssignLists
<1>5. /\ plan.dynamic
      /\ BuiltinDynamicJobs \subseteq batch
      /\ plan.provided => customResourceEntries(plan, TRUE) \subseteq batch
  BY DEF DynamicDone, StageInv
<1>6. ASSUME ~parentDone
      PROVE  Settled(CoreJobs)' /\ Settled(ExtendedJobs)' /\ Settled(Wanted)'
  <2>1. Settled(CoreJobs)' /\ Settled(ExtendedJobs)'
    BY <1>4, <1>6, SettledStays DEF DynamicDone, KeptInv, PastCore, PastExtended
  <2>2. Settled(batch)'
    BY <1>4, <1>6, CallSettles DEF DynamicDone, Settled, poolVars
  <2>3. Wanted' \subseteq CoreJobs \cup ExtendedJobs \cup batch
    BY <1>4, <1>5 DEF Wanted
  <2>4. batch' = batch
    BY DEF DynamicDone, poolVars
  <2>5. QED
    BY <2>1, <2>2, <2>3, <2>4 DEF Settled
<1>7. KeptInv'
  BY <1>4, <1>6 DEF KeptInv
<1>8. QED
  BY <1>1, <1>2, <1>3, <1>7

\* The caller's end only weakens what the invariant says.
LEMMA CallerEndsInv == ASSUME FetchInv, CallerEnds PROVE FetchInv'
<1> USE DEF FetchInv
<1>1. PoolInv'
  BY ParentEndPoolInv DEF CallerEnds
<1>2. FetchTypeOK'
  BY <1>1 DEF CallerEnds, fetchVars, FetchTypeOK, PoolInv
<1>3. StageInv'
  BY DEF CallerEnds, ParentEnd, callVars, fetchVars, StageInv, AtRest
<1>4. KeptInv'
  BY DEF CallerEnds, ParentEnd, KeptInv
<1>5. QED
  BY <1>1, <1>2, <1>3, <1>4

\* A step that changes nothing keeps the invariant.
LEMMA StutterFetchInv == ASSUME FetchInv, UNCHANGED vars PROVE FetchInv'
<1> USE DEF FetchInv, vars, fetchVars
<1>1. PoolInv'
  BY StutterPoolInv
<1>2. FetchTypeOK'
  BY <1>1 DEF FetchTypeOK, PoolInv
<1>3. StageInv' /\ KeptInv'
  BY DEF poolVars, StageInv, AtRest, KeptInv, PastCore, PastExtended, Settled,
         Resolved, Wanted
<1>4. QED
  BY <1>1, <1>2, <1>3

\* Every step of a fetch keeps the invariant.
LEMMA NextFetchInv == FetchInv /\ [FetchNext]_vars => FetchInv'
<1> SUFFICES ASSUME FetchInv, [FetchNext]_vars PROVE FetchInv'
  OBVIOUS
<1>1. CASE EnsureTarget
  BY <1>1, EnsureTargetInv
<1>2. CASE PoolStep
  BY <1>2, PoolStepInv
<1>3. CASE Abort
  BY <1>3, AbortInv
<1>4. CASE CoreDone
  BY <1>4, CoreDoneInv
<1>5. CASE ExtendedDone
  BY <1>5, ExtendedDoneInv
<1>6. CASE DynamicDone
  BY <1>6, DynamicDoneInv
<1>7. CASE CallerEnds
  BY <1>7, CallerEndsInv
<1>8. CASE UNCHANGED vars
  BY <1>8, StutterFetchInv
<1>9. QED
  BY <1>1, <1>2, <1>3, <1>4, <1>5, <1>6, <1>7, <1>8
  DEF FetchNext, FetchStep, Stopped

\* What the invariant says to the caller of FetchSnapshot.
LEMMA FetchInvGives ==
  FetchInv => FetchTypeOK /\ SnapshotComplete /\ NoStragglers /\ GroupsInOrder
<1> SUFFICES ASSUME FetchInv
             PROVE  FetchTypeOK /\ SnapshotComplete /\ NoStragglers
                      /\ GroupsInOrder
  OBVIOUS
<1> USE DEF FetchInv
<1>1. SnapshotComplete
  BY DEF SnapshotComplete, KeptInv, Settled, Complete
<1>2. NoStragglers
  BY ReturnedAtRest DEF NoStragglers, StageInv, AtRest
<1>3. GroupsInOrder
  <2>1. ASSUME \E j \in Jobs \ CoreJobs : pc[j] # "idle", ~parentDone,
               NEW j \in CoreJobs
        PROVE  j \in assigned
    <3>1. Settled(CoreJobs)
      BY <2>1 DEF KeptInv, PastCore
    <3>2. j \in Required
      BY StagesAssumption
    <3>3. QED
      BY <3>1, <3>2 DEF Settled, Resolved
  <2>2. QED
    BY <2>1 DEF GroupsInOrder
<1>4. QED
  BY <1>1, <1>2, <1>3

-----------------------------------------------------------------------------

\* The invariant holds throughout a fetch.
LEMMA FetchInvariant == FetchSpec => []FetchInv
BY InitFetchInv, NextFetchInv, PTL DEF FetchSpec

\* Every variable of a fetch keeps its type.
THEOREM FetchTypeCorrect == FetchSpec => []FetchTypeOK
BY FetchInvariant, FetchInvGives, PTL

\* A snapshot that reaches a living caller has no hole, for any set of jobs:
\* every core list is in it and every other list, unless it was refused
\* (FetchSnapshot).
THEOREM SnapshotIsComplete == FetchSpec => []SnapshotComplete
BY FetchInvariant, FetchInvGives, PTL

\* No goroutine of a group is alive once its lists are read
\* (runListJobsWithConcurrency, wg.Wait).
THEOREM NoGoroutineOutlivesItsCall == FetchSpec => []NoStragglers
BY FetchInvariant, FetchInvGives, PTL

\* The groups run one after the other (FetchSnapshot).
THEOREM GroupsRunInOrder == FetchSpec => []GroupsInOrder
BY FetchInvariant, FetchInvGives, PTL

=============================================================================
