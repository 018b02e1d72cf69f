--------------------------- MODULE ListJobsProofs ---------------------------
(***************************************************************************)
(* Proofs about one call of the worker pool, for any set of jobs, any      *)
(* concurrency and with or without a caller that gives up.                 *)
(***************************************************************************)
EXTENDS ListJobs, TLAPS

\* What ties the goroutines to the sync.Once and to the recorded error.
OnceInv ==
  /\ once = "new" => firstErr = "none"
  /\ once # "new" => firstErr # "none"
  /\ \A j \in Jobs : pc[j] = "cancelling" => once = "running"
  /\ \A j, k \in Jobs : pc[j] = "cancelling" /\ pc[k] = "cancelling" => j = k
  /\ cancelled /\ ~returned => once = "done"
  /\ returned => \A j \in batch : pc[j] \in {"done", "skipped"}

\* A job outside the slice has no goroutine.
IdleInv == \A j \in Jobs \ batch : pc[j] = "idle"

\* What a goroutine's position says about its job.
JobInv ==
  \A j \in Jobs :
    /\ pc[j] = "reporting" => err[j] # "none"
    /\ pc[j] \in {"releasing", "done"} /\ firstErr = "none" => Resolved(j)
    /\ pc[j] = "skipped" /\ firstErr = "none" => parentDone
    /\ err[j] # "none" /\ firstErr = "none" => pc[j] = "reporting"
    /\ err[j] = "ctx" => parentDone \/ firstErr # "none"

\* The recorded error is a context's only if the caller's context ended.
CauseInv == firstErr = "ctx" => parentDone

PoolInv == TypeOK /\ OnceInv /\ IdleInv /\ JobInv /\ CauseInv

-----------------------------------------------------------------------------

\* A pool always has at least one slot, whatever concurrency was asked for.
LEMMA PoolLimitPositive == \A c \in Int : PoolLimit(c) \in Nat \ {0}
BY DEF PoolLimit, defaultFetchConcurrency

\* A call starts in the invariant.
LEMMA InitPoolInv == Init => PoolInv
<1> SUFFICES ASSUME Init PROVE PoolInv
  OBVIOUS
<1>1. limit \in Nat \ {0}
  BY PoolLimitPositive, ConcurrencyAssumption DEF Init
<1>2. TypeOK
  BY <1>1 DEF Init, TypeOK, PC, Cause, Data
<1>3. OnceInv /\ IdleInv /\ JobInv /\ CauseInv
  BY DEF Init, OnceInv, IdleInv, JobInv, CauseInv
<1>4. QED
  BY <1>2, <1>3 DEF PoolInv

\* A step of one goroutine, taken before the call has returned.
LEMMA JobStepPoolInv ==
  ASSUME PoolInv, NEW j \in batch, JobStep(j)
  PROVE  PoolInv'
<1> USE DEF PoolInv
<1> j \in Jobs
  BY DEF TypeOK
<1>1. CASE Acquire(j)
  <2>1. TypeOK'
    BY <1>1 DEF Acquire, TypeOK, PC
  <2>2. (OnceInv /\ IdleInv /\ JobInv /\ CauseInv)'
    BY <1>1 DEF Acquire, TypeOK, OnceInv, IdleInv, JobInv, CauseInv, Resolved
  <2>3. QED
    BY <2>1, <2>2
<1>2. CASE Skip(j)
  <2>1. TypeOK'
    BY <1>2 DEF Skip, TypeOK, PC
  <2>2. firstErr = "none" => parentDone
    BY <1>2 DEF Skip, CtxDone, TypeOK, OnceInv
  <2>3. (OnceInv /\ IdleInv /\ JobInv /\ CauseInv)'
    BY <1>2, <2>2
    DEF Skip, TypeOK, OnceInv, IdleInv, JobInv, CauseInv, Resolved
  <2>4. QED
    BY <2>1, <2>3
<1>3. CASE ListOK(j)
  <2>1. TypeOK'
    BY <1>3 DEF ListOK, TypeOK, PC, Data
  <2>2. (OnceInv /\ IdleInv /\ JobInv /\ CauseInv)'
    BY <1>3 DEF ListOK, TypeOK, OnceInv, IdleInv, JobInv, CauseInv, Resolved
  <2>3. QED
    BY <2>1, <2>2
<1>4. CASE Tolerate(j)
  <2>1. TypeOK'
    BY <1>4 DEF Tolerate, TypeOK, PC, Data
  <2>2. (OnceInv /\ IdleInv /\ JobInv /\ CauseInv)'
    BY <1>4 DEF Tolerate, Tolerates, TypeOK, OnceInv, IdleInv, JobInv,
                CauseInv, Resolved
  <2>3. QED
    BY <2>1, <2>2
<1>5. ASSUME NEW cause \in {"api", "ctx"}, Fail(j, cause)
      PROVE  PoolInv'
  <2>1. TypeOK'
    BY <1>5 DEF Fail, TypeOK, PC, Cause
  <2>2. cause = "ctx" => parentDone \/ firstErr # "none"
    BY <1>5 DEF Fail, CtxDone, TypeOK, OnceInv
  <2>3. (OnceInv /\ IdleInv /\ JobInv /\ CauseInv)'
    BY <1>5, <2>2
    DEF Fail, TypeOK, OnceInv, IdleInv, JobInv, CauseInv, Resolved
  <2>4. QED
    BY <2>1, <2>3
<1>6. CASE Record(j)
  <2>1. TypeOK'
    BY <1>6 DEF Record, TypeOK, PC
  <2>2. firstErr = "none" /\ firstErr' = err[j] /\ err[j] # "none"
    BY <1>6 DEF Record, OnceInv, JobInv
  <2>3. err[j] = "ctx" => parentDone
    BY <2>2 DEF JobInv
  <2>4. (OnceInv /\ IdleInv /\ JobInv /\ CauseInv)'
    BY <1>6, <2>2, <2>3
    DEF Record, TypeOK, OnceInv, IdleInv, JobInv, CauseInv, Resolved
  <2>5. QED
    BY <2>1, <2>4
<1>7. CASE Cancel(j)
  <2>1. TypeOK'
    BY <1>7 DEF Cancel, TypeOK, PC
  <2>2. firstErr # "none" /\ firstErr' = firstErr
    BY <1>7 DEF Cancel, OnceInv
  <2>3. (OnceInv /\ IdleInv /\ JobInv /\ CauseInv)'
    BY <1>7, <2>2
    DEF Cancel, TypeOK, OnceInv, IdleInv, JobInv, CauseInv, Resolved
  <2>4. QED
    BY <2>1, <2>3
<1>8. CASE Drop(j)
  <2>1. TypeOK'
    BY <1>8 DEF Drop, TypeOK, PC
  <2>2. firstErr # "none" /\ firstErr' = firstErr
    BY <1>8 DEF Drop, OnceInv
  <2>3. (OnceInv /\ IdleInv /\ JobInv /\ CauseInv)'
    BY <1>8, <2>2
    DEF Drop, TypeOK, OnceInv, IdleInv, JobInv, CauseInv, Resolved
  <2>4. QED
    BY <2>1, <2>3
<1>9. CASE Release(j)
  <2>1. TypeOK'
    BY <1>9 DEF Release, TypeOK, PC
  <2>2. (OnceInv /\ IdleInv /\ JobInv /\ CauseInv)'
    BY <1>9 DEF Release, TypeOK, OnceInv, IdleInv, JobInv, CauseInv, Resolved
  <2>3. QED
    BY <2>1, <2>2
<1>10. QED
  BY <1>1, <1>2, <1>3, <1>4, <1>5, <1>6, <1>7, <1>8, <1>9 DEF JobStep

\* g.Wait returning keeps the invariant.
LEMMA ReturnPoolInv ==
  ASSUME PoolInv, Return
  PROVE  PoolInv'
<1>1. TypeOK'
  BY DEF PoolInv, Return, TypeOK
<1>2. (OnceInv /\ IdleInv /\ JobInv /\ CauseInv)'
  BY DEF PoolInv, Return, TypeOK, OnceInv, IdleInv, JobInv, CauseInv, Resolved
<1>3. QED
  BY <1>1, <1>2 DEF PoolInv

\* The end of the caller's context keeps the invariant.
LEMMA ParentEndPoolInv ==
  ASSUME PoolInv, ParentEnd
  PROVE  PoolInv'
<1>1. TypeOK'
  BY DEF PoolInv, ParentEnd, callVars, TypeOK
<1>2. (OnceInv /\ IdleInv /\ JobInv /\ CauseInv)'
  BY DEF PoolInv, ParentEnd, callVars, TypeOK, OnceInv, IdleInv, JobInv,
         CauseInv, Resolved
<1>3. QED
  BY <1>1, <1>2 DEF PoolInv

\* So does a step that leaves the pool alone.
LEMMA StutterPoolInv ==
  ASSUME PoolInv, UNCHANGED poolVars
  PROVE  PoolInv'
BY DEF PoolInv, poolVars, TypeOK, OnceInv, IdleInv, JobInv, CauseInv, Resolved

\* A job that is not in the slice has no goroutine to take a step.
LEMMA IdleTakesNoStep ==
  ASSUME PoolInv, NEW j \in Jobs, JobStep(j)
  PROVE  j \in batch
<1>1. pc[j] # "idle"
  BY DEF JobStep, Acquire, Skip, ListOK, Tolerate, Fail, Record, Cancel, Drop,
         Release
<1>2. QED
  BY <1>1 DEF PoolInv, IdleInv

\* Every step of a call keeps the invariant.
LEMMA NextPoolInv == PoolInv /\ [Next]_poolVars => PoolInv'
<1> SUFFICES ASSUME PoolInv, [Next]_poolVars PROVE PoolInv'
  OBVIOUS
<1>1. ASSUME NEW j \in Jobs, JobStep(j) PROVE PoolInv'
  BY <1>1, IdleTakesNoStep, JobStepPoolInv
<1>2. CASE Return
  BY <1>2, ReturnPoolInv
<1>3. CASE ParentEnd
  BY <1>3, ParentEndPoolInv
<1>4. CASE Returned
  BY <1>4, StutterPoolInv DEF Returned
<1>5. CASE UNCHANGED poolVars
  BY <1>5, StutterPoolInv
<1>6. QED
  BY <1>1, <1>2, <1>3, <1>4, <1>5 DEF Next

\* What the invariant gives the caller, whoever the caller is.
LEMMA PoolInvGives ==
  PoolInv => CompleteOrError /\ ReportsRootFailure /\ NoLostFailure
<1> SUFFICES ASSUME PoolInv
             PROVE  CompleteOrError /\ ReportsRootFailure /\ NoLostFailure
  OBVIOUS
<1>1. batch \subseteq Jobs
  BY DEF PoolInv, TypeOK
<1>2. CompleteOrError
  BY <1>1 DEF PoolInv, OnceInv, JobInv, CompleteOrError
<1>3. ReportsRootFailure
  BY DEF PoolInv, CauseInv, ReportsRootFailure
<1>4. NoLostFailure
  BY <1>1 DEF PoolInv, OnceInv, JobInv, NoLostFailure
<1>5. QED
  BY <1>2, <1>3, <1>4

-----------------------------------------------------------------------------

\* The invariant holds throughout a call.
LEMMA PoolInvariant == Spec => []PoolInv
BY InitPoolInv, NextPoolInv, PTL DEF Spec

\* Every variable of a call keeps its type.
THEOREM TypeCorrect == Spec => []TypeOK
<1>1. PoolInv => TypeOK
  BY DEF PoolInv
<1>2. QED
  BY <1>1, PoolInvariant, PTL

\* With a living caller, a call of any number of jobs in any schedule either
\* reports an error or has every job answered.
THEOREM CallIsCompleteOrFails == Spec => []CompleteOrError
<1>1. PoolInv => CompleteOrError
  BY PoolInvGives
<1>2. QED
  BY <1>1, PoolInvariant, PTL

\* A sibling's "context canceled" is never reported in place of its cause.
THEOREM RootFailureReported == Spec => []ReportsRootFailure
<1>1. PoolInv => ReportsRootFailure
  BY PoolInvGives
<1>2. QED
  BY <1>1, PoolInvariant, PTL

\* No job error is lost between goroutines that fail at the same time.
THEOREM FailureReported == Spec => []NoLostFailure
<1>1. PoolInv => NoLostFailure
  BY PoolInvGives
<1>2. QED
  BY <1>1, PoolInvariant, PTL
=============================================================================
