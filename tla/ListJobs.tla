------------------------------ MODULE ListJobs ------------------------------
(***************************************************************************)
(* One call of runListJobsWithConcurrency (src/internal/kube/fetcher.go):  *)
(* a goroutine per list job, at most `limit` of them inside job.run, the   *)
(* first failure recorded through sync.Once and turned into a cancellation *)
(* of the shared context, and a wait group the caller blocks on.           *)
(*                                                                         *)
(* A job is a model value. What the API server answers is abstracted to    *)
(* what the code tells apart: a list, an ignorable error (forbidden, not   *)
(* found, not served), another API error, or the error of a context that   *)
(* has ended.                                                              *)
(***************************************************************************)
EXTENDS Integers, FiniteSets

CONSTANTS
  Jobs,              \* every list job the process may be asked to run
  Required,          \* those wrapped by requiredListJob
  FetchConcurrency,  \* Client.fetchConcurrency; non-positive means default
  ParentMayEnd       \* may the caller's context end (timeout, interrupt)?

ASSUME JobsAssumption == Required \subseteq Jobs
ASSUME JobsFinite == IsFiniteSet(Jobs)
ASSUME ConcurrencyAssumption == FetchConcurrency \in Int
ASSUME ParentAssumption == ParentMayEnd \in BOOLEAN

VARIABLES
  batch,      \* the jobs slice of the current call
  limit,      \* capacity of the sem channel
  pc,         \* where each job's goroutine is
  err,        \* the error job.run returned, by cause
  data,       \* the list variable the job's closure writes
  once,       \* state of the sync.Once
  firstErr,   \* cause of the recorded error, "none" while nil
  cancelled,  \* cancel() was called on the derived context
  parentDone, \* the caller's context has ended
  returned    \* wg.Wait() is over and the call has returned firstErr

callVars == <<batch, limit, pc, err, data, once, firstErr, cancelled, returned>>
poolVars == <<batch, limit, pc, err, data, once, firstErr, cancelled,
              parentDone, returned>>

Cause == {"none", "api", "ctx"}
PC == {"idle", "waiting", "running", "reporting", "cancelling", "releasing",
       "done", "skipped"}
Data == {"unset", "listed", "tolerated"}

TypeOK ==
  /\ batch \subseteq Jobs
  /\ limit \in Nat \ {0}
  /\ pc \in [Jobs -> PC]
  /\ err \in [Jobs -> Cause]
  /\ data \in [Jobs -> Data]
  /\ once \in {"new", "running", "done"}
  /\ firstErr \in Cause
  /\ cancelled \in BOOLEAN
  /\ parentDone \in BOOLEAN
  /\ returned \in BOOLEAN

-----------------------------------------------------------------------------

defaultFetchConcurrency == 6

\* Mutant of PoolLimit: the semaphore is an unbuffered channel.
UnbufferedLimit(concurrency) == 0

\* A non-positive concurrency argument selects the default.
PoolLimit(concurrency) ==
  IF concurrency <= 0 THEN defaultFetchConcurrency ELSE concurrency

Init ==
  /\ batch = Jobs
  /\ limit = PoolLimit(FetchConcurrency)
  /\ pc = [j \in Jobs |-> "waiting"]
  /\ err = [j \in Jobs |-> "none"]
  /\ data = [j \in Jobs |-> "unset"]
  /\ once = "new"
  /\ firstErr = "none"
  /\ cancelled = FALSE
  /\ parentDone = FALSE
  /\ returned = FALSE

\* The derived context: done once cancel() ran or the parent has ended.
CtxDone == cancelled \/ parentDone

\* Mutant of Holders: no deferred `<-sem`.
LeakedSlots == {j \in batch : pc[j] \notin {"idle", "waiting", "skipped"}}

\* Goroutines between `sem <- struct{}{}` and the deferred `<-sem`.
Holders ==
  {j \in batch : pc[j] \in {"running", "reporting", "cancelling", "releasing"}}

\* select, first case: the semaphore has a free slot. Go may pick this case
\* even when the context is done as well.
Acquire(j) ==
  /\ pc[j] = "waiting"
  /\ Cardinality(Holders) < limit
  /\ pc' = [pc EXCEPT ![j] = "running"]
  /\ UNCHANGED <<batch, limit, err, data, once, firstErr, cancelled,
                 parentDone, returned>>

\* select, second case: give up without running the job or recording an error.
Skip(j) ==
  /\ pc[j] = "waiting"
  /\ CtxDone
  /\ pc' = [pc EXCEPT ![j] = "skipped"]
  /\ UNCHANGED <<batch, limit, err, data, once, firstErr, cancelled,
                 parentDone, returned>>

\* job.run returns nil with a list: the closure has stored the items. A request
\* may be answered although the context has ended meanwhile.
ListOK(j) ==
  /\ pc[j] = "running"
  /\ data' = [data EXCEPT ![j] = "listed"]
  /\ pc' = [pc EXCEPT ![j] = "releasing"]
  /\ UNCHANGED <<batch, limit, err, once, firstErr, cancelled, parentDone,
                 returned>>

\* Mutant of Tolerates: every job is built by optionalListJob.
ToleratesAny(j) == j \in Jobs

\* optionalListJob and listDynamicObjects swallow an ignorable error (forbidden,
\* not found, not served), requiredListJob does not.
Tolerates(j) == j \in Jobs \ Required

Tolerate(j) ==
  /\ pc[j] = "running"
  /\ Tolerates(j)
  /\ data' = [data EXCEPT ![j] = "tolerated"]
  /\ pc' = [pc EXCEPT ![j] = "releasing"]
  /\ UNCHANGED <<batch, limit, err, once, firstErr, cancelled, parentDone,
                 returned>>

\* Mutant of Fail: a goroutine keeps the error of an ended context to itself.
FailQuietly(j, cause) ==
  /\ pc[j] = "running"
  /\ cause = "ctx" => CtxDone
  /\ err' = [err EXCEPT ![j] = cause]
  /\ pc' = [pc EXCEPT ![j] = IF cause = "ctx" THEN "releasing" ELSE "reporting"]
  /\ UNCHANGED <<batch, limit, data, once, firstErr, cancelled, parentDone,
                 returned>>

\* job.run returns an error: any job on a fatal API error, a required one on an
\* ignorable error too, and any job once its context has ended.
Fail(j, cause) ==
  /\ pc[j] = "running"
  /\ cause = "ctx" => CtxDone
  /\ err' = [err EXCEPT ![j] = cause]
  /\ pc' = [pc EXCEPT ![j] = "reporting"]
  /\ UNCHANGED <<batch, limit, data, once, firstErr, cancelled, parentDone,
                 returned>>

\* once.Do, the winner: record the error ...
Record(j) ==
  /\ pc[j] = "reporting"
  /\ once = "new"
  /\ once' = "running"
  /\ firstErr' = err[j]
  /\ pc' = [pc EXCEPT ![j] = "cancelling"]
  /\ UNCHANGED <<batch, limit, err, data, cancelled, parentDone, returned>>

\* ... and cancel the siblings, still inside once.Do.
Cancel(j) ==
  /\ pc[j] = "cancelling"
  /\ cancelled' = TRUE
  /\ once' = "done"
  /\ pc' = [pc EXCEPT ![j] = "releasing"]
  /\ UNCHANGED <<batch, limit, err, data, firstErr, parentDone, returned>>

\* Mutant of Drop: without once.Do, a later failure overwrites the first.
LastErrorWins(j) ==
  /\ pc[j] = "reporting"
  /\ once = "done"
  /\ firstErr' = err[j]
  /\ pc' = [pc EXCEPT ![j] = "releasing"]
  /\ UNCHANGED <<batch, limit, err, data, once, cancelled, parentDone,
                 returned>>

\* once.Do, a later caller: blocks until the winner is through, then drops its
\* own error.
Drop(j) ==
  /\ pc[j] = "reporting"
  /\ once = "done"
  /\ pc' = [pc EXCEPT ![j] = "releasing"]
  /\ UNCHANGED <<batch, limit, err, data, once, firstErr, cancelled,
                 parentDone, returned>>

\* The deferred calls: free the slot, then wg.Done().
Release(j) ==
  /\ pc[j] = "releasing"
  /\ pc' = [pc EXCEPT ![j] = "done"]
  /\ UNCHANGED <<batch, limit, err, data, once, firstErr, cancelled,
                 parentDone, returned>>

\* Mutant of Return: the call returns as soon as an error is recorded.
ReturnEarly ==
  /\ ~returned
  /\ firstErr # "none" \/ \A j \in batch : pc[j] \in {"done", "skipped"}
  /\ returned' = TRUE
  /\ cancelled' = TRUE
  /\ UNCHANGED <<batch, limit, pc, err, data, once, firstErr, parentDone>>

\* wg.Wait() is over; the deferred cancel() runs and firstErr is returned.
Return ==
  /\ ~returned
  /\ \A j \in batch : pc[j] \in {"done", "skipped"}
  /\ returned' = TRUE
  /\ cancelled' = TRUE
  /\ UNCHANGED <<batch, limit, pc, err, data, once, firstErr, parentDone>>

\* The caller's context ends: the --timeout deadline passes.
ParentEnd ==
  /\ ParentMayEnd
  /\ ~parentDone
  /\ parentDone' = TRUE
  /\ UNCHANGED callVars

JobStep(j) ==
  \/ Acquire(j)
  \/ Skip(j)
  \/ ListOK(j)
  \/ Tolerate(j)
  \/ \E cause \in {"api", "ctx"} : Fail(j, cause)
  \/ Record(j)
  \/ Cancel(j)
  \/ Drop(j)
  \/ Release(j)

\* The call has returned and nothing is left to do.
Returned == returned /\ UNCHANGED poolVars

Next ==
  \/ \E j \in Jobs : JobStep(j)
  \/ Return
  \/ ParentEnd
  \/ Returned

\* Goroutines are scheduled and every request is answered or fails; nothing
\* obliges the caller's context to end.
Fairness ==
  /\ \A j \in Jobs : WF_poolVars(JobStep(j))
  /\ WF_poolVars(Return)

Spec == Init /\ [][Next]_poolVars /\ Fairness

-----------------------------------------------------------------------------

\* A job has its answer: the list, or a tolerated gap where gaps are allowed.
Resolved(j) ==
  \/ data[j] = "listed"
  \/ data[j] = "tolerated" /\ j \notin Required

\* While the caller's context is alive, a call that returns no error has run
\* every job to an answer: no goroutine was turned away by a cancellation, no
\* failure was lost between two goroutines racing for once.Do
\* (runListJobsWithConcurrency, "whose failure aborts the whole fetch").
CompleteOrError ==
  returned /\ firstErr = "none" /\ ~parentDone => \A j \in batch : Resolved(j)

\* The reported error is the failure that started the cancellation and never
\* the "context canceled" it caused in a sibling.
ReportsRootFailure == firstErr = "ctx" => parentDone

\* A job error is never dropped silently: a call that returns nil has no job
\* that failed, even when the caller's context ended meanwhile.
NoLostFailure ==
  returned /\ firstErr = "none" => \A j \in batch : err[j] = "none"

\* The call returns, whatever the jobs answer: no goroutine waits for a slot,
\* for once.Do or for the wait group forever.
CallReturns == <>returned

=============================================================================
