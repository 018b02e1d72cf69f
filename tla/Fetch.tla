-------------------------------- MODULE Fetch --------------------------------
(***************************************************************************)
(* Client.FetchSnapshot (src/internal/kube/fetcher.go): the target is      *)
(* looked up first, then three groups of list jobs run one after the       *)
(* other, each as one call of the worker pool of module ListJobs. The      *)
(* lists of a group are assigned to the snapshot only when the whole group *)
(* succeeded, and the snapshot is returned only when every group did.      *)
(***************************************************************************)
EXTENDS ListJobs

CONSTANTS
  CoreJobs,            \* fetchCoreTyped: all required
  ExtendedJobs,        \* fetchExtendedTyped: all optional
  BuiltinDynamicJobs,  \* untyped entries of BuiltinCatalog
  CustomJobs,          \* discovered custom resources
  RelatedJobs          \* kept by filterRelatedCustomEntries

DynamicJobs == BuiltinDynamicJobs \cup CustomJobs

ASSUME StagesAssumption ==
  /\ Jobs = CoreJobs \cup ExtendedJobs \cup DynamicJobs
  /\ Required = CoreJobs
  /\ CoreJobs \cap ExtendedJobs = {}
  /\ CoreJobs \cap DynamicJobs = {}
  /\ ExtendedJobs \cap DynamicJobs = {}
  /\ RelatedJobs \subseteq CustomJobs

\* SnapshotFetchOptions, and what the client was built with. `target` is "none"
\* when no target resource or name was given; `provided` says that the caller
\* passes an API resource catalog, so that no second discovery is made.
Plans == [full     : BOOLEAN,
          mode     : {"all", "related", "none"},
          target   : {"none", "builtin", "custom"},
          dynamic  : BOOLEAN,
          provided : BOOLEAN]

VARIABLES
  plan,      \* the options of this fetch
  stage,     \* what FetchSnapshot is executing
  assigned,  \* jobs whose list has been assigned to a snapshot field
  result     \* what FetchSnapshot returned

fetchVars == <<plan, stage, assigned, result>>
vars == <<poolVars, fetchVars>>

FetchTypeOK ==
  /\ TypeOK
  /\ plan \in Plans
  /\ stage \in {"ensure", "core", "extended", "dynamic", "returned"}
  /\ assigned \subseteq Jobs
  /\ result \in {"pending", "error", "snapshot"}

-----------------------------------------------------------------------------

\* The dynamic group gets a smaller pool than the typed ones.
dynamicFetchConcurrency(concurrency) ==
  CASE concurrency <= 0 -> 2
    [] concurrency > 4 -> 4
    [] concurrency \in 2..4 -> concurrency \div 2
    [] OTHER -> 1

\* The custom resources the fetch lists. Without a catalog from the caller they
\* come from a discovery whose failure leaves the set empty.
customResourceEntries(p, discovered) ==
  CASE p.mode = "none" \/ ~discovered -> {}
    [] p.mode = "all" /\ discovered -> CustomJobs
    [] p.mode = "related" /\ discovered ->
         IF p.target = "custom" THEN RelatedJobs ELSE {}

FetchInit ==
  /\ plan \in Plans
  /\ stage = "ensure"
  /\ assigned = {}
  /\ result = "pending"
  /\ batch = {}
  /\ limit = PoolLimit(FetchConcurrency)
  /\ pc = [j \in Jobs |-> "idle"]
  /\ err = [j \in Jobs |-> "none"]
  /\ data = [j \in Jobs |-> "unset"]
  /\ once = "new"
  /\ firstErr = "none"
  /\ cancelled = FALSE
  /\ parentDone = FALSE
  /\ returned = FALSE

\* A fresh call of the pool: new semaphore, wait group, once and context.
StartCall(jobs, concurrency) ==
  /\ batch' = jobs
  /\ limit' = PoolLimit(concurrency)
  /\ pc' = [j \in Jobs |-> IF j \in jobs THEN "waiting" ELSE "idle"]
  /\ err' = [j \in Jobs |-> "none"]
  /\ once' = "new"
  /\ firstErr' = "none"
  /\ cancelled' = FALSE
  /\ returned' = FALSE
  /\ UNCHANGED <<data, parentDone>>

Finish(res) ==
  /\ stage' = "returned"
  /\ result' = res

\* ensureTargetExists runs only for a targeted, partial fetch and is a no-op
\* without a dynamic client; any error of the Get, not found included, is the
\* error of the fetch.
NeedsTarget == ~plan.full /\ plan.target # "none" /\ plan.dynamic

EnsureTarget ==
  /\ stage = "ensure"
  /\ \/ /\ stage' = "core"
        /\ StartCall(CoreJobs, FetchConcurrency)
        /\ UNCHANGED result
     \/ /\ NeedsTarget
        /\ Finish("error")
        /\ UNCHANGED poolVars
  /\ UNCHANGED <<plan, assigned>>

\* The running group's pool works.
PoolStep ==
  /\ stage \in {"core", "extended", "dynamic"}
  /\ (\E j \in batch : JobStep(j)) \/ Return
  /\ UNCHANGED fetchVars

\* The group's call returned an error: the fetch returns it and no snapshot.
Abort ==
  /\ stage \in {"core", "extended", "dynamic"}
  /\ returned
  /\ firstErr # "none"
  /\ Finish("error")
  /\ UNCHANGED <<plan, assigned, poolVars>>

\* Mutant of AssignLists: the snapshot holds the last group only.
AssignOnlyLast == assigned' = {j \in batch : data[j] = "listed"}

\* Lists of the finished group, copied from the closures' variables.
AssignLists == assigned' = assigned \cup {j \in batch : data[j] = "listed"}

\* Mutant of CoreDone: the group's error is not looked at.
CoreDoneUnchecked ==
  /\ stage = "core"
  /\ returned
  /\ AssignLists
  /\ stage' = "extended"
  /\ StartCall(ExtendedJobs, FetchConcurrency)
  /\ UNCHANGED <<plan, result>>

CoreDone ==
  /\ stage = "core"
  /\ returned
  /\ firstErr = "none"
  /\ AssignLists
  /\ stage' = "extended"
  /\ StartCall(ExtendedJobs, FetchConcurrency)
  /\ UNCHANGED <<plan, result>>

ExtendedDone ==
  /\ stage = "extended"
  /\ returned
  /\ firstErr = "none"
  /\ AssignLists
  /\ \/ /\ plan.dynamic
        /\ \E discovered \in BOOLEAN :
             /\ plan.provided => discovered
             /\ StartCall(BuiltinDynamicJobs
                            \cup customResourceEntries(plan, discovered),
                          dynamicFetchConcurrency(FetchConcurrency))
        /\ stage' = "dynamic"
        /\ UNCHANGED result
     \/ /\ ~plan.dynamic
        /\ Finish("snapshot")
        /\ UNCHANGED poolVars
  /\ UNCHANGED plan

DynamicDone ==
  /\ stage = "dynamic"
  /\ returned
  /\ firstErr = "none"
  /\ AssignLists
  /\ Finish("snapshot")
  /\ UNCHANGED <<plan, poolVars>>

CallerEnds ==
  /\ result = "pending"
  /\ ParentEnd
  /\ UNCHANGED fetchVars

Stopped == result # "pending" /\ UNCHANGED vars

FetchStep ==
  EnsureTarget \/ PoolStep \/ Abort \/ CoreDone \/ ExtendedDone \/ DynamicDone

FetchNext == FetchStep \/ CallerEnds \/ Stopped

FetchSpec == FetchInit /\ [][FetchNext]_vars /\ WF_vars(FetchStep)

-----------------------------------------------------------------------------

\* The jobs the snapshot is expected to cover.
Wanted ==
  CoreJobs \cup ExtendedJobs
    \cup (IF plan.dynamic THEN BuiltinDynamicJobs ELSE {})
    \cup (IF plan.dynamic /\ plan.provided
          THEN customResourceEntries(plan, TRUE) ELSE {})

\* A snapshot answers everything that was asked for: each core list is in it,
\* and any other list is missing only because the API server refused it.
Complete ==
  \A j \in Wanted : /\ Resolved(j)
                    /\ data[j] = "listed" => j \in assigned

\* FetchSnapshot never hands out a snapshot with a hole while the caller's
\* context is alive: one failing job in any of the three groups, whatever the
\* others are doing, ends in an error and not in a smaller snapshot.
SnapshotComplete == result = "snapshot" /\ ~parentDone => Complete

\* The doc comment of Fetch ("retrieves all resources relevant to a diagnosis
\* ... the first error encountered aborts the fetch"), with no condition on the
\* caller's context: a snapshot that is returned is complete.
SnapshotAlwaysComplete == result = "snapshot" => Complete

\* No goroutine outlives its call: once a group's lists are read, or the fetch
\* has returned, no closure can still write the variables they are read from.
NoStragglers ==
  (returned \/ result # "pending") =>
    \A j \in Jobs : pc[j] \in {"idle", "done", "skipped"}

\* A later group talks to the API server only when the earlier ones are
\* through: with the caller's context alive, its requests start after every
\* core list is in the snapshot.
GroupsInOrder ==
  (\E j \in Jobs \ CoreJobs : pc[j] # "idle") /\ ~parentDone =>
    CoreJobs \subseteq assigned

\* FetchSnapshot returns as long as requests are answered.
FetchReturns == <>(result # "pending")

=============================================================================
