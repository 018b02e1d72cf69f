# klue in TLA+

klue explains why a Kubernetes object is unhealthy: it takes a snapshot of a
namespace, builds a graph of the objects and their relationships, runs rules on
the target and its neighbourhood, and reports the most likely root cause. This
directory holds TLA+ models of its core logic, the TLC configurations that check
them on small instances, and TLAPS proofs of the properties that matter most.

## The system

`klue why <resource> <name>` (`cmd/why.go`) runs these parts one after the other
under one context, which `--timeout` may end at any time:

| part | state | operations | hard because | correct when |
|---|---|---|---|---|
| discovery and catalog (`internal/kube/discovery.go`, `catalog.go`, `customresource.go`) | none, reads the API server | resolve a resource name to a kind | ambiguous names | one kind or an error |
| snapshot fetch (`internal/kube/fetcher.go`) | a `ResourceSnapshot`, filled group by group | `FetchSnapshot`: target check, core, extended and dynamic lists | goroutines, a shared error, cancellation, refused lists, timeout | a snapshot has no hole nobody reported |
| list job pool (same file) | semaphore, `sync.Once`, first error, derived context, wait group | `runListJobsWithConcurrency` | every interleaving of jobs that fail, wait and are cancelled | all answers or the root failure; the call returns |
| graph construction (`internal/kube/graph*.go`, `relationships*.go`) | nodes, edges, indexes by UID and by logical key | `BuildGraph` | objects seen by one list and not by another; placeholders | one node per object, the edges the snapshot implies, no placeholder beside its object |
| graph lookups (`internal/graph`) | the indexes | `FindByRef`, `GetRelatedNodes` | UID and logical keys | symmetric neighbourhood |
| engine, traversal (`internal/diagnose/engine.go`) | visited, frontier, order, depth | `Diagnose`: layers, depth limit, namespace scan, verdict | cycles, off-by-one at the limit, verdict of a truncated search | the verdict is true of the whole graph |
| engine, ranking (same file) | the list of findings | corroborate, suppress, rank, sort, assemble | several sort keys, removed findings | nothing lost, deterministic, causes before symptoms |
| rules (`internal/rules`) | none | `Evaluate` per node | two of them read the graph's shape | per rule |
| event index and event evidence (`internal/evidence/event_*.go`, `internal/diagnose/event.go`) | events by object | lookups by object and window, what a message is about | objects re-created under the same name, events without a time | a pod answers for its own recent events |
| status mapping (`internal/kube/status.go`) | none | the state shown for an object | wanted, existing, ready and available pods | nothing that lacks pods is shown as Ready |
| rule selection (`internal/rules/registry.go`) | none | `Select` | flags that exclude one another, unknown ids, a selection that is empty | the rules asked for, or an error |
| why command (`cmd/why.go`) | the diagnosis so far | resolve, fetch, look up, diagnose, fetch logs, diagnose again | every step may be overtaken by the deadline or by the cluster | the second look loses nothing the first one saw |
| log candidates and fetch (`internal/evidence`, `internal/kube/logs.go`) | candidates, log entries | select, cap, fetch concurrently | cap, timeout | one entry per candidate, in its place |
| output (`internal/output`) | none | render | - | - |

The parts interact by calls and by data handed on: the fetch runs its groups as
calls of the pool, the graph is built from the finished snapshot, the engine
reads the graph and never changes it. The engine runs a second time with logs if
the first diagnosis asks for them. All of it happens while the cluster goes on:
nothing klue reads is of one moment.

## Modules

| module | models | state and actions |
|---|---|---|
| `ListJobs` | one call of `runListJobsWithConcurrency` | a goroutine is a `pc` value; `Acquire` and `Skip` are the two cases of the `select`, `ListOK`, `Tolerate` and `Fail` are the outcomes of `job.run`, `Record`/`Cancel` is the winner of `once.Do` and `Drop` every later caller, `Release` the deferred calls, `Return` the end of `wg.Wait`, `ParentEnd` the caller's deadline |
| `Fetch` (extends `ListJobs`) | `FetchSnapshot` | `stage` says which group is running; `EnsureTarget`, `CoreDone`, `ExtendedDone`, `DynamicDone` and `Abort` are the statements between the calls, `PoolStep` the running call |
| `Hops` | what "related" and "within N hops" mean | no state; reachability as membership in all closed sets, distance through potentials, so that neither repeats the algorithm under test |
| `Engine` (extends `Hops`) | `Diagnose`, `diagnoseUntilFound`, `scanNamespaceRemainder` | `Locate`, `EvaluateLayer`, `ExpandLayer`, `StopAtDepth`, `ScanNamespaceRemainder`, `Report`: the passes over a layer and the branches after the traversal |
| `Findings` | what `Diagnose` does with the findings | one action per pass: `Annotate`, `Suppress`, `Rank`, `Sort`, `Assemble` |
| `ResourceGraph` | `BuildGraph`, the lookups of `graph.Graph`, and the rules that read the shape of the graph | `phase` is the loop that runs and `todo` what it has left, in any order; `AddTypedNode` and `AddDynamicNode` are the loops of `addNodes`, `AddOwnerEdges`, `AddServiceEdges`, `AddPolicyEdges`, `AddReference`, `AddDynamicReference` those of `addEdges`; `byUID`, `byLogical` are the builder's tables. `FindByRef`, `MissingReference`, `OrphanedOwner`, `MissingRelationships` are operators on the finished graph |
| `DiagnosisAnswers` | the answers `Diagnose` may give, in terms of reachability and distance | no state; what "related" means is a parameter, so `Hops` (a graph) and `WhyCommand` (known distances) both instantiate it |
| `DiagnosisContract` (extends `DiagnosisAnswers`) | `Diagnose` as one step | `Answer`; `Engine` implements it, every pass but the last being a stutter |
| `PodLogs` | `FetchPodLogs` | a goroutine per candidate: `Acquire` and `TurnAway` are the cases of the `select`, `ReadAll` and `ReadFails` the end of a request, which writes `entries[i]` |
| `Catalog` | `DiscoverResources`, `ResolveResource` | no state; what a discovery answer adds to the built-in catalog and what a name means in the result |
| `WhyCommand` (extends `PodLogs`, `Catalog`) | `diagnoseWithClient` | `step` is the position in the function: `Resolve`, `FetchSnapshot`, `LookUp`, `SelectRules`, `FirstDiagnosis`, `ConsiderLogs`, `ReadLog`, `LogsFetched`, `SecondDiagnosis`, `Render`; `ContextEnds` at any time. A diagnosis is any answer `DiagnosisAnswers` allows |
| `EventEvidence` | the event index, the window, the reading of messages | no state |
| `PodRules` (extends `EventEvidence`) | the rules on pods, suppression of the two general rules, the choice of containers for logs | no state; a rule yields findings with the containers, events and logs they cite |
| `OwnerRules` | the rules on workloads and the states of `status.go` | no state |
| `ClusterSnapshot` (extends `PodRules`, `OwnerRules`) | the command over a cluster that changes | `Change`, `Delete`, `Recreate`, `Warn`, `Tick`, `Sync` are the cluster (external); `ListPods`, `ListEvents`, `ListOwners` in the order the groups allow, `TargetMissing`, `FirstDiagnosis`, `ReadLog`, `SecondDiagnosis` are klue |
| `MC*` | instances for TLC | values of the constants |
| `ListJobsProofs`, `FetchProofs`, `EngineProofs`, `FindingsProofs`, `ResourceGraphProofs`, `WhyProofs`, `SnapshotProofs` | TLAPS proofs | inductive invariants, lemmas, theorems |
| `FiniteOrders` | facts about finite sets and numbers those proofs share | first and smallest elements, cut-off, induction, iteration; all proved |

`Fetch` composes three calls of `ListJobs`: it resets the pool's variables with
`StartCall` and lets `JobStep` and `Return` run while a group is active.
`Engine` and `Findings` cut `Diagnose` in two: the first decides which nodes are
accused and which summary is given, the second what the report says about them.
The cut is sound because suppression never empties a list (`RootCauseMostSevere`),
so the summary does not depend on it.

`ResourceGraph` stands between them: its input is a finished snapshot, its graph
is an input of `Engine`.

The command is modelled twice, for two questions. `WhyCommand` keeps the cluster
fixed and varies the graph, the rules, the deadline and the log requests: it
takes a diagnosis to be any answer of `DiagnosisAnswers`, which `Engine` has been
proved to give. `ClusterSnapshot` keeps one pod and its owner and varies what
happens to them while klue looks: there the rules are the real ones, and the
traversal is short enough (target, then the other one) to be written out.

Abstractions. A job is a model value, an API answer is one of: a list, an
ignorable error, another error, the error of an ended context. The contents of
lists are left out. A rule is its verdict on a node (`faulty`), the record of
the finding it makes (`Findings`), or, in `PodRules` and `OwnerRules`, what it is. Reference keys are model values. In `Engine` a
layer is a set: the sorted order within it decides only how the chain is listed.
In `ResourceGraph` a logical key is a kind and a name, and what an object's
fields mention is part of the object; namespaces, API versions, the paths of
fields and the status of nodes are left out. Edges are a set, as the builder
drops duplicates. In `WhyCommand` an object's place in the graph is its distance
from the target, a candidate is its place in the list, and a log is "signal",
"noise" or "empty". In `Findings` a list is put in order by counting: the place
of an element is the number of those before it (`Arranged`), which is what a
stable sort yields; `bfsDistance` is the round in which a node is found. In `EventEvidence` a
message is the set of phrases the patterns look for, and the container and the
image it names, if it does; in `ClusterSnapshot` a pod
is its UID, its situation (from unscheduled to serving, crashing or gone), how
often its container was started and the name its status has for the image, and
`Listed` says how the API server shows that. An image has several names: the one
in the pod's specification, which events use, and the one the runtime resolved,
which a container that has run may show.
Definitions marked "Mutant of" are not part of the models: each is a plausible
bug, kept next to the definition it would replace to show which property it
breaks.

## What TLC checks

| run | instance | shows |
|---|---|---|
| `list_jobs` | 2 required and 2 optional jobs, 2 slots, a caller that may give up | type; `CompleteOrError`: with a living caller no error means that every job is answered; `ReportsRootFailure`: never the "context canceled" it caused; `NoLostFailure`: no error of a job is dropped; `CallReturns` |
| `fetch` | groups of 2, 2 and up to 3 jobs, all options, 2 slots | type; `SnapshotComplete`; `NoStragglers`: no goroutine can still write what is being read; `GroupsInOrder`; `FetchReturns` |
| `fetch_timeout` (violated) | the same | a snapshot with a hole is returned without an error when the deadline passes at the wrong moment |
| `engine` | all 64 graphs on 4 nodes, all sets of faulty nodes, depth limits none, 1, 2, scan on and off, a placeholder or none, a node in another namespace; a target outside the graph | type; `HealthyIsTrue`, `NearestFaultsReported`, `ScanIsLastResort`; `ImplementsContract`, which also fixes the depth verdict; `DiagnosisEnds` |
| `findings` | all lists of up to 3 of 15 findings on 3 objects, all graphs over 4 directed edges | type; `NothingSilenced`: only general findings are dropped, each for a specific one about the resource that shows its evidence; `RootCauseMostSevere`, `ChainMatchesRootCause`, `EvaluationOrderIrrelevant` (every reordering of the list leads to the same sequence of keys), `DependenciesFirst` |
| `resource_graph` | all snapshots of up to 4 of 16 objects, typed and dynamic, that own, select and mention one another; the loops in every order | type; `OneNodePerKey`: no placeholder next to the object it names; `GraphOfSnapshot`: the edges are those the snapshot implies, whatever the order; `LookupFindsObject`; `MissingReported`: each name no object has is reported once |
| `why` | 3 unhealthy containers of 2 pods at various distances, caps 1 and 3, 2 log slots, a context that may end at any step; and command lines that are ambiguous, unknown or contradictory against 3 discovery answers | type; `OwnEntries`: the log pool; `SecondLookOnlyNearer`, `SilentLogsChangeNothing`: the second diagnosis adds or comes nearer, and does neither without a signal; `NearerSignalsUnread`: a nearer signal is passed over only if it was not read; `NameIsUnambiguous`; `CommandEnds` |
| `snapshot` | a pod that starts at several stages of its life, with an owner of each of five kinds, asked about either; up to 3 changes, 2 events, 2 ticks, a pod created again under its name | type; `CalmPodsAcquitted`: what has been healthy for longer than the window is not accused of its past or its predecessor's; `PersistentFailureReported`: what the pod was warned of is reported with that warning unless the warning names another image, and a warned pod is never shown without a finding; `SymptomsGetLogs`; `LogsFitLabels`: "previous" and "current" are true of the lines shown; `ShortageReported`: a lasting shortage is reported and not shown as Ready |
| `snapshot_generic` (violated) | the instance of `snapshot` | a pod that crash-loops is reported by pod/crashloop and by builtin/warning-events, though the page of the latter says that it gives way (`GenericWarningGivesWay`) |
| `graph_missing`, `graph_orphans`, `graph_target` (violated) | the instance of `resource_graph` | the rules on the shape of the graph do not say what their documentation says (see Findings) |

Bounds. Two slots and four jobs are the smallest pool in which a job waits while
two others fail at once, and both kinds of job occur twice so that failures race
within and across kinds. Every group of `fetch` has at least two jobs in some
plan, and the dynamic pool has one slot (half of two), so that waiting jobs exist
in it. Four nodes allow a target, two layers, a cycle and an unrelated node.
Three findings are the fewest in which one is suppressed and two are compared.
Four objects allow two that mention a third and a fourth that owns or selects
one of them; the instance has a Deployment created again under its name, a
dynamic twin of a typed object, a custom resource as owner and as target, a
selector that is empty, and a Role the user may not list. In `why` two slots and
three candidates make one wait while the context ends; a cap of one drops two of
them; the seven layers place the pods nearer than, at and beyond the first root
cause, or unrelated. In `snapshot` three changes are enough for a pod to go, to
be created again and scheduled, or to crash, restart and crash between the lists
and the logs (`MaxChanges`; `MaxRuns` 3 follows from it, as a crash loop starts with
2); a window of 1 in a time of up to 2 (`MaxTime`, `EventWindow`) separates
recent from old; two events (`MaxEvents`) are a warning and a newer one about
something else; `MaxUid` 2 is a pod and its successor. `MCImageNames` has the
name in the specification and one other; a failed pull is reported by messages
that name the image and by those that do not.
The command lines of `why` name no rule, known and unknown ones, and disable
none, one and all of them.

Fairness. `ListJobs` assumes weak fairness of each goroutine and of `Return`:
goroutines are scheduled, and a request is answered or fails. Nothing obliges the
caller's context to end. `Fetch` and `Engine` assume only that the one running
call makes progress; each of its steps brings it closer to its end, so which of
the enabled steps is taken does not matter. The same holds of `WhyCommand`, whose
log pool cannot block: a request is answered, fails or ends with the context.
`ClusterSnapshot` claims no liveness and states no fairness; its cluster may
stop, and the command ends, so its run has `CHECK_DEADLOCK FALSE`.

Refinement. `Engine` carries the hop distance of what it found and says when it
has answered; `Contract == INSTANCE DiagnosisContract WITH ...` maps it to the
contract, and `ImplementsContract` is `Contract!Spec` as a property of the run
and as a theorem.

## What is proved

With TLAPS, for every value of the constants that satisfies their assumptions
(`JobsAssumption`, `JobsFinite`, `ConcurrencyAssumption`, `ParentAssumption`,
`StagesAssumption`, `InputsAssumption`, `CallsAssumption`, `RulesAssumption`,
`FetchConcurrencyAssumption`, `OwnersAssumption`, `EventWindowAssumption`,
`ImagesAssumption`,
`BoundsAssumption`, `CatalogAssumption`, `GraphsAssumption`, `IdRankAssumption`,
`RawListsAssumption`; the runs evaluate them). They say what inputs look like:
graphs and lists are finite, the entries of the built-in catalog have their
fields, `maxLogCandidates` is positive as the command makes it, rule ids are
ordered as strings are. One says something of the rules: the findings of the two
general rules are warnings (`warning_events.go`, `log_signal.go`), and no rule
that shows an event or a log gives less than a warning (`RawListsAssumption`; the
only `SeverityInfo` findings, on storage classes and suspended cron jobs, show
specs). Without it a suppressed warning could have been the most severe finding.

- `ListJobsProofs`: `TypeOK`, `CompleteOrError`, `ReportsRootFailure`,
  `NoLostFailure` for any number of jobs and slots. None is inductive. `PoolInv`
  adds what `once` knows about the error and about the goroutine inside
  `once.Do` (`OnceInv`), that a job outside the slice has no goroutine
  (`IdleInv`), and what each position of a goroutine says about its job
  (`JobInv`): above all, a goroutine that was turned away while no error is
  recorded implies that the caller's context has ended, because a cancellation
  comes after `Record`.
- `FetchProofs`: `FetchTypeOK`, `SnapshotComplete`, `NoStragglers`,
  `GroupsInOrder` for any jobs and options. `FetchInv` reuses `PoolInv` as it
  is, since a fresh call satisfies it whatever ran before (`StartCallPoolInv`),
  and adds which jobs the current call runs (`StageInv`) and that groups that
  are through stay settled (`KeptInv`): the groups are disjoint, so a later call
  does not touch their answers (`JobFrame`).
- `EngineProofs`: `TypeOK`, `HealthyIsTrue`, `NearestFaultsReported`,
  `DepthVerdictIsTrue`, `ScanIsLastResort` for any graph, finite or not.
  `EngineInv` says that the visited nodes are complete layers around the target
  (`Layering`), what has been evaluated (`Evaluated`) and why the traversal
  ended (`Ended`). Upper bounds of distances grow with the layers (`HopStep`);
  lower bounds come from `WithinVisited`: the layer, cut off at k + 1, is itself
  a potential. `EngineImplementsContract` follows from the same invariant: each
  way `Report` and the end of the traversal are reached is one of the disjuncts
  of `Answers`.
- `ResourceGraphProofs`: `TypeOK`, `OneNodePerKey`, `GraphOfSnapshot`,
  `LookupFindsObject`, `MissingReported` for any snapshot whose objects have UIDs
  and differ in name (`InputsAssumption`). `GraphInv` says, in each loop, which
  objects have nodes (`Placed`) and which entries are through (`OwnersDone` and
  its siblings), that the tables hold exactly the nodes (`TablesInv`) and that
  the edges are the links of the entries that are through (`EdgesInv`). The key
  step is `TableEnds`: once every object is placed, the table of names answers
  with the object, or with a placeholder only if there is none, so the order in
  which references are followed cannot matter.

- `FindingsProofs`: `TypeOK`, `NothingSilenced`, `RootCauseMostSevere`,
  `ChainMatchesRootCause`, `EvaluationOrderIrrelevant`, `DependenciesFirst` for
  any finite graph and any list of findings. `PipelineInv` says what each pass
  leaves of the raw list. Counting gives every element a place of its own
  because the numbers of those before are all different (`ArrangedInOrder`); the
  comparison of `sortFindings` is a weak order on any findings
  (`BeforeIsWeakOrder`), with the place it is a total one
  (`SortedOrderIsTotal`). A dropped finding is generic, and what it repeats is
  specific and so stays (`SpecificStays`). What the rounds of `bfsDistance` find
  is exactly what can be reached (`FoundAreDependencies`), so a dependency weighs
  at least 4 and anything else at most 3 (`BiasBounds`). The order of evaluation
  cannot matter because a reordering embeds each list in the other, through
  suppression (`KeptEmbeds`) and sorting: the k-th of one list cannot precede the
  k-th of the other, as it would need k elements before it (`NoneComesEarlier`).
  Equal keys are then equal ids, as no two rules share one.
- `WhyProofs`: `TypeOK`, `OwnEntries`, `SecondLookOnlyNearer`,
  `SilentLogsChangeNothing`, `NearerSignalsUnread`, `NameIsUnambiguous` for any
  call. `LogInv` and `CmdInv` tie the fetchers to the entries and the two results
  to the questions they answer; the argument is that the faults of the second
  question contain those of the first and add only pods with a signal (`Finds`),
  and that the smallest distance of a larger set is no larger. `LookInv` and
  `Shape` add which entries were consulted and that the candidates are within the
  cap (`CutOff`): a signal that was read is a fault of the second question, so a
  report that ends farther away did not have it (`InSightIsFound`). A resolved
  name is the only match because `ResolveResource` takes a match only if it is
  all of them, and discovery changes nothing of an entry but its aliases
  (`EntriesAreEntries`, `MoreAliases`).
- `SnapshotProofs`: `TypeOK`, `SymptomsGetLogs`, `PersistentFailureReported`,
  `ShortageReported`, `LogsFitLabels`, `CalmPodsAcquitted` for any owners, window
  and bounds. `SnapshotInv` keeps what
  the report owes to the snapshot: the findings are those of the lists with some
  logs, the candidates were selected from the same lists, and at the end they
  were read unless no rule had asked. It is inductive because the cluster cannot
  touch what has been listed (`ClusterSnapshotInv`). The rest is about the rules:
  each symptom is selected (`SymptomsSelected`), each warning is evidence of its
  rule as far as container and image agree (`WarningIsEvidence`), a general
  finding disappears only next to another one (`SomethingStays`), a workload without a serving pod is short
  (`ShortAccused`) and no status calls it ready (`ShortNotReady`). `PodHistory`
  and `LogsInv` relate the pod listed to what became of it: one that keeps its UID
  only goes on (`Later`), so a log read later is of no older run (`ReadFits`), and
  one that has served for longer than the window has no warning within it.

Only model-checked: the liveness properties `CallReturns`, `FetchReturns`,
`DiagnosisEnds` and `CommandEnds`, as TLAPS does not reason about fairness. Every
invariant the passing runs check is also a theorem, and so is the refinement
`ImplementsContract`. What would need induction over a recursive definition is
stated so that it does not: distances are what closed sets and potentials say,
sorted lists are counted, and the one recursive function that is left, the rounds
of `Found`, is reasoned about with `Iteration` and `AllNumbers`, which are proved
from the smallest element of a set of numbers.

## Findings

- A deadline that passes while list jobs wait for a slot can yield a snapshot
  with missing lists and no error: a goroutine turned away by the context
  (`fetcher.go:193`) records nothing. Run `fetch_timeout`.
- The rules that read the graph disagree with their pages under `docs/rules`:
  - missing-reference fires for objects that exist but were not listed
    (`graph_missing`). It also fires for what a Certificate is to produce, where
    the page (`builtin.md:98`) promises silence: no code creates a producer edge.
    No run is spent on that, as it is the lemma `NothingProduces`;
  - orphaned-owner does not fire if anything mentions the name of the deleted
    owner, whose placeholder `FindByRef` finds (`graph_orphans`);
  - hpa/missing-scale-target and the other rules built on `MissingRelationships`
    never fire on a graph of `BuildGraph`: the reference itself caused the
    placeholder that is found (`graph_target`). The missing object is still
    reported, by missing-reference (`MissingReported`).
- `docs/rules/builtin.md:46-49` says that the general warning of a resource is
  suppressed when a stronger rule fires for the resource, with pod/crashloop as
  the example. `suppressRedundantBuiltinFindings` drops it only if a specific
  finding shows the same event, as `docs/usage/why.md:115` has it, and
  pod/crashloop shows none: both are reported (`snapshot_generic`). That is why
  `NothingSilenced` speaks of evidence that is still shown.

## Observations

True of the code and of the models, and no contradiction to any of its texts:

- Image names are compared as text (`ImagesAgree`). A pod that has run before and
  now fails to pull its image may show the name the runtime resolved, while the
  event has that of the specification: pod/image-pull then fires without the
  event, with less confidence, and the general warning stays next to it.
- The comparison of `sortFindings` leaves out the resource. Two findings of one
  rule on two resources with equal severity, corroboration, position and
  confidence stay in the order their nodes were evaluated in, which within a layer
  is given by their keys and those of the nodes they were reached from. Which of
  the two becomes the root cause is thus decided by a key; `EvaluationOrderIrrelevant`
  compares what findings are ranked by and says nothing of that.
- A pod that has no events of its own gets those of its name, also its
  predecessor's (`EventIndex.For`): within the window a recreated pod of a
  StatefulSet is accused of the last warning about the old one.
- Logs are read by name after the diagnosis, so they may be those of a pod created
  since. `LogsFitLabels` therefore speaks of the listed pod only.
- A ReplicaSet without pods is shown Healthy whatever it wants
  (`replicaSetStatus` compares with `status.replicas`); the rule still accuses it.
- The traversal stops at the owner when the owner was asked about and is accused:
  the pod is then not evaluated. Its logs are not read, as no rule on owners asks.
- Logs of init containers are read and no rule cites them.
- builtin/log-signal calls its lines "current" although a container that waits
  with restarts is read with `previous`.
- An empty set of related pods, also that of a target pod that does not exist,
  allows the logs of all pods (`AllowedPods`).

## Not modelled

- Namespaces of reference targets (`namespaceForTarget`), API versions and paths
  of fields in `ResourceGraph`.
- Rules other than those of `ResourceGraph`, `PodRules` and `OwnerRules`
  (nodes, quotas, volumes, ingresses, autoscalers, reliability ...): stateless
  predicates over one object, inputs of the engine models.
- In `PodRules` and `OwnerRules`: pods that are terminating or have succeeded,
  paused Deployments, the misscheduled rule of DaemonSets, the pod log a failed
  Job cites, events without a UID, the causes parsed out of a
  message for the wording of a finding, and which line of a log is shown.
- The ReplicaSet between a Deployment and its pods: owner and pod are neighbours.
- The order of `GetInboundEdges`, which builtin/missing-reference changes in place
  (a hazard without a property): the engine models take neighbours as sets.
- Output, flags, the debug record and formatting; the value types under `pkg`.
- Lower-casing and trimming of names in `Catalog`.
