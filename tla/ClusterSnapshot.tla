---------------------------- MODULE ClusterSnapshot ----------------------------
(***************************************************************************)
(* klue looks at a cluster that does not hold still. FetchSnapshot lists   *)
(* pods, their owners and events one after the other, in any order         *)
(* (src/internal/kube/fetcher.go); the time is taken after that; the       *)
(* rules read the lists; logs are then read from the pod that has the      *)
(* name by now, and the rules run again (src/cmd/why.go).                  *)
(*                                                                         *)
(* The cluster is one pod with a container "app" and an init container     *)
(* "init", the object that owns it (directly, as far as the model goes)    *)
(* and the warning events about the pod. The question is about either of   *)
(* the two. What the kubelet, the scheduler and the controllers do is      *)
(* external.                                                               *)
(***************************************************************************)
EXTENDS PodRules, OwnerRules

CONSTANTS
  Owners,       \* kinds and wanted numbers of pods
  Image,        \* the image of "app" as the pod's specification names it
  ImageNames,   \* what a container runtime may call it in the status
  MaxTime, MaxUid, MaxRuns, MaxChanges, MaxEvents   \* bounds

Kinds == {"Deployment", "StatefulSet", "ReplicaSet", "DaemonSet", "Job"}

ASSUME OwnersAssumption == \A o \in Owners : o.kind \in Kinds /\ o.desired \in Nat

\* A name is one.
ASSUME ImagesAssumption == NoImage \notin ImageNames \cup {Image}

\* The bounds leave room for every initial pod.
ASSUME BoundsAssumption ==
  /\ MaxTime \in Nat /\ MaxChanges \in Nat
  /\ MaxUid \in Nat /\ MaxUid >= 2
  /\ MaxRuns \in Nat /\ MaxRuns >= 2

VARIABLES
  now,          \* the time
  pod,          \* its UID, its situation, how often "app" was started and
                \* what its status calls the image
  events,       \* the warning events
  owner,        \* the owner with the status its controller has written
  target,       \* what is asked about: "pod" or "owner"
  step,         \* where the command is
  listed,       \* which of the lists have come
  seen,         \* the snapshot: pods, events, owners
  at,           \* options.Now
  latest,       \* of the pod's warnings within the window, the newest
  findings,     \* of the last diagnosis
  candidates,   \* the containers whose logs are read
  entries,      \* the logs read
  since,        \* history: when the pod began to serve
  changes,      \* history: the number of changes of the pod
  still         \* history: none of them since the first list

cluster == <<now, pod, events, owner, since, changes, still>>
command == <<target, step, listed, seen, at, latest, findings, candidates, entries>>
vars == <<cluster, command>>

-----------------------------------------------------------------------------
(* The cluster. *)

Running == {"serving", "unready"}
Ended == {"crashed", "failed"}

\* How the kubelet reports a container.
Status(waiting, terminated, running, ready, restarts, image) ==
  [waiting |-> waiting, terminated |-> terminated, running |-> running,
   ready |-> ready, restarts |-> restarts, image |-> image]

WaitingFor ==
  [sit \in {"creating", "init crashing", "pull failing", "config missing",
            "start failing", "crashing"} |->
     CASE sit = "creating" -> "ContainerCreating"
       [] sit = "init crashing" -> "PodInitializing"
       [] sit = "pull failing" -> "ImagePullBackOff"
       [] sit = "config missing" -> "CreateContainerConfigError"
       [] sit = "start failing" -> "RunContainerError"
       [] sit = "crashing" -> "CrashLoopBackOff"]

Restarts(p) == IF p.runs = 0 THEN 0 ELSE p.runs - 1

AppStatus(p) ==
  CASE p.sit \in DOMAIN WaitingFor ->
         Status(WaitingFor[p.sit], "no", FALSE, FALSE, Restarts(p), p.image)
    [] p.sit \in Running -> Status("no", "no", TRUE, p.sit = "serving", Restarts(p), p.image)
    [] p.sit \in Ended -> Status("no", "Error", FALSE, FALSE, Restarts(p), p.image)
    [] OTHER -> Status("no", "no", FALSE, FALSE, 0, p.image)

InitStatus(p) ==
  IF p.sit = "init crashing" THEN Status("CrashLoopBackOff", "no", FALSE, FALSE, 1, NoImage)
  ELSE Status("no", "Completed", FALSE, TRUE, 0, NoImage)

\* The pod as the API server lists it; before it is scheduled it has no
\* container statuses.
Listed(p) ==
  LET containers == IF p.sit = "unscheduled" THEN {} ELSE {"app", "init"}
  IN  [uid |-> p.uid,
       phase |-> IF p.sit = "failed" THEN "Failed"
                 ELSE IF p.runs = 0 THEN "Pending" ELSE "Running",
       regular |-> containers \ {"init"},
       status |-> [c \in containers |-> IF c = "app" THEN AppStatus(p) ELSE InitStatus(p)]]

\* What the situation of a pod may become. The pods of a Job are not restarted.
Follows(kind, sit) ==
  LET ends == IF kind = "Job" THEN {"failed"} ELSE {"crashed"}
  IN  CASE sit = "unscheduled" -> {"creating"}
        [] sit = "creating" -> {"init crashing", "pull failing", "config missing",
                                "start failing", "unready"}
        [] sit = "init crashing" -> {"creating"}
        [] sit \in {"pull failing", "config missing", "start failing", "crashing"} -> {"unready"}
        [] sit = "unready" -> {"serving"} \cup ends
        [] sit = "serving" -> {"unready"} \cup ends
        [] sit = "crashed" -> {"unready", "crashing", "pull failing"}
        [] OTHER -> {}

\* The warnings a pod gets in a situation.
WarnsOf(sit) ==
  CASE sit = "unscheduled" -> {"FailedScheduling"}
    [] sit = "creating" -> {"FailedMount"}
    [] sit = "pull failing" -> {"Failed", "BackOff"}
    [] sit \in {"config missing", "start failing"} -> {"Failed"}
    [] sit \in {"init crashing", "crashing"} -> {"BackOff"}
    [] sit = "unready" -> {"Unhealthy"}
    [] OTHER -> {}

\* What their messages may say, as far as klue can tell. The kubelet knows the
\* image by the name the specification gives it; of the two warnings about a
\* failed pull one names it, the other ("Error: ErrImagePull") does not.
Message(says, image) == [says |-> says, image |-> image]

Messages(sit, reason) ==
  CASE reason = "Unhealthy" -> {Message({"probe"}, NoImage)}
    [] reason = "FailedMount" -> {Message({"mountvolume"}, NoImage)}
    [] reason = "Failed" /\ sit = "pull failing" ->
         {Message({"pull image"}, Image), Message({"errimagepull"}, NoImage)}
    [] reason = "BackOff" /\ sit = "pull failing" -> {Message({}, Image)}
    [] OTHER -> {Message({}, NoImage)}

\* The statuses the controller of an owner may write while its pod is p. A
\* deadline passes, a condition is set, a revision is rolled out only while the
\* pod does not serve.
Observed(kind, desired, p) ==
  LET up == IF p.sit = "serving" THEN 1 ELSE 0
      there == IF p.sit \in {"gone", "failed"} THEN 0 ELSE 1
      failing == CASE kind = "Deployment" /\ up = 0 /\ desired > 0 ->
                        {{}, {"ProgressDeadlineExceeded"}}
                   [] kind = "ReplicaSet" /\ there = 0 -> {{}, {"ReplicaFailure"}}
                   [] kind = "Job" /\ p.sit = "failed" -> {{}, {"Failed"}}
                   [] OTHER -> {{}}
      rolling == IF kind = "StatefulSet" /\ up = 0 THEN BOOLEAN ELSE {FALSE}
  IN  [kind : {kind}, desired : {desired}, ready : {up}, available : {up},
       updated : {there}, replicas : {there}, rolling : rolling, conditions : failing]

\* The pod turns into p.
Becomes(p) ==
  /\ changes < MaxChanges
  /\ pod' = p
  /\ since' = IF p.sit = "serving" THEN now ELSE 0
  /\ changes' = changes + 1
  /\ still' = (listed = {})
  /\ UNCHANGED <<now, events, owner, command>>

\* The status of a container that was started has the runtime's name for the
\* image in place of the specification's. It is chosen when somebody may look at
\* it, that is, when the image is to be pulled again and cannot be.
Change ==
  \E sit \in Follows(owner.kind, pod.sit) :
    LET starts == IF sit = "unready" /\ pod.sit # "serving" THEN 1 ELSE 0
    IN  /\ pod.runs + starts <= MaxRuns
        /\ sit = "crashing" => pod.runs > 1
        /\ \E image \in IF sit = "pull failing" /\ pod.runs > 0 THEN ImageNames ELSE {pod.image} :
             Becomes([pod EXCEPT !.sit = sit, !.runs = @ + starts, !.image = image])

Delete == pod.sit # "gone" /\ Becomes([pod EXCEPT !.sit = "gone"])

\* Only a StatefulSet gives the next pod the name of the last one.
Recreate ==
  /\ pod.sit = "gone"
  /\ owner.kind = "StatefulSet"
  /\ pod.uid < MaxUid
  /\ Becomes([uid |-> pod.uid + 1, sit |-> "unscheduled", runs |-> 0, image |-> Image])

\* A warning is recorded, or counted again with a new time; some have none.
Warn ==
  /\ \E reason \in WarnsOf(pod.sit), time \in {now, Unstamped} :
       \E m \in Messages(pod.sit, reason) :
         LET e == [uid |-> pod.uid, reason |-> reason, says |-> m.says, image |-> m.image,
                   container |-> NoContainer, time |-> time]
             others == {f \in events : [f EXCEPT !.time = time] # e}
         IN  /\ events' = others \cup {e}
             /\ Cardinality(events') <= MaxEvents
  /\ UNCHANGED <<now, pod, owner, since, changes, still, command>>

Tick ==
  /\ now < MaxTime
  /\ now' = now + 1
  /\ UNCHANGED <<pod, events, owner, since, changes, still, command>>

\* The controller writes the status of the owner.
Sync ==
  /\ owner' \in Observed(owner.kind, owner.desired, pod)
  /\ UNCHANGED <<now, pod, events, since, changes, still, command>>

-----------------------------------------------------------------------------
(* The command. *)

Lists == {"pods", "events", "owners"}

\* Nothing listed, no event.
NoEvent == [uid |-> 0, reason |-> "none", says |-> {}, image |-> NoImage,
            container |-> NoContainer, time |-> Unstamped]
NoPod == [uid |-> 0, sit |-> "gone", runs |-> 0, image |-> NoImage]
NoOwner == [kind |-> "none", desired |-> 0]

\* A pod at several stages of its life; the second of a StatefulSet after the first
\* one left a warning.
InitialPods ==
  [uid : {1}, sit : {"unscheduled"}, runs : {0}, image : {Image}]
    \cup [uid : {1}, sit : {"serving", "crashed"}, runs : {1}, image : {Image}]
    \cup [uid : {1}, sit : {"crashing"}, runs : {2}, image : {Image}]
    \cup [uid : {2}, sit : {"serving"}, runs : {1}, image : {Image}]

InitialEvents(p) ==
  IF p.uid = 1 THEN {}
  ELSE {[uid |-> 1, reason |-> "BackOff", says |-> {}, image |-> NoImage,
         container |-> NoContainer, time |-> 0]}

Init ==
  /\ now = 0
  /\ \E o \in Owners, p \in InitialPods :
       /\ o.kind = "Job" => p.sit \notin {"crashing", "crashed"}
       /\ p.uid = 2 => o.kind = "StatefulSet"
       /\ pod = p
       /\ events = InitialEvents(p)
       /\ owner \in Observed(o.kind, o.desired, p)
  /\ since = 0
  /\ changes = 0
  /\ target \in {"pod", "owner"}
  /\ step = "listing"
  /\ listed = {}
  /\ seen = [pods |-> NoPod, events |-> {}, owners |-> NoOwner]
  /\ at = 0
  /\ latest = NoEvent
  /\ findings = {}
  /\ candidates = {}
  /\ entries = {}
  /\ still = TRUE

\* One list call is answered with what there is. DaemonSets are listed in the
\* group of calls that follows the one with all the others.
Listing(kind) ==
  /\ step = "listing"
  /\ listed' = listed \cup {kind}
  /\ UNCHANGED <<cluster, target, step, at, latest, findings, candidates, entries>>

ListPods == "pods" \notin listed /\ Listing("pods") /\ seen' = [seen EXCEPT !.pods = pod]

ListEvents == "events" \notin listed /\ Listing("events") /\ seen' = [seen EXCEPT !.events = events]

ListOwners ==
  /\ "owners" \notin listed
  /\ owner.kind = "DaemonSet" => listed = {"pods", "events"}
  /\ Listing("owners")
  /\ seen' = [seen EXCEPT !.owners = owner]

\* The newest of the pod's warnings; events of one time are sorted by their
\* names, which mean nothing.
Newest(time) ==
  LET es == WarningEvents(seen.events, seen.pods.uid, time)
  IN  IF es = {} THEN {NoEvent} ELSE {e \in es : \A f \in es : f.time <= e.time}

\* What the rules find on the pod and on the owner.
OfPod(time, logs, newest) ==
  IF seen.pods.sit = "gone" THEN {}
  ELSE Unsuppressed(PodFindings(Listed(seen.pods), seen.events, time, logs), newest)

OfOwner == {Finding(rule, {}, {}, {}) : rule \in OwnerFindings(seen.owners)}

\* The traversal goes on to the other only if nothing is found on the target.
Found(time, logs, newest) ==
  LET near == IF target = "pod" THEN OfPod(time, logs, newest) ELSE OfOwner
      far  == IF target = "pod" THEN OfOwner ELSE OfPod(time, logs, newest)
  IN  IF near # {} THEN near ELSE far

\* The containers whose logs are to be read.
Selected == IF seen.pods.sit = "gone" THEN {}
            ELSE podContainerCandidates(Listed(seen.pods), seen.events)

\* The rules shouldFetchLogsForDiagnosis waits for.
Asking == {"pod/crashloop", "pod/probe-failure", "pod/image-pull", "pod/pending",
           "pod/mount-failure", "builtin/warning-events"}

\* A pod that is asked about but was not listed is an error.
TargetMissing ==
  /\ step = "listing"
  /\ listed = Lists
  /\ target = "pod" /\ seen.pods.sit = "gone"
  /\ step' = "failed"
  /\ UNCHANGED <<cluster, target, listed, seen, at, latest, findings, candidates, entries>>

\* The time is taken and the first diagnosis made; then containers are selected,
\* and their logs read if nothing was found or one of the rules asks for them.
FirstDiagnosis ==
  /\ step = "listing"
  /\ listed = Lists
  /\ target = "owner" \/ seen.pods.sit # "gone"
  /\ at' = now
  /\ latest' \in Newest(now)
  /\ findings' = Found(now, {}, latest')
  /\ candidates' = Selected
  /\ step' = IF /\ Selected # {}
                /\ findings' = {} \/ \E f \in findings' : f.rule \in Asking
             THEN "reading" ELSE "done"
  /\ UNCHANGED <<cluster, target, listed, seen, entries>>

\* The run of "app" the server has a log of: that of the last container that
\* ended or, if not asked for the previous one, of the one that runs. While it
\* waits for a restart both are the last one.
RunRead(previous) ==
  IF previous /\ pod.sit \in Running \cup Ended THEN pod.runs - 1 ELSE pod.runs

\* The pod is asked for by name. The entry is filed under the pod that was
\* listed (LogCandidate.PodRef); uid, run and ended say whose log it is.
ReadLog(c) ==
  LET run == IF c.container = "init" THEN 1 ELSE RunRead(c.previous)
      served == pod.sit \notin {"gone", "unscheduled"} /\ run > 0
  IN  /\ step = "reading"
      /\ \A l \in entries : Candidate(l.container, l.previous) # c
      /\ \E lines \in IF served THEN {"signal", "noise", "failed"} ELSE {"failed"} :
           entries' = entries \cup
             {[pod |-> seen.pods.uid, container |-> c.container, previous |-> c.previous,
               lines |-> lines, uid |-> pod.uid, run |-> run,
               ended |-> c.container = "init" \/ run < pod.runs \/ pod.sit \notin Running]}
      /\ UNCHANGED <<cluster, target, step, listed, seen, at, latest, findings, candidates>>

SecondDiagnosis ==
  /\ step = "reading"
  /\ candidates = {Candidate(l.container, l.previous) : l \in entries}
  /\ findings' = Found(at, entries, latest)
  /\ step' = "done"
  /\ UNCHANGED <<cluster, target, listed, seen, at, latest, candidates, entries>>

\* What no later step of the command looks at is left alone: events and owners
\* once they were listed, the time once it was taken, everything at the end.
ClusterStep ==
  \/ step \in {"listing", "reading"} /\ (Change \/ Delete \/ Recreate)
  \/ step = "listing" /\ Tick
  \/ step = "listing" /\ "events" \notin listed /\ Warn
  \/ step = "listing" /\ "owners" \notin listed /\ Sync

CommandStep ==
  \/ ListPods
  \/ ListEvents
  \/ ListOwners
  \/ TargetMissing
  \/ FirstDiagnosis
  \/ \E c \in candidates : ReadLog(c)
  \/ SecondDiagnosis

Next == ClusterStep \/ CommandStep

Spec == Init /\ [][Next]_vars

-----------------------------------------------------------------------------
(* Properties. They speak of the report, of what one can know from it.     *)

Reported(rule) == \E f \in findings : f.rule = rule

\* The variables have their types; findings about a container name one of the
\* pod's own containers, and no log is read twice or without being asked for.
TypeOK ==
  /\ now \in 0..MaxTime /\ since \in 0..now /\ at \in 0..now
  /\ pod.uid \in 1..MaxUid /\ pod.runs \in 0..MaxRuns /\ changes \in 0..MaxChanges
  /\ still \in BOOLEAN
  /\ target \in {"pod", "owner"}
  /\ step \in {"listing", "reading", "done", "failed"}
  /\ listed \subseteq Lists
  /\ \A f \in findings : f.rule \in {"pod/crashloop", "pod/image-pull", "builtin/log-signal"}
                          => f.containers = {"app"}
  /\ candidates \subseteq [container : {"app", "init"}, previous : BOOLEAN]
  /\ {Candidate(l.container, l.previous) : l \in entries} \subseteq candidates

\* The pod did not change while klue looked, so what was listed is what was.
Unmoved == step = "done" /\ still

\* The owner's status was up to date.
OwnerSynced == seen.owners \in Observed(seen.owners.kind, seen.owners.desired, seen.pods)

\* A workload that has been healthy for longer than the event window, the fetch
\* included, is not accused of anything, whatever happened to its pod or to an
\* earlier pod of its name before (event_index.go For, event_time.go
\* WithinEventWindow, why.go:295). Events without a time are not subject to
\* the window, none is if it is switched off, and the owner wants no second pod.
CalmPodsAcquitted ==
  (/\ Unmoved
   /\ seen.pods.sit = "serving"
   /\ OwnerSynced
   /\ seen.owners.desired <= 1
   /\ EventWindow > 0
   /\ at - since > EventWindow
   /\ \A e \in seen.events : e.time # Unstamped)
  => findings = {}

\* The rules on pods were evaluated: the traversal came to the pod.
PodReached ==
  /\ step = "done"
  /\ seen.pods.sit # "gone"
  /\ target = "pod" \/ OfOwner = {}

\* The rule a warning is evidence for while the pod is in a situation, if
\* there is a special one.
RuleFor(sit, reason) ==
  CASE reason = "FailedScheduling" -> "pod/pending"
    [] reason = "FailedMount" -> "pod/mount-failure"
    [] reason = "Unhealthy" -> "pod/probe-failure"
    [] reason = "Failed" /\ sit = "pull failing" -> "pod/image-pull"
    [] OTHER -> "none"

\* f is of the rule for warning e, and takes it for evidence unless the message
\* calls the image something else than the status does.
Answers(f, e) ==
  /\ f.rule = RuleFor(seen.pods.sit, e.reason)
  /\ e \in f.events \/ e.image \notin {NoImage, seen.pods.image}

\* A failure the listed pod was warned of within the window is reported by the
\* rule for it, which takes that warning for evidence, whatever other warnings
\* came before or after (ruleutil/events.go LatestWarningEvent, pod/*.go). A
\* warning about a failed pull that gives the image another name than the status
\* need not be evidence (event_patterns.go:79), but the rule accuses the
\* container all the same. And no pod with a recent warning is without findings,
\* whatever was suppressed (engine.go suppressRedundantBuiltinFindings).
PersistentFailureReported ==
  PodReached =>
    /\ \A e \in seen.events :
         (/\ e.uid = seen.pods.uid
          /\ e.time = Unstamped \/ at - e.time <= EventWindow
          /\ e.reason \in WarnsOf(seen.pods.sit)
          /\ Message(e.says, e.image) \in Messages(seen.pods.sit, e.reason)
          /\ RuleFor(seen.pods.sit, e.reason) # "none")
         => \E f \in findings : Answers(f, e)
    /\ latest # NoEvent => findings # {}

\* "When a stronger typed rule fires for the same resource (for example
\* pod/crashloop), the generic warning finding is suppressed"
\* (docs/rules/builtin.md:47). It is only if that rule shows the same event,
\* and pod/crashloop shows none (engine.go suppressRedundantBuiltinFindings).
GenericWarningGivesWay ==
  step = "done" => ~(Reported("pod/crashloop") /\ Reported("builtin/warning-events"))

\* Whoever is reported to crash or to fail its probes had its log read: the
\* first diagnosis asks for logs then, and the rules, which respect the event
\* window, accuse no container that the choice of candidates, which does not,
\* leaves out (why.go shouldFetchLogsForDiagnosis; log_candidates.go
\* podContainerCandidates; crashloop.go, probes.go).
SymptomsGetLogs ==
  step = "done" =>
    \A f \in findings : f.rule \in {"pod/crashloop", "pod/probe-failure"} =>
      f.containers \subseteq {l.container : l \in entries}

\* The log lines a finding shows are of the run it says. "previous" in a crash
\* loop is a run that has ended, and no older one than the crash that was
\* listed; "current" in a failing probe is no run before the listed one. It
\* holds although the logs are read later, while the pod goes on (crashloop.go:45,
\* probes.go:66, logs.go:59); of a pod created since under the same name
\* anything may be shown.
LogsFitLabels ==
  \A f \in findings : \A l \in {l \in f.logs : l.lines # "failed"} :
    /\ f.rule = "pod/crashloop" => l.ended
    /\ (f.rule \in {"pod/crashloop", "pod/probe-failure"} /\ l.uid = seen.pods.uid)
       => l.run >= seen.pods.runs

\* An owner that lacked a serving pod throughout the fetch, or a Job that gave
\* up, is accused if the question is about it, and otherwise the pod or the
\* owner; neither of them is shown as Ready or, as for the owner, Healthy;
\* a ReplicaSet without any pods is shown Healthy all the same (status.go, the
\* rules on workloads).
ShortageReported ==
  (/\ Unmoved /\ OwnerSynced
   /\ seen.owners.desired > 0
   /\ seen.owners.kind = "Job" => "Failed" \in seen.owners.conditions
   /\ seen.pods.sit # "serving")
  => /\ findings # {}
     /\ target = "owner" => \E rule \in OwnerFindings(seen.owners) : Reported(rule)
     /\ ~(seen.owners.kind = "ReplicaSet" /\ seen.owners.replicas = 0)
          => OwnerStatus(seen.owners) \notin {"Ready", "Healthy"}
     /\ seen.pods.sit # "gone" => podStatus(Listed(seen.pods)) # "Ready"

=============================================================================
