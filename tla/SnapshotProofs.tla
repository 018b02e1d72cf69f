---------------------------- MODULE SnapshotProofs ----------------------------
(***************************************************************************)
(* What the report on a snapshot owes to the snapshot alone, for every     *)
(* event window, every set of owners and any history of the cluster: who   *)
(* crashes is read, who lacks a pod is accused, who has been well is not,  *)
(* and log lines are of the run they are said to be of.                    *)
(***************************************************************************)
EXTENDS ClusterSnapshot, TLAPS

\* A pod that waits for the scheduler was never started, one that runs was.
Started(p) ==
  /\ p.runs \in Nat
  /\ p.sit = "unscheduled" => p.runs = 0
  /\ p.sit \in Running => p.runs > 0

IsPod(p) == p = [uid |-> p.uid, sit |-> p.sit, runs |-> p.runs, image |-> p.image]
IsSnapshot(s) == s = [pods |-> s.pods, events |-> s.events, owners |-> s.owners]

\* A report is what the rules find in the lists with some logs, the containers
\* to read are selected from the same lists, and at the end they were read
\* unless no rule had asked for it.
SnapshotInv ==
  /\ owner.kind \in Kinds /\ owner.desired \in Nat
  /\ IsPod(pod) /\ IsSnapshot(seen)
  /\ Started(pod) /\ Started(seen.pods)
  /\ \A e \in events \cup seen.events : e.container = NoContainer
  /\ "owners" \in listed => seen.owners.kind \in Kinds /\ seen.owners.desired \in Nat
  /\ step \in {"reading", "done"} =>
       /\ listed = Lists
       /\ candidates = Selected
       /\ latest \in Newest(at)
       /\ \E logs : findings = Found(at, logs, latest)
  /\ step = "done" =>
       \/ candidates = {}
       \/ candidates = {Candidate(l.container, l.previous) : l \in entries}
       \/ \A f \in findings : f.rule \notin Asking

LEMMA InitSnapshot == Init => SnapshotInv
<1> SUFFICES ASSUME Init
             PROVE  SnapshotInv
  OBVIOUS
<1>1. PICK o \in Owners, p \in InitialPods :
        pod = p /\ owner \in Observed(o.kind, o.desired, p)
  BY DEF Init
<1>2. owner.kind = o.kind /\ owner.desired = o.desired
  BY <1>1 DEF Observed
<1>3. IsPod(pod) /\ Started(pod)
  BY <1>1 DEF InitialPods, Started, Running, IsPod
<1>4. seen.pods = NoPod /\ seen.events = {} /\ listed = {} /\ step = "listing"
  BY DEF Init
<1>5. \A e \in events : e.container = NoContainer
  BY DEF Init, InitialEvents
<1>6. IsSnapshot(seen)
  BY DEF Init, IsSnapshot
<1> QED
  BY <1>2, <1>3, <1>4, <1>5, <1>6, OwnersAssumption DEF SnapshotInv, Started, Running, NoPod

\* Steps of the cluster leave what the command has alone.
LEMMA ClusterSnapshotInv == SnapshotInv /\ ClusterStep => SnapshotInv'
<1> SUFFICES ASSUME SnapshotInv, ClusterStep
             PROVE  SnapshotInv'
  OBVIOUS
<1>1. UNCHANGED command
  BY DEF ClusterStep, Change, Delete, Recreate, Becomes, Warn, Tick, Sync
<1>2. owner'.kind = owner.kind /\ owner'.desired = owner.desired
  <2>1. CASE Sync
    BY <2>1 DEF Sync, Observed
  <2>2. CASE UNCHANGED owner
    BY <2>2
  <2> QED BY <2>1, <2>2 DEF ClusterStep, Change, Delete, Recreate, Becomes, Warn, Tick
<1>3. IsPod(pod') /\ Started(pod')
  <2>0. IsPod(pod) /\ Started(pod)
    BY DEF SnapshotInv
  <2>1. CASE Change
    <3>1. PICK s \in Follows(owner.kind, pod.sit), n \in {0, 1}, image \in ImageNames \cup {pod.image} :
            /\ n = IF s = "unready" /\ pod.sit # "serving" THEN 1 ELSE 0
            /\ pod' = [pod EXCEPT !.sit = s, !.runs = @ + n, !.image = image]
      BY <2>1 DEF Change, Becomes
    <3>2. pod' = [uid |-> pod.uid, sit |-> s, runs |-> pod.runs + n, image |-> image]
      BY <2>0, <3>1 DEF IsPod
    <3>3. pod'.sit = s /\ pod'.runs = pod.runs + n /\ IsPod(pod')
      BY <3>2 DEF IsPod
    <3>4. s # "unscheduled" /\ (s = "serving" => pod.sit = "unready")
      BY <3>1 DEF Follows
    <3>5. pod.runs \in Nat /\ (pod.sit \in Running => pod.runs > 0)
      BY <2>0 DEF Started
    <3>6. pod'.runs \in Nat /\ (s \in Running => pod'.runs > 0)
      BY <3>1, <3>3, <3>4, <3>5 DEF Running
    <3> QED BY <3>3, <3>4, <3>6 DEF Started
  <2>2. CASE Delete
    BY <2>0, <2>2 DEF Delete, Becomes, Started, Running, IsPod
  <2>3. CASE Recreate
    BY <2>0, <2>3 DEF Recreate, Becomes, Started, Running, IsPod
  <2>4. CASE UNCHANGED pod
    BY <2>0, <2>4
  <2> QED BY <2>1, <2>2, <2>3, <2>4 DEF ClusterStep, Warn, Tick, Sync
<1>4. /\ (candidates = Selected)' <=> candidates = Selected
      /\ (latest \in Newest(at))' <=> latest \in Newest(at)
  BY <1>1 DEF command, Selected, Newest
<1>5. (\E logs : findings = Found(at, logs, latest))' <=> \E logs : findings = Found(at, logs, latest)
  BY <1>1 DEF command, Found, OfPod, OfOwner
<1>6. \A e \in events' : e.container = NoContainer
  <2>1. CASE Warn
    BY <2>1 DEF Warn, SnapshotInv
  <2>2. CASE UNCHANGED events
    BY <2>2 DEF SnapshotInv
  <2> QED BY <2>1, <2>2 DEF ClusterStep, Change, Delete, Recreate, Becomes, Tick, Sync
<1> QED
  BY <1>1, <1>2, <1>3, <1>4, <1>5, <1>6 DEF SnapshotInv, command

LEMMA CommandSnapshotInv == SnapshotInv /\ CommandStep => SnapshotInv'
<1> SUFFICES ASSUME SnapshotInv, CommandStep
             PROVE  SnapshotInv'
  OBVIOUS
<1> USE DEF SnapshotInv
<1>1. CASE ListPods
  BY <1>1 DEF ListPods, Listing, cluster, IsSnapshot
<1>2. CASE ListEvents
  BY <1>2 DEF ListEvents, Listing, cluster, IsSnapshot
<1>3. CASE ListOwners
  BY <1>3 DEF ListOwners, Listing, cluster, IsSnapshot
<1>4. CASE FirstDiagnosis
  <2>1. findings' = Found(at, {}, latest)'
    BY <1>4 DEF FirstDiagnosis, Found, OfPod, OfOwner
  <2>2. (candidates = Selected)' /\ (latest \in Newest(at))'
    BY <1>4 DEF FirstDiagnosis, Selected, Newest
  <2>3. listed' = Lists
    BY <1>4 DEF FirstDiagnosis
  <2>4. step' = "done" => candidates' = {} \/ \A f \in findings' : f.rule \notin Asking
    BY <1>4 DEF FirstDiagnosis
  <2>5. Asking' = Asking
    BY DEF Asking
  <2> QED BY <1>4, <2>1, <2>2, <2>3, <2>4, <2>5, Zenon DEF FirstDiagnosis, cluster
<1>5. ASSUME NEW c \in candidates, ReadLog(c)
      PROVE  SnapshotInv'
  <2>1. /\ UNCHANGED <<target, step, listed, seen, at, latest, findings, candidates>>
        /\ UNCHANGED <<pod, owner, events>> /\ step # "done"
    BY <1>5 DEF ReadLog, cluster
  <2>2. /\ (candidates = Selected)' <=> candidates = Selected
        /\ (latest \in Newest(at))' <=> latest \in Newest(at)
    BY <2>1 DEF Selected, Newest
  <2>3. (\E logs : findings = Found(at, logs, latest))' <=> \E logs : findings = Found(at, logs, latest)
    BY <2>1 DEF Found, OfPod, OfOwner
  <2> QED BY <2>1, <2>2, <2>3
<1>6. CASE SecondDiagnosis
  <2>1. findings' = Found(at, entries, latest)'
    BY <1>6 DEF SecondDiagnosis, Found, OfPod, OfOwner
  <2>2. /\ (candidates = Selected)' <=> candidates = Selected
        /\ (latest \in Newest(at))' <=> latest \in Newest(at)
    BY <1>6 DEF SecondDiagnosis, Selected, Newest
  <2>3. (candidates = {Candidate(l.container, l.previous) : l \in entries})'
    BY <1>6 DEF SecondDiagnosis
  <2> QED BY <1>6, <2>1, <2>2, <2>3 DEF SecondDiagnosis, cluster
<1>7. CASE TargetMissing
  BY <1>7 DEF TargetMissing, cluster
<1> QED
  BY <1>1, <1>2, <1>3, <1>4, <1>5, <1>6, <1>7 DEF CommandStep

LEMMA SnapshotInvariant == Spec => []SnapshotInv
<1>1. SnapshotInv /\ UNCHANGED vars => SnapshotInv'
  <2> SUFFICES ASSUME SnapshotInv, UNCHANGED vars
               PROVE  SnapshotInv'
    OBVIOUS
  <2>1. UNCHANGED <<cluster, command>>
    BY DEF vars
  <2>2. /\ (candidates = Selected)' <=> candidates = Selected
        /\ (latest \in Newest(at))' <=> latest \in Newest(at)
    BY <2>1 DEF command, Selected, Newest
  <2>3. (\E logs : findings = Found(at, logs, latest))' <=> \E logs : findings = Found(at, logs, latest)
    BY <2>1 DEF command, Found, OfPod, OfOwner
  <2> QED BY <2>1, <2>2, <2>3 DEF SnapshotInv, cluster, command
<1> QED
  BY <1>1, InitSnapshot, ClusterSnapshotInv, CommandSnapshotInv, PTL DEF Spec, Next

-----------------------------------------------------------------------------
(* Rules and selection.                                                    *)

Symptoms == {"pod/crashloop", "pod/probe-failure"}

LEMMA OwnerRulesApart ==
  ASSUME NEW o, o.kind \in Kinds
  PROVE  OwnerFindings(o) \cap Symptoms = {}
  BY DEF Kinds, Symptoms, OwnerFindings, DeploymentFindings, StatefulSetFindings,
         ReplicaSetFindings, DaemonSetFindings, JobFindings

\* The log of a container that crashes is a candidate.
LEMMA CrashesSelected ==
  ASSUME NEW p, p.regular \subseteq Containers(p), NEW es, NEW c \in CrashLoop(p)
  PROVE  \E k \in podContainerCandidates(p, es) : k.container = c
<1>1. Candidate(c, TRUE) \in CrashCandidates(p)
  BY DEF CrashLoop, CrashCandidates
<1>2. Candidate(c, TRUE).container = c
  BY DEF Candidate
<1> QED
  BY <1>1, <1>2 DEF podContainerCandidates

\* So is that of one whose probe fails: the events of the rule are among those
\* of the selection.
LEMMA UnhealthySelected ==
  ASSUME NEW p, NEW es, NEW time, NEW e \in ProbeEvents(p, WarningEvents(es, p.uid, time)),
         NEW c \in NotReady(p)
  PROVE  \E k \in podContainerCandidates(p, es) : k.container = c
<1>1. e \in WarningEvents(es, p.uid, time) /\ p.phase = "Running" /\ e.reason = "Unhealthy"
  BY DEF ProbeEvents, WithReason
<1>2. e \in For(es, p.uid)
  BY <1>1 DEF WarningEvents
<1>3. Candidate(c, FALSE) \in ProbeCandidates(p, For(es, p.uid))
  BY <1>1, <1>2 DEF ProbeCandidates
<1>4. Candidate(c, FALSE).container = c
  BY DEF Candidate
<1> QED
  BY <1>3, <1>4 DEF podContainerCandidates

LEMMA SymptomsSelected ==
  ASSUME NEW p, p.regular \subseteq Containers(p), NEW es, NEW time, NEW logs,
         NEW f \in PodFindings(p, es, time, logs), f.rule \in Symptoms, NEW c \in f.containers
  PROVE  \E k \in podContainerCandidates(p, es) : k.container = c
<1> DEFINE unhealthy == ProbeEvents(p, WarningEvents(es, p.uid, time))
<1>1. c \in CrashLoop(p) \/ (unhealthy # {} /\ c \in NotReady(p))
  BY DEF PodFindings, Finding, OfEvents, ProbeFailure, Symptoms
<1>2. CASE c \in CrashLoop(p)
  BY <1>2, CrashesSelected
<1>3. CASE unhealthy # {} /\ c \in NotReady(p)
  <2>1. PICK e : e \in unhealthy
    BY <1>3
  <2> QED BY <1>3, <2>1, UnhealthySelected
<1> QED
  BY <1>1, <1>2, <1>3

\* A finding is made on the pod or on its owner.
LEMMA FoundSomewhere ==
  ASSUME NEW logs, NEW f \in Found(at, logs, latest)
  PROVE  f \in OfPod(at, logs, latest) \/ f \in OfOwner
  BY DEF Found

\* Whoever is reported to crash or to fail its probes had its log read
\* (podContainerCandidates against crashloop.go and probes.go).
THEOREM AccusedAreRead == Spec => []SymptomsGetLogs
<1>1. SnapshotInv => SymptomsGetLogs
  <2> SUFFICES ASSUME SnapshotInv, step = "done", NEW f \in findings, f.rule \in Symptoms,
                      NEW c \in f.containers
               PROVE  \E l \in entries : l.container = c
    BY DEF SymptomsGetLogs, Symptoms
  <2> DEFINE p == Listed(seen.pods)
  <2>1. PICK logs : findings = Found(at, logs, latest)
    BY DEF SnapshotInv
  <2>2. candidates = Selected /\ seen.owners.kind \in Kinds
    BY DEF SnapshotInv, Lists
  <2>3. f \notin OfOwner
    <3>1. ASSUME NEW rule \in OwnerFindings(seen.owners), f = Finding(rule, {}, {}, {})
          PROVE  FALSE
      <4>1. f.rule = rule
        BY <3>1 DEF Finding
      <4> QED BY <2>2, <3>1, <4>1, OwnerRulesApart
    <3> QED BY <3>1 DEF OfOwner
  <2>4. seen.pods.sit # "gone" /\ f \in PodFindings(p, seen.events, at, logs)
    BY <2>1, <2>3, FoundSomewhere DEF OfPod, Unsuppressed
  <2>5. candidates = podContainerCandidates(p, seen.events)
    BY <2>2, <2>4 DEF Selected
  <2>6. p.regular \subseteq Containers(p)
    BY DEF Listed, Containers
  <2> HIDE DEF p
  <2>7. PICK k \in candidates : k.container = c
    BY <2>4, <2>5, <2>6, SymptomsSelected
  <2>8. candidates = {Candidate(l.container, l.previous) : l \in entries}
    BY <2>7 DEF SnapshotInv, Symptoms, Asking
  <2>9. PICK l \in entries : k = Candidate(l.container, l.previous)
    BY <2>7, <2>8
  <2> QED BY <2>7, <2>9 DEF Candidate
<1> QED
  BY <1>1, SnapshotInvariant, PTL

-----------------------------------------------------------------------------
(* Warnings.                                                               *)

\* What the listed pod shows of a situation it gets warnings in.
LEMMA ListedShows ==
  ASSUME NEW q, Started(q)
  PROVE  LET p == Listed(q)
         IN  /\ p.uid = q.uid
             /\ q.sit = "unscheduled" => p.phase = "Pending"
             /\ q.sit = "unready" => p.phase = "Running" /\ "app" \in NotReady(p)
             /\ q.sit = "pull failing" => "app" \in ImagePull(p) /\ p.status["app"].image = q.image
<1> DEFINE p == Listed(q)
<1>1. p.uid = q.uid
  BY DEF Listed
<1>2. q.sit = "unscheduled" => p.phase = "Pending"
  BY DEF Listed, Started
<1>3. CASE q.sit = "unready"
  <2>1. q.runs > 0 /\ q.runs # 0
    BY <1>3 DEF Started, Running
  <2>2. p.phase = "Running" /\ "app" \in p.regular
    BY <1>3, <2>1 DEF Listed
  <2>3. p.status["app"] = AppStatus(q)
    BY <1>3 DEF Listed
  <2>4. AppStatus(q) = Status("no", "no", TRUE, FALSE, Restarts(q), q.image)
    BY <1>3 DEF AppStatus, WaitingFor, Running, Ended
  <2> QED BY <1>1, <1>3, <2>2, <2>3, <2>4 DEF NotReady, Status
<1>4. CASE q.sit = "pull failing"
  <2>1. "app" \in p.regular
    BY <1>4 DEF Listed
  <2>2. p.status["app"] = AppStatus(q)
    BY <1>4 DEF Listed
  <2>3. AppStatus(q) = Status("ImagePullBackOff", "no", FALSE, FALSE, Restarts(q), q.image)
    BY <1>4 DEF AppStatus, WaitingFor, Running, Ended
  <2>4. Waiting(p, "app") = "ImagePullBackOff"
    BY <2>2, <2>3 DEF Status, Waiting
  <2>5. "app" \in ImagePull(p)
    BY <2>1, <2>4 DEF ImagePull, PullReasons
  <2>6. p.status["app"].image = q.image
    BY <2>2, <2>3 DEF Status
  <2> QED BY <1>1, <1>4, <2>5, <2>6
<1> QED
  BY <1>1, <1>2, <1>3, <1>4

\* What a warning of a situation is about.
LEMMA CategoryOfWarning ==
  ASSUME NEW sit, NEW e, e.reason \in WarnsOf(sit),
         Message(e.says, e.image) \in Messages(sit, e.reason)
  PROVE  Category(e) = CASE e.reason = "FailedScheduling" -> "scheduling"
                         [] e.reason = "FailedMount" -> "mount"
                         [] e.reason = "Unhealthy" -> "probe"
                         [] e.reason = "Failed" /\ sit = "pull failing" -> "image-pull"
                         [] OTHER -> "generic"
<1>1. \A says, image : Message(says, image).says = says
  BY DEF Message
<1>2. CASE e.reason = "Unhealthy"
  <2>1. e.says = {"probe"}
    BY <1>1, <1>2 DEF Messages
  <2> QED BY <1>2, <2>1 DEF WarnsOf, Category, isImagePullEvent, isProbeEvent, isMountEvent
<1>3. CASE e.reason = "FailedMount"
  <2>1. e.says = {"mountvolume"}
    BY <1>1, <1>3 DEF Messages
  <2> QED BY <1>3, <2>1 DEF WarnsOf, Category, isImagePullEvent, isProbeEvent, isMountEvent
<1>4. CASE e.reason = "Failed" /\ sit = "pull failing"
  <2>1. Messages(sit, e.reason) = {Message({"pull image"}, Image), Message({"errimagepull"}, NoImage)}
    BY <1>4 DEF Messages
  <2>2. e.says = {"pull image"} \/ e.says = {"errimagepull"}
    <3>1. CASE Message(e.says, e.image) = Message({"pull image"}, Image)
      BY <3>1 DEF Message
    <3>2. CASE Message(e.says, e.image) = Message({"errimagepull"}, NoImage)
      BY <3>2 DEF Message
    <3> QED BY <2>1, <3>1, <3>2
  <2> QED BY <1>4, <2>2 DEF WarnsOf, Category, isImagePullEvent, isProbeEvent, isMountEvent
<1>5. CASE e.reason \notin {"Unhealthy", "FailedMount"} /\ ~(e.reason = "Failed" /\ sit = "pull failing")
  <2>1. Messages(sit, e.reason) \subseteq {Message({}, Image), Message({}, NoImage)}
    BY <1>5 DEF Messages
  <2>2. e.says = {}
    BY <1>1, <2>1
  <2> QED BY <1>5, <2>2 DEF WarnsOf, Category, isImagePullEvent, isProbeEvent, isMountEvent
<1> QED
  BY <1>2, <1>3, <1>4, <1>5

\* The rule for a warning takes it for evidence, unless the warning calls the
\* image something else.
LEMMA WarningIsEvidence ==
  ASSUME NEW q, Started(q), NEW events0, NEW time, NEW logs,
         NEW e \in WarningEvents(events0, q.uid, time), e.container = NoContainer,
         e.reason \in WarnsOf(q.sit), Message(e.says, e.image) \in Messages(q.sit, e.reason),
         RuleFor(q.sit, e.reason) # "none"
  PROVE  \E f \in PodFindings(Listed(q), events0, time, logs) :
           /\ f.rule = RuleFor(q.sit, e.reason)
           /\ e \in f.events \/ e.image \notin {NoImage, q.image}
<1> DEFINE p == Listed(q)
           es == WarningEvents(events0, p.uid, time)
<1>1. e \in es
  BY ListedShows
<1>2. ASSUME NEW rule, NEW matching, e \in matching,
             OfEvents(rule, matching) \subseteq PodFindings(p, events0, time, logs)
      PROVE  \E f \in PodFindings(p, events0, time, logs) : f.rule = rule /\ e \in f.events
  <2>1. Finding(rule, {}, matching, {}) \in PodFindings(p, events0, time, logs)
    BY <1>2 DEF OfEvents
  <2> QED BY <1>2, <2>1 DEF Finding
<1>3. CASE e.reason = "FailedScheduling"
  <2>1. q.sit = "unscheduled"
    BY <1>3 DEF WarnsOf
  <2>2. e \in PendingEvents(p, es)
    BY <1>1, <1>3, <2>1, ListedShows DEF PendingEvents, WithReason
  <2>3. OfEvents("pod/pending", PendingEvents(p, es)) \subseteq PodFindings(p, events0, time, logs)
    BY DEF PodFindings
  <2> QED BY <1>2, <1>3, <2>2, <2>3 DEF RuleFor
<1>4. CASE e.reason = "FailedMount"
  <2>1. e \in MountEvents(es)
    BY <1>1, <1>4, CategoryOfWarning DEF MountEvents, WithReason
  <2>2. OfEvents("pod/mount-failure", MountEvents(es)) \subseteq PodFindings(p, events0, time, logs)
    BY DEF PodFindings
  <2> QED BY <1>2, <1>4, <2>1, <2>2 DEF RuleFor
<1>5. CASE e.reason = "Unhealthy"
  <2>1. p.phase = "Running" /\ "app" \in NotReady(p)
    <3>1. q.sit = "unready"
      BY <1>5 DEF WarnsOf
    <3> QED BY <3>1, ListedShows
  <2>2. MatchProbeEvent(e, "app")
    BY <1>5, CategoryOfWarning DEF MatchProbeEvent, NamesNoOther, Names
  <2>3. e \in ProbeEvents(p, es)
    BY <1>1, <1>5, <2>1, <2>2 DEF ProbeEvents, WithReason
  <2>4. ProbeFailure(p, ProbeEvents(p, es), logs) \subseteq PodFindings(p, events0, time, logs)
    BY DEF PodFindings
  <2>5. PICK f \in ProbeFailure(p, ProbeEvents(p, es), logs) :
          f.rule = "pod/probe-failure" /\ f.events = ProbeEvents(p, es)
    BY <2>3 DEF ProbeFailure, Finding
  <2> QED BY <1>5, <2>3, <2>4, <2>5 DEF RuleFor
<1>6. CASE e.reason = "Failed" /\ q.sit = "pull failing"
  <2>1. "app" \in ImagePull(p)
    BY <1>6, ListedShows
  <2>2. ASSUME e.image \in {NoImage, q.image}
        PROVE  MatchImagePullEvent(e, "app", p.status["app"].image)
    <3>1. ImagesAgree(e, p.status["app"].image)
      BY <1>6, <2>2, ListedShows DEF ImagesAgree
    <3> QED BY <1>6, <3>1, CategoryOfWarning DEF MatchImagePullEvent, NamesNoOther, Names
  <2>3. e.image \in {NoImage, q.image} => e \in ImagePullEvents(p, "app", es)
    BY <1>1, <1>6, <2>2 DEF ImagePullEvents, WithReason
  <2>4. Finding("pod/image-pull", {"app"}, ImagePullEvents(p, "app", es), {})
          \in PodFindings(p, events0, time, logs)
    BY <2>1 DEF PodFindings
  <2> QED BY <1>6, <2>3, <2>4 DEF RuleFor, Finding
<1> QED
  BY <1>3, <1>4, <1>5, <1>6 DEF RuleFor

\* Suppression leaves something of what it finds: specific findings stay.
LEMMA SomethingStays ==
  ASSUME NEW all, NEW g \in all, NEW e
  PROVE  Unsuppressed(all, e) # {}
<1>1. CASE ~Redundant(g, all, e)
  BY <1>1 DEF Unsuppressed
<1>2. CASE Redundant(g, all, e)
  <2>1. PICK h \in all : h.rule \notin {"builtin/warning-events", "builtin/log-signal"}
    BY <1>2 DEF Redundant
  <2>2. ~Redundant(h, all, e)
    BY <2>1 DEF Redundant
  <2> QED BY <2>1, <2>2 DEF Unsuppressed
<1> QED
  BY <1>1, <1>2

\* What the listed pod was warned of is reported by the rule for it, and a pod
\* with a recent warning has findings (LatestWarningEvent, MatchImagePullEvent,
\* pod/*.go, suppressRedundantBuiltinFindings).
THEOREM WarnedIsReported == Spec => []PersistentFailureReported
<1>1. SnapshotInv => PersistentFailureReported
  <2> DEFINE q == seen.pods
             p == Listed(q)
  <2> SUFFICES ASSUME SnapshotInv, PodReached
               PROVE  /\ \A e \in seen.events :
                           (/\ e.uid = q.uid
                            /\ e.time = Unstamped \/ at - e.time <= EventWindow
                            /\ e.reason \in WarnsOf(q.sit)
                            /\ Message(e.says, e.image) \in Messages(q.sit, e.reason)
                            /\ RuleFor(q.sit, e.reason) # "none")
                           => \E f \in findings : Answers(f, e)
                      /\ latest # NoEvent => findings # {}
    BY DEF PersistentFailureReported
  <2>1. PICK logs : findings = Found(at, logs, latest)
    BY DEF SnapshotInv, PodReached
  <2>2. OfPod(at, logs, latest) = Unsuppressed(PodFindings(p, seen.events, at, logs), latest)
    BY DEF OfPod, PodReached
  <2>3. OfPod(at, logs, latest) \subseteq findings
    BY <2>1 DEF Found, PodReached
  <2>4. p.uid = q.uid
    BY DEF Listed
  <2>5. ASSUME NEW e \in seen.events,
               e.uid = q.uid,
               e.time = Unstamped \/ at - e.time <= EventWindow,
               e.reason \in WarnsOf(q.sit),
               Message(e.says, e.image) \in Messages(q.sit, e.reason),
               RuleFor(q.sit, e.reason) # "none"
        PROVE  \E f \in findings : Answers(f, e)
    <3>1. e \in WarningEvents(seen.events, q.uid, at)
      BY <2>5 DEF WarningEvents, For, WithinEventWindow
    <3>2. Started(q) /\ e.container = NoContainer
      BY DEF SnapshotInv
    <3>3. PICK f \in PodFindings(p, seen.events, at, logs) :
            /\ f.rule = RuleFor(q.sit, e.reason)
            /\ e \in f.events \/ e.image \notin {NoImage, q.image}
      BY <2>5, <3>1, <3>2, WarningIsEvidence
    <3>4. f.rule \notin {"builtin/warning-events", "builtin/log-signal"}
      BY <2>5, <3>3 DEF RuleFor
    <3>5. f \in OfPod(at, logs, latest)
      BY <2>2, <3>3, <3>4 DEF Unsuppressed, Redundant
    <3> QED BY <2>3, <3>3, <3>5 DEF Answers
  <2>6. ASSUME latest # NoEvent
        PROVE  findings # {}
    <3> DEFINE es == WarningEvents(seen.events, p.uid, at)
    <3>1. es # {}
      BY <2>4, <2>6 DEF SnapshotInv, PodReached, Newest
    <3>2. Finding("builtin/warning-events", {}, es, {}) \in PodFindings(p, seen.events, at, logs)
      BY <3>1 DEF PodFindings, OfEvents
    <3> QED BY <2>2, <2>3, <3>2, SomethingStays
  <2> QED BY <2>5, <2>6
<1> QED
  BY <1>1, SnapshotInvariant, PTL

-----------------------------------------------------------------------------
(* Owners.                                                                 *)

\* The status written for a pod that does not serve.
LEMMA NobodyServes ==
  ASSUME NEW kind, NEW desired, NEW p, p.sit # "serving",
         NEW o \in Observed(kind, desired, p)
  PROVE  o.ready = 0 /\ o.available = 0 /\ o.replicas \in {0, 1}
  BY DEF Observed

LEMMA ShortAccused ==
  ASSUME NEW o, o.kind \in Kinds, o.desired \in Nat \ {0}, o.ready = 0, o.available = 0,
         o.kind = "Job" => "Failed" \in o.conditions
  PROVE  OwnerFindings(o) # {}
<1>1. Short(o, o.ready) /\ Short(o, o.available)
  BY DEF Short
<1> QED
  BY <1>1 DEF Kinds, OwnerFindings, DeploymentFindings, StatefulSetFindings,
       ReplicaSetFindings, DaemonSetFindings, JobFindings

LEMMA ShortNotReady ==
  ASSUME NEW o, o.kind \in Kinds, o.desired \in Nat \ {0}, o.ready = 0, o.available = 0,
         o.replicas \in {0, 1}, ~(o.kind = "ReplicaSet" /\ o.replicas = 0),
         o.kind = "Job" => "Failed" \in o.conditions
  PROVE  OwnerStatus(o) \notin {"Ready", "Healthy"}
  BY DEF Kinds, OwnerStatus, deploymentStatus, replicaSetStatus, statefulSetStatus,
         daemonSetStatus, jobStatus

\* A pod that is not serving has a container that is not ready, or is not
\* running yet.
LEMMA PodNotReady ==
  ASSUME NEW p, Started(p), p.sit # "serving"
  PROVE  podStatus(Listed(p)) # "Ready"
<1> DEFINE l == Listed(p)
<1>1. l.phase \in {"Pending", "Running", "Failed"}
  BY DEF Listed
<1>2. ASSUME l.phase = "Running"
      PROVE  ~\A c \in l.regular : l.status[c].running /\ l.status[c].ready
  <2>1. p.sit # "unscheduled"
    BY <1>2 DEF Listed, Started
  <2>2. "app" \in l.regular
    BY <2>1 DEF Listed
  <2>3. ~l.status["app"].ready
    BY <2>1 DEF Listed, AppStatus, Status, Running, Ended, WaitingFor
  <2> QED BY <2>2, <2>3
<1> HIDE DEF l
<1>3. podStatus(l) # "Ready"
  BY <1>1, <1>2 DEF podStatus
<1> QED
  BY <1>3 DEF l

\* Whoever lacked a serving pod throughout the fetch is accused, and is not
\* shown as Ready (the rules on workloads, status.go).
THEOREM ShortAreAccused == Spec => []ShortageReported
<1>1. SnapshotInv => ShortageReported
  <2> DEFINE o == seen.owners
             p == seen.pods
  <2> SUFFICES ASSUME SnapshotInv, Unmoved, OwnerSynced, o.desired > 0,
                      o.kind = "Job" => "Failed" \in o.conditions, p.sit # "serving"
               PROVE  /\ findings # {}
                      /\ target = "owner" => \E rule \in OwnerFindings(o) : Reported(rule)
                      /\ ~(o.kind = "ReplicaSet" /\ o.replicas = 0)
                           => OwnerStatus(o) \notin {"Ready", "Healthy"}
                      /\ podStatus(Listed(p)) # "Ready"
    BY DEF ShortageReported
  <2>1. o.kind \in Kinds /\ o.desired \in Nat \ {0}
    BY DEF SnapshotInv, Unmoved, Lists
  <2>2. o.ready = 0 /\ o.available = 0 /\ o.replicas \in {0, 1}
    BY NobodyServes DEF OwnerSynced
  <2>3. PICK rule : rule \in OwnerFindings(o)
    BY <2>1, <2>2, ShortAccused
  <2> DEFINE g == Finding(rule, {}, {}, {})
  <2>4. findings # {} /\ (target = "owner" => Reported(rule))
    <3>1. PICK logs : findings = Found(at, logs, latest)
      BY DEF SnapshotInv, Unmoved
    <3>2. g \in OfOwner
      BY <2>3 DEF OfOwner
    <3>3. findings # {} /\ (target = "owner" => g \in findings)
      BY <3>1, <3>2 DEF Found
    <3>4. g.rule = rule
      BY DEF Finding
    <3> HIDE DEF g
    <3> QED BY <3>3, <3>4 DEF Reported
  <2>5. ~(o.kind = "ReplicaSet" /\ o.replicas = 0)
          => OwnerStatus(o) \notin {"Ready", "Healthy"}
    BY <2>1, <2>2, ShortNotReady
  <2>6. podStatus(Listed(p)) # "Ready"
    BY PodNotReady DEF SnapshotInv
  <2> QED BY <2>3, <2>4, <2>5, <2>6
<1> QED
  BY <1>1, SnapshotInvariant, PTL

-----------------------------------------------------------------------------
(* The history of the pod. What was listed is an earlier state of the pod, *)
(* and time has passed for its warnings since it began to serve.           *)

TypeInv ==
  /\ now \in 0..MaxTime /\ since \in 0..now /\ at \in 0..now
  /\ pod.uid \in 1..MaxUid /\ pod.runs \in 0..MaxRuns /\ changes \in 0..MaxChanges
  /\ still \in BOOLEAN
  /\ target \in {"pod", "owner"}
  /\ step \in {"listing", "reading", "done", "failed"}
  /\ listed \subseteq Lists

LEMMA TypeInvInit == Init => TypeInv
  BY BoundsAssumption DEF Init, TypeInv, InitialPods

\* A pod becomes another one, not earlier than now.
LEMMA BecomesTypes ==
  ASSUME TypeInv, NEW p, Becomes(p), p.uid \in 1..MaxUid, p.runs \in 0..MaxRuns
  PROVE  TypeInv'
  BY BoundsAssumption DEF TypeInv, Becomes, command

LEMMA TypeInvCluster == TypeInv /\ SnapshotInv /\ ClusterStep => TypeInv'
<1> SUFFICES ASSUME TypeInv, SnapshotInv, ClusterStep
             PROVE  TypeInv'
  OBVIOUS
<1>0. IsPod(pod)
  BY DEF SnapshotInv
<1>1. CASE Change
  <2>1. PICK s \in Follows(owner.kind, pod.sit), n \in {0, 1}, image \in ImageNames \cup {pod.image} :
          /\ pod.runs + n <= MaxRuns
          /\ Becomes([pod EXCEPT !.sit = s, !.runs = @ + n, !.image = image])
    BY <1>1 DEF Change
  <2> DEFINE p == [pod EXCEPT !.sit = s, !.runs = @ + n, !.image = image]
  <2>2. p.uid = pod.uid /\ p.runs = pod.runs + n
    BY <1>0 DEF IsPod
  <2>3. p.uid \in 1..MaxUid /\ p.runs \in 0..MaxRuns
    BY <2>1, <2>2, BoundsAssumption DEF TypeInv
  <2> HIDE DEF p
  <2> QED BY <2>1, <2>3, BecomesTypes DEF p
<1>2. CASE Delete
  <2> DEFINE p == [pod EXCEPT !.sit = "gone"]
  <2>1. p.uid \in 1..MaxUid /\ p.runs \in 0..MaxRuns
    BY <1>0 DEF IsPod, TypeInv
  <2>2. Becomes(p)
    BY <1>2 DEF Delete
  <2> HIDE DEF p
  <2> QED BY <2>1, <2>2, BecomesTypes
<1>3. CASE Recreate
  <2>1. Becomes([uid |-> pod.uid + 1, sit |-> "unscheduled", runs |-> 0, image |-> Image])
    BY <1>3 DEF Recreate
  <2>2. pod.uid + 1 \in 1..MaxUid /\ 0 \in 0..MaxRuns
    BY <1>3, BoundsAssumption DEF Recreate, TypeInv
  <2> QED BY <2>1, <2>2, BecomesTypes
<1>4. CASE Tick
  BY <1>4, BoundsAssumption DEF Tick, TypeInv, command
<1>5. CASE Warn \/ Sync
  BY <1>5 DEF Warn, Sync, TypeInv, command
<1> QED
  BY <1>1, <1>2, <1>3, <1>4, <1>5 DEF ClusterStep

LEMMA TypeInvCommand == TypeInv /\ CommandStep => TypeInv'
<1> SUFFICES ASSUME TypeInv, CommandStep
             PROVE  TypeInv'
  OBVIOUS
<1> USE DEF TypeInv
<1>1. CASE ListPods \/ ListEvents \/ ListOwners
  BY <1>1 DEF ListPods, ListEvents, ListOwners, Listing, cluster, Lists
<1>2. CASE TargetMissing
  BY <1>2 DEF TargetMissing, cluster
<1>3. CASE FirstDiagnosis
  BY <1>3 DEF FirstDiagnosis, cluster
<1>4. ASSUME NEW c \in candidates, ReadLog(c)
      PROVE  TypeInv'
  BY <1>4 DEF ReadLog, cluster
<1>5. CASE SecondDiagnosis
  BY <1>5 DEF SecondDiagnosis, cluster
<1> QED
  BY <1>1, <1>2, <1>3, <1>4, <1>5 DEF CommandStep

\* How the pod p may go on from what was listed of it: it keeps its UID or gets
\* a greater one, and one that was waiting in a crash loop is started again
\* before it runs.
Later(p, listedPod) ==
  /\ listedPod.uid \in Nat /\ listedPod.runs \in Nat
  /\ listedPod.uid <= p.uid
  /\ p.uid = listedPod.uid =>
       /\ p.runs >= listedPod.runs
       /\ (listedPod.sit = "crashing" /\ p.sit \in Running \cup Ended)
            => p.runs > listedPod.runs

PodHistory ==
  /\ \A e \in events \cup seen.events : e.time = Unstamped \/ e.time \in 0..now
  /\ pod.sit = "serving" => \A e \in events : e.time <= since
  /\ "pods" \in listed => Later(pod, seen.pods)
  /\ still /\ "pods" \in listed => seen.pods = pod
  /\ still /\ "events" \in listed /\ pod.sit = "serving" => \A e \in seen.events : e.time <= since

LEMMA PodHistoryInit == Init => PodHistory
<1> SUFFICES ASSUME Init
             PROVE  PodHistory
  OBVIOUS
<1>1. /\ events = InitialEvents(pod) /\ seen.events = {}
      /\ now = 0 /\ since = 0 /\ listed = {}
  BY DEF Init
<1>2. \A e \in events : e.time = 0
  BY <1>1 DEF InitialEvents
<1> QED
  BY <1>1, <1>2 DEF PodHistory

\* A pod that has changed since it was listed is not taken for what was listed.
LEMMA BecomesLater ==
  ASSUME TypeInv, PodHistory, NEW p, Becomes(p),
         "pods" \in listed => Later(p, seen.pods)
  PROVE  PodHistory'
<1>1. /\ pod' = p /\ UNCHANGED <<now, events, listed, seen>>
      /\ since' = IF p.sit = "serving" THEN now ELSE 0
      /\ still' = (listed = {})
  BY DEF Becomes, command
<1>2. p.sit = "serving" => \A e \in events' : e.time <= since'
  BY <1>1 DEF PodHistory, TypeInv, Unstamped
<1> QED
  BY <1>1, <1>2 DEF PodHistory

\* Only a start makes a pod run that waited.
LEMMA ChangeIsLater ==
  ASSUME TypeInv, SnapshotInv, "pods" \in listed, Later(pod, seen.pods),
         NEW s \in Follows(owner.kind, pod.sit), NEW n \in {0, 1}, NEW image,
         n = IF s = "unready" /\ pod.sit # "serving" THEN 1 ELSE 0
  PROVE  Later([pod EXCEPT !.sit = s, !.runs = @ + n, !.image = image], seen.pods)
<1> DEFINE p == [pod EXCEPT !.sit = s, !.runs = @ + n, !.image = image]
<1>1. p.uid = pod.uid /\ p.sit = s /\ p.runs = pod.runs + n
  BY DEF SnapshotInv, IsPod
<1>2. pod.uid \in Nat /\ pod.runs \in Nat
  BY DEF TypeInv
<1>3. (s \in Running \cup Ended /\ pod.sit \notin Running \cup Ended) => n = 1
  BY DEF Follows, Running, Ended
<1> HIDE DEF p
<1> QED
  BY <1>1, <1>2, <1>3 DEF Later, p

LEMMA PodHistoryCluster == TypeInv /\ SnapshotInv /\ PodHistory /\ ClusterStep => PodHistory'
<1> SUFFICES ASSUME TypeInv, SnapshotInv, PodHistory, ClusterStep
             PROVE  PodHistory'
  OBVIOUS
<1>0. IsPod(pod) /\ pod.uid \in Nat /\ pod.runs \in Nat
  BY DEF SnapshotInv, TypeInv
<1>1. CASE Change
  <2>1. PICK s \in Follows(owner.kind, pod.sit), n \in {0, 1}, image \in ImageNames \cup {pod.image} :
          /\ n = IF s = "unready" /\ pod.sit # "serving" THEN 1 ELSE 0
          /\ Becomes([pod EXCEPT !.sit = s, !.runs = @ + n, !.image = image])
    BY <1>1 DEF Change
  <2>2. "pods" \in listed => Later([pod EXCEPT !.sit = s, !.runs = @ + n, !.image = image], seen.pods)
    BY <2>1, ChangeIsLater DEF PodHistory
  <2> QED BY <2>1, <2>2, BecomesLater
<1>2. CASE Delete
  <2> DEFINE p == [pod EXCEPT !.sit = "gone"]
  <2>1. p.uid = pod.uid /\ p.runs = pod.runs /\ p.sit = "gone"
    BY <1>0 DEF IsPod
  <2>2. "pods" \in listed => Later(p, seen.pods)
    BY <2>1 DEF PodHistory, Later, Running, Ended
  <2>3. Becomes(p)
    BY <1>2 DEF Delete
  <2> HIDE DEF p
  <2> QED BY <2>2, <2>3, BecomesLater
<1>3. CASE Recreate
  <2> DEFINE p == [uid |-> pod.uid + 1, sit |-> "unscheduled", runs |-> 0, image |-> Image]
  <2>1. "pods" \in listed => Later(p, seen.pods)
    BY <1>0 DEF PodHistory, Later
  <2>2. Becomes(p)
    BY <1>3 DEF Recreate
  <2> HIDE DEF p
  <2> QED BY <2>1, <2>2, BecomesLater
<1>4. CASE Warn
  <2>1. \A e \in events' : e \in events \/ e.time \in {now, Unstamped}
    BY <1>4 DEF Warn
  <2>2. WarnsOf("serving") = {}
    BY DEF WarnsOf
  <2>3. pod.sit # "serving"
    BY <1>4, <2>2 DEF Warn
  <2>4. now \in 0..now
    BY DEF TypeInv
  <2> QED BY <1>4, <2>1, <2>3, <2>4 DEF Warn, PodHistory, command
<1>5. CASE Tick
  <2>1. 0..now \subseteq 0..now'
    BY <1>5 DEF Tick, TypeInv
  <2> QED BY <1>5, <2>1 DEF Tick, PodHistory, command
<1>6. CASE Sync
  BY <1>6 DEF Sync, PodHistory, command
<1> QED
  BY <1>1, <1>2, <1>3, <1>4, <1>5, <1>6 DEF ClusterStep

LEMMA PodHistoryCommand == TypeInv /\ SnapshotInv /\ PodHistory /\ CommandStep => PodHistory'
<1> SUFFICES ASSUME TypeInv, SnapshotInv, PodHistory, CommandStep
             PROVE  PodHistory'
  OBVIOUS
<1> USE DEF PodHistory
<1>1. CASE ListPods
  <2>1. listed' = listed \cup {"pods"} /\ UNCHANGED cluster
    BY <1>1 DEF ListPods, Listing
  <2>2. seen'.pods = pod /\ seen'.events = seen.events
    BY <1>1 DEF ListPods, SnapshotInv, IsSnapshot
  <2>3. Later(pod, pod)
    BY DEF TypeInv, Later, SnapshotInv, Started, Running, Ended
  <2> QED BY <2>1, <2>2, <2>3 DEF cluster
<1>2. CASE ListEvents
  BY <1>2 DEF ListEvents, Listing, cluster, SnapshotInv, IsSnapshot
<1>3. CASE ListOwners
  BY <1>3 DEF ListOwners, Listing, cluster, SnapshotInv, IsSnapshot
<1>4. CASE UNCHANGED <<cluster, listed, seen>>
  BY <1>4 DEF cluster
<1> QED
  BY <1>1, <1>2, <1>3, <1>4 DEF CommandStep, TargetMissing, FirstDiagnosis, ReadLog, SecondDiagnosis

LEMMA HistoryInvariant == Spec => [](TypeInv /\ SnapshotInv /\ PodHistory)
<1>1. Init => TypeInv /\ PodHistory
  BY TypeInvInit, PodHistoryInit
<1>2. TypeInv /\ SnapshotInv /\ PodHistory /\ Next => TypeInv' /\ PodHistory'
  BY TypeInvCluster, TypeInvCommand, PodHistoryCluster, PodHistoryCommand DEF Next
<1>3. TypeInv /\ PodHistory /\ UNCHANGED vars => TypeInv' /\ PodHistory'
  BY DEF vars, cluster, command, TypeInv, PodHistory, Later
<1> QED
  BY <1>1, <1>2, <1>3, SnapshotInvariant, PTL DEF Spec

-----------------------------------------------------------------------------
(* The logs. What an entry of a container is worth depends on how far the  *)
(* pod had come when it was read.                                          *)

\* An entry of "app" read for the pod listed: a previous run is one that ended,
\* and what was read is no older than what was listed.
FitsLabel(l) ==
  l.container = "app" =>
    /\ l.previous => l.ended
    /\ l.uid = seen.pods.uid /\ (l.previous => seen.pods.sit = "crashing")
         => l.run >= seen.pods.runs

Asked == {Candidate(l.container, l.previous) : l \in entries}
Choosable == [container : {"app", "init"}, previous : BOOLEAN]

LogsInv ==
  /\ candidates \subseteq Choosable
  /\ Asked \subseteq candidates
  /\ step = "listing" => candidates = {} /\ findings = {} /\ entries = {}
  /\ step = "reading" => findings = Found(at, {}, latest)
  /\ step = "done" => findings = Found(at, entries, latest)
  /\ step = "failed" => findings = {}
  /\ \A l \in entries : FitsLabel(l)

\* The containers selected are the pod's own.
LEMMA SelectedAreContainers == Selected \subseteq Choosable
<1> DEFINE p == Listed(seen.pods)
<1>1. Containers(p) \subseteq {"app", "init"} /\ p.regular \subseteq {"app", "init"}
  BY DEF Listed, Containers
<1>2. NotReady(p) \subseteq {"app", "init"}
  BY <1>1 DEF NotReady
<1>3. \A c \in {"app", "init"} : \A b \in BOOLEAN : Candidate(c, b) \in Choosable
  BY DEF Candidate, Choosable
<1>4. \A c : (p.status[c].restarts > 0) \in BOOLEAN
  OBVIOUS
<1> HIDE DEF p
<1>5. ASSUME NEW es
      PROVE  podContainerCandidates(p, es) \subseteq Choosable
  <2>1. CrashCandidates(p) \subseteq Choosable
    BY <1>1, <1>3 DEF CrashCandidates
  <2>2. WaitingCandidates(p, For(es, p.uid)) \subseteq Choosable
    BY <1>1, <1>3, <1>4 DEF WaitingCandidates
  <2>3. TerminatedCandidates(p) \subseteq Choosable
    BY <1>1, <1>3, <1>4 DEF TerminatedCandidates
  <2>4. FailedCandidates(p) \subseteq Choosable
    BY <1>1, <1>3 DEF FailedCandidates
  <2>5. ProbeCandidates(p, For(es, p.uid)) \subseteq Choosable
    BY <1>2, <1>3 DEF ProbeCandidates
  <2> QED BY <2>1, <2>2, <2>3, <2>4, <2>5 DEF podContainerCandidates
<1> QED
  BY <1>5 DEF Selected, p

\* A log that is read later is not of an older run.
LEMMA ReadFits ==
  ASSUME TypeInv, SnapshotInv, PodHistory, LogsInv, NEW c \in candidates, ReadLog(c)
  PROVE  LogsInv'
<1>1. /\ UNCHANGED <<pod, step, seen, at, latest, findings, candidates>>
      /\ step = "reading" /\ listed = Lists
  BY DEF ReadLog, cluster, SnapshotInv
<1> DEFINE run == IF c.container = "init" THEN 1 ELSE RunRead(c.previous)
<1>2. PICK lines \in {"signal", "noise", "failed"} :
        entries' = entries \cup
          {[pod |-> seen.pods.uid, container |-> c.container, previous |-> c.previous,
            lines |-> lines, uid |-> pod.uid, run |-> run,
            ended |-> c.container = "init" \/ run < pod.runs \/ pod.sit \notin Running]}
  BY DEF ReadLog
<1> DEFINE l == [pod |-> seen.pods.uid, container |-> c.container, previous |-> c.previous,
                 lines |-> lines, uid |-> pod.uid, run |-> run,
                 ended |-> c.container = "init" \/ run < pod.runs \/ pod.sit \notin Running]
<1>3. FitsLabel(l)
  <2> SUFFICES ASSUME c.container = "app"
               PROVE  /\ c.previous => run < pod.runs \/ pod.sit \notin Running
                      /\ pod.uid = seen.pods.uid /\ (c.previous => seen.pods.sit = "crashing")
                           => run >= seen.pods.runs
    BY DEF FitsLabel
  <2>1. c.previous \in BOOLEAN /\ pod.runs \in Nat
    BY DEF LogsInv, TypeInv, Choosable
  <2>2. run = IF c.previous /\ pod.sit \in Running \cup Ended THEN pod.runs - 1 ELSE pod.runs
    BY DEF RunRead
  <2>3. Later(pod, seen.pods)
    BY <1>1 DEF PodHistory, Lists
  <2> HIDE DEF run
  <2>4. c.previous => run < pod.runs \/ pod.sit \notin Running
    BY <2>1, <2>2
  <2>5. ASSUME pod.uid = seen.pods.uid, c.previous => seen.pods.sit = "crashing"
        PROVE  run >= seen.pods.runs
    BY <2>1, <2>2, <2>3, <2>5 DEF Later
  <2> QED BY <2>4, <2>5
<1>4. Candidate(l.container, l.previous) = c
  BY DEF LogsInv, Candidate, Choosable
<1>5. entries' = entries \cup {l}
  BY <1>2
<1> HIDE DEF l
<1>6. Asked' \subseteq candidates'
  BY <1>1, <1>4, <1>5 DEF Asked, LogsInv
<1>7. \A k \in entries' : FitsLabel(k)'
  BY <1>1, <1>3, <1>5 DEF FitsLabel, LogsInv
<1>8. findings' = Found(at, {}, latest)'
  BY <1>1 DEF LogsInv, Found, OfPod, OfOwner, ReadLog
<1> QED
  BY <1>1, <1>6, <1>7, <1>8 DEF LogsInv

\* What the report says depends on the snapshot and the logs.
LEMMA LogsInvKept ==
  ASSUME LogsInv, UNCHANGED <<target, step, seen, at, latest, findings, candidates, entries>>
  PROVE  LogsInv'
<1>1. /\ Found(at, {}, latest)' = Found(at, {}, latest)
      /\ Found(at, entries, latest)' = Found(at, entries, latest)
  BY DEF Found, OfPod, OfOwner
<1> QED
  BY <1>1 DEF LogsInv, Asked, FitsLabel

LEMMA LogsInvCommand ==
  TypeInv /\ SnapshotInv /\ PodHistory /\ LogsInv /\ CommandStep => LogsInv'
<1> SUFFICES ASSUME TypeInv, SnapshotInv, PodHistory, LogsInv, CommandStep
             PROVE  LogsInv'
  OBVIOUS
<1>1. CASE ListPods \/ ListEvents \/ ListOwners
  BY <1>1 DEF ListPods, ListEvents, ListOwners, Listing, LogsInv, Asked
<1>2. CASE TargetMissing
  BY <1>2 DEF TargetMissing, LogsInv, Asked, FitsLabel
<1>3. CASE FirstDiagnosis
  <2>1. findings' = Found(at, {}, latest)'
    BY <1>3 DEF FirstDiagnosis, Found, OfPod, OfOwner
  <2>2. entries' = {} /\ candidates' = Selected /\ step' \in {"reading", "done"}
    BY <1>3 DEF FirstDiagnosis, LogsInv
  <2>3. findings' = Found(at, entries, latest)'
    BY <2>1, <2>2
  <2>4. Asked' = {}
    BY <2>2 DEF Asked
  <2> QED BY <2>1, <2>2, <2>3, <2>4, SelectedAreContainers DEF LogsInv
<1>4. ASSUME NEW c \in candidates, ReadLog(c)
      PROVE  LogsInv'
  BY <1>4, ReadFits
<1>5. CASE SecondDiagnosis
  <2>1. findings' = Found(at, entries, latest)'
    BY <1>5 DEF SecondDiagnosis, Found, OfPod, OfOwner
  <2>2. step' = "done" /\ UNCHANGED <<seen, candidates, entries>>
    BY <1>5 DEF SecondDiagnosis
  <2> QED BY <2>1, <2>2 DEF LogsInv, Asked, FitsLabel
<1> QED
  BY <1>1, <1>2, <1>3, <1>4, <1>5 DEF CommandStep

LEMMA LogsInvariant == Spec => [](TypeInv /\ SnapshotInv /\ PodHistory /\ LogsInv)
<1>1. Init => LogsInv
  BY DEF Init, LogsInv, Asked
<1>2. ClusterStep => UNCHANGED command
  BY DEF ClusterStep, Change, Delete, Recreate, Becomes, Warn, Tick, Sync
<1>3. LogsInv /\ UNCHANGED command => LogsInv'
  BY LogsInvKept DEF command
<1>4. LogsInv /\ UNCHANGED vars => LogsInv'
  BY <1>3 DEF vars
<1>5. TypeInv /\ SnapshotInv /\ PodHistory /\ LogsInv /\ Next => LogsInv'
  BY <1>2, <1>3, LogsInvCommand DEF Next
<1> QED
  BY <1>1, <1>4, <1>5, HistoryInvariant, PTL DEF Spec

-----------------------------------------------------------------------------
(* What the properties ask of the report.                                  *)

\* The pods are of the kinds the model knows; no log is read twice or without
\* being asked for, and a finding about a container names one of the pod's own.
THEOREM SnapshotTypes == Spec => []TypeOK
<1>1. TypeInv /\ SnapshotInv /\ LogsInv => TypeOK
  <2> SUFFICES ASSUME TypeInv, SnapshotInv, LogsInv
               PROVE  TypeOK
    OBVIOUS
  <2>1. ASSUME NEW f \in findings,
               f.rule \in {"pod/crashloop", "pod/image-pull", "builtin/log-signal"}
        PROVE  f.containers = {"app"}
    <3>1. PICK logs : f \in Found(at, logs, latest)
      BY <2>1 DEF LogsInv, TypeInv
    <3>2. seen.owners.kind \in Kinds
      BY <2>1 DEF TypeInv, SnapshotInv, LogsInv, Lists
    <3>3. f \notin OfOwner
      BY <2>1, <3>2 DEF OfOwner, Finding, Kinds, OwnerFindings, DeploymentFindings,
            StatefulSetFindings, ReplicaSetFindings, DaemonSetFindings, JobFindings
    <3> DEFINE p == Listed(seen.pods)
    <3>4. f \in PodFindings(p, seen.events, at, logs)
      BY <3>1, <3>3, FoundSomewhere DEF OfPod, Unsuppressed
    <3>5. p.regular \subseteq {"app"}
      BY DEF Listed
    <3> HIDE DEF p
    <3>6. PICK c : /\ c \in CrashLoop(p) \/ c \in ImagePull(p) \/ c \in LogSignal(p, logs)
                   /\ f.containers = {c}
      BY <2>1, <3>4 DEF PodFindings, Finding, OfEvents, ProbeFailure
    <3> QED BY <3>5, <3>6 DEF CrashLoop, ImagePull, LogSignal
  <2> QED BY <2>1 DEF TypeOK, TypeInv, LogsInv, Asked, Choosable
<1> QED
  BY <1>1, LogsInvariant, PTL

\* The entries a rule shows.
LEMMA ShownLogs ==
  ASSUME NEW p, p.regular \subseteq {"app"}, NEW es, NEW time, NEW logs,
         NEW f \in PodFindings(p, es, time, logs), f.rule \in Symptoms, NEW l \in f.logs
  PROVE  /\ l \in logs /\ l.container = "app"
         /\ \/ f.rule = "pod/crashloop" /\ "app" \in CrashLoop(p)
            \/ f.rule = "pod/probe-failure" /\ "app" \in NotReady(p)
<1>1. CASE f.rule = "pod/crashloop"
  <2>1. PICK c \in CrashLoop(p) : f.logs = ForPodContainer(logs, p, c)
    BY <1>1 DEF PodFindings, Finding, OfEvents, ProbeFailure
  <2>2. c = "app"
    BY <2>1 DEF CrashLoop
  <2> QED BY <1>1, <2>1, <2>2 DEF ForPodContainer
<1>2. CASE f.rule = "pod/probe-failure"
  <2>1. f.logs = UNION {ForPodContainer(logs, p, c) : c \in NotReady(p)}
    BY <1>2 DEF PodFindings, Finding, OfEvents, ProbeFailure
  <2>2. PICK c \in NotReady(p) : l \in ForPodContainer(logs, p, c)
    BY <2>1
  <2>3. c = "app"
    BY <2>2 DEF NotReady
  <2> QED BY <1>2, <2>2, <2>3 DEF ForPodContainer
<1> QED
  BY <1>1, <1>2 DEF Symptoms

\* In a crash loop it is the log of the previous run that is read, and while a
\* container runs without being ready that of the current one.
LEMMA ReadOfListed ==
  ASSUME NEW q, NEW es, NEW k \in podContainerCandidates(Listed(q), es), k.container = "app"
  PROVE  /\ "app" \in CrashLoop(Listed(q)) => k.previous /\ q.sit = "crashing"
         /\ "app" \in NotReady(Listed(q)) => ~k.previous
<1> DEFINE p == Listed(q)
<1>1. ASSUME "app" \in p.regular
      PROVE  p.status["app"] = AppStatus(q)
  BY <1>1 DEF Listed
<1>2. \A c, b : Candidate(c, b).container = c /\ Candidate(c, b).previous = b
  BY DEF Candidate
<1>3. CASE "app" \in CrashLoop(p)
  <2>1. p.status["app"] = AppStatus(q) /\ AppStatus(q).waiting = "CrashLoopBackOff"
    BY <1>1, <1>3 DEF CrashLoop, Waiting
  <2>2. q.sit = "crashing"
    BY <2>1 DEF AppStatus, Status, WaitingFor, Running, Ended
  <2>3. p.phase # "Failed"
    BY <2>2 DEF Listed
  <2>4. AppStatus(q).terminated = "no" /\ ~AppStatus(q).running
    <3>1. AppStatus(q) = Status("CrashLoopBackOff", "no", FALSE, FALSE, Restarts(q), q.image)
      BY <2>2 DEF AppStatus, WaitingFor, Running, Ended
    <3> QED BY <3>1 DEF Status
  <2> HIDE DEF p
  <2>5. k \notin FailedCandidates(p)
    BY <2>3 DEF FailedCandidates
  <2>6. \A e : k \notin WaitingCandidates(p, e)
    BY <1>2, <2>1 DEF WaitingCandidates, Waiting, PullReasons
  <2>7. k \notin TerminatedCandidates(p)
    BY <1>2, <2>1, <2>4 DEF TerminatedCandidates
  <2>8. "app" \notin NotReady(p)
    BY <2>1, <2>4 DEF NotReady
  <2>9. \A e : k \notin ProbeCandidates(p, e)
    BY <2>8 DEF ProbeCandidates, Candidate
  <2>10. k \in CrashCandidates(p)
    BY <2>5, <2>6, <2>7, <2>9 DEF podContainerCandidates, p
  <2>11. k.previous
    BY <1>2, <2>10 DEF CrashCandidates
  <2> QED BY <2>2, <2>8, <2>11 DEF p
<1>4. CASE "app" \in NotReady(p)
  <2>1. p.status["app"] = AppStatus(q) /\ AppStatus(q).running
    BY <1>1, <1>4 DEF NotReady
  <2>2. q.sit \in Running
    BY <2>1 DEF AppStatus, Status, WaitingFor, Ended
  <2>3. p.phase # "Failed"
    BY <2>2 DEF Listed, Running
  <2>4. AppStatus(q).terminated = "no" /\ AppStatus(q).waiting = "no"
    <3>1. AppStatus(q) = Status("no", "no", TRUE, q.sit = "serving", Restarts(q), q.image)
      BY <2>2 DEF AppStatus, WaitingFor, Running, Ended
    <3> QED BY <3>1 DEF Status
  <2> HIDE DEF p
  <2>5. k \notin FailedCandidates(p)
    BY <2>3 DEF FailedCandidates
  <2>6. \A e : k \notin WaitingCandidates(p, e)
    BY <1>2, <2>1, <2>4 DEF WaitingCandidates, Waiting, PullReasons
  <2>7. k \notin TerminatedCandidates(p)
    BY <1>2, <2>1, <2>4 DEF TerminatedCandidates
  <2>8. Waiting(p, "app") # "CrashLoopBackOff"
    BY <2>1, <2>4 DEF Waiting
  <2>9. k \notin CrashCandidates(p)
    BY <2>8 DEF CrashCandidates, Candidate
  <2>10. \E e : k \in ProbeCandidates(p, e)
    BY <2>5, <2>6, <2>7, <2>9 DEF podContainerCandidates, p
  <2>11. ~k.previous
    BY <1>2, <2>10 DEF ProbeCandidates
  <2> QED BY <2>8, <2>11 DEF CrashLoop, p
<1> QED
  BY <1>3, <1>4

\* The log lines a finding shows are of the run it says, although they are read
\* while the pod goes on (crashloop.go, probes.go, logs.go).
THEOREM LogsAreOfTheirRun == Spec => []LogsFitLabels
<1>1. TypeInv /\ SnapshotInv /\ LogsInv => LogsFitLabels
  <2> SUFFICES ASSUME TypeInv, SnapshotInv, LogsInv, NEW f \in findings, NEW l \in f.logs,
                      f.rule \in Symptoms
               PROVE  /\ f.rule = "pod/crashloop" => l.ended
                      /\ l.uid = seen.pods.uid => l.run >= seen.pods.runs
    BY DEF LogsFitLabels, Symptoms
  <2> DEFINE p == Listed(seen.pods)
  <2>1. PICK logs \in {{}, entries} : f \in Found(at, logs, latest)
    BY DEF LogsInv, TypeInv
  <2>2. listed = Lists /\ candidates = Selected
    BY DEF TypeInv, SnapshotInv, LogsInv
  <2>3. f \notin OfOwner
    BY <2>2 DEF OfOwner, Finding, Symptoms, SnapshotInv, Lists, Kinds, OwnerFindings, DeploymentFindings,
          StatefulSetFindings, ReplicaSetFindings, DaemonSetFindings, JobFindings
  <2>4. f \in PodFindings(p, seen.events, at, logs) /\ seen.pods.sit # "gone"
    BY <2>1, <2>3, FoundSomewhere DEF OfPod, Unsuppressed
  <2>5. p.regular \subseteq {"app"}
    BY DEF Listed
  <2> HIDE DEF p
  <2>6. /\ l \in logs /\ l.container = "app"
        /\ \/ f.rule = "pod/crashloop" /\ "app" \in CrashLoop(p)
           \/ f.rule = "pod/probe-failure" /\ "app" \in NotReady(p)
    BY <2>4, <2>5, ShownLogs
  <2>7. l \in entries
    BY <2>1, <2>6
  <2> DEFINE k == Candidate(l.container, l.previous)
  <2>8. k \in podContainerCandidates(p, seen.events)
    BY <2>2, <2>4, <2>7 DEF LogsInv, Asked, Selected, p
  <2>9. k.container = "app" /\ k.previous = l.previous
    BY <2>6 DEF Candidate
  <2> HIDE DEF k
  <2>10. /\ "app" \in CrashLoop(p) => l.previous /\ seen.pods.sit = "crashing"
         /\ "app" \in NotReady(p) => ~l.previous
    BY <2>8, <2>9, ReadOfListed DEF p
  <2>11. FitsLabel(l)
    BY <2>7 DEF LogsInv
  <2> QED BY <2>6, <2>10, <2>11 DEF FitsLabel
<1> QED
  BY <1>1, LogsInvariant, PTL

\* The pod that serves shows no fault, and nothing of it is read.
LEMMA ServingIsQuiet ==
  ASSUME NEW q, Started(q), q.sit = "serving"
  PROVE  LET p == Listed(q)
         IN  /\ \A es : podContainerCandidates(p, es) = {}
             /\ \A es, time : WarningEvents(es, p.uid, time) = {} => PodFindings(p, es, time, {}) = {}
<1> DEFINE p == Listed(q)
<1>1. /\ p.regular = {"app"} /\ Containers(p) = {"app", "init"} /\ p.phase = "Running"
      /\ p.status["app"] = AppStatus(q) /\ p.status["init"] = InitStatus(q)
  BY DEF Listed, Containers, Started, Running
<1>2. AppStatus(q) = Status("no", "no", TRUE, TRUE, Restarts(q), q.image)
  BY DEF AppStatus, WaitingFor, Running, Ended
<1>3. InitStatus(q) = Status("no", "Completed", FALSE, TRUE, 0, NoImage)
  BY DEF InitStatus
<1>4. \A c \in Containers(p) : Waiting(p, c) = "no" /\ p.status[c].terminated \notin {"Error", "OOMKilled"}
  BY <1>1, <1>2, <1>3 DEF Waiting, Status
<1>5. NotReady(p) = {}
  BY <1>1, <1>2 DEF NotReady, Status
<1> HIDE DEF p
<1>6. CrashLoop(p) = {} /\ ImagePull(p) = {}
  BY <1>1, <1>4 DEF CrashLoop, ImagePull, PullReasons
<1>7. CrashCandidates(p) = {} /\ TerminatedCandidates(p) = {}
  BY <1>4 DEF CrashCandidates, TerminatedCandidates
<1>8. FailedCandidates(p) = {}
  BY <1>1 DEF FailedCandidates
<1>9. ASSUME NEW es
      PROVE  podContainerCandidates(p, es) = {}
  <2>1. WaitingCandidates(p, For(es, p.uid)) = {}
    BY <1>4 DEF WaitingCandidates, PullReasons
  <2>2. ProbeCandidates(p, For(es, p.uid)) = {}
    BY <1>5 DEF ProbeCandidates
  <2> QED BY <1>7, <1>8, <2>1, <2>2 DEF podContainerCandidates
<1>10. ASSUME NEW es, NEW time, WarningEvents(es, p.uid, time) = {}
       PROVE  PodFindings(p, es, time, {}) = {}
  <2>1. /\ PendingEvents(p, {}) = {} /\ ProbeEvents(p, {}) = {} /\ MountEvents({}) = {}
    BY DEF PendingEvents, ProbeEvents, MountEvents, WithReason
  <2>2. LogSignal(p, {}) = {}
    BY DEF LogSignal, ForPodContainer
  <2> QED BY <1>6, <1>10, <2>1, <2>2 DEF PodFindings, OfEvents, ProbeFailure
<1> QED
  BY <1>9, <1>10 DEF p

\* Neither does an owner that wants no more than that pod.
LEMMA SatisfiedIsQuiet ==
  ASSUME NEW kind \in Kinds, NEW desired \in Nat, desired <= 1, NEW p, p.sit = "serving",
         NEW o \in Observed(kind, desired, p)
  PROVE  OwnerFindings(o) = {}
<1>1. /\ o.kind = kind /\ o.desired = desired
      /\ o.ready = 1 /\ o.available = 1 /\ o.updated = 1
  <2>1. o.kind = kind /\ o.desired = desired
    BY DEF Observed
  <2>2. o.ready = 1 /\ o.available = 1 /\ o.updated = 1
    BY DEF Observed
  <2> QED BY <2>1, <2>2
<1>2. o.conditions = {}
  <2>1. CASE kind = "Deployment"
    BY <2>1 DEF Observed
  <2>2. CASE kind = "ReplicaSet"
    BY <2>2 DEF Observed
  <2>3. CASE kind = "Job"
    BY <2>3 DEF Observed
  <2>4. CASE kind \in {"StatefulSet", "DaemonSet"}
    BY <2>4 DEF Observed
  <2> QED BY <2>1, <2>2, <2>3, <2>4 DEF Kinds
<1>3. ~Short(o, o.ready) /\ ~Short(o, o.available)
  BY <1>1 DEF Short
<1> QED
  BY <1>1, <1>2, <1>3 DEF Kinds, OwnerFindings, DeploymentFindings, StatefulSetFindings,
       ReplicaSetFindings, DaemonSetFindings, JobFindings

\* Whoever has been well for longer than the window is not accused
\* (WithinEventWindow, EventIndex.For).
THEOREM CalmAreAcquitted == Spec => []CalmPodsAcquitted
<1>1. TypeInv /\ SnapshotInv /\ PodHistory /\ LogsInv => CalmPodsAcquitted
  <2> DEFINE q == seen.pods
             p == Listed(q)
  <2> SUFFICES ASSUME TypeInv, SnapshotInv, PodHistory, LogsInv, Unmoved, q.sit = "serving",
                      OwnerSynced, seen.owners.desired <= 1, EventWindow > 0,
                      at - since > EventWindow, \A e \in seen.events : e.time # Unstamped
               PROVE  findings = {}
    BY DEF CalmPodsAcquitted
  <2>1. /\ listed = Lists /\ step = "done" /\ still
        /\ findings = Found(at, entries, latest) /\ candidates = Selected
    BY DEF SnapshotInv, LogsInv, Unmoved
  <2>2. Started(q) /\ seen.owners.kind \in Kinds /\ seen.owners.desired \in Nat
    BY <2>1 DEF SnapshotInv, Lists
  <2>3. pod.sit = "serving"
    BY <2>1 DEF PodHistory, Lists
  <2>4. \A e \in seen.events : e.time \in Int /\ e.time <= since
    BY <2>1, <2>3 DEF PodHistory, Lists
  <2>5. WarningEvents(seen.events, p.uid, at) = {}
    <3>1. \A e \in seen.events : ~WithinEventWindow(e, at)
      BY <2>4, EventWindowAssumption DEF WithinEventWindow, TypeInv
    <3>2. For(seen.events, p.uid) \subseteq seen.events
      BY DEF For
    <3> QED BY <3>1, <3>2 DEF WarningEvents
  <2>6. candidates = {}
    BY <2>1, <2>2, ServingIsQuiet DEF Selected
  <2>7. entries = {}
    BY <2>6 DEF LogsInv, Asked
  <2>8. OfPod(at, {}, latest) = {}
    BY <2>2, <2>5, ServingIsQuiet DEF OfPod, Unsuppressed
  <2>9. OfOwner = {}
    <3>1. OwnerFindings(seen.owners) = {}
      BY <2>2, SatisfiedIsQuiet DEF OwnerSynced
    <3> QED BY <3>1 DEF OfOwner
  <2> QED BY <2>1, <2>7, <2>8, <2>9 DEF Found
<1> QED
  BY <1>1, LogsInvariant, PTL

=============================================================================
