------------------------------- MODULE PodRules -------------------------------
(***************************************************************************)
(* The rules about pods and the choice of containers whose logs are read,  *)
(* as predicates of one pod as it was listed (src/internal/rules/pod,      *)
(* builtin/log_signal.go, builtin/warning_events.go,                       *)
(* src/internal/evidence/log_candidates.go).                               *)
(*                                                                         *)
(* A listed pod p has p.uid, p.phase and p.status, which gives for each    *)
(* container of p.regular (and the other, init containers) its state:      *)
(* waiting and terminated (a reason or "no"), running, ready, restarts,    *)
(* and the name of its image as the container runtime gives it.            *)
(* `logs` is the log index: what was read for a pod and container.         *)
(***************************************************************************)
EXTENDS EventEvidence, FiniteSets

Containers(p) == DOMAIN p.status
Waiting(p, c) == p.status[c].waiting
PullReasons == {"ImagePullBackOff", "ErrImagePull"}

-----------------------------------------------------------------------------
\* The rules; es are the warning events of the pod within the window.

CrashLoop(p) == {c \in p.regular : Waiting(p, c) = "CrashLoopBackOff"}

\* Mutant of ImagePull: one finding for the pod.
ImagePullOfPod(p) ==
  {NoContainer : c \in {c \in p.regular : Waiting(p, c) \in PullReasons}}

ImagePull(p) == {c \in p.regular : Waiting(p, c) \in PullReasons}

\* The events image_pull cites; without one the finding is less certain.
ImagePullEvents(p, c, es) ==
  {e \in WithReason(es, {"Failed", "BackOff", "FailedToRetrieveImagePullSecret"}) :
     MatchImagePullEvent(e, c, p.status[c].image)}

PendingEvents(p, es) ==
  IF p.phase = "Pending" THEN WithReason(es, {"FailedScheduling"}) ELSE {}

NotReady(p) == {c \in p.regular : p.status[c].running /\ ~p.status[c].ready}

ProbeEvents(p, es) ==
  {e \in WithReason(es, {"Unhealthy"}) :
     p.phase = "Running" /\ \E c \in NotReady(p) : MatchProbeEvent(e, c)}

MountEvents(es) ==
  {e \in WithReason(es, {"FailedMount", "FailedAttachVolume", "FailedMapVolume", "Failed"}) :
     Category(e) = "mount"}

hasStrongStatusSignal(p) ==
  \/ p.phase = "Failed"
  \/ \E c \in Containers(p) :
       \/ Waiting(p, c) \in PullReasons \cup {"CrashLoopBackOff", "CreateContainerConfigError"}
       \/ p.status[c].terminated \in {"Error", "OOMKilled"}

\* Entries of the log index for a container of the pod; the newest signal
\* decides, and a line of any of them may carry it.
ForPodContainer(logs, p, c) == {l \in logs : l.pod = p.uid /\ l.container = c}

LogSignal(p, logs) ==
  IF hasStrongStatusSignal(p) THEN {}
  ELSE {c \in p.regular : \E l \in ForPodContainer(logs, p, c) : l.lines = "signal"}

\* A finding: the rule, the containers it is about (none if it is about the
\* whole object), the events of which the newest is cited, and the log entries.
Finding(rule, containers, events, logs) ==
  [rule |-> rule, containers |-> containers, events |-> events, logs |-> logs]

\* The rules that speak of the whole pod, if there is an event for it.
OfEvents(rule, events) ==
  IF events = {} THEN {} ELSE {Finding(rule, {}, events, {})}

\* One finding for all the containers whose probes fail.
ProbeFailure(p, events, logs) ==
  IF events = {} THEN {}
  ELSE {Finding("pod/probe-failure", NotReady(p), events,
                UNION {ForPodContainer(logs, p, c) : c \in NotReady(p)})}

PodFindings(p, events, now, logs) ==
  LET es == WarningEvents(events, p.uid, now)
      read(c) == ForPodContainer(logs, p, c)
  IN  {Finding("pod/crashloop", {c}, {}, read(c)) : c \in CrashLoop(p)}
        \cup {Finding("pod/image-pull", {c}, ImagePullEvents(p, c, es), {}) : c \in ImagePull(p)}
        \cup OfEvents("pod/pending", PendingEvents(p, es))
        \cup ProbeFailure(p, ProbeEvents(p, es), logs)
        \cup OfEvents("pod/mount-failure", MountEvents(es))
        \cup {Finding("builtin/log-signal", {c}, {}, read(c)) : c \in LogSignal(p, logs)}
        \cup OfEvents("builtin/warning-events", es)

\* suppressRedundantBuiltinFindings: the two general rules are silent if what
\* they cite is evidence of another finding. The one on warnings cites `newest`,
\* the other all the logs of a container.
Redundant(f, findings, newest) ==
  \E g \in findings :
    /\ g.rule \notin {"builtin/warning-events", "builtin/log-signal"}
    /\ \/ f.rule = "builtin/warning-events" /\ newest \in g.events
       \/ f.rule = "builtin/log-signal" /\ f.logs \cap g.logs # {}

Unsuppressed(findings, newest) == {f \in findings : ~Redundant(f, findings, newest)}

-----------------------------------------------------------------------------
\* podContainerCandidates. Here events are not restricted to the window.

Candidate(c, previous) == [container |-> c, previous |-> previous]

\* Mutant of CrashCandidates: the log of the current run is read.
CrashCandidatesCurrent(p) ==
  {Candidate(c, FALSE) : c \in {c \in Containers(p) : Waiting(p, c) = "CrashLoopBackOff"}}

CrashCandidates(p) ==
  {Candidate(c, TRUE) : c \in {c \in Containers(p) : Waiting(p, c) = "CrashLoopBackOff"}}

\* waitingLogCandidate and hasContainerWarningEvent; an image that was never
\* pulled has no log.
WaitingCandidates(p, es) ==
  LET explained(c) == \E e \in es :
        /\ e.reason \in {"Failed", "BackOff", "FailedToRetrieveImagePullSecret"}
        /\ MatchWaitingContainerEvent(e, c, Waiting(p, c))
  IN  {Candidate(c, p.status[c].restarts > 0) :
         c \in {c \in Containers(p) :
                  /\ Waiting(p, c) \in PullReasons \cup {"CreateContainerConfigError",
                                         "CreateContainerError", "RunContainerError"}
                  /\ Waiting(p, c) \in PullReasons => p.status[c].restarts > 0
                  /\ explained(c)}}

TerminatedCandidates(p) ==
  {Candidate(c, p.status[c].restarts > 0) :
     c \in {c \in Containers(p) : p.status[c].terminated \in {"Error", "OOMKilled"}}}

FailedCandidates(p) ==
  IF p.phase = "Failed" THEN {Candidate(c, FALSE) : c \in p.regular} ELSE {}

\* Mutant of ProbeCandidates: only if the newest event is about a probe.
ProbeCandidatesNewest(p, es) ==
  IF /\ p.phase = "Running"
     /\ \E e \in es : e.reason = "Unhealthy" /\ \A f \in es : f.time <= e.time
  THEN {Candidate(c, FALSE) : c \in NotReady(p)} ELSE {}

\* probeFailureCandidate
ProbeCandidates(p, es) ==
  IF p.phase = "Running" /\ \E e \in es : e.reason = "Unhealthy"
  THEN {Candidate(c, FALSE) : c \in NotReady(p)} ELSE {}

podContainerCandidates(p, events) ==
  LET es == For(events, p.uid)
  IN  CrashCandidates(p) \cup WaitingCandidates(p, es) \cup TerminatedCandidates(p)
        \cup FailedCandidates(p) \cup ProbeCandidates(p, es)

=============================================================================
