------------------------------ MODULE OwnerRules ------------------------------
(***************************************************************************)
(* What klue says of the object that owns a pod: the rules about workloads *)
(* (src/internal/rules/deployment, statefulset, replicaset, daemonset,     *)
(* job) and the state shown next to a finding (src/internal/kube/status.go *)
(* as used by buildChain).                                                 *)
(*                                                                         *)
(* An owner o has a kind, the wanted number of pods (desired; for a        *)
(* DaemonSet a number its controller counts), the numbers in its status,   *)
(* whether its revisions differ (rolling) and its failing conditions.      *)
(***************************************************************************)
EXTENDS Integers

\* Mutant of Short: the pods are compared with the pods there are.
ShortOfExisting(o, count) == o.desired # 0 /\ count < o.replicas

\* deployment/unavailable counts available pods, the other rules ready ones.
Short(o, count) == o.desired # 0 /\ count < o.desired

DeploymentFindings(o) ==
  (IF Short(o, o.available) THEN {"deployment/unavailable"} ELSE {})
    \cup (IF "ProgressDeadlineExceeded" \in o.conditions THEN {"deployment/rollout-stuck"} ELSE {})

StatefulSetFindings(o) ==
  (IF Short(o, o.ready) THEN {"statefulset/unavailable"} ELSE {})
    \cup (IF o.desired # 0 /\ o.rolling /\ o.updated < o.desired
          THEN {"statefulset/rollout-stuck"} ELSE {})

ReplicaSetFindings(o) ==
  (IF Short(o, o.ready) THEN {"replicaset/unavailable"} ELSE {})
    \cup (IF "ReplicaFailure" \in o.conditions THEN {"replicaset/replica-failure"} ELSE {})

\* NumberUnavailable is what is not available of the desired.
DaemonSetFindings(o) ==
  IF Short(o, o.ready) \/ Short(o, o.available)
  THEN {"daemonset/unavailable"} ELSE {}

JobFindings(o) == IF "Failed" \in o.conditions THEN {"job/failed"} ELSE {}

OwnerFindings(o) ==
  CASE o.kind = "Deployment"  -> DeploymentFindings(o)
    [] o.kind = "StatefulSet" -> StatefulSetFindings(o)
    [] o.kind = "ReplicaSet"  -> ReplicaSetFindings(o)
    [] o.kind = "DaemonSet"   -> DaemonSetFindings(o)
    [] o.kind = "Job"         -> JobFindings(o)

-----------------------------------------------------------------------------
\* The state shown.

deploymentStatus(o) ==
  CASE o.desired = 0 -> "Healthy"
    [] o.desired # 0 /\ "ProgressDeadlineExceeded" \in o.conditions -> "Degraded"
    [] o.desired # 0 /\ "ProgressDeadlineExceeded" \notin o.conditions ->
         IF o.available >= o.desired THEN "Ready" ELSE "Progressing"

\* A ReplicaSet is measured by the pods it has, not by those it should have.
replicaSetStatus(o) ==
  CASE o.replicas = 0 -> "Healthy"
    [] o.replicas # 0 -> IF o.ready >= o.replicas THEN "Ready" ELSE "Progressing"

statefulSetStatus(o) ==
  CASE o.desired = 0 -> "Healthy"
    [] o.desired # 0 -> IF o.ready >= o.desired THEN "Ready" ELSE "Progressing"

daemonSetStatus(o) ==
  CASE o.desired = 0 -> "Healthy"
    [] o.desired # 0 ->
         IF o.desired > o.available THEN "Degraded"
         ELSE IF o.ready >= o.desired THEN "Ready" ELSE "Progressing"

jobStatus(o) ==
  IF "Failed" \in o.conditions THEN "Failed"
  ELSE IF o.replicas > 0 THEN "Running" ELSE "Unknown"

OwnerStatus(o) ==
  CASE o.kind = "Deployment"  -> deploymentStatus(o)
    [] o.kind = "StatefulSet" -> statefulSetStatus(o)
    [] o.kind = "ReplicaSet"  -> replicaSetStatus(o)
    [] o.kind = "DaemonSet"   -> daemonSetStatus(o)
    [] o.kind = "Job"         -> jobStatus(o)

\* podStatus of a listed pod. Its Ready condition is taken to say that every
\* container runs and is ready.
podStatus(p) ==
  CASE p.phase = "Pending" -> "Pending"
    [] p.phase = "Running" ->
         IF \A c \in p.regular : p.status[c].running /\ p.status[c].ready
         THEN "Ready" ELSE "Running"
    [] p.phase = "Failed"  -> "Failed"

=============================================================================
