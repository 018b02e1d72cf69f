--------------------------- MODULE DiagnosisAnswers ---------------------------
(***************************************************************************)
(* The answers Engine.Diagnose may give to a call, stated in terms of      *)
(* reachability and distance only (src/internal/diagnose/engine.go, the    *)
(* comments on Diagnose, diagnoseUntilFound and scanNamespaceRemainder).   *)
(* What "related" and "within d hops" mean is a parameter: module Hops     *)
(* says it of a graph, WhyCommand of objects in known layers.              *)
(***************************************************************************)
EXTENDS Integers

CONSTANTS
  Reaches(_, _),     \* Reaches(i, n): n is related to the target of call i
  InHops(_, _, _)    \* InHops(i, n, d): by at most d relationships

\* Faults that can be reached from the target at all.
RelatedFaults(i) == {n \in i.faulty : Reaches(i, n)}

\* Faults at most d relationships away from the target.
FaultsWithin(i, d) == {n \in i.faulty : InHops(i, n, d)}

\* Real objects of the target's namespace that are at fault.
NamespaceFaults(i) ==
  {n \in i.faulty \ i.placeholder : i.namespace[n] = i.namespace[i.target]}

\* All faults at the smallest distance d, within the limit.
Nearest(i, d, f) ==
  /\ f = FaultsWithin(i, d)
  /\ f # {}
  /\ d > 0 => FaultsWithin(i, d - 1) = {}
  /\ i.maxDepth > 0 => d <= i.maxDepth

\* The depth limit leaves no related object out.
SeesAll(i) ==
  i.maxDepth > 0 =>
    \A n \in i.node : Reaches(i, n) => InHops(i, n, i.maxDepth)

\* All faults of the namespace, as nothing related is at fault.
LastResort(i, f) ==
  /\ i.scan
  /\ SeesAll(i)
  /\ RelatedFaults(i) = {}
  /\ f = NamespaceFaults(i)
  /\ f # {}

\* Neither the related objects nor, with the scan on, those of the namespace.
Healthy(i) ==
  /\ SeesAll(i)
  /\ RelatedFaults(i) = {}
  /\ i.scan => NamespaceFaults(i) = {}

\* Nothing within the limit, and something to see beyond it.
NoneInDepth(i) == ~SeesAll(i) /\ FaultsWithin(i, i.maxDepth) = {}

\* The answers f, v to the call i, found at distance d.
Answers(i, d, f, v) ==
  \/ i.target \notin i.node /\ v = "not found" /\ f = {}
  \/ /\ i.target \in i.node
     /\ \/ v = "root cause" /\ (Nearest(i, d, f) \/ LastResort(i, f))
        \/ v = "healthy" /\ f = {} /\ Healthy(i)
        \/ v = "none in depth" /\ f = {} /\ NoneInDepth(i)

=============================================================================
