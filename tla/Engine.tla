------------------------------- MODULE Engine -------------------------------
(***************************************************************************)
(* Engine.Diagnose (src/internal/diagnose/engine.go) up to the set of      *)
(* findings and the verdict: breadth-first layers around the target until  *)
(* one of them has findings, the depth limit, and the scan of the rest of  *)
(* the target's namespace as the last resort.                              *)
(*                                                                         *)
(* The code is sequential; a step stands for one pass over a layer. The    *)
(* sorted order within a layer decides only how chain and findings are     *)
(* listed, so a layer is a set. What the rules find on a node is abstract: *)
(* `faulty` holds the nodes for which evaluateNode returns something.      *)
(***************************************************************************)
EXTENDS Integers, Hops

CONSTANT Inputs   \* the calls Diagnose(rctx, target) to consider

\* node and edge: the graph; target: the reference looked up, in the graph or
\* not; placeholder: nodes that stand for missing objects; namespace: that of
\* each node's reference; maxDepth, scan: DiagnoseOptions.
ASSUME InputsAssumption ==
  \A i \in Inputs :
    /\ i.edge \subseteq i.node \X i.node
    /\ i.faulty \subseteq i.node
    /\ i.placeholder \subseteq i.node
    /\ i.maxDepth \in Int
    /\ i.scan \in BOOLEAN

VARIABLES
  in,         \* the arguments of the call
  phase,      \* where Diagnose is
  visited,    \* keys seen by the traversal
  order,      \* nodes the traversal has evaluated
  frontier,   \* the current layer
  depth,      \* its distance from the target
  layer,      \* the depth each visited node was queued with
  exhausted,  \* the traversal left nothing reachable unevaluated
  scanned,    \* the findings come from the namespace scan
  found,      \* nodes the findings are about
  verdict     \* which summary the diagnosis carries

vars == <<in, phase, visited, order, frontier, depth, layer, exhausted,
          scanned, found, verdict>>

Phases == {"locate", "evaluate", "expand", "scan", "report", "done"}
Verdicts == {"none", "not found", "root cause", "healthy", "none in depth"}

TypeOK ==
  /\ in \in Inputs
  /\ phase \in Phases
  /\ visited \subseteq in.node
  /\ order \subseteq in.node
  /\ frontier \subseteq in.node
  /\ depth \in Nat
  /\ layer \in [in.node -> Nat]
  /\ exhausted \in BOOLEAN
  /\ scanned \in BOOLEAN
  /\ found \subseteq in.node
  /\ verdict \in Verdicts

-----------------------------------------------------------------------------

Init ==
  /\ in \in Inputs
  /\ phase = "locate"
  /\ visited = {}
  /\ order = {}
  /\ frontier = {}
  /\ depth = 0
  /\ layer = [n \in in.node |-> 0]
  /\ exhausted = FALSE
  /\ scanned = FALSE
  /\ found = {}
  /\ verdict = "none"

UnlimitedDepth == in.maxDepth <= 0

\* Mutant of DepthLimitReached: the last layer within the limit is left out.
DepthLimitEarly == ~UnlimitedDepth /\ depth + 1 >= in.maxDepth

DepthLimitReached == ~UnlimitedDepth /\ depth >= in.maxDepth

\* Mutant of Neighbours: only outbound edges are followed.
Successors == {m \in in.node : \E n \in frontier : <<n, m>> \in in.edge}

\* Nodes one relationship away from the current layer.
Neighbours == UNION {Related(in, n) : n \in frontier}

\* Mutant of Truncated: an exhausted frontier counts as an exhausted graph.
NeverTruncated == FALSE

\* Some neighbour has not been visited.
Truncated == ~(Neighbours \subseteq visited)

\* Mutant of Locate: the lookup's result is not checked.
LocateUnchecked ==
  /\ phase = "locate"
  /\ visited' = {in.target}
  /\ frontier' = {in.target}
  /\ phase' = "evaluate"
  /\ UNCHANGED <<in, order, depth, layer, exhausted, scanned, found, verdict>>

\* Graph.FindByRef; a target that is not in the graph ends the diagnosis.
Locate ==
  /\ phase = "locate"
  /\ \/ /\ in.target \in in.node
        /\ visited' = {in.target}
        /\ frontier' = {in.target}
        /\ phase' = "evaluate"
        /\ UNCHANGED verdict
     \/ /\ in.target \notin in.node
        /\ verdict' = "not found"
        /\ phase' = "done"
        /\ UNCHANGED <<visited, frontier>>
  /\ UNCHANGED <<in, order, depth, layer, exhausted, scanned, found>>

\* Every node of the layer is evaluated even when one of them already has
\* findings; then a layer with findings ends the traversal.
EvaluateLayer ==
  /\ phase = "evaluate"
  /\ order' = order \cup frontier
  /\ found' = frontier \cap in.faulty
  /\ phase' = IF found' = {} THEN "expand" ELSE "report"
  /\ UNCHANGED <<in, visited, frontier, depth, layer, exhausted, scanned,
                 verdict>>

\* Mutant of ExpandLayer: visited nodes are queued again.
Requeue ==
  /\ phase = "expand"
  /\ ~DepthLimitReached
  /\ visited' = visited \cup Neighbours
  /\ frontier' = Neighbours
  /\ phase' = IF Neighbours = {} THEN "scan" ELSE "evaluate"
  /\ exhausted' = (Neighbours = {})
  /\ UNCHANGED <<in, order, depth, layer, scanned, found, verdict>>

\* Queue the unvisited neighbours as the next layer, or stop when there are
\* none.
ExpandLayer ==
  /\ phase = "expand"
  /\ ~DepthLimitReached
  /\ LET next == Neighbours \ visited
     IN  \/ /\ next # {}
            /\ visited' = visited \cup next
            /\ layer' = [n \in in.node |->
                           IF n \in next THEN depth + 1 ELSE layer[n]]
            /\ frontier' = next
            /\ depth' = depth + 1
            /\ phase' = "evaluate"
            /\ UNCHANGED exhausted
         \/ /\ next = {}
            /\ exhausted' = TRUE
            /\ phase' = "scan"
            /\ UNCHANGED <<visited, layer, frontier, depth>>
  /\ UNCHANGED <<in, order, scanned, found, verdict>>

\* At the depth limit nothing is queued; an unvisited neighbour means that the
\* limit cut the traversal short.
StopAtDepth ==
  /\ phase = "expand"
  /\ DepthLimitReached
  /\ exhausted' = ~Truncated
  /\ phase' = "scan"
  /\ UNCHANGED <<in, visited, order, frontier, depth, layer, scanned, found,
                 verdict>>

\* Mutant of Remainder: placeholders are evaluated, too.
RemainderWithPlaceholders ==
  {n \in in.node \ order :
     in.namespace[n] = in.namespace[in.target] /\ n \in in.faulty}

\* Nodes of the target's namespace the traversal did not reach and whose rules
\* find something; placeholders are not evaluated.
Remainder ==
  {n \in (in.node \ order) \ in.placeholder :
     in.namespace[n] = in.namespace[in.target] /\ n \in in.faulty}

\* Only a traversal that has seen everything related is followed by the scan.
ScanNamespaceRemainder ==
  /\ phase = "scan"
  /\ \/ /\ exhausted
        /\ in.scan
        /\ scanned' = TRUE
        /\ found' = Remainder
     \/ /\ ~exhausted \/ ~in.scan
        /\ UNCHANGED <<scanned, found>>
  /\ phase' = "report"
  /\ UNCHANGED <<in, visited, order, frontier, depth, layer, exhausted,
                 verdict>>

\* The summary. Annotating, suppressing and sorting the findings comes before
\* it and never leaves a non-empty list empty (module Findings).
Report ==
  /\ phase = "report"
  /\ \/ found # {} /\ verdict' = "root cause"
     \/ found = {} /\ exhausted /\ verdict' = "healthy"
     \/ found = {} /\ ~exhausted /\ verdict' = "none in depth"
  /\ phase' = "done"
  /\ UNCHANGED <<in, visited, order, frontier, depth, layer, exhausted,
                 scanned, found>>

Done == phase = "done" /\ UNCHANGED vars

Step ==
  \/ Locate
  \/ EvaluateLayer
  \/ ExpandLayer
  \/ StopAtDepth
  \/ ScanNamespaceRemainder
  \/ Report

Next == Step \/ Done

Spec == Init /\ [][Next]_vars /\ WF_vars(Step)

-----------------------------------------------------------------------------

\* "appears healthy" is said only when no rule finds anything on any node that
\* is related to the target, however remote, nor, with the namespace scan on,
\* on any real object of the target's namespace (Diagnose, `case exhausted`).
HealthyIsTrue ==
  verdict = "healthy" =>
    \A n \in in.faulty :
      /\ ~Reachable(in, in.target, n)
      /\ in.scan /\ in.namespace[n] = in.namespace[in.target] =>
           n \in in.placeholder

\* A traversal that reports findings reports those of all nodes at the
\* smallest distance at which anything is wrong, and of no node further away or
\* beyond the limit ("Traversal stops after the first layer that produces
\* findings").
NearestFaultsReported ==
  verdict = "root cause" /\ ~scanned =>
    /\ found = {n \in in.faulty : WithinHops(in, in.target, n, depth)}
    /\ depth > 0 =>
         \A n \in in.faulty : ~WithinHops(in, in.target, n, depth - 1)
    /\ in.maxDepth > 0 => depth <= in.maxDepth

\* "no issues found within N graph hop(s)" is said only with a limit in force,
\* when nothing within N hops is wrong and something related lies beyond them.
DepthVerdictIsTrue ==
  verdict = "none in depth" =>
    /\ in.maxDepth > 0
    /\ \A n \in in.faulty : ~WithinHops(in, in.target, n, in.maxDepth)
    /\ \E n \in in.node : /\ Reachable(in, in.target, n)
                          /\ ~WithinHops(in, in.target, n, in.maxDepth)

\* The namespace scan blames only what the traversal could not have blamed: no
\* related node is faulty at any distance, and every accused node is an
\* unrelated, existing object of the target's namespace.
ScanIsLastResort ==
  verdict = "root cause" /\ scanned =>
    /\ \A n \in in.faulty : ~Reachable(in, in.target, n)
    /\ \A n \in found : /\ n \notin in.placeholder
                        /\ in.namespace[n] = in.namespace[in.target]

\* The traversal ends on every graph, cyclic ones included.
DiagnosisEnds == <>(phase = "done")

\* The contract's vocabulary, in the graph of the call.
Reaches(i, n) == Reachable(i, i.target, n)
InHops(i, n, d) == WithinHops(i, i.target, n, d)

\* The call seen from outside: nothing is known of it before it returns.
Contract == INSTANCE DiagnosisContract WITH
  answered <- (phase = "done"),
  hops     <- (IF phase = "done" THEN depth ELSE 0),
  found    <- (IF phase = "done" THEN found ELSE {})

\* Layers, limit, truncation and scan together give, in one answer, exactly
\* the faults and the summary the comments of Diagnose promise; nothing the
\* traversal does on the way shows (Diagnose).
ImplementsContract == Contract!Spec

=============================================================================
