---------------------------- MODULE EngineProofs ----------------------------
(***************************************************************************)
(* Proofs about Engine for every set of calls: any graph, finite or not,   *)
(* any depth limit and any rules. The inductive invariant EngineInv ties   *)
(* the traversal's book-keeping (visited, layer, order, exhausted) to      *)
(* reachability and hop distance as module Hops states them.               *)
(***************************************************************************)
EXTENDS Engine, TLAPS

\* Nothing has happened before the target is located.
AtStart ==
  phase = "locate" =>
    /\ order = {} /\ found = {} /\ depth = 0 /\ ~exhausted /\ ~scanned
    /\ \A n \in in.node : layer[n] = 0

\* The visited nodes form complete layers around the target, the frontier is
\* the outermost one, and a node's layer bounds its distance.
Layering ==
  /\ in.target \in visited
  /\ layer[in.target] = 0
  /\ frontier = {n \in visited : layer[n] = depth}
  /\ \A n \in visited : layer[n] <= depth
  /\ \A n \in visited \ frontier : \A m \in Related(in, n) :
       m \in visited /\ layer[m] <= layer[n] + 1
  /\ \A n \in visited : Reachable(in, in.target, n)
  /\ \A n \in visited : WithinHops(in, in.target, n, layer[n])

\* What has been evaluated, and what was found there.
Evaluated ==
  /\ order = IF phase = "evaluate" THEN visited \ frontier ELSE visited
  /\ \A n \in visited \ frontier : n \notin in.faulty
  /\ phase \in {"evaluate", "expand", "scan"} => found = {} /\ ~scanned
  /\ phase \in {"expand", "scan"} => frontier \cap in.faulty = {}
  /\ phase \in {"report", "done"} =>
       found = IF scanned THEN Remainder ELSE frontier \cap in.faulty

\* Why the traversal ended.
Ended ==
  /\ phase \in {"evaluate", "expand"} => ~exhausted
  /\ exhausted => Closed(in, visited) /\ frontier \cap in.faulty = {}
  /\ scanned => exhausted /\ in.scan
  /\ phase \in {"report", "done"} /\ exhausted /\ in.scan => scanned
  /\ in.maxDepth > 0 => depth <= in.maxDepth
  /\ phase \in {"scan", "report", "done"} /\ ~exhausted /\ found = {} =>
       in.maxDepth > 0 /\ depth = in.maxDepth /\ ~(Neighbours \subseteq visited)

VerdictInv ==
  /\ phase # "done" => verdict = "none"
  /\ verdict = "root cause" => found # {}
  /\ verdict = "healthy" => found = {} /\ exhausted
  /\ verdict = "none in depth" => found = {} /\ ~exhausted
  /\ phase # "locate" /\ in.target \notin in.node =>
       phase = "done" /\ verdict = "not found"

EngineInv ==
  /\ TypeOK
  /\ AtStart
  /\ phase # "locate" /\ in.target \in in.node =>
       Layering /\ Evaluated /\ Ended
  /\ VerdictInv

-----------------------------------------------------------------------------
\* Reachability and distance along one relationship.

\* What is reachable stays reachable one relationship further.
LEMMA ReachStep ==
  ASSUME NEW g, NEW t, NEW n, NEW m \in Related(g, n), Reachable(g, t, n)
  PROVE  Reachable(g, t, m)
BY DEF Reachable, Closed

\* The target is no hop away from itself.
LEMMA HopZero ==
  ASSUME NEW g, NEW t
  PROVE  WithinHops(g, t, t, 0)
BY DEF WithinHops, Potential

\* One relationship adds at most one hop: a potential for k + 1 hops, cut off
\* at k + 1, is one for k hops.
LEMMA HopStep ==
  ASSUME NEW g, NEW t \in g.node, NEW k \in Nat, NEW n \in g.node,
         NEW m \in Related(g, n), WithinHops(g, t, n, k)
  PROVE  WithinHops(g, t, m, k + 1)
<1> SUFFICES ASSUME NEW f \in [g.node -> 0..((k + 1) + 1)], Potential(g, t, f)
             PROVE  f[m] <= k + 1
  BY DEF WithinHops
<1> DEFINE h == [x \in g.node |-> IF f[x] <= k + 1 THEN f[x] ELSE k + 1]
<1>1. h \in [g.node -> 0..(k + 1)]
  OBVIOUS
<1>2. Potential(g, t, h)
  <2>1. ASSUME NEW x \in g.node, NEW y \in Related(g, x)
        PROVE  h[y] <= h[x] + 1
    <3>1. y \in g.node /\ f[y] <= f[x] + 1
      BY DEF Related, Potential
    <3>2. f[x] \in 0..((k + 1) + 1) /\ f[y] \in 0..((k + 1) + 1)
      BY <3>1
    <3>3. QED
      BY <3>1, <3>2
  <2>2. h[t] = 0
    BY DEF Potential
  <2>3. QED
    BY <2>1, <2>2 DEF Potential
<1>3. h[n] <= k
  BY <1>1, <1>2 DEF WithinHops
<1>4. f[n] \in 0..((k + 1) + 1) /\ f[n] <= k
  BY <1>3
<1>5. m \in g.node /\ f[m] <= f[n] + 1
  BY DEF Related, Potential
<1>6. f[m] \in 0..((k + 1) + 1)
  BY <1>5
<1>7. QED
  BY <1>4, <1>5, <1>6

-----------------------------------------------------------------------------
\* Everything within k hops has been visited, in layer k or before: the layer,
\* cut off at k + 1, is a potential.
LEMMA WithinVisited ==
  ASSUME TypeOK, Layering, NEW k \in 0..depth, NEW n \in in.node,
         WithinHops(in, in.target, n, k)
  PROVE  n \in visited /\ layer[n] <= k
<1> DEFINE f == [x \in in.node |->
                   IF x \in visited /\ layer[x] <= k THEN layer[x] ELSE k + 1]
<1> k \in Nat /\ depth \in Nat /\ layer \in [in.node -> Nat]
    /\ visited \subseteq in.node
  BY DEF TypeOK
<1>1. f \in [in.node -> 0..(k + 1)]
  OBVIOUS
<1>2. f[in.target] = 0
  BY DEF Layering
<1>3. ASSUME NEW x \in in.node, NEW y \in Related(in, x)
      PROVE  f[y] <= f[x] + 1
  <2>1. y \in in.node
    BY DEF Related
  <2>2. CASE f[x] = k + 1
    BY <1>1, <2>1, <2>2
  <2>3. CASE x \in visited /\ layer[x] <= k
    <3>1. CASE x \in frontier
      <4>1. layer[x] = k
        BY <2>3, <3>1 DEF Layering
      <4>2. QED
        BY <1>1, <2>1, <2>3, <4>1
    <3>2. CASE x \notin frontier
      <4>1. y \in visited /\ layer[y] <= layer[x] + 1
        BY <2>3, <3>2 DEF Layering
      <4>2. layer[x] \in Nat /\ layer[y] \in Nat
        BY <2>1
      <4>3. QED
        BY <2>1, <2>3, <4>1, <4>2
    <3>3. QED
      BY <3>1, <3>2
  <2>4. QED
    BY <2>2, <2>3
<1>4. Potential(in, in.target, f)
  BY <1>2, <1>3 DEF Potential
<1>5. f[n] <= k
  BY <1>1, <1>4 DEF WithinHops
<1>6. QED
  BY <1>5

-----------------------------------------------------------------------------

\* A diagnosis starts in the invariant.
LEMMA InitEngineInv == Init => EngineInv
<1> SUFFICES ASSUME Init PROVE EngineInv
  OBVIOUS
<1>1. TypeOK
  BY DEF Init, TypeOK, Phases, Verdicts
<1>2. AtStart /\ VerdictInv /\ phase = "locate"
  BY DEF Init, AtStart, VerdictInv
<1>3. QED
  BY <1>1, <1>2 DEF EngineInv

\* The target becomes layer 0.
LEMMA LocateInv == ASSUME EngineInv, Locate PROVE EngineInv'
<1> USE DEF EngineInv
<1>1. TypeOK'
  BY DEF Locate, TypeOK, Phases, Verdicts
<1>2. AtStart' /\ VerdictInv'
  BY DEF Locate, AtStart, VerdictInv
<1>3. ASSUME (phase # "locate" /\ in.target \in in.node)'
      PROVE  (Layering /\ Evaluated /\ Ended)'
  <2>1. /\ visited' = {in.target}
        /\ frontier' = {in.target}
        /\ phase' = "evaluate"
        /\ UNCHANGED <<in, order, depth, layer, exhausted, scanned, found>>
    BY <1>3 DEF Locate
  <2>2. depth = 0 /\ layer[in.target] = 0 /\ order = {} /\ found = {}
        /\ ~exhausted /\ ~scanned
    BY <1>3, <2>1 DEF AtStart, Locate
  <2>3. Reachable(in, in.target, in.target)
    BY DEF Reachable
  <2>4. WithinHops(in, in.target, in.target, 0)
    BY HopZero
  <2>5. Layering'
    BY <2>1, <2>2, <2>3, <2>4 DEF Layering
  <2>6. Evaluated'
    BY <2>1, <2>2 DEF Evaluated
  <2>7. in.maxDepth > 0 => 0 <= in.maxDepth
    BY InputsAssumption DEF TypeOK
  <2>8. Ended'
    BY <2>1, <2>2, <2>7 DEF Ended
  <2>9. QED
    BY <2>5, <2>6, <2>8
<1>4. QED
  BY <1>1, <1>2, <1>3

\* The layer is evaluated as a whole.
LEMMA EvaluateLayerInv == ASSUME EngineInv, EvaluateLayer PROVE EngineInv'
<1> USE DEF EngineInv
<1>1. TypeOK'
  BY DEF EvaluateLayer, TypeOK, Phases
<1>2. AtStart' /\ VerdictInv'
  BY DEF EvaluateLayer, AtStart, VerdictInv
<1>3. in.target \in in.node /\ Layering /\ Evaluated /\ Ended
  BY DEF EvaluateLayer, VerdictInv
<1>4. Layering'
  BY <1>3 DEF EvaluateLayer, Layering
<1>5. frontier \subseteq visited
  BY <1>3 DEF Layering
<1>6. Evaluated'
  BY <1>3, <1>5 DEF EvaluateLayer, Evaluated
<1>7. Ended'
  BY <1>3 DEF EvaluateLayer, Ended, Evaluated, Neighbours
<1>8. QED
  BY <1>1, <1>2, <1>4, <1>6, <1>7

\* The next layer consists of the unvisited neighbours; with none left the
\* visited nodes are closed under relationships.
LEMMA ExpandLayerInv == ASSUME EngineInv, ExpandLayer PROVE EngineInv'
<1> USE DEF EngineInv
<1> DEFINE next == Neighbours \ visited
<1>1. in.target \in in.node /\ Layering /\ Evaluated /\ Ended
  BY DEF ExpandLayer, VerdictInv
<1>2. next \subseteq in.node
  BY DEF Neighbours, Related
<1>3. TypeOK'
  <2>1. layer \in [in.node -> Nat] /\ depth \in Nat
    BY DEF TypeOK
  <2>2. layer' \in [in.node -> Nat] /\ depth' \in Nat
    BY <2>1 DEF ExpandLayer
  <2>3. visited' \subseteq in.node /\ frontier' \subseteq in.node
    BY <1>2 DEF ExpandLayer, TypeOK
  <2>4. phase' \in Phases /\ exhausted' \in BOOLEAN
    BY DEF ExpandLayer, TypeOK, Phases
  <2>5. QED
    BY <2>2, <2>3, <2>4 DEF ExpandLayer, TypeOK
<1>4. AtStart' /\ VerdictInv'
  BY DEF ExpandLayer, AtStart, VerdictInv
<1>5. frontier \subseteq visited /\ visited \subseteq in.node
  BY <1>1 DEF Layering, TypeOK
<1>6. depth \in Nat /\ layer \in [in.node -> Nat] /\ in.maxDepth \in Int
  BY InputsAssumption DEF TypeOK
<1>7. CASE next # {}
  <2>1. /\ visited' = visited \cup next
        /\ layer' = [n \in in.node |->
                       IF n \in next THEN depth + 1 ELSE layer[n]]
        /\ frontier' = next
        /\ depth' = depth + 1
        /\ phase' = "evaluate"
        /\ UNCHANGED <<in, order, exhausted, scanned, found>>
    BY <1>7 DEF ExpandLayer
  <2>2. \A n \in visited : layer'[n] = layer[n] /\ layer[n] <= depth
    BY <1>1, <1>5, <2>1 DEF Layering
  <2>3. \A n \in next : layer'[n] = depth + 1
    BY <1>2, <2>1
  <2>4. \A n \in visited : n \notin next /\ layer[n] \in Nat
    BY <1>5, <1>6
  <2>5. (frontier = {n \in visited : layer[n] = depth})'
    BY <1>6, <2>1, <2>2, <2>3, <2>4
  <2>6. ASSUME NEW n \in visited' PROVE layer'[n] <= depth'
    <3>1. CASE n \in visited
      BY <1>6, <2>1, <2>2, <2>4, <3>1
    <3>2. CASE n \in next
      BY <1>6, <2>1, <2>3, <3>2
    <3>3. QED
      BY <2>1, <3>1, <3>2
  <2>7. ASSUME NEW n \in visited, NEW m \in Related(in, n)
        PROVE  m \in visited' /\ layer'[m] <= layer'[n] + 1
    <3>1. CASE n \in frontier
      <4>1. layer[n] = depth
        BY <1>1, <3>1 DEF Layering
      <4>2. m \in visited \/ m \in next
        BY <3>1 DEF Neighbours
      <4>3. CASE m \in visited
        BY <1>6, <2>1, <2>2, <2>4, <4>1, <4>3
      <4>4. CASE m \in next
        BY <1>6, <2>1, <2>2, <2>3, <4>1, <4>4
      <4>5. QED
        BY <4>2, <4>3, <4>4
    <3>2. CASE n \notin frontier
      <4>1. m \in visited /\ layer[m] <= layer[n] + 1
        BY <1>1, <3>2 DEF Layering
      <4>2. QED
        BY <2>1, <2>2, <4>1
    <3>3. QED
      BY <3>1, <3>2
  <2>8. ASSUME NEW n \in next
        PROVE  /\ Reachable(in, in.target, n)
               /\ WithinHops(in, in.target, n, depth + 1)
    <3>1. PICK p \in frontier : n \in Related(in, p)
      BY DEF Neighbours
    <3>2. p \in visited /\ layer[p] = depth
      BY <1>1, <3>1 DEF Layering
    <3>3. Reachable(in, in.target, p) /\ WithinHops(in, in.target, p, depth)
      BY <1>1, <3>2 DEF Layering
    <3>4. Reachable(in, in.target, n)
      BY <3>1, <3>3, ReachStep
    <3>5. WithinHops(in, in.target, n, depth + 1)
      BY <1>1, <1>5, <1>6, <3>1, <3>2, <3>3, HopStep
    <3>6. QED
      BY <3>4, <3>5
  <2>9. (\A n \in visited : /\ Reachable(in, in.target, n)
                            /\ WithinHops(in, in.target, n, layer[n]))'
    BY <1>1, <2>1, <2>2, <2>3, <2>8 DEF Layering
  <2>10. (in.target \in visited /\ layer[in.target] = 0)'
    BY <1>1, <2>1, <2>2 DEF Layering
  <2>11. visited' \ frontier' = visited
    BY <2>1, <2>4
  <2>12. Layering'
    BY <2>1, <2>5, <2>6, <2>7, <2>9, <2>10, <2>11 DEF Layering
  <2>13. Evaluated'
    BY <1>1, <2>1, <2>11 DEF Evaluated, ExpandLayer
  <2>14. Ended'
    <3>1. in.maxDepth > 0 => depth + 1 <= in.maxDepth
      BY <1>6 DEF ExpandLayer, DepthLimitReached, UnlimitedDepth
    <3>2. QED
      BY <1>1, <2>1, <3>1 DEF Ended, Evaluated, ExpandLayer
  <2>15. QED
    BY <1>3, <1>4, <2>12, <2>13, <2>14
<1>8. CASE next = {}
  <2>1. /\ exhausted' = TRUE
        /\ phase' = "scan"
        /\ UNCHANGED <<in, visited, layer, frontier, depth, order, scanned,
                       found, verdict>>
    BY <1>8 DEF ExpandLayer
  <2>2. ASSUME NEW n \in visited
        PROVE  Related(in, n) \subseteq visited
    <3>1. CASE n \in frontier
      BY <1>8, <3>1 DEF Neighbours
    <3>2. CASE n \notin frontier
      BY <1>1, <3>2 DEF Layering
    <3>3. QED
      BY <3>1, <3>2
  <2>3. Closed(in, visited)
    BY <2>2 DEF Closed
  <2>4. Layering'
    BY <1>1, <2>1 DEF Layering
  <2>5. Evaluated'
    BY <1>1, <2>1 DEF Evaluated, ExpandLayer
  <2>6. Ended'
    BY <1>1, <2>1, <2>3 DEF Ended, Evaluated, ExpandLayer
  <2>7. QED
    BY <1>3, <1>4, <2>4, <2>5, <2>6
<1>9. QED
  BY <1>7, <1>8

\* The depth limit: an unvisited neighbour means that nodes were left out.
LEMMA StopAtDepthInv == ASSUME EngineInv, StopAtDepth PROVE EngineInv'
<1> USE DEF EngineInv
<1>1. in.target \in in.node /\ Layering /\ Evaluated /\ Ended
  BY DEF StopAtDepth, VerdictInv
<1>2. TypeOK'
  BY DEF StopAtDepth, TypeOK, Phases
<1>3. AtStart' /\ VerdictInv'
  BY DEF StopAtDepth, AtStart, VerdictInv
<1>4. Layering' /\ Evaluated'
  BY <1>1 DEF StopAtDepth, Layering, Evaluated
<1>5. in.maxDepth > 0 /\ depth = in.maxDepth
  <2>1. in.maxDepth \in Int /\ depth \in Nat
    BY InputsAssumption DEF TypeOK
  <2>2. QED
    BY <1>1, <2>1 DEF StopAtDepth, DepthLimitReached, UnlimitedDepth, Ended
<1>6. exhausted' => Closed(in, visited)
  <2>1. ASSUME exhausted', NEW n \in visited
        PROVE  Related(in, n) \subseteq visited
    <3>1. CASE n \in frontier
      BY <2>1, <3>1 DEF StopAtDepth, Truncated, Neighbours
    <3>2. CASE n \notin frontier
      BY <1>1, <3>2 DEF Layering
    <3>3. QED
      BY <3>1, <3>2
  <2>2. QED
    BY <2>1 DEF Closed
<1>7. Ended'
  BY <1>1, <1>5, <1>6 DEF StopAtDepth, Ended, Evaluated, Truncated, Neighbours
<1>8. QED
  BY <1>2, <1>3, <1>4, <1>7

\* The scan replaces an empty result by that of the namespace's remainder.
LEMMA ScanInv == ASSUME EngineInv, ScanNamespaceRemainder PROVE EngineInv'
<1> USE DEF EngineInv
<1>1. in.target \in in.node /\ Layering /\ Evaluated /\ Ended
  BY DEF ScanNamespaceRemainder, VerdictInv
<1>2. TypeOK'
  BY DEF ScanNamespaceRemainder, TypeOK, Phases, Remainder
<1>3. AtStart' /\ VerdictInv'
  BY DEF ScanNamespaceRemainder, AtStart, VerdictInv
<1>4. Layering'
  BY <1>1 DEF ScanNamespaceRemainder, Layering
<1>5. Evaluated'
  BY <1>1 DEF ScanNamespaceRemainder, Evaluated, Remainder
<1>6. Ended'
  BY <1>1 DEF ScanNamespaceRemainder, Ended, Evaluated, Neighbours
<1>7. QED
  BY <1>2, <1>3, <1>4, <1>5, <1>6

\* The summary follows the result.
LEMMA ReportInv == ASSUME EngineInv, Report PROVE EngineInv'
<1> USE DEF EngineInv
<1>1. in.target \in in.node /\ Layering /\ Evaluated /\ Ended
  BY DEF Report, VerdictInv
<1>2. TypeOK'
  BY DEF Report, TypeOK, Phases, Verdicts
<1>3. AtStart' /\ VerdictInv'
  BY <1>1 DEF Report, AtStart, VerdictInv
<1>4. Layering' /\ Evaluated' /\ Ended'
  BY <1>1 DEF Report, Layering, Evaluated, Ended, Remainder, Neighbours
<1>5. QED
  BY <1>2, <1>3, <1>4

\* A step that changes nothing keeps the invariant.
LEMMA StutterInv == ASSUME EngineInv, UNCHANGED vars PROVE EngineInv'
BY DEF vars, EngineInv, TypeOK, AtStart, Layering, Evaluated, Ended, VerdictInv,
       Neighbours, Remainder

\* Every step of a diagnosis keeps the invariant.
LEMMA NextEngineInv == EngineInv /\ [Next]_vars => EngineInv'
<1> SUFFICES ASSUME EngineInv, [Next]_vars PROVE EngineInv'
  OBVIOUS
<1>1. CASE Locate
  BY <1>1, LocateInv
<1>2. CASE EvaluateLayer
  BY <1>2, EvaluateLayerInv
<1>3. CASE ExpandLayer
  BY <1>3, ExpandLayerInv
<1>4. CASE StopAtDepth
  BY <1>4, StopAtDepthInv
<1>5. CASE ScanNamespaceRemainder
  BY <1>5, ScanInv
<1>6. CASE Report
  BY <1>6, ReportInv
<1>7. CASE UNCHANGED vars
  BY <1>7, StutterInv
<1>8. QED
  BY <1>1, <1>2, <1>3, <1>4, <1>5, <1>6, <1>7 DEF Next, Step, Done

-----------------------------------------------------------------------------
\* The properties follow from the invariant.

\* A diagnosis that reached its summary with a target in the graph.
LEMMA AtVerdict ==
  ASSUME EngineInv, verdict \in {"root cause", "healthy", "none in depth"}
  PROVE  /\ phase = "done"
         /\ in.target \in in.node /\ in.faulty \subseteq in.node
         /\ Layering /\ Evaluated /\ Ended
BY InputsAssumption DEF EngineInv, TypeOK, VerdictInv

\* A traversal that left nothing out and found nothing has seen everything
\* that is related to the target.
LEMMA NothingRelatedIsFaulty ==
  ASSUME EngineInv, exhausted, phase = "done", in.target \in in.node,
         NEW n \in in.faulty
  PROVE  n \notin visited /\ ~Reachable(in, in.target, n)
<1>1. Layering /\ Evaluated /\ Ended
  BY DEF EngineInv
<1>2. n \notin visited
  BY <1>1 DEF Evaluated, Ended
<1>3. visited \in SUBSET in.node
  BY DEF EngineInv, TypeOK
<1>4. in.target \in visited /\ Closed(in, visited)
  BY <1>1 DEF Layering, Ended
<1>5. QED
  BY <1>2, <1>3, <1>4 DEF Reachable

\* The last layer and the one before it.
LEMMA BelowDepth ==
  \A d \in Nat : d \in 0..d /\ (d > 0 => d - 1 \in 0..d /\ ~(d <= d - 1))
OBVIOUS

\* The invariant gives the meaning of the healthy verdict.
LEMMA InvHealthy == EngineInv => HealthyIsTrue
<1> SUFFICES ASSUME EngineInv, verdict = "healthy", NEW n \in in.faulty
             PROVE  /\ ~Reachable(in, in.target, n)
                    /\ in.scan /\ in.namespace[n] = in.namespace[in.target] =>
                         n \in in.placeholder
  BY DEF HealthyIsTrue
<1>1. /\ phase = "done" /\ in.target \in in.node /\ n \in in.node
      /\ Evaluated /\ Ended
  BY AtVerdict
<1>2. exhausted /\ found = {}
  BY DEF EngineInv, VerdictInv
<1>3. n \notin visited /\ ~Reachable(in, in.target, n)
  BY <1>1, <1>2, NothingRelatedIsFaulty
<1>4. in.scan => n \notin order /\ Remainder = {}
  BY <1>1, <1>2, <1>3 DEF Evaluated, Ended
<1>5. QED
  BY <1>1, <1>3, <1>4 DEF Remainder

\* It gives that the reported faults are the nearest ones.
LEMMA InvNearest == EngineInv => NearestFaultsReported
<1> SUFFICES ASSUME EngineInv, verdict = "root cause", ~scanned
             PROVE  /\ found = {n \in in.faulty :
                                  WithinHops(in, in.target, n, depth)}
                    /\ depth > 0 =>
                         \A n \in in.faulty :
                           ~WithinHops(in, in.target, n, depth - 1)
                    /\ in.maxDepth > 0 => depth <= in.maxDepth
  BY DEF NearestFaultsReported
<1>1. /\ phase = "done" /\ in.target \in in.node /\ in.faulty \subseteq in.node
      /\ Layering /\ Evaluated /\ Ended
  BY AtVerdict
<1>2. found = frontier \cap in.faulty
  BY <1>1 DEF Evaluated
<1>3. TypeOK /\ depth \in Nat
  BY DEF EngineInv, TypeOK
<1>4. ASSUME NEW n \in in.faulty, n \in visited
      PROVE  n \in frontier /\ layer[n] = depth
  BY <1>1, <1>4 DEF Evaluated, Layering
<1>5. ASSUME NEW n \in in.faulty, WithinHops(in, in.target, n, depth)
      PROVE  n \in frontier
  <2>1. depth \in 0..depth
    BY <1>3, BelowDepth
  <2>2. n \in visited
    BY <1>1, <1>3, <1>5, <2>1, WithinVisited
  <2>3. QED
    BY <1>4, <2>2
<1>6. ASSUME NEW n \in frontier \cap in.faulty
      PROVE  WithinHops(in, in.target, n, depth)
  BY <1>1 DEF Layering
<1>7. ASSUME depth > 0, NEW n \in in.faulty,
             WithinHops(in, in.target, n, depth - 1)
      PROVE  FALSE
  <2>1. depth - 1 \in 0..depth /\ ~(depth <= depth - 1)
    BY <1>3, <1>7, BelowDepth
  <2>2. n \in visited /\ layer[n] <= depth - 1
    BY <1>1, <1>3, <1>7, <2>1, WithinVisited
  <2>3. layer[n] = depth
    BY <1>4, <2>2
  <2>4. QED
    BY <2>1, <2>2, <2>3
<1>8. in.maxDepth > 0 => depth <= in.maxDepth
  BY <1>1 DEF Ended
<1>9. QED
  BY <1>2, <1>5, <1>6, <1>7, <1>8

\* It gives the meaning of the depth-limit verdict.
LEMMA InvDepthVerdict == EngineInv => DepthVerdictIsTrue
<1> SUFFICES ASSUME EngineInv, verdict = "none in depth"
             PROVE  /\ in.maxDepth > 0
                    /\ \A n \in in.faulty :
                         ~WithinHops(in, in.target, n, in.maxDepth)
                    /\ \E n \in in.node :
                         /\ Reachable(in, in.target, n)
                         /\ ~WithinHops(in, in.target, n, in.maxDepth)
  BY DEF DepthVerdictIsTrue
<1>1. /\ phase = "done" /\ in.target \in in.node /\ in.faulty \subseteq in.node
      /\ Layering /\ Evaluated /\ Ended
  BY AtVerdict
<1>2. ~exhausted /\ found = {} /\ ~scanned
  BY <1>1 DEF EngineInv, VerdictInv, Ended
<1>3. TypeOK /\ depth \in Nat
  BY DEF EngineInv, TypeOK
<1>4. in.maxDepth > 0 /\ depth = in.maxDepth /\ ~(Neighbours \subseteq visited)
  BY <1>1, <1>2 DEF Ended
<1>5. ASSUME NEW n \in in.node, WithinHops(in, in.target, n, in.maxDepth)
      PROVE  n \in visited
  <2>1. depth \in 0..depth
    BY <1>3, BelowDepth
  <2>2. QED
    BY <1>1, <1>3, <1>4, <1>5, <2>1, WithinVisited
<1>6. \A n \in visited : n \notin in.faulty
  BY <1>1, <1>2 DEF Evaluated
<1>7. PICK p \in frontier : \E m \in Related(in, p) : m \notin visited
  BY <1>4 DEF Neighbours
<1>8. PICK m \in Related(in, p) : m \notin visited
  BY <1>7
<1>9. m \in in.node
  BY DEF Related
<1>10. Reachable(in, in.target, p)
  BY <1>1 DEF Layering
<1>11. Reachable(in, in.target, m)
  BY <1>10, ReachStep
<1>12. QED
  BY <1>1, <1>4, <1>5, <1>6, <1>8, <1>9, <1>11

\* It gives that the namespace scan comes last.
LEMMA InvLastResort == EngineInv => ScanIsLastResort
<1> SUFFICES ASSUME EngineInv, verdict = "root cause", scanned
             PROVE  /\ \A n \in in.faulty : ~Reachable(in, in.target, n)
                    /\ \A n \in found :
                         /\ n \notin in.placeholder
                         /\ in.namespace[n] = in.namespace[in.target]
  BY DEF ScanIsLastResort
<1>1. phase = "done" /\ in.target \in in.node /\ Evaluated /\ Ended
  BY AtVerdict
<1>2. exhausted /\ found = Remainder
  BY <1>1 DEF Evaluated, Ended
<1>3. QED
  BY <1>1, <1>2, NothingRelatedIsFaulty DEF Remainder

-----------------------------------------------------------------------------
\* The contract (module DiagnosisContract).

\* What is within k hops is within any larger number of them: a potential for m
\* hops, cut off at k + 1, is one for k hops.
LEMMA HopsGrow ==
  ASSUME NEW g, NEW t \in g.node, NEW k \in Nat, NEW m \in Nat, k <= m,
         NEW n \in g.node, WithinHops(g, t, n, k)
  PROVE  WithinHops(g, t, n, m)
<1> SUFFICES ASSUME NEW f \in [g.node -> 0..(m + 1)], Potential(g, t, f)
             PROVE  f[n] <= m
  BY DEF WithinHops
<1> DEFINE h == [x \in g.node |-> IF f[x] <= k + 1 THEN f[x] ELSE k + 1]
<1>1. h \in [g.node -> 0..(k + 1)]
  OBVIOUS
<1>2. Potential(g, t, h)
  <2>1. ASSUME NEW x \in g.node, NEW y \in Related(g, x)
        PROVE  h[y] <= h[x] + 1
    <3>1. y \in g.node /\ f[y] <= f[x] + 1
      BY DEF Related, Potential
    <3>2. f[x] \in 0..(m + 1) /\ f[y] \in 0..(m + 1)
      BY <3>1
    <3>3. QED
      BY <3>1, <3>2
  <2>2. h[t] = 0
    BY DEF Potential
  <2>3. QED
    BY <2>1, <2>2 DEF Potential
<1>3. h[n] <= k
  BY <1>1, <1>2 DEF WithinHops
<1>4. f[n] \in 0..(m + 1)
  OBVIOUS
<1>5. QED
  BY <1>3, <1>4

\* A traversal that left nothing out stayed within the limit all the way.
LEMMA ExhaustedSeesAll ==
  ASSUME EngineInv, exhausted, phase = "done", in.target \in in.node
  PROVE  Contract!SeesAll(in)
<1> SUFFICES ASSUME in.maxDepth > 0, NEW n \in in.node, Reachable(in, in.target, n)
             PROVE  WithinHops(in, in.target, n, in.maxDepth)
  BY DEF Contract!SeesAll, Reaches, InHops
<1>1. Layering /\ Ended /\ TypeOK
  BY DEF EngineInv
<1>2. visited \in SUBSET in.node /\ in.target \in visited /\ Closed(in, visited)
  BY <1>1 DEF TypeOK, Layering, Ended
<1>3. n \in visited
  BY <1>2 DEF Reachable
<1>4. WithinHops(in, in.target, n, layer[n]) /\ layer[n] <= depth /\ depth <= in.maxDepth
  BY <1>1, <1>3 DEF Layering, Ended
<1>5. layer[n] \in Nat /\ depth \in Nat /\ in.maxDepth \in Int
  BY <1>1, InputsAssumption DEF TypeOK
<1>6. in.maxDepth \in Nat /\ layer[n] <= in.maxDepth
  BY <1>4, <1>5
<1>7. QED
  BY <1>4, <1>5, <1>6, HopsGrow

\* Findings of the traversal are the nearest faults.
LEMMA NearestAnswer ==
  ASSUME EngineInv, verdict = "root cause", ~scanned
  PROVE  Contract!Nearest(in, depth, found)
<1>1. /\ found = {n \in in.faulty : WithinHops(in, in.target, n, depth)}
      /\ depth > 0 =>
           \A n \in in.faulty : ~WithinHops(in, in.target, n, depth - 1)
      /\ in.maxDepth > 0 => depth <= in.maxDepth
  BY InvNearest DEF NearestFaultsReported
<1>2. found # {}
  BY DEF EngineInv, VerdictInv
<1>3. found = Contract!FaultsWithin(in, depth)
  BY <1>1 DEF Contract!FaultsWithin, InHops
<1>4. depth > 0 => Contract!FaultsWithin(in, depth - 1) = {}
  BY <1>1 DEF Contract!FaultsWithin, InHops
<1>5. QED
  BY <1>1, <1>2, <1>3, <1>4 DEF Contract!Nearest

\* Findings of the scan are all faults of the namespace: none of them has been
\* evaluated before.
LEMMA LastResortAnswer ==
  ASSUME EngineInv, verdict = "root cause", scanned
  PROVE  Contract!LastResort(in, found)
<1>1. /\ phase = "done" /\ in.target \in in.node /\ in.faulty \subseteq in.node
      /\ Evaluated /\ Ended
  BY AtVerdict
<1>2. exhausted /\ found = Remainder /\ order = visited
  BY <1>1 DEF Evaluated, Ended
<1>3. \A n \in in.faulty : n \notin visited /\ ~Reachable(in, in.target, n)
  BY <1>1, <1>2, NothingRelatedIsFaulty
<1>4. found = Contract!NamespaceFaults(in)
  BY <1>1, <1>2, <1>3 DEF Contract!NamespaceFaults, Remainder
<1>5. Contract!RelatedFaults(in) = {}
  BY <1>3 DEF Contract!RelatedFaults, Reaches
<1>6. found # {} /\ in.scan
  BY <1>1 DEF EngineInv, VerdictInv, Ended
<1>7. Contract!SeesAll(in)
  BY <1>1, <1>2, ExhaustedSeesAll
<1>8. QED
  BY <1>4, <1>5, <1>6, <1>7 DEF Contract!LastResort

\* A healthy verdict is one the contract allows.
LEMMA HealthyAnswer ==
  ASSUME EngineInv, verdict = "healthy"
  PROVE  Contract!Healthy(in)
<1>1. \A n \in in.faulty :
        /\ ~Reachable(in, in.target, n)
        /\ in.scan /\ in.namespace[n] = in.namespace[in.target] =>
             n \in in.placeholder
  BY InvHealthy DEF HealthyIsTrue
<1>2. Contract!RelatedFaults(in) = {}
  BY <1>1 DEF Contract!RelatedFaults, Reaches
<1>3. in.scan => Contract!NamespaceFaults(in) = {}
  BY <1>1 DEF Contract!NamespaceFaults
<1>4. Contract!SeesAll(in)
  BY AtVerdict, ExhaustedSeesAll DEF EngineInv, VerdictInv
<1>5. QED
  BY <1>2, <1>3, <1>4 DEF Contract!Healthy

\* So is a verdict about the depth limit.
LEMMA NoneInDepthAnswer ==
  ASSUME EngineInv, verdict = "none in depth"
  PROVE  Contract!NoneInDepth(in)
<1>1. /\ in.maxDepth > 0
      /\ \A n \in in.faulty : ~WithinHops(in, in.target, n, in.maxDepth)
      /\ \E n \in in.node : /\ Reachable(in, in.target, n)
                            /\ ~WithinHops(in, in.target, n, in.maxDepth)
  BY InvDepthVerdict DEF DepthVerdictIsTrue
<1>2. Contract!FaultsWithin(in, in.maxDepth) = {}
  BY <1>1 DEF Contract!FaultsWithin, InHops
<1>3. ~Contract!SeesAll(in)
  BY <1>1 DEF Contract!SeesAll, Reaches, InHops
<1>4. QED
  BY <1>2, <1>3 DEF Contract!NoneInDepth

\* Diagnose has returned, and "not found" is the truth.
Answered ==
  /\ phase = "done"
  /\ verdict # "none"
  /\ verdict = "not found" => in.target \notin in.node /\ found = {}

\* Whatever a finished diagnosis says is an answer of the contract.
LEMMA DoneAnswers ==
  EngineInv /\ Answered => Contract!Answers(in, depth, found, verdict)
<1> SUFFICES ASSUME EngineInv, Answered
             PROVE  Contract!Answers(in, depth, found, verdict)
  OBVIOUS
<1> USE DEF Answered
<1>1. verdict \in {"not found", "root cause", "healthy", "none in depth"}
  BY DEF EngineInv, TypeOK, Verdicts
<1>2. CASE verdict = "not found"
  BY <1>2 DEF Contract!Answers
<1>3. CASE verdict = "root cause"
  BY <1>3, AtVerdict, NearestAnswer, LastResortAnswer DEF Contract!Answers
<1>4. CASE verdict = "healthy"
  <2>1. found = {}
    BY <1>4 DEF EngineInv, VerdictInv
  <2>2. QED
    BY <1>4, <2>1, AtVerdict, HealthyAnswer DEF Contract!Answers
<1>5. CASE verdict = "none in depth"
  <2>1. found = {}
    BY <1>5 DEF EngineInv, VerdictInv
  <2>2. QED
    BY <1>5, <2>1, AtVerdict, NoneInDepthAnswer DEF Contract!Answers
<1>6. QED
  BY <1>1, <1>2, <1>3, <1>4, <1>5

\* A step that ends the call is the answer; every other one is a stutter.
LEMMA StepContract ==
  ASSUME EngineInv, EngineInv', [Next]_vars
  PROVE  [Contract!Answer]_(Contract!vars)
<1>1. ASSUME phase # "done", in' = in, Answered'
      PROVE  Contract!Answer
  <2>1. Contract!Answers(in, depth, found, verdict)'
    BY <1>1, DoneAnswers, PTL
  <2>2. depth' \in Nat
    BY DEF EngineInv, TypeOK
  <2>3. QED
    BY <1>1, <2>1, <2>2 DEF Contract!Answer, Answered
<1>2. CASE Locate
  <2>1. CASE in.target \in in.node /\ phase' = "evaluate" /\ UNCHANGED verdict
    BY <1>2, <2>1 DEF Locate, Contract!vars
  <2>2. CASE in.target \notin in.node /\ verdict' = "not found" /\ phase' = "done"
    <3>1. found' = {}
      BY <1>2 DEF Locate, EngineInv, AtStart
    <3>2. Answered'
      BY <1>2, <2>2, <3>1 DEF Locate, Answered
    <3>3. QED
      BY <1>1, <1>2, <3>2 DEF Locate
  <2>3. QED
    BY <1>2, <2>1, <2>2 DEF Locate
<1>3. CASE EvaluateLayer
  BY <1>3 DEF EvaluateLayer, Contract!vars
<1>4. CASE ExpandLayer
  BY <1>4 DEF ExpandLayer, Contract!vars
<1>5. CASE StopAtDepth
  BY <1>5 DEF StopAtDepth, Contract!vars
<1>6. CASE ScanNamespaceRemainder
  BY <1>6 DEF ScanNamespaceRemainder, Contract!vars
<1>7. CASE Report
  <2>1. verdict' \in {"root cause", "healthy", "none in depth"}
    BY <1>7 DEF Report
  <2>2. Answered'
    BY <1>7, <2>1 DEF Report, Answered
  <2>3. QED
    BY <1>1, <1>7, <2>2 DEF Report
<1>8. CASE UNCHANGED vars
  BY <1>8 DEF vars, Contract!vars
<1>9. QED
  BY <1>2, <1>3, <1>4, <1>5, <1>6, <1>7, <1>8 DEF Next, Step, Done

\* A call that has not begun is one the contract has not answered.
LEMMA InitContract == Init => Contract!Init
BY DEF Init, Contract!Init

-----------------------------------------------------------------------------

\* The invariant holds in every state of every behaviour.
THEOREM EngineInvariant == Spec => []EngineInv
<1>1. Init => EngineInv
  BY InitEngineInv
<1>2. EngineInv /\ [Next]_vars => EngineInv'
  BY NextEngineInv
<1>3. QED
  BY <1>1, <1>2, PTL DEF Spec

\* The traversal's book-keeping stays within the graph (diagnoseUntilFound).
THEOREM TypeCorrect == Spec => []TypeOK
<1>1. EngineInv => TypeOK
  BY DEF EngineInv
<1>2. QED
  BY <1>1, EngineInvariant, PTL

\* "appears healthy" is the truth about the whole related part of the graph,
\* and with the scan about the namespace (Diagnose, `case exhausted`).
THEOREM HealthyVerdict == Spec => []HealthyIsTrue
BY EngineInvariant, InvHealthy, PTL

\* The traversal reports exactly the nearest findings (diagnoseUntilFound,
\* "It stops as soon as a layer produces findings").
THEOREM NearestFindings == Spec => []NearestFaultsReported
BY EngineInvariant, InvNearest, PTL

\* "no issues found within N graph hop(s)" is exact about N and about there
\* being more to see (Diagnose, the default case of the summary).
THEOREM DepthVerdict == Spec => []DepthVerdictIsTrue
BY EngineInvariant, InvDepthVerdict, PTL

\* The namespace scan accuses only unrelated objects of the namespace that
\* exist, and only when nothing related is at fault (scanNamespaceRemainder).
THEOREM LastResort == Spec => []ScanIsLastResort
BY EngineInvariant, InvLastResort, PTL

\* Diagnose, with its layers, its limit and its scan, is an implementation of
\* the one-step diagnosis its comments promise.
THEOREM EngineImplementsContract == Spec => ImplementsContract
<1>1. Init => Contract!Init
  BY InitContract
<1>2. EngineInv /\ EngineInv' /\ [Next]_vars => [Contract!Answer]_(Contract!vars)
  BY StepContract
<1>3. QED
  BY <1>1, <1>2, EngineInvariant, PTL DEF Spec, ImplementsContract, Contract!Spec

=============================================================================
