-------------------------------- MODULE Hops --------------------------------
(***************************************************************************)
(* Reachability and hop distance in a resource graph, stated without       *)
(* following any particular traversal, so that what the engine's           *)
(* breadth-first search computes can be compared with them. A graph is a   *)
(* record [node, edge] of a set of nodes and a set of ordered pairs, as in *)
(* the Graphs module. Relationships are followed in both directions, the   *)
(* way Graph.GetRelatedNodes does (src/internal/graph/graph.go).           *)
(***************************************************************************)
EXTENDS Naturals

\* Graph.GetRelatedNodes: the targets of n's outbound edges and the sources of
\* its inbound ones.
Related(g, n) ==
  {m \in g.node : <<n, m>> \in g.edge \/ <<m, n>> \in g.edge}

\* S cannot be left along a relationship.
Closed(g, S) == \A n \in S : Related(g, n) \subseteq S

\* n belongs to every closed set around t: some chain of relationships leads
\* from t to n.
Reachable(g, t, n) ==
  \A S \in SUBSET g.node : t \in S /\ Closed(g, S) => n \in S

\* A labelling that starts at 0 in t and grows by at most one along every
\* relationship is a lower bound of the distance from t.
Potential(g, t, f) ==
  /\ f[t] = 0
  /\ \A n \in g.node : \A m \in Related(g, n) : f[m] <= f[n] + 1

\* n is at most k relationships away from t: no potential puts it beyond k.
\* (The distance itself, cut off at k + 1, is one of the potentials.)
WithinHops(g, t, n, k) ==
  \A f \in [g.node -> 0..(k + 1)] : Potential(g, t, f) => f[n] <= k

=============================================================================
