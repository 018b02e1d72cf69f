------------------------------ MODULE Findings ------------------------------
(***************************************************************************)
(* What Engine.Diagnose does with the findings of the rules before it      *)
(* reports them (src/internal/diagnose/engine.go): count independent       *)
(* evidence, drop generic findings that repeat a specific one, rank by     *)
(* position in the graph, sort, and assemble root cause, explanations and  *)
(* suggestions. Each pass is a step.                                       *)
(*                                                                         *)
(* A finding is a record [id, res, sev, conf, ev, fix, corr]: rule id,     *)
(* resource, severity rank, confidence (a number), a set of evidence       *)
(* [type, sig], a sequence of suggestions, and the corroboration score.    *)
(* `sig` stands for evidenceSignature, the raw text and message of a piece *)
(* of evidence; of confidences only the order counts.                      *)
(***************************************************************************)
EXTENDS Integers, FiniteSets, SequencesExt

CONSTANTS
  Graphs,     \* records [node, edge]: nodes and their directed edges
  Target,     \* the node being diagnosed
  RawLists,   \* the finding lists the rules may produce
  IdRank      \* the rule ids' positions in string order

ASSUME GraphsAssumption ==
  \A g \in Graphs :
    IsFiniteSet(g.node) /\ Target \in g.node /\ g.edge \subseteq g.node \X g.node

ASSUME IdRankAssumption ==
  \A id, other \in DOMAIN IdRank :
    IdRank[id] \in Int /\ (IdRank[id] = IdRank[other] => id = other)

\* The two generic rules, and the kind of evidence each of them repeats.
Generic == [id : {"warning-events"}, type : {"event"}]
             \cup [id : {"log-signal"}, type : {"log"}]
GenericIds == {g.id : g \in Generic}

IsFinding(f) ==
  /\ f = [id |-> f.id, res |-> f.res, sev |-> f.sev, conf |-> f.conf,
          ev |-> f.ev, fix |-> f.fix, corr |-> f.corr]
  /\ f.id \in DOMAIN IdRank
  /\ f.sev \in Int /\ f.conf \in Int
  /\ IsFiniteSet(f.ev)

\* severityRank of a warning.
Warning == 2

\* Both generic rules give warnings, and so does, at least, any rule that shows
\* an event or a log: the findings with a lower severity show specs only.
IsRawList(fs) ==
  /\ fs \in Seq(ToSet(fs))
  /\ \A f \in ToSet(fs) :
       /\ IsFinding(f)
       /\ f.id \in GenericIds => f.sev = Warning
       /\ \A e \in f.ev : e.type \in {"event", "log"} => f.sev >= Warning

ASSUME RawListsAssumption == \A fs \in RawLists : IsRawList(fs)

VARIABLES
  graph,       \* the resource graph
  raw,         \* what the rules returned, in evaluation order
  stage,       \* the next pass
  list,        \* findings after the passes so far
  bias,        \* rankRootCauseBias by resource
  rootCause,   \* <<>>, or the finding reported as the root cause
  explained,   \* resource -> id of the finding that explains it in the chain
  suggestions  \* aggregated suggestions

vars == <<graph, raw, stage, list, bias, rootCause, explained, suggestions>>

Stages == {"annotate", "suppress", "rank", "sort", "assemble", "done"}

Resources == {f.res : f \in ToSet(raw)}

TypeOK ==
  /\ graph \in Graphs
  /\ raw \in RawLists
  /\ stage \in Stages
  /\ Len(list) <= Len(raw)
  /\ \A i \in DOMAIN list :
       \E f \in ToSet(raw) : list[i] = [f EXCEPT !.corr = list[i].corr]
  /\ Len(rootCause) <= 1
  /\ DOMAIN explained \subseteq Resources

-----------------------------------------------------------------------------
\* annotateCorroboration

\* One point per kind of evidence, and more for kinds that confirm each other.
Corroboration(f) ==
  LET types == {e.type : e \in f.ev}
      both(a, b, points) == IF {a, b} \subseteq types THEN points ELSE 0
  IN  Cardinality(types) + both("event", "log", 2)
        + both("event", "status", 1) + both("condition", "log", 1)

-----------------------------------------------------------------------------
\* suppressRedundantBuiltinFindings

\* The elements of the finite set S in the order R, a set of pairs: each in the
\* place that the number of those before it gives it.
NumberBefore(S, R, i) == Cardinality({j \in S : <<j, i>> \in R})
Arranged(S, R) ==
  [k \in 1..Cardinality(S) |-> CHOOSE i \in S : NumberBefore(S, R, i) = k - 1]

\* Mutant of Redundant: generic findings count as specific ones.
RedundantToAny(fs, f) ==
  \E g \in Generic, i \in DOMAIN fs :
    /\ f.id = g.id
    /\ fs[i].res = f.res
    /\ \E e \in f.ev \cap fs[i].ev : e.type = g.type

\* f is generic and shows nothing that a specific finding about the same
\* resource does not show, too.
Redundant(fs, f) ==
  \E g \in Generic, i \in DOMAIN fs :
    /\ f.id = g.id
    /\ fs[i].id \notin GenericIds
    /\ fs[i].res = f.res
    /\ \E e \in f.ev \cap fs[i].ev : e.type = g.type

\* What stays, in its order.
suppressRedundantBuiltinFindings(fs) ==
  LET kept == {i \in DOMAIN fs : ~Redundant(fs, fs[i])}
      place == Arranged(kept, {p \in kept \X kept : p[1] < p[2]})
  IN  [k \in DOMAIN place |-> fs[place[k]]]

-----------------------------------------------------------------------------
\* rankRootCauseBias

\* Nodes one directed edge away from a set of nodes.
Successors(g, S, outbound) ==
  {m \in g.node : \E n \in S :
     IF outbound THEN <<n, m>> \in g.edge ELSE <<m, n>> \in g.edge}

\* What bfsDistance has found after i rounds.
Found(g, t, outbound) ==
  LET found[i \in Nat] == IF i = 0 THEN {t}
                          ELSE found[i - 1] \cup Successors(g, found[i - 1], outbound)
  IN  found

\* The distance of a node is the round it is found in, and there are no more
\* rounds than nodes.
bfsDistance(g, t, outbound) ==
  LET found == Found(g, t, outbound)
      last == Cardinality(g.node)
  IN  [n \in found[last] |->
         CHOOSE i \in 0..last : n \in found[i] /\ \A j \in 0..(i - 1) : n \notin found[j]]

\* Dependencies of the target count most, the nearer the more; dependents and
\* the target itself count a little.
BiasOf(out, inb, r) ==
  (IF r \in DOMAIN out /\ out[r] > 0
   THEN 4 + (IF out[r] <= 3 THEN 4 - out[r] ELSE 0) ELSE 0)
  + (IF r \in DOMAIN inb
     THEN 1 + (IF inb[r] <= 2 THEN 2 - inb[r] ELSE 0) ELSE 0)

rankRootCauseBias(g, t, fs) ==
  LET out == bfsDistance(g, t, TRUE)
      inb == bfsDistance(g, t, FALSE)
  IN  [r \in {f.res : f \in ToSet(fs)} |-> BiasOf(out, inb, r)]

-----------------------------------------------------------------------------
\* sortFindings

\* What the comparison function looks at, in order.
\* Mutant of Precedence: the most confident finding comes first.
ConfidenceFirst(b, f) == <<f.conf, f.sev, f.corr, b[f.res], -IdRank[f.id]>>

\* Mutant of Precedence: without a last tie-break.
WithoutId(b, f) == <<f.sev, f.corr, b[f.res], f.conf>>

\* Mutant of Precedence: confidence is compared before the position.
ConfidenceBeforeBias(b, f) == <<f.sev, f.corr, f.conf, b[f.res], -IdRank[f.id]>>

Precedence(b, f) == <<f.sev, f.corr, b[f.res], f.conf, -IdRank[f.id]>>

Before(b, x, y) ==
  LET p == Precedence(b, x)
      q == Precedence(b, y)
  IN  \E i \in DOMAIN p : p[i] > q[i] /\ \A k \in 1..(i - 1) : p[k] = q[k]

\* Equal findings keep the order they were found in.
Earlier(b, fs) ==
  {p \in (DOMAIN fs) \X DOMAIN fs :
     \/ Before(b, fs[p[1]], fs[p[2]])
     \/ ~Before(b, fs[p[2]], fs[p[1]]) /\ p[1] < p[2]}

\* sort.SliceStable
sortFindings(b, fs) ==
  LET place == Arranged(DOMAIN fs, Earlier(b, fs))
  IN  [k \in DOMAIN place |-> fs[place[k]]]

-----------------------------------------------------------------------------
\* aggregateSuggestions and buildChain

\* Suggestions of all findings in order, each of them once.
aggregateSuggestions(fs) ==
  LET add(acc, s) == IF s \in ToSet(acc) THEN acc ELSE Append(acc, s)
  IN  FoldLeft(add, <<>>, FlattenSeq([i \in DOMAIN fs |-> fs[i].fix]))

\* The explanation of a resource in the chain: that of its first finding.
firstFinding(fs, r) ==
  CHOOSE i \in DOMAIN fs : /\ fs[i].res = r
                           /\ \A j \in 1..(i - 1) : fs[j].res # r

\* Mutant of explanations: a later finding replaces an earlier one.
lastExplanations(fs) ==
  [r \in {f.res : f \in ToSet(fs)} |->
     fs[CHOOSE i \in DOMAIN fs : /\ fs[i].res = r
                                 /\ \A j \in DOMAIN fs :
                                         fs[j].res = r => j <= i].id]

\* Mutant of explanations: the map is keyed by rule.
explanationsByRule(fs) ==
  [id \in {f.id : f \in ToSet(fs)} |-> id]

explanations(fs) ==
  [r \in {f.res : f \in ToSet(fs)} |-> fs[firstFinding(fs, r)].id]

-----------------------------------------------------------------------------

Init ==
  /\ graph \in Graphs
  /\ raw \in RawLists
  /\ stage = "annotate"
  /\ list = raw
  /\ bias = << >>
  /\ rootCause = << >>
  /\ explained = << >>
  /\ suggestions = << >>

Annotate ==
  /\ stage = "annotate"
  /\ list' = [i \in DOMAIN list |->
                [list[i] EXCEPT !.corr = Corroboration(list[i])]]
  /\ stage' = "suppress"
  /\ UNCHANGED <<graph, raw, bias, rootCause, explained, suggestions>>

Suppress ==
  /\ stage = "suppress"
  /\ list' = suppressRedundantBuiltinFindings(list)
  /\ stage' = "rank"
  /\ UNCHANGED <<graph, raw, bias, rootCause, explained, suggestions>>

Rank ==
  /\ stage = "rank"
  /\ bias' = rankRootCauseBias(graph, Target, list)
  /\ stage' = "sort"
  /\ UNCHANGED <<graph, raw, list, rootCause, explained, suggestions>>

Sort ==
  /\ stage = "sort"
  /\ list' = sortFindings(bias, list)
  /\ stage' = "assemble"
  /\ UNCHANGED <<graph, raw, bias, rootCause, explained, suggestions>>

Assemble ==
  /\ stage = "assemble"
  /\ rootCause' = IF list = << >> THEN << >> ELSE <<list[1]>>
  /\ explained' = explanations(list)
  /\ suggestions' = aggregateSuggestions(list)
  /\ stage' = "done"
  /\ UNCHANGED <<graph, raw, list, bias>>

Done == stage = "done" /\ UNCHANGED vars

Next == Annotate \/ Suppress \/ Rank \/ Sort \/ Assemble \/ Done

Spec == Init /\ [][Next]_vars

-----------------------------------------------------------------------------

\* Only findings of the general rules are suppressed, and only "when the same
\* event evidence is already represented" (docs/usage/why.md:115): a specific
\* finding about the same resource that shows it is in the report. So every
\* resource of a finding keeps an explanation in the chain.
\* docs/rules/builtin.md:46-49 asks for more, suppression whenever a specific rule
\* fires for the resource. The code does not do that: see GenericWarningGivesWay
\* in ClusterSnapshot.
NothingSilenced ==
  stage = "done" =>
    /\ DOMAIN explained = Resources
    /\ \A f \in ToSet(raw) :
         \/ \E i \in DOMAIN list : f = [list[i] EXCEPT !.corr = f.corr]
         \/ /\ f.id \in GenericIds
            /\ \E i \in DOMAIN list : /\ list[i].id \notin GenericIds
                                      /\ list[i].res = f.res
                                      /\ list[i].ev \cap f.ev # {}

\* The root cause is one of the most severe findings the rules made, whatever
\* was suppressed on the way.
RootCauseMostSevere ==
  stage = "done" /\ raw # << >> =>
    /\ Len(rootCause) = 1
    /\ \A f \in ToSet(raw) : rootCause[1].sev >= f.sev

\* The chain tells the same story as the summary: the step of the root cause's
\* resource carries the root cause's explanation, and no resource is explained
\* by a finding less severe than another one about it.
ChainMatchesRootCause ==
  stage = "done" =>
    /\ rootCause # << >> => explained[rootCause[1].res] = rootCause[1].id
    /\ \A f \in ToSet(list) : \E e \in ToSet(list) :
         e.res = f.res /\ e.id = explained[f.res] /\ e.sev >= f.sev

\* Everything the ranking looks at, in its order of precedence.
RankKey(b, f) == <<f.sev, f.corr, b[f.res], f.conf, f.id>>

\* The list the passes yield for a list of raw findings.
Ranked(fs) ==
  LET noted == [i \in DOMAIN fs |->
                  [fs[i] EXCEPT !.corr = Corroboration(fs[i])]]
      kept == suppressRedundantBuiltinFindings(noted)
      b == rankRootCauseBias(graph, Target, kept)
      sorted == sortFindings(b, kept)
  IN  [i \in DOMAIN sorted |-> RankKey(b, sorted[i])]

\* The order in which rules and nodes were evaluated does not show in the ranks:
\* any other order gives the same sequence of keys. It says no more than that. The
\* comparison leaves out the resource, so findings of one rule on two resources
\* whose keys are equal stay in the order of evaluation, and which of them leads
\* the report is decided by that order alone.
EvaluationOrderIrrelevant ==
  stage = "done" =>
    \A p \in Bijection(DOMAIN raw, DOMAIN raw) :
      Ranked([i \in DOMAIN raw |-> raw[p[i]]]) = [i \in DOMAIN list |-> RankKey(bias, list[i])]

\* r can be reached from the target by following edges forwards.
DependsOn(g, r) ==
  \A S \in SUBSET g.node :
    Target \in S /\ Successors(g, S, TRUE) \subseteq S => r \in S

\* Among equally severe and equally corroborated findings, one about something
\* the target depends on precedes one about the target or about something it
\* does not depend on, however confident the latter is (rankRootCauseBias).
DependenciesFirst ==
  stage = "done" =>
    \A i, j \in DOMAIN list :
      /\ list[i].sev = list[j].sev
      /\ list[i].corr = list[j].corr
      /\ list[i].res # Target /\ DependsOn(graph, list[i].res)
      /\ list[j].res = Target \/ ~DependsOn(graph, list[j].res)
      => i < j

=============================================================================
