----------------------------- MODULE WhyCommand -----------------------------
(***************************************************************************)
(* `klue why <resource> <name>` from the command line to the report        *)
(* (src/cmd/why.go): resolve the name, fetch a snapshot, select the rules, *)
(* diagnose, decide whether logs would help, fetch them (PodLogs) and      *)
(* diagnose again, all under one context that may end at any time.         *)
(*                                                                         *)
(* A diagnosis is one of the answers of module DiagnosisAnswers, so what   *)
(* the graph looks like is given by the distance of each object from the   *)
(* target. What a rule finds without logs is part of the call.             *)
(***************************************************************************)
EXTENDS PodLogs, Catalog

CONSTANTS
  RuleIDs,       \* rules.All()
  AskingRules,   \* the rules shouldFetchLogsForDiagnosis waits for
  LogRule,       \* builtin/log-signal
  Calls          \* the command lines and clusters to consider

ASSUME RulesAssumption == LogRule \in RuleIDs /\ AskingRules \subseteq RuleIDs

\* name: token and apiVersion; cluster: what discovery returns;
\* only, disable: the rule flags; maxDepth, scan, fetchLogs: the other flags.
\* node: the objects of the graph; layer: their distance from the target, -1
\* for those that are not related; target, placeholder, namespace: as in the
\* engine; pods: those listed; finds: the nodes each rule finds something on
\* without logs; unhealthy: containers that podContainerCandidates selects, in
\* the order of their keys; written: their logs; explained: the pods
\* hasStrongStatusSignal is true of.
VARIABLES
  call,      \* the arguments and the cluster
  step,      \* where the command is
  entry,     \* the resource the name was resolved to
  rules,     \* the selected rules
  first,     \* the result of the first diagnosis (kept to compare with)
  result,    \* the result to render
  outcome    \* "running", "error" or "report"

cmdVars == <<call, step, entry, rules, first, result, outcome>>
vars == <<logVars, cmdVars>>

Steps == {"resolve", "fetch", "lookup", "select", "diagnose", "candidates",
          "logs", "again", "render", "end"}

Far == -1
Reaches(i, n) == i.layer[n] # Far
InHops(i, n, d) == i.layer[n] # Far /\ i.layer[n] <= d

\* Rules and logs accuse nodes of the graph, every node has a distance, the list
\* of unhealthy containers of listed pods is finite, and the cap is the default if
\* none was given.
ASSUME CallsAssumption ==
  \A c \in Calls :
    /\ \A r \in RuleIDs : c.finds[r] \subseteq c.node
    /\ c.pods \subseteq c.node
    /\ \A n \in c.node : c.layer[n] \in Nat \cup {Far}
    /\ c.maxDepth \in Int
    /\ IsFiniteSet(DOMAIN c.unhealthy) /\ DOMAIN c.unhealthy \subseteq Nat
    /\ \A k \in DOMAIN c.unhealthy : c.unhealthy[k].pod \in c.pods
    /\ c.maxLogCandidates \in Nat \ {0}

Diagnosis == INSTANCE DiagnosisAnswers

NoResult == [hops |-> 0, found |-> {}, verdict |-> "none"]

-----------------------------------------------------------------------------
\* Rules and what they find.

\* rules.Select: the rules it selects, none if all are disabled, and the ids it
\* refuses because no rule has them.
Select(only, disable) == IF only # {} THEN only ELSE RuleIDs \ disable
Unknown(only, disable) == (IF only # {} THEN only ELSE disable) \ RuleIDs

\* Mutant of SignalPods: an entry that carries an error counts as one, too.
SignalPodsOrErrors ==
  {p \in call.pods \ call.explained : \E i \in DOMAIN entries :
     LET c == candidates[entries[i].candidate]
     IN  c.pod = p /\ c.regular /\ (entries[i].lines = "signal" \/ entries[i].failed)}

\* Pods builtin/log-signal finds something on: a regular container of theirs
\* has a failure pattern in the lines read, and their status explains nothing.
SignalPods ==
  {p \in call.pods \ call.explained : \E i \in DOMAIN entries :
     LET c == candidates[entries[i].candidate]
     IN  c.pod = p /\ c.regular /\ entries[i].lines = "signal"}

\* Mutant of Finds: the second diagnosis sees the logs alone.
FindsInLogsOnly(r, withLogs) ==
  IF withLogs THEN IF r = LogRule THEN SignalPods ELSE {}
              ELSE IF r = LogRule THEN {} ELSE call.finds[r]

\* What rule r finds, without logs or with them.
Finds(r, withLogs) ==
  IF r = LogRule THEN IF withLogs THEN SignalPods ELSE {} ELSE call.finds[r]

\* The call of Engine.Diagnose.
Question(withLogs) ==
  [node |-> call.node, target |-> call.target, layer |-> call.layer,
   placeholder |-> call.placeholder, namespace |-> call.namespace,
   maxDepth |-> call.maxDepth, scan |-> call.scan,
   faulty |-> UNION {Finds(r, withLogs) : r \in rules}]

\* What Engine.Diagnose may return; hops is Far unless the traversal found it.
Results(i) ==
  LET near(d) == [hops |-> d, found |-> Diagnosis!FaultsWithin(i, d), verdict |-> "root cause"]
      rest(f, v) == [hops |-> Far, found |-> f, verdict |-> v]
      possible == {near(d) : d \in {i.layer[n] : n \in i.node} \ {Far}}
                    \cup {rest(Diagnosis!NamespaceFaults(i), "root cause"),
                          rest({}, "healthy"), rest({}, "none in depth")}
  IN  {r \in possible : Diagnosis!Answers(i, r.hops, r.found, r.verdict)}

\* The pods whose containers may be candidates: the target, if it is a pod that
\* exists, or else the related ones; if there are none, all of them.
AllowedPods ==
  LET related == IF call.isPod THEN {call.target} \ call.placeholder
                 ELSE {p \in call.pods : Reaches(call, p)}
  IN  IF related = {} THEN call.pods ELSE related

\* Mutant of SelectLogCandidates: the cap is tested after the append.
OneTooMany ==
  LET allowed == {k \in DOMAIN call.unhealthy : call.unhealthy[k].pod \in AllowedPods}
  IN  {k \in allowed : Cardinality({j \in allowed : j < k}) <= call.maxLogCandidates}

\* The places, in the order of the keys, of the containers whose logs are to be
\* read, cut off at the cap.
SelectLogCandidates ==
  LET allowed == {k \in DOMAIN call.unhealthy : call.unhealthy[k].pod \in AllowedPods}
  IN  {k \in allowed : Cardinality({j \in allowed : j <= k}) <= call.maxLogCandidates}

\* Mutant of shouldFetchLogs: only if a rule asks for them.
OnlyIfAsked(selected) ==
  /\ selected # {}
  /\ \E r \in rules \cap AskingRules : Finds(r, FALSE) \cap first.found # {}

\* shouldFetchLogsForDiagnosis: there is something to read, and either nothing
\* was found or one of the findings is of a rule that logs help.
shouldFetchLogs(selected) ==
  /\ selected # {}
  /\ \/ first.found = {}
     \/ \E r \in rules \cap AskingRules : Finds(r, FALSE) \cap first.found # {}

-----------------------------------------------------------------------------

Init ==
  /\ call \in Calls
  /\ step = "resolve"
  /\ entry = Unresolved
  /\ rules = {}
  /\ first = NoResult
  /\ result = NoResult
  /\ outcome = "running"
  /\ ctx = "live"
  /\ candidates = << >>
  /\ log = << >>
  /\ fetcher = << >>
  /\ entries = << >>

\* The deferred end of every step that returns an error.
Fail ==
  /\ step' = "end"
  /\ outcome' = "error"
  /\ UNCHANGED <<call, entry, rules, first, result>>

\* DiscoverResources and ResolveResource. Discovery may fail altogether.
Resolve ==
  /\ step = "resolve"
  /\ LET e == ResolveResource(DiscoverResources(call.cluster), call.token,
                              call.apiVersion)
     IN  \/ /\ e # Unresolved
            /\ entry' = e
            /\ step' = "fetch"
            /\ UNCHANGED <<call, rules, first, result, outcome>>
         \/ Fail
  /\ UNCHANGED logVars

\* FetchSnapshot (module Fetch) returns a snapshot or an error.
FetchSnapshot ==
  /\ step = "fetch"
  /\ \/ step' = "lookup" /\ UNCHANGED <<call, entry, rules, first, result, outcome>>
     \/ Fail
  /\ UNCHANGED logVars

\* The target must be a node of the graph.
LookUp ==
  /\ step = "lookup"
  /\ \/ /\ call.target \in call.node
        /\ step' = "select"
        /\ UNCHANGED <<call, entry, rules, first, result, outcome>>
     \/ call.target \notin call.node /\ Fail
  /\ UNCHANGED logVars

\* --only-rule and --disable-rule exclude one another; unknown ids are errors.
SelectRules ==
  /\ step = "select"
  /\ \/ /\ call.only = {} \/ call.disable = {}
        /\ Unknown(call.only, call.disable) = {}
        /\ rules' = Select(call.only, call.disable)
        /\ step' = "diagnose"
        /\ UNCHANGED <<call, entry, first, result, outcome>>
     \/ /\ \/ call.only # {} /\ call.disable # {}
           \/ Unknown(call.only, call.disable) # {}
        /\ Fail
  /\ UNCHANGED logVars

\* The first diagnosis, without logs.
FirstDiagnosis ==
  /\ step = "diagnose"
  /\ \E r \in Results(Question(FALSE)) : first' = r /\ result' = r
  /\ step' = IF call.fetchLogs THEN "candidates" ELSE "render"
  /\ UNCHANGED <<call, entry, rules, outcome>>
  /\ UNCHANGED logVars

\* Candidates are selected; FetchPodLogs starts a goroutine for each of them if
\* the first diagnosis is one that logs may improve.
ConsiderLogs ==
  /\ step = "candidates"
  /\ LET selected == SelectLogCandidates
     IN  \/ /\ shouldFetchLogs(selected)
            /\ candidates' = [k \in selected |-> call.unhealthy[k]]
            /\ log' = [k \in selected |-> call.written[k]]
            /\ fetcher' = FetchersFor(selected)
            /\ entries' = SliceFor(selected)
            /\ step' = "logs"
            /\ UNCHANGED ctx
         \/ /\ ~shouldFetchLogs(selected)
            /\ step' = "render"
            /\ UNCHANGED logVars
  /\ UNCHANGED <<call, entry, rules, first, result, outcome>>

ReadLog(i) == step = "logs" /\ FetcherStep(i) /\ UNCHANGED cmdVars

\* wg.Wait returns, the entries become the log index.
LogsFetched ==
  /\ step = "logs"
  /\ AllFetched
  /\ step' = "again"
  /\ UNCHANGED <<call, entry, rules, first, result, outcome>>
  /\ UNCHANGED logVars

\* The second diagnosis replaces the first.
SecondDiagnosis ==
  /\ step = "again"
  /\ \E r \in Results(Question(TRUE)) : result' = r
  /\ step' = "render"
  /\ UNCHANGED <<call, entry, rules, first, outcome>>
  /\ UNCHANGED logVars

Render ==
  /\ step = "render"
  /\ outcome' = "report"
  /\ step' = "end"
  /\ UNCHANGED <<call, entry, rules, first, result>>
  /\ UNCHANGED logVars

\* --timeout, or an interrupt.
ContextEnds ==
  /\ ctx = "live"
  /\ step # "end"
  /\ ctx' = "ended"
  /\ UNCHANGED <<candidates, log, fetcher, entries, cmdVars>>

Step ==
  \/ Resolve
  \/ FetchSnapshot
  \/ LookUp
  \/ SelectRules
  \/ FirstDiagnosis
  \/ ConsiderLogs
  \/ \E i \in DOMAIN fetcher : ReadLog(i)
  \/ LogsFetched
  \/ SecondDiagnosis
  \/ Render

Done == step = "end" /\ UNCHANGED vars

Next == Step \/ ContextEnds \/ Done

Spec == Init /\ [][Next]_vars /\ WF_vars(Step)

-----------------------------------------------------------------------------

TypeOK ==
  /\ call \in Calls
  /\ step \in Steps
  /\ rules \subseteq RuleIDs
  /\ outcome \in {"running", "error", "report"}
  /\ ctx \in {"live", "ended"}
  /\ DOMAIN fetcher = DOMAIN candidates
  /\ DOMAIN entries = DOMAIN candidates
  /\ DOMAIN log = DOMAIN candidates
  /\ Cardinality(DOMAIN candidates) <= call.maxLogCandidates
  /\ result.found \subseteq call.node
  /\ (outcome # "running") <=> (step = "end")

\* The second diagnosis never takes a problem back: what the first one found is
\* still a root cause, no further away, and if the distance is the same nothing
\* is lost and only pods with a pattern in their logs are added. It may still
\* replace the findings by nearer ones, and those are all from logs
\* (diagnoseWithClient overwrites the first result).
SecondLookOnlyNearer ==
  outcome = "report" /\ first.verdict = "root cause" =>
    /\ result.verdict = "root cause"
    /\ \/ /\ result.hops = first.hops
          /\ first.found \subseteq result.found
          /\ result.found \ first.found \subseteq SignalPods
       \/ /\ result.hops # Far
          /\ first.hops # Far => result.hops < first.hops
          /\ result.found \subseteq SignalPods

\* Without a failure pattern in what could be read (all requests refused or
\* too late, or nothing but noise) the report is that of the first diagnosis.
SilentLogsChangeNothing ==
  outcome = "report" /\ (\A i \in DOMAIN entries : entries[i].lines # "signal") =>
    result = first

\* A report passes over a failure pattern in the log of a related pod that is
\* nearer than what it names, within the limit, only if that log was not read:
\* it fell off at the cap, its request failed, or what the first diagnosis found
\* did not ask for logs.
NearerSignalsUnread ==
  outcome = "report" /\ call.fetchLogs /\ LogRule \in rules =>
    \A k \in DOMAIN call.unhealthy :
      LET c == call.unhealthy[k]
          read == k \in DOMAIN entries /\ ~entries[k].failed
          inSight == /\ InHops(call, c.pod, IF result.hops # Far THEN result.hops
                                            ELSE call.layer[c.pod])
                     /\ call.maxDepth > 0 => call.layer[c.pod] <= call.maxDepth
      IN  c.regular /\ c.pod \notin call.explained /\ inSight
            /\ call.written[k] = "signal" /\ c.pod \notin result.found =>
              /\ ~read
              /\ \/ first.found # {}
                 \/ k \notin SelectLogCandidates
                 \/ k \in DOMAIN entries /\ entries[k].failed

\* A name that was resolved means one thing: no built-in resource and no custom
\* one of a group that answered, at its preferred version, has the name as well
\* (ResolveResource). In particular no custom resource displaces a built-in one.
NameIsUnambiguous ==
  entry # Unresolved =>
    \A e \in BuiltinCatalog \cup customResourcesFromLists(call.cluster) :
      /\ resourceMatchesToken(e, call.token)
      /\ call.apiVersion \in {NoVersion, APIVersion(e)}
      => <<e.group, e.resource>> = <<entry.group, entry.resource>>

\* The command ends, whatever the server and the clock do.
CommandEnds == <>(step = "end")

=============================================================================
