------------------------------ MODULE WhyProofs ------------------------------
(***************************************************************************)
(* What the logs may do to a report, for every call: the pool files each   *)
(* log under its own candidate and passes none over in time, and the       *)
(* second diagnosis only adds to the first or comes nearer. A nearer       *)
(* signal is missed only if nobody read it, and a name means one resource. *)
(***************************************************************************)
EXTENDS WhyCommand, FiniteOrders, TLAPS

-----------------------------------------------------------------------------
(* The answers to one question. The faults of a question are nodes with a  *)
(* distance.                                                               *)

WellFormed(i) ==
  /\ i.maxDepth \in Int
  /\ \A n \in i.node : i.layer[n] \in Nat \cup {Far}
  /\ i.faulty \subseteq i.node

Near(i, r) ==
  /\ r.verdict = "root cause"
  /\ r.hops \in Nat
  /\ r.found = Diagnosis!FaultsWithin(i, r.hops)
  /\ r.found # {}
  /\ Diagnosis!FaultsWithin(i, r.hops - 1) = {}
  /\ i.maxDepth > 0 => r.hops <= i.maxDepth

Rest(i, r) ==
  /\ r.hops = Far
  /\ \/ r.verdict = "root cause" /\ Diagnosis!LastResort(i, r.found)
     \/ r.verdict = "healthy" /\ r.found = {} /\ Diagnosis!Healthy(i)
     \/ r.verdict = "none in depth" /\ r.found = {} /\ Diagnosis!NoneInDepth(i)

IsRecord(r) == r = [hops |-> r.hops, found |-> r.found, verdict |-> r.verdict]

\* Nothing is at a negative distance.
LEMMA NothingBelow ==
  ASSUME NEW i, WellFormed(i), NEW d \in Int, d < 0
  PROVE  Diagnosis!FaultsWithin(i, d) = {}
  BY DEF WellFormed, Diagnosis!FaultsWithin, InHops, Far

\* A larger distance takes in more.
LEMMA WithinGrows ==
  ASSUME NEW i, WellFormed(i), NEW d \in Int, NEW e \in Int, d <= e
  PROVE  Diagnosis!FaultsWithin(i, d) \subseteq Diagnosis!FaultsWithin(i, e)
  BY DEF WellFormed, Diagnosis!FaultsWithin, InHops, Far

\* What is at some distance is related.
LEMMA WithinIsRelated ==
  ASSUME NEW i, NEW d \in Int
  PROVE  Diagnosis!FaultsWithin(i, d) \subseteq Diagnosis!RelatedFaults(i)
  BY DEF Diagnosis!FaultsWithin, Diagnosis!RelatedFaults, InHops, Reaches

\* A result is one of the two.
LEMMA ResultForms ==
  ASSUME NEW i, WellFormed(i), i.target \in i.node, NEW r \in Results(i)
  PROVE  IsRecord(r) /\ (Near(i, r) \/ Rest(i, r))
<1>1. Diagnosis!Answers(i, r.hops, r.found, r.verdict)
  BY DEF Results
<1>2. \/ \E d \in {i.layer[n] : n \in i.node} \ {Far} :
           r = [hops |-> d, found |-> Diagnosis!FaultsWithin(i, d), verdict |-> "root cause"]
      \/ r = [hops |-> Far, found |-> Diagnosis!NamespaceFaults(i), verdict |-> "root cause"]
      \/ r = [hops |-> Far, found |-> {}, verdict |-> "healthy"]
      \/ r = [hops |-> Far, found |-> {}, verdict |-> "none in depth"]
  BY Zenon DEF Results
<1>3. IsRecord(r)
  BY <1>2 DEF IsRecord
<1>4. CASE \E d \in {i.layer[n] : n \in i.node} \ {Far} :
             r = [hops |-> d, found |-> Diagnosis!FaultsWithin(i, d), verdict |-> "root cause"]
  <2>1. PICK d \in {i.layer[n] : n \in i.node} \ {Far} :
           r = [hops |-> d, found |-> Diagnosis!FaultsWithin(i, d), verdict |-> "root cause"]
    BY <1>4
  <2>2. d \in Nat
    BY <2>1 DEF WellFormed, Far
  <2>3. r.hops = d /\ r.found = Diagnosis!FaultsWithin(i, d) /\ r.verdict = "root cause"
    BY <2>1
  <2>4. r.found # {} /\ (Diagnosis!Nearest(i, d, r.found) \/ Diagnosis!LastResort(i, r.found))
    BY <1>1, <2>3 DEF Diagnosis!Answers, Diagnosis!Nearest, Diagnosis!LastResort
  <2>5. Diagnosis!RelatedFaults(i) # {}
    <3>1. Diagnosis!FaultsWithin(i, d) \subseteq Diagnosis!RelatedFaults(i)
      BY <2>2, WithinIsRelated
    <3> QED BY <2>3, <2>4, <3>1
  <2>6. Diagnosis!Nearest(i, d, r.found)
    BY <2>4, <2>5 DEF Diagnosis!LastResort
  <2>7. Diagnosis!FaultsWithin(i, d - 1) = {}
    <3>1. CASE d > 0
      BY <2>6, <3>1 DEF Diagnosis!Nearest
    <3>2. CASE d = 0
      BY <3>2, NothingBelow
    <3> QED BY <2>2, <3>1, <3>2
  <2> QED BY <1>3, <2>2, <2>3, <2>4, <2>6, <2>7 DEF Near, Diagnosis!Nearest
<1>5. CASE \/ r = [hops |-> Far, found |-> Diagnosis!NamespaceFaults(i), verdict |-> "root cause"]
           \/ r = [hops |-> Far, found |-> {}, verdict |-> "healthy"]
           \/ r = [hops |-> Far, found |-> {}, verdict |-> "none in depth"]
  <2>1. r.hops = Far
    <3>1. CASE r = [hops |-> Far, found |-> {}, verdict |-> "healthy"]
      BY <3>1
    <3>2. CASE r = [hops |-> Far, found |-> {}, verdict |-> "none in depth"]
      BY <3>2
    <3>3. CASE r = [hops |-> Far, found |-> Diagnosis!NamespaceFaults(i), verdict |-> "root cause"]
      BY <3>3
    <3> QED BY <1>5, <3>1, <3>2, <3>3
  <2>2. ~Diagnosis!Nearest(i, r.hops, r.found)
    <3>1. Far \in Int /\ Far < 0
      BY DEF Far
    <3>2. Diagnosis!FaultsWithin(i, Far) = {}
      BY <3>1, NothingBelow
    <3> QED BY <2>1, <3>2 DEF Diagnosis!Nearest
  <2>3. \/ r.verdict = "root cause" /\ Diagnosis!LastResort(i, r.found)
        \/ r.verdict = "healthy" /\ r.found = {} /\ Diagnosis!Healthy(i)
        \/ r.verdict = "none in depth" /\ r.found = {} /\ Diagnosis!NoneInDepth(i)
    BY <1>1, <1>5, <2>2 DEF Diagnosis!Answers
  <2> QED BY <1>3, <2>1, <2>3 DEF Rest
<1> QED
  BY <1>2, <1>4, <1>5

\* Two results of one question are the same.
LEMMA ResultUnique ==
  ASSUME NEW i, WellFormed(i), i.target \in i.node, NEW r \in Results(i), NEW s \in Results(i)
  PROVE  r = s
<1>1. /\ IsRecord(r) /\ (Near(i, r) \/ Rest(i, r))
      /\ IsRecord(s) /\ (Near(i, s) \/ Rest(i, s))
  BY ResultForms
<1>2. ASSUME NEW x, NEW y, Near(i, x), Near(i, y)
      PROVE  x.hops <= y.hops
  <2>1. x.hops \in Nat /\ y.hops \in Nat
    BY <1>2 DEF Near
  <2>2. ASSUME y.hops < x.hops
        PROVE  FALSE
    <3>1. Diagnosis!FaultsWithin(i, y.hops) \subseteq Diagnosis!FaultsWithin(i, x.hops - 1)
      BY <2>1, <2>2, WithinGrows
    <3> QED BY <1>2, <3>1 DEF Near
  <2> QED BY <2>1, <2>2
<1>3. ASSUME NEW x, NEW y, Near(i, x), Rest(i, y)
      PROVE  FALSE
  <2>1. x.hops \in Nat /\ x.found = Diagnosis!FaultsWithin(i, x.hops) /\ x.found # {}
    BY <1>3 DEF Near
  <2>2. Diagnosis!RelatedFaults(i) # {}
    BY <2>1, WithinIsRelated
  <2>3. i.maxDepth > 0 /\ Diagnosis!FaultsWithin(i, i.maxDepth) = {}
    BY <1>3, <2>2 DEF Rest, Diagnosis!LastResort, Diagnosis!Healthy,
                      Diagnosis!NoneInDepth, Diagnosis!SeesAll
  <2>4. i.maxDepth \in Int /\ x.hops <= i.maxDepth
    BY <1>3, <2>3 DEF Near, WellFormed
  <2>5. Diagnosis!FaultsWithin(i, x.hops) \subseteq Diagnosis!FaultsWithin(i, i.maxDepth)
    BY <2>1, <2>4, WithinGrows
  <2> QED BY <2>1, <2>3, <2>5
<1>4. CASE Near(i, r) /\ Near(i, s)
  <2>1. r.hops \in Nat /\ s.hops \in Nat /\ r.hops <= s.hops /\ s.hops <= r.hops
    BY <1>2, <1>4 DEF Near
  <2>2. r.hops = s.hops
    BY <2>1
  <2> QED BY <1>1, <1>4, <2>2 DEF Near, IsRecord
<1>5. CASE Rest(i, r) /\ Rest(i, s)
  <2>1. r.hops = s.hops /\ r.verdict = s.verdict /\ r.found = s.found
    BY <1>5 DEF Rest, Diagnosis!LastResort, Diagnosis!Healthy, Diagnosis!NoneInDepth
  <2> QED BY <1>1, <2>1 DEF IsRecord
<1> QED
  BY <1>1, <1>3, <1>4, <1>5

-----------------------------------------------------------------------------
(* The questions of the command. With logs there may be more faults, all   *)
(* of them in the pods builtin/log-signal speaks of.                       *)

LEMMA FaultsGrow ==
  /\ Question(FALSE).faulty \subseteq Question(TRUE).faulty
  /\ Question(TRUE).faulty \ Question(FALSE).faulty \subseteq SignalPods
<1>1. \A r \in rules : /\ Finds(r, FALSE) \subseteq Finds(r, TRUE)
                      /\ Finds(r, TRUE) \ Finds(r, FALSE) \subseteq SignalPods
  BY DEF Finds
<1> QED
  BY <1>1 DEF Question

LEMMA QuestionsWellFormed ==
  ASSUME call \in Calls, rules \subseteq RuleIDs
  PROVE  WellFormed(Question(FALSE)) /\ WellFormed(Question(TRUE))
<1>1. /\ \A r \in RuleIDs : call.finds[r] \subseteq call.node
      /\ call.pods \subseteq call.node
      /\ \A n \in call.node : call.layer[n] \in Nat \cup {Far}
      /\ call.maxDepth \in Int
  BY CallsAssumption
<1>2. SignalPods \subseteq call.node
  BY <1>1 DEF SignalPods
<1>3. \A r \in rules : /\ Finds(r, FALSE) \subseteq call.node
                      /\ Finds(r, TRUE) \subseteq call.node
  BY <1>1, <1>2 DEF Finds
<1>4. /\ Question(FALSE).faulty \subseteq call.node
      /\ Question(TRUE).faulty \subseteq call.node
  BY <1>3 DEF Question
<1> QED
  BY <1>1, <1>4 DEF WellFormed, Question

\* Except for the faults the questions are the same.
LEMMA QuestionsAlike ==
  /\ Question(TRUE).node = call.node /\ Question(FALSE).node = call.node
  /\ Question(TRUE).target = call.target /\ Question(FALSE).target = call.target
  /\ Question(TRUE).layer = call.layer /\ Question(FALSE).layer = call.layer
  /\ Question(TRUE).placeholder = call.placeholder
  /\ Question(FALSE).placeholder = call.placeholder
  /\ Question(TRUE).namespace = call.namespace /\ Question(FALSE).namespace = call.namespace
  /\ Question(TRUE).maxDepth = call.maxDepth /\ Question(FALSE).maxDepth = call.maxDepth
  /\ Question(TRUE).scan = call.scan /\ Question(FALSE).scan = call.scan
BY DEF Question

\* How the answer r to a question i compares to that to a question j with more
\* faults, all of the new ones in x.
MoreFaults(i, j, x) ==
  /\ WellFormed(i) /\ WellFormed(j)
  /\ i.node = j.node /\ i.target = j.target /\ i.layer = j.layer
  /\ i.placeholder = j.placeholder /\ i.namespace = j.namespace
  /\ i.maxDepth = j.maxDepth /\ i.scan = j.scan
  /\ i.faulty \subseteq j.faulty
  /\ j.faulty \ i.faulty \subseteq x

IsRootCause(r) == r.verdict = "root cause"

OnlyNearer(r, s, x) ==
  /\ IsRootCause(s)
  /\ \/ /\ s.hops = r.hops
        /\ r.found \subseteq s.found
        /\ s.found \ r.found \subseteq x
     \/ /\ s.hops # Far
        /\ r.hops # Far => s.hops < r.hops
        /\ s.found \subseteq x

LEMMA MoreIsNearer ==
  ASSUME NEW i, NEW j, NEW x, MoreFaults(i, j, x),
         NEW r, NEW s, IsRootCause(r), Near(i, r) \/ Rest(i, r), Near(j, s) \/ Rest(j, s)
  PROVE  OnlyNearer(r, s, x)
<1>1. (Near(i, r) \/ Rest(i, r)) /\ (Near(j, s) \/ Rest(j, s))
  OBVIOUS
<1>2. \A d \in Int :
        /\ Diagnosis!FaultsWithin(i, d) \subseteq Diagnosis!FaultsWithin(j, d)
        /\ Diagnosis!FaultsWithin(j, d) \ Diagnosis!FaultsWithin(i, d) \subseteq x
  BY DEF MoreFaults, Diagnosis!FaultsWithin, InHops
<1>3. Diagnosis!SeesAll(i) <=> Diagnosis!SeesAll(j)
  BY DEF MoreFaults, Diagnosis!SeesAll, InHops, Reaches
<1>4. CASE Near(i, r)
  <2>1. r.hops \in Nat /\ r.found = Diagnosis!FaultsWithin(i, r.hops) /\ r.found # {}
    BY <1>4 DEF Near
  <2> r.hops \in Int
    BY <2>1
  <2>2. Diagnosis!FaultsWithin(j, r.hops) # {}
    BY <1>2, <2>1
  <2>3. Near(j, s)
    <3>1. Diagnosis!RelatedFaults(j) # {}
      <4>1. Diagnosis!FaultsWithin(j, r.hops) \subseteq Diagnosis!RelatedFaults(j)
        BY <2>1, WithinIsRelated
      <4> QED BY <2>2, <4>1
    <3>2. ASSUME Rest(j, s)
          PROVE  FALSE
      <4>1. j.maxDepth > 0 /\ Diagnosis!FaultsWithin(j, j.maxDepth) = {}
        BY <3>1, <3>2 DEF Rest, Diagnosis!LastResort, Diagnosis!Healthy,
                          Diagnosis!NoneInDepth, Diagnosis!SeesAll
      <4>2. j.maxDepth \in Int /\ r.hops <= j.maxDepth /\ WellFormed(j)
        BY <1>4, <4>1 DEF Near, MoreFaults, WellFormed
      <4>3. Diagnosis!FaultsWithin(j, r.hops) \subseteq Diagnosis!FaultsWithin(j, j.maxDepth)
        BY <4>2, WithinGrows
      <4> QED BY <2>2, <4>1, <4>3
    <3> QED BY <1>1, <3>2
  <2>4. /\ IsRootCause(s) /\ s.hops \in Nat
        /\ s.found = Diagnosis!FaultsWithin(j, s.hops)
        /\ Diagnosis!FaultsWithin(j, s.hops - 1) = {}
    BY <2>3 DEF Near, IsRootCause
  <2> s.hops \in Int
    BY <2>4
  <2>5. s.hops <= r.hops
    <3>1. ASSUME r.hops < s.hops
          PROVE  FALSE
      <4>1. s.hops - 1 \in Int /\ r.hops <= s.hops - 1 /\ WellFormed(j)
        BY <2>1, <2>4, <3>1 DEF MoreFaults
      <4>2. Diagnosis!FaultsWithin(j, r.hops) \subseteq Diagnosis!FaultsWithin(j, s.hops - 1)
        BY <4>1, WithinGrows
      <4> QED BY <2>2, <2>4, <4>2
    <3> QED BY <2>1, <2>4, <3>1
  <2>6. CASE s.hops = r.hops
    BY <1>2, <2>1, <2>4, <2>6 DEF OnlyNearer
  <2>7. CASE s.hops < r.hops
    <3>1. r.hops - 1 \in Int /\ s.hops <= r.hops - 1 /\ WellFormed(i)
      BY <2>1, <2>4, <2>7 DEF MoreFaults
    <3>2. Diagnosis!FaultsWithin(i, s.hops) = {}
      <4>1. Diagnosis!FaultsWithin(i, s.hops) \subseteq Diagnosis!FaultsWithin(i, r.hops - 1)
        BY <3>1, WithinGrows
      <4> QED BY <1>4, <4>1 DEF Near
    <3>3. s.found \subseteq x
      BY <1>2, <2>4, <3>2
    <3>4. s.hops # Far
      BY <2>4 DEF Far
    <3> QED BY <2>4, <2>7, <3>3, <3>4 DEF OnlyNearer
  <2> QED BY <2>1, <2>4, <2>5, <2>6, <2>7
<1>5. CASE Rest(i, r)
  <2>1. r.hops = Far /\ Diagnosis!LastResort(i, r.found)
    BY <1>5 DEF Rest, IsRootCause
  <2>2. /\ i.scan /\ Diagnosis!SeesAll(j) /\ Diagnosis!RelatedFaults(i) = {}
        /\ r.found = Diagnosis!NamespaceFaults(i) /\ r.found # {}
    BY <1>3, <2>1 DEF Diagnosis!LastResort
  <2>3. /\ Diagnosis!NamespaceFaults(i) \subseteq Diagnosis!NamespaceFaults(j)
        /\ Diagnosis!NamespaceFaults(j) \ Diagnosis!NamespaceFaults(i) \subseteq x
    BY DEF MoreFaults, Diagnosis!NamespaceFaults
  <2>4. CASE Near(j, s)
    <3>1. /\ IsRootCause(s) /\ s.hops \in Nat
          /\ s.found = Diagnosis!FaultsWithin(j, s.hops)
      BY <2>4 DEF Near, IsRootCause
    <3> s.hops \in Int /\ s.hops # Far
      BY <3>1 DEF Far
    <3>2. Diagnosis!FaultsWithin(i, s.hops) = {}
      <4>1. Diagnosis!FaultsWithin(i, s.hops) \subseteq Diagnosis!RelatedFaults(i)
        BY <3>1, WithinIsRelated
      <4> QED BY <2>2, <4>1
    <3>3. s.found \subseteq x
      BY <1>2, <3>1, <3>2
    <3> QED BY <2>1, <3>1, <3>3 DEF OnlyNearer
  <2>5. CASE Rest(j, s)
    <3>1. IsRootCause(s) /\ Diagnosis!LastResort(j, s.found)
      BY <2>2, <2>3, <2>5 DEF IsRootCause, Rest, Diagnosis!Healthy, Diagnosis!NoneInDepth, MoreFaults
    <3>2. s.hops = Far /\ s.found = Diagnosis!NamespaceFaults(j)
      BY <2>5, <3>1 DEF Rest, Diagnosis!LastResort
    <3> QED BY <2>1, <2>2, <2>3, <3>1, <3>2 DEF OnlyNearer
  <2> QED BY <1>1, <2>4, <2>5
<1> QED
  BY <1>1, <1>4, <1>5

-----------------------------------------------------------------------------
(* The pool of fetchers.                                                   *)

\* What was read without an error is the whole log.
LogInv ==
  /\ DOMAIN fetcher = DOMAIN entries
  /\ DOMAIN candidates = DOMAIN entries
  /\ DOMAIN log = DOMAIN entries
  /\ OwnEntries
  /\ \A i \in DOMAIN fetcher :
       fetcher[i] = "done" /\ ~entries[i].failed => entries[i].lines = log[i]

LEMMA LogInvKept == LogInv /\ UNCHANGED logVars => LogInv'
  BY DEF LogInv, OwnEntries, logVars, Beginnings, NoEntry

\* A fetcher that moves has its own entry to write, and writes it only then.
LEMMA LogInvFetcher ==
  ASSUME LogInv, NEW k \in DOMAIN fetcher, FetcherStep(k)
  PROVE  LogInv'
<1> USE DEF LogInv
<1>1. CASE Acquire(k)
  BY <1>1 DEF Acquire, OwnEntries, NoEntry, Beginnings
<1>2. CASE TurnAway(k)
  BY <1>2 DEF TurnAway, OwnEntries, NoEntry, Beginnings
<1>3. ASSUME NEW read \in Beginnings(log[k]), NEW failed \in BOOLEAN, Finish(k, read, failed),
             failed \/ read = log[k]
      PROVE  LogInv'
  BY <1>3 DEF Finish, Place, OwnEntries, NoEntry, Beginnings
<1>4. CASE ReadAll(k)
  <2>1. log[k] \in Beginnings(log[k])
    BY DEF Beginnings
  <2> QED BY <1>3, <1>4, <2>1 DEF ReadAll
<1>5. CASE ReadFails(k)
  BY <1>3, <1>5 DEF ReadFails
<1> QED
  BY <1>1, <1>2, <1>4, <1>5 DEF FetcherStep

LEMMA LogInvConsider ==
  ASSUME LogInv, ConsiderLogs
  PROVE  LogInv'
<1>1. CASE UNCHANGED logVars
  BY <1>1, LogInvKept
<1>2. CASE \E chosen : /\ fetcher' = FetchersFor(chosen) /\ entries' = SliceFor(chosen)
                       /\ DOMAIN candidates' = chosen /\ DOMAIN log' = chosen
  BY <1>2 DEF LogInv, FetchersFor, SliceFor, OwnEntries, NoEntry
<1> QED
  BY <1>1, <1>2 DEF ConsiderLogs

-----------------------------------------------------------------------------
(* The command.                                                            *)

Located == {"select", "diagnose", "candidates", "logs", "again", "render"}
Diagnosed == {"candidates", "logs", "again", "render"}

CmdInv ==
  /\ call \in Calls
  /\ rules \subseteq RuleIDs
  /\ outcome = "report" => step = "end"
  /\ step \in Located \/ outcome = "report" => call.target \in call.node
  /\ step \in Diagnosed \/ outcome = "report" => first \in Results(Question(FALSE))
  /\ step \in {"candidates"} => result = first
  /\ step = "render" \/ outcome = "report" =>
       result = first \/ result \in Results(Question(TRUE))

LEMMA InitInv == Init => LogInv /\ CmdInv
  BY DEF Init, LogInv, CmdInv, OwnEntries, Located, Diagnosed

\* The questions depend on the call, the selected rules and the logs only.
LEMMA FirstQuestionKept ==
  ASSUME call' = call, rules' = rules
  PROVE  Question(FALSE)' = Question(FALSE)
  BY DEF Question, Finds, SignalPods

LEMMA SecondQuestionKept ==
  ASSUME call' = call, rules' = rules, candidates' = candidates, entries' = entries
  PROVE  Question(TRUE)' = Question(TRUE)
  BY DEF Question, Finds, SignalPods

LEMMA CmdInvKept ==
  ASSUME CmdInv, UNCHANGED <<candidates, entries, cmdVars>>
  PROVE  CmdInv'
<1>1. Question(FALSE)' = Question(FALSE) /\ Question(TRUE)' = Question(TRUE)
  BY FirstQuestionKept, SecondQuestionKept DEF cmdVars
<1> QED
  BY <1>1 DEF CmdInv, cmdVars, Results

\* A step before the report: the call and the logs of a second look stay.
LEMMA CmdInvStep ==
  ASSUME CmdInv, Step
  PROVE  CmdInv'
<1> USE DEF CmdInv, Located, Diagnosed
<1>1. CASE Resolve
  BY <1>1 DEF Resolve, Fail
<1>2. CASE FetchSnapshot
  BY <1>2 DEF FetchSnapshot, Fail
<1>3. CASE LookUp
  BY <1>3 DEF LookUp, Fail
<1>4. CASE SelectRules
  <2>1. Unknown(call.only, call.disable) = {} =>
          Select(call.only, call.disable) \subseteq RuleIDs
    BY DEF Select, Unknown
  <2> QED BY <1>4, <2>1 DEF SelectRules, Fail
<1>5. CASE FirstDiagnosis
  <2>1. PICK r \in Results(Question(FALSE)) : first' = r /\ result' = r
    BY <1>5 DEF FirstDiagnosis
  <2>2. Question(FALSE)' = Question(FALSE)
    BY <1>5, FirstQuestionKept DEF FirstDiagnosis
  <2>3. (first \in Results(Question(FALSE)))'
    BY <2>1, <2>2 DEF Results
  <2> QED BY <1>5, <2>1, <2>3 DEF FirstDiagnosis
<1>6. CASE ConsiderLogs
  <2>1. Question(FALSE)' = Question(FALSE)
    BY <1>6, FirstQuestionKept DEF ConsiderLogs
  <2>2. (first \in Results(Question(FALSE)))'
    BY <1>6, <2>1 DEF ConsiderLogs, Results
  <2> QED BY <1>6, <2>2 DEF ConsiderLogs
<1>7. ASSUME NEW i \in DOMAIN fetcher, ReadLog(i)
      PROVE  CmdInv'
  <2>1. Question(FALSE)' = Question(FALSE)
    BY <1>7, FirstQuestionKept DEF ReadLog, cmdVars
  <2>2. (first \in Results(Question(FALSE)))'
    BY <1>7, <2>1 DEF ReadLog, cmdVars, Results
  <2> QED BY <1>7, <2>2 DEF ReadLog, cmdVars
<1>8. CASE LogsFetched
  <2>1. Question(FALSE)' = Question(FALSE)
    BY <1>8, FirstQuestionKept DEF LogsFetched
  <2>2. (first \in Results(Question(FALSE)))'
    BY <1>8, <2>1 DEF LogsFetched, Results
  <2> QED BY <1>8, <2>2 DEF LogsFetched
<1>9. CASE SecondDiagnosis
  <2>1. Question(FALSE)' = Question(FALSE) /\ Question(TRUE)' = Question(TRUE)
    BY <1>9, FirstQuestionKept, SecondQuestionKept DEF SecondDiagnosis, logVars
  <2>2. (first \in Results(Question(FALSE)))' /\ (result \in Results(Question(TRUE)))'
    BY <1>9, <2>1 DEF SecondDiagnosis, Results
  <2> QED BY <1>9, <2>2 DEF SecondDiagnosis
<1>10. CASE Render
  <2>1. Question(FALSE)' = Question(FALSE) /\ Question(TRUE)' = Question(TRUE)
    BY <1>10, FirstQuestionKept, SecondQuestionKept DEF Render, logVars
  <2>2. /\ (first \in Results(Question(FALSE)))'
        /\ result' = first' \/ (result \in Results(Question(TRUE)))'
    BY <1>10, <2>1 DEF Render, Results
  <2> QED BY <1>10, <2>2 DEF Render
<1> QED
  BY <1>1, <1>2, <1>3, <1>4, <1>5, <1>6, <1>7, <1>8, <1>9, <1>10 DEF Step

\* Every reachable state of the command satisfies both invariants: the inductive
\* step of all the theorems below.
THEOREM CommandInvariant == Spec => [](LogInv /\ CmdInv)
<1>1. Init => LogInv /\ CmdInv
  BY InitInv
<1>2. LogInv /\ CmdInv /\ [Next]_vars => (LogInv /\ CmdInv)'
  <2> SUFFICES ASSUME LogInv, CmdInv, [Next]_vars
               PROVE  LogInv' /\ CmdInv'
    OBVIOUS
  <2>1. CASE Step
    <3>1. CmdInv'
      BY <2>1, CmdInvStep
    <3>2. ConsiderLogs => LogInv'
      BY LogInvConsider
    <3>3. ASSUME NEW i \in DOMAIN fetcher, ReadLog(i)
          PROVE  LogInv'
      BY <3>3, LogInvFetcher DEF ReadLog
    <3>4. UNCHANGED logVars => LogInv'
      BY LogInvKept
    <3> QED BY <2>1, <3>1, <3>2, <3>3, <3>4 DEF Step, Resolve, FetchSnapshot, LookUp,
               SelectRules, FirstDiagnosis, LogsFetched, SecondDiagnosis, Render
  <2>2. CASE ContextEnds
    <3>1. LogInv'
      BY <2>2 DEF ContextEnds, LogInv, OwnEntries, Beginnings, NoEntry
    <3>2. CmdInv'
      BY <2>2, CmdInvKept DEF ContextEnds
    <3> QED BY <3>1, <3>2
  <2>3. CASE UNCHANGED vars
    <3>1. UNCHANGED logVars /\ UNCHANGED <<candidates, entries, cmdVars>>
      BY <2>3 DEF vars, logVars
    <3> QED BY <3>1, LogInvKept, CmdInvKept
  <2> QED BY <2>1, <2>2, <2>3 DEF Next, Done
<1> QED
  BY <1>1, <1>2, PTL DEF Spec

\* Whatever the pool of FetchPodLogs does, each entry is that of its candidate,
\* and none is passed over while the context lives.
THEOREM EntriesAreOwn == Spec => []OwnEntries
<1>1. LogInv => OwnEntries
  BY DEF LogInv
<1> QED BY <1>1, CommandInvariant, PTL

\* The second diagnosis of diagnoseWithClient takes no problem back.
THEOREM LogsOnlyComeNearer == Spec => []SecondLookOnlyNearer
<1>1. CmdInv => SecondLookOnlyNearer
  <2> SUFFICES ASSUME CmdInv, outcome = "report", IsRootCause(first)
               PROVE  OnlyNearer(first, result, SignalPods)
    BY DEF SecondLookOnlyNearer, OnlyNearer, IsRootCause
  <2> DEFINE without == Question(FALSE)
             with == Question(TRUE)
  <2>1. /\ call.target \in call.node
        /\ first \in Results(without)
        /\ result = first \/ result \in Results(with)
    BY DEF CmdInv
  <2>2. CASE result = first
    BY <2>2 DEF OnlyNearer
  <2>3. CASE result \in Results(with)
    <3>1. WellFormed(without) /\ WellFormed(with)
      BY QuestionsWellFormed DEF CmdInv
    <3>2. MoreFaults(without, with, SignalPods)
      BY <3>1, FaultsGrow, QuestionsAlike DEF MoreFaults
    <3>3. without.target \in without.node /\ with.target \in with.node
      BY <2>1, QuestionsAlike
    <3> HIDE DEF without, with
    <3>4. Near(without, first) \/ Rest(without, first)
      BY <2>1, <3>1, <3>3, ResultForms
    <3>5. Near(with, result) \/ Rest(with, result)
      BY <2>3, <3>1, <3>3, ResultForms
    <3> QED BY <3>2, <3>4, <3>5, MoreIsNearer
  <2> QED BY <2>1, <2>2, <2>3
<1> QED BY <1>1, CommandInvariant, PTL

\* Logs without a failure pattern leave the report as it was.
THEOREM SilenceChangesNothing == Spec => []SilentLogsChangeNothing
<1>1. CmdInv => SilentLogsChangeNothing
  <2> SUFFICES ASSUME CmdInv, outcome = "report",
                      \A i \in DOMAIN entries : entries[i].lines # "signal"
               PROVE  result = first
    BY DEF SilentLogsChangeNothing
  <2>1. SignalPods = {}
    BY DEF SignalPods
  <2>2. Question(TRUE) = Question(FALSE)
    BY <2>1 DEF Question, Finds
  <2>3. /\ Question(FALSE).target \in Question(FALSE).node
        /\ WellFormed(Question(FALSE))
    BY QuestionsWellFormed, QuestionsAlike DEF CmdInv
  <2>4. CASE result \in Results(Question(TRUE))
    <3>1. first \in Results(Question(FALSE)) /\ result \in Results(Question(FALSE))
      BY <2>2, <2>4 DEF CmdInv
    <3> QED BY <2>3, <3>1, ResultUnique
  <2> QED BY <2>4 DEF CmdInv
<1> QED BY <1>1, CommandInvariant, PTL

-----------------------------------------------------------------------------
(* Which logs are read, and what of a call the command keeps to.           *)

Undecided == {"resolve", "fetch", "lookup", "select", "diagnose", "candidates"}

\* The second question has been put if there was anything to read; it was put
\* after every request had ended.
Consulted == step = "render" \/ outcome = "report"

LookInv ==
  /\ step \in Undecided => DOMAIN entries = {}
  /\ DOMAIN entries # {} => DOMAIN entries = SelectLogCandidates
  /\ \A k \in DOMAIN entries : candidates[k] = call.unhealthy[k] /\ log[k] = call.written[k]
  /\ step = "again" \/ Consulted => \A k \in DOMAIN fetcher : fetcher[k] = "done"
  /\ step \in {"logs", "again"} \/ Consulted =>
       (call.fetchLogs /\ first.found = {} => DOMAIN entries = SelectLogCandidates)
  /\ Consulted /\ DOMAIN entries # {} => result \in Results(Question(TRUE))

Shape ==
  /\ step \in Steps
  /\ outcome \in {"running", "error", "report"}
  /\ ctx \in {"live", "ended"}
  /\ (outcome # "running") <=> (step = "end")
  /\ result.found \subseteq call.node

\* What a diagnosis of the command finds are nodes.
LEMMA FoundAreNodes ==
  ASSUME CmdInv, call.target \in call.node, NEW withLogs \in BOOLEAN,
         NEW r \in Results(Question(withLogs))
  PROVE  r.found \subseteq call.node
<1> DEFINE i == Question(withLogs)
<1>1. WellFormed(i) /\ i.target \in i.node /\ i.node = call.node
  <2>1. CASE withLogs = TRUE
    BY <2>1, QuestionsWellFormed, QuestionsAlike DEF CmdInv
  <2>2. CASE withLogs = FALSE
    BY <2>2, QuestionsWellFormed, QuestionsAlike DEF CmdInv
  <2> QED BY <2>1, <2>2
<1> HIDE DEF i
<1>2. Near(i, r) \/ Rest(i, r)
  BY <1>1, ResultForms DEF i
<1>3. r.found \subseteq i.faulty
  BY <1>2 DEF Near, Rest, Diagnosis!FaultsWithin, Diagnosis!LastResort,
             Diagnosis!NamespaceFaults
<1> QED
  BY <1>1, <1>3 DEF WellFormed

LEMMA SelectionKept ==
  ASSUME call' = call
  PROVE  SelectLogCandidates' = SelectLogCandidates
  BY DEF SelectLogCandidates, AllowedPods, Reaches

LEMMA InitLook == Init => LookInv /\ Shape
  BY DEF Init, LookInv, Shape, Undecided, Consulted, Steps, NoResult

\* A step that leaves the call, the list of entries and the answers alone.
LEMMA LookInvKept ==
  ASSUME LookInv, UNCHANGED <<candidates, log, fetcher, entries, cmdVars>>
  PROVE  LookInv'
<1>1. Question(TRUE)' = Question(TRUE) /\ SelectLogCandidates' = SelectLogCandidates
  BY SecondQuestionKept, SelectionKept DEF cmdVars
<1>2. result \in Results(Question(TRUE)) => (result \in Results(Question(TRUE)))'
  BY <1>1 DEF cmdVars, Results
<1> QED
  BY <1>1, <1>2 DEF LookInv, Consulted, cmdVars

LEMMA LookInvStep ==
  ASSUME LookInv, CmdInv, LogInv, Step
  PROVE  LookInv'
<1> USE DEF LookInv, Undecided, Consulted
<1>0. outcome = "report" => step = "end"
  BY DEF CmdInv
<1>1. call' = call /\ SelectLogCandidates' = SelectLogCandidates
  <2>1. call' = call
    BY DEF Step, Resolve, FetchSnapshot, LookUp, SelectRules, FirstDiagnosis, ConsiderLogs,
           ReadLog, LogsFetched, SecondDiagnosis, Render, Fail, cmdVars
  <2> QED BY <2>1, SelectionKept
<1>2. CASE Resolve \/ FetchSnapshot \/ LookUp \/ SelectRules
  <2>1. /\ DOMAIN entries = {} /\ UNCHANGED logVars /\ outcome # "report"
        /\ step' \in Undecided \/ (step' = "end" /\ outcome' = "error")
        /\ outcome' \in {outcome, "error"}
    BY <1>0, <1>2 DEF Resolve, FetchSnapshot, LookUp, SelectRules, Fail
  <2> QED BY <1>1, <2>1 DEF logVars
<1>3. CASE FirstDiagnosis
  <2>1. /\ DOMAIN entries = {} /\ DOMAIN fetcher = {} /\ UNCHANGED logVars
        /\ outcome' = outcome /\ outcome # "report"
    BY <1>0, <1>3 DEF FirstDiagnosis, LogInv
  <2>2. CASE call.fetchLogs
    <3>1. step' = "candidates"
      BY <1>3, <2>2 DEF FirstDiagnosis
    <3> QED BY <1>1, <2>1, <3>1 DEF logVars
  <2>3. CASE ~call.fetchLogs
    <3>1. step' = "render"
      BY <1>3, <2>3 DEF FirstDiagnosis
    <3> QED BY <1>1, <2>1, <2>3, <3>1 DEF logVars
  <2> QED BY <2>2, <2>3
<1>4. CASE ConsiderLogs
  <2> DEFINE selected == SelectLogCandidates
  <2>1. CASE /\ shouldFetchLogs(selected)
             /\ candidates' = [k \in selected |-> call.unhealthy[k]]
             /\ log' = [k \in selected |-> call.written[k]]
             /\ entries' = SliceFor(selected)
             /\ step' = "logs"
    BY <1>0, <1>1, <1>4, <2>1 DEF ConsiderLogs, SliceFor
  <2>2. CASE /\ ~shouldFetchLogs(selected)
             /\ step' = "render"
             /\ UNCHANGED logVars
    <3>1. DOMAIN entries = {} /\ DOMAIN fetcher = {}
      BY <1>4 DEF ConsiderLogs, LogInv
    <3>2. first.found = {} => selected = {}
      BY <2>2 DEF shouldFetchLogs
    <3> QED BY <1>1, <1>4, <2>2, <3>1, <3>2 DEF ConsiderLogs, logVars
  <2> QED BY <1>4, <2>1, <2>2 DEF ConsiderLogs
<1>5. ASSUME NEW k \in DOMAIN fetcher, ReadLog(k)
      PROVE  LookInv'
  <2>1. /\ UNCHANGED <<candidates, log, cmdVars>>
        /\ DOMAIN entries' = DOMAIN entries
        /\ step = "logs"
    BY <1>5 DEF ReadLog, FetcherStep, Acquire, TurnAway, ReadAll, ReadFails, Finish
  <2> QED BY <1>0, <1>1, <2>1 DEF cmdVars
<1>6. CASE LogsFetched
  BY <1>0, <1>1, <1>6 DEF LogsFetched, AllFetched, logVars
<1>7. CASE SecondDiagnosis
  <2>1. Question(TRUE)' = Question(TRUE)
    BY <1>7, SecondQuestionKept DEF SecondDiagnosis, logVars
  <2>2. (result \in Results(Question(TRUE)))'
    BY <1>7, <2>1 DEF SecondDiagnosis, Results
  <2> QED BY <1>0, <1>1, <1>7, <2>2 DEF SecondDiagnosis, logVars
<1>8. CASE Render
  <2>1. Question(TRUE)' = Question(TRUE)
    BY <1>8, SecondQuestionKept DEF Render, logVars
  <2>2. result \in Results(Question(TRUE)) => (result \in Results(Question(TRUE)))'
    BY <1>8, <2>1 DEF Render, Results
  <2> QED BY <1>0, <1>1, <1>8, <2>2 DEF Render, logVars
<1> QED
  BY <1>2, <1>3, <1>4, <1>5, <1>6, <1>7, <1>8 DEF Step

LEMMA ShapeStep ==
  ASSUME Shape, CmdInv, Step
  PROVE  Shape'
<1> USE DEF Shape, Steps
<1>1. CASE FirstDiagnosis
  <2>1. call.target \in call.node
    BY <1>1 DEF FirstDiagnosis, CmdInv, Located
  <2>2. result'.found \subseteq call.node
    BY <1>1, <2>1, FoundAreNodes DEF FirstDiagnosis
  <2> QED BY <1>1, <2>2 DEF FirstDiagnosis, logVars
<1>2. CASE SecondDiagnosis
  <2>1. call.target \in call.node
    BY <1>2 DEF SecondDiagnosis, CmdInv, Located
  <2>2. result'.found \subseteq call.node
    BY <1>2, <2>1, FoundAreNodes DEF SecondDiagnosis
  <2> QED BY <1>2, <2>2 DEF SecondDiagnosis, logVars
<1>3. CASE Resolve \/ FetchSnapshot \/ LookUp \/ SelectRules
  BY <1>3 DEF Resolve, FetchSnapshot, LookUp, SelectRules, Fail, logVars
<1>4. CASE ConsiderLogs \/ LogsFetched \/ Render
  BY <1>4 DEF ConsiderLogs, LogsFetched, Render, logVars
<1>5. ASSUME NEW k \in DOMAIN fetcher, ReadLog(k)
      PROVE  Shape'
  BY <1>5 DEF ReadLog, FetcherStep, Acquire, TurnAway, ReadAll, ReadFails, Finish, cmdVars
<1> QED
  BY <1>1, <1>2, <1>3, <1>4, <1>5 DEF Step

\* Each diagnosis answers its question, the entries consulted are those of the
\* candidates within the cap, and each variable has the shape its step gives it:
\* the inductive step of the theorems that follow.
THEOREM LooksInvariant == Spec => [](LookInv /\ Shape)
<1>1. Init => LookInv /\ Shape
  BY InitLook
<1>2. LookInv /\ Shape /\ LogInv /\ CmdInv /\ [Next]_vars => (LookInv /\ Shape)'
  <2> SUFFICES ASSUME LookInv, Shape, LogInv, CmdInv, [Next]_vars
               PROVE  LookInv' /\ Shape'
    OBVIOUS
  <2>1. CASE Step
    BY <2>1, LookInvStep, ShapeStep
  <2>2. CASE ContextEnds
    <3>1. LookInv'
      BY <2>2, LookInvKept DEF ContextEnds
    <3>2. Shape'
      BY <2>2 DEF ContextEnds, Shape, cmdVars
    <3> QED BY <3>1, <3>2
  <2>3. CASE UNCHANGED vars
    <3>1. LookInv'
      BY <2>3, LookInvKept DEF vars, logVars
    <3>2. Shape'
      BY <2>3 DEF vars, logVars, cmdVars, Shape
    <3> QED BY <3>1, <3>2
  <2> QED BY <2>1, <2>2, <2>3 DEF Next, Done
<1> QED
  BY <1>1, <1>2, CommandInvariant, PTL DEF Spec

\* Every variable keeps its type, the pool has one goroutine and one entry for
\* each candidate, and no more of them than the cap allows.
THEOREM CommandTypes == Spec => []TypeOK
<1>1. LookInv /\ Shape /\ LogInv /\ CmdInv => TypeOK
  <2> SUFFICES ASSUME LookInv, Shape, LogInv, CmdInv
               PROVE  Cardinality(DOMAIN candidates) <= call.maxLogCandidates
    BY DEF TypeOK, Shape, LogInv, CmdInv
  <2>1. /\ IsFiniteSet(DOMAIN call.unhealthy) /\ DOMAIN call.unhealthy \subseteq Nat
        /\ call.maxLogCandidates \in Nat
    BY CallsAssumption DEF CmdInv
  <2>2. CASE DOMAIN candidates = {}
    BY <2>1, <2>2, FS_EmptySet
  <2>3. CASE DOMAIN candidates = SelectLogCandidates
    <3> DEFINE allowed == {k \in DOMAIN call.unhealthy : call.unhealthy[k].pod \in AllowedPods}
    <3>1. allowed \in SUBSET Nat /\ IsFiniteSet(allowed)
      BY <2>1, FS_Subset
    <3>2. SelectLogCandidates = {k \in allowed :
             Cardinality({j \in allowed : j <= k}) <= call.maxLogCandidates}
      BY DEF SelectLogCandidates
    <3> HIDE DEF allowed
    <3> QED BY <2>1, <2>3, <3>1, <3>2, CutOff
  <2> QED BY <2>2, <2>3 DEF LookInv, LogInv
<1> QED
  BY <1>1, CommandInvariant, LooksInvariant, PTL

\* A fault in sight of an answer that is not among what it found does not exist:
\* a diagnosis names all faults as near as the ones it names, and it names one
\* within its limit if there is any.
LEMMA InSightIsFound ==
  ASSUME NEW i, WellFormed(i), NEW r, Near(i, r) \/ Rest(i, r), NEW n \in i.faulty,
         InHops(i, n, IF r.hops # Far THEN r.hops ELSE i.layer[n]),
         i.maxDepth > 0 => i.layer[n] <= i.maxDepth
  PROVE  n \in r.found
<1>1. n \in i.node /\ i.layer[n] \in Nat /\ i.layer[n] # Far
  BY DEF WellFormed, InHops, Far
<1>2. CASE Near(i, r)
  <2>1. r.hops \in Nat /\ r.found = Diagnosis!FaultsWithin(i, r.hops)
    BY <1>2 DEF Near
  <2>2. r.hops # Far
    BY <2>1 DEF Far
  <2> QED BY <2>1, <2>2 DEF Diagnosis!FaultsWithin
<1>3. CASE Rest(i, r)
  <2>1. n \in Diagnosis!RelatedFaults(i)
    BY <1>1 DEF Diagnosis!RelatedFaults, Reaches
  <2>2. ~Diagnosis!SeesAll(i) /\ Diagnosis!FaultsWithin(i, i.maxDepth) = {}
    BY <1>3, <2>1 DEF Rest, Diagnosis!LastResort, Diagnosis!Healthy, Diagnosis!NoneInDepth
  <2>3. i.maxDepth > 0
    BY <2>2 DEF Diagnosis!SeesAll
  <2>4. n \in Diagnosis!FaultsWithin(i, i.maxDepth)
    BY <1>1, <2>3 DEF Diagnosis!FaultsWithin, InHops
  <2> QED BY <2>2, <2>4
<1> QED
  BY <1>2, <1>3

\* A report passes over a failure pattern in sight only if its log was not read.
THEOREM UnreadIfPassedOver == Spec => []NearerSignalsUnread
<1>1. LookInv /\ LogInv /\ CmdInv => NearerSignalsUnread
  <2> SUFFICES ASSUME LookInv, LogInv, CmdInv, outcome = "report",
                      call.fetchLogs, LogRule \in rules,
                      NEW k \in DOMAIN call.unhealthy,
                      call.unhealthy[k].regular,
                      call.unhealthy[k].pod \notin call.explained,
                      InHops(call, call.unhealthy[k].pod,
                             IF result.hops # Far THEN result.hops
                             ELSE call.layer[call.unhealthy[k].pod]),
                      call.maxDepth > 0 =>
                        call.layer[call.unhealthy[k].pod] <= call.maxDepth,
                      call.written[k] = "signal",
                      call.unhealthy[k].pod \notin result.found
               PROVE  /\ ~(k \in DOMAIN entries /\ ~entries[k].failed)
                      /\ \/ first.found # {}
                         \/ k \notin SelectLogCandidates
                         \/ k \in DOMAIN entries /\ entries[k].failed
    BY DEF NearerSignalsUnread
  <2> DEFINE pod == call.unhealthy[k].pod
             with == Question(TRUE)
  <2>1. ASSUME k \in DOMAIN entries, ~entries[k].failed
        PROVE  FALSE
    <3>1. /\ entries[k].lines = "signal" /\ entries[k].candidate = k
          /\ candidates[k] = call.unhealthy[k]
      BY <2>1 DEF LookInv, Consulted, LogInv, OwnEntries
    <3>2. pod \in SignalPods
      <4>1. pod \in call.pods
        BY CallsAssumption DEF CmdInv
      <4> QED BY <2>1, <3>1, <4>1 DEF SignalPods
    <3>3. pod \in with.faulty
      BY <3>2 DEF Question, Finds
    <3>4. result \in Results(with)
      BY <2>1 DEF LookInv, Consulted
    <3>5. /\ WellFormed(with) /\ with.target \in with.node
          /\ with.layer = call.layer /\ with.maxDepth = call.maxDepth
      BY QuestionsWellFormed, QuestionsAlike DEF CmdInv
    <3>6. /\ InHops(with, pod, IF result.hops # Far THEN result.hops ELSE with.layer[pod])
          /\ with.maxDepth > 0 => with.layer[pod] <= with.maxDepth
      BY <3>5 DEF InHops
    <3> HIDE DEF with, pod
    <3>7. Near(with, result) \/ Rest(with, result)
      BY <3>4, <3>5, ResultForms
    <3>8. pod \in result.found
      BY <3>3, <3>5, <3>6, <3>7, InSightIsFound
    <3> QED BY <3>8 DEF pod
  <2>2. ASSUME first.found = {}, k \in SelectLogCandidates
        PROVE  k \in DOMAIN entries
    BY <2>2 DEF LookInv, Consulted
  <2> QED BY <2>1, <2>2
<1> QED
  BY <1>1, CommandInvariant, LooksInvariant, PTL

-----------------------------------------------------------------------------
(* The name.                                                               *)

\* Built-in and custom entries have the same fields.
LEMMA EntriesAreEntries ==
  ASSUME NEW d, NEW e \in BuiltinCatalog \cup customResourcesFromLists(d)
  PROVE  e = Entry(e.group, e.version, e.resource, e.kind, e.aliases, e.namespaced, e.custom)
<1>1. CASE e \in BuiltinCatalog
  <2>1. e = Entry(e.group, e.version, e.resource, e.kind, e.aliases, e.namespaced, FALSE)
    BY <1>1, CatalogAssumption
  <2>2. e.custom = FALSE
    BY <2>1 DEF Entry
  <2> QED BY <2>1, <2>2
<1>2. CASE e \in customResourcesFromLists(d)
  <2>1. PICK k, r : e = Descriptor(d, k, r)
    BY <1>2 DEF customResourcesFromLists
  <2> QED BY <2>1 DEF Descriptor, Entry
<1> QED
  BY <1>1, <1>2

\* An entry with more aliases: it still has its names and its group version.
LEMMA MoreAliases ==
  ASSUME NEW g, NEW v, NEW r, NEW k, NEW a, NEW n, NEW c, NEW b,
         NEW e, e = Entry(g, v, r, k, a, n, c),
         NEW f, f = [e EXCEPT !.aliases = b]
  PROVE  /\ f.group = e.group /\ f.version = e.version /\ f.resource = e.resource
         /\ f.kind = e.kind /\ f.aliases = b
  BY DEF Entry

\* A name resolves to the only entry that has it.
LEMMA ResolvedIsOnlyMatch ==
  ASSUME NEW found, NEW token, NEW version,
         ResolveResource(found, token, version) # Unresolved
  PROVE  Matches(found, token, version) = {ResolveResource(found, token, version)}
  BY DEF ResolveResource

NameInv ==
  entry # Unresolved =>
    entry = ResolveResource(DiscoverResources(call.cluster), call.token, call.apiVersion)

\* A resolved name means one thing: nothing that was discovered has it as well
\* unless it is the same resource of the same group (ResolveResource).
THEOREM NamesAreUnambiguous == Spec => []NameIsUnambiguous
<1>1. Init => NameInv
  BY DEF Init, NameInv
<1>2. NameInv /\ [Next]_vars => NameInv'
  <2> SUFFICES ASSUME NameInv, [Next]_vars
               PROVE  NameInv'
    OBVIOUS
  <2>1. CASE Resolve
    BY <2>1 DEF Resolve, Fail, NameInv
  <2>2. CASE call' = call /\ entry' = entry
    BY <2>2 DEF NameInv
  <2>3. Resolve \/ (call' = call /\ entry' = entry)
    BY DEF Next, Step, FetchSnapshot, LookUp, SelectRules, FirstDiagnosis, ConsiderLogs,
           ReadLog, LogsFetched, SecondDiagnosis, Render, Fail, ContextEnds, Done, vars, cmdVars
  <2> QED BY <2>1, <2>2, <2>3
<1>3. NameInv => NameIsUnambiguous
  <2> SUFFICES ASSUME NameInv, entry # Unresolved,
                      NEW e \in BuiltinCatalog \cup customResourcesFromLists(call.cluster),
                      resourceMatchesToken(e, call.token),
                      call.apiVersion \in {NoVersion, APIVersion(e)}
               PROVE  e.group = entry.group /\ e.resource = entry.resource
    BY DEF NameIsUnambiguous
  <2> DEFINE f == [e EXCEPT !.aliases = e.aliases \cup ShortNames(call.cluster, e)]
             found == DiscoverResources(call.cluster)
  <2>1. /\ f.group = e.group /\ f.version = e.version /\ f.resource = e.resource
        /\ f.kind = e.kind /\ f.aliases = e.aliases \cup ShortNames(call.cluster, e)
    BY EntriesAreEntries, MoreAliases
  <2>2. f \in found
    BY DEF DiscoverResources
  <2> HIDE DEF f, found
  <2>3. resourceMatchesToken(f, call.token) /\ APIVersion(f) = APIVersion(e)
    BY <2>1 DEF resourceMatchesToken, APIVersion
  <2>4. f \in Matches(found, call.token, call.apiVersion)
    BY <2>2, <2>3 DEF Matches
  <2>5. Matches(found, call.token, call.apiVersion) = {entry}
    BY ResolvedIsOnlyMatch DEF NameInv, found
  <2>6. f = entry
    BY <2>4, <2>5
  <2> QED BY <2>1, <2>6
<1> QED
  BY <1>1, <1>2, <1>3, PTL DEF Spec

=============================================================================
