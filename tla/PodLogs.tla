------------------------------- MODULE PodLogs -------------------------------
(***************************************************************************)
(* One call of Client.FetchPodLogs (src/internal/kube/logs.go): a          *)
(* goroutine per candidate waits for a slot of the semaphore or for the    *)
(* end of the context, reads one container log and writes its own element  *)
(* of entries. No failure stops the others.                                *)
(*                                                                         *)
(* A log is what the rules can tell apart in it: "signal" (a failure       *)
(* pattern), "noise" (lines without one) or "empty". What the server       *)
(* answers is chosen when a request ends; `log` is what the container has  *)
(* written.                                                                *)
(***************************************************************************)
EXTENDS Integers, FiniteSets

CONSTANT FetchConcurrency   \* Client.fetchConcurrency

ASSUME FetchConcurrencyAssumption == FetchConcurrency \in Nat \ {0}

VARIABLES
  ctx,          \* "live", or "ended" by --timeout or an interrupt
  candidates,   \* the containers to read, by their place in the list
  log,          \* what each of them has written
  fetcher,      \* where the goroutine of each candidate is
  entries       \* the result slice, filled in place

logVars == <<ctx, candidates, log, fetcher, entries>>

\* What may have been read of a log when reading breaks off: no more than it
\* holds.
Beginnings(content) ==
  {content, "empty"} \cup (IF content = "signal" THEN {"noise"} ELSE {})

\* The zero LogEntry the slice is made of.
NoEntry == [candidate |-> 0, lines |-> "empty", failed |-> FALSE, turnedAway |-> FALSE]

\* The goroutines started for the places, and the slice they fill.
FetchersFor(places) == [i \in places |-> "waiting"]
SliceFor(places) == [i \in places |-> NoEntry]

\* Mutant of Reading: a slot is not given back.
NotGivenBack == {i \in DOMAIN fetcher : fetcher[i] # "waiting"}

\* The goroutines that hold a slot.
Reading == {i \in DOMAIN fetcher : fetcher[i] = "reading"}

\* The semaphore's send is chosen; with an ended context the select may choose
\* either case.
Acquire(i) ==
  /\ fetcher[i] = "waiting"
  /\ Cardinality(Reading) < FetchConcurrency
  /\ fetcher' = [fetcher EXCEPT ![i] = "reading"]
  /\ UNCHANGED <<ctx, candidates, log, entries>>

\* ctx.Done() is chosen: the entry carries the context's error.
TurnAway(i) ==
  /\ fetcher[i] = "waiting"
  /\ ctx = "ended"
  /\ entries' = [entries EXCEPT ![i] = [candidate |-> i, lines |-> "empty",
                                        failed |-> TRUE, turnedAway |-> TRUE]]
  /\ fetcher' = [fetcher EXCEPT ![i] = "done"]
  /\ UNCHANGED <<ctx, candidates, log>>

\* Mutant of Place: entries in the order in which requests end.
FirstFree(i) == CHOOSE k \in DOMAIN entries :
  /\ entries[k] = NoEntry
  /\ \A j \in DOMAIN entries : entries[j] = NoEntry => k <= j

\* The element of the slice goroutine i writes.
Place(i) == i

\* The request of i ends with what was read, and its slot is given back.
Finish(i, read, failed) ==
  /\ fetcher[i] = "reading"
  /\ entries' = [entries EXCEPT ![Place(i)] = [candidate |-> i, lines |-> read,
                                               failed |-> failed,
                                               turnedAway |-> FALSE]]
  /\ fetcher' = [fetcher EXCEPT ![i] = "done"]
  /\ UNCHANGED <<ctx, candidates, log>>

\* The whole log was read.
ReadAll(i) == Finish(i, log[i], FALSE)

\* The request was refused, or reading broke off: a lost connection, the end of
\* the context, a line longer than the scanner's buffer. What was read stays.
ReadFails(i) == \E part \in Beginnings(log[i]) : Finish(i, part, TRUE)

FetcherStep(i) == Acquire(i) \/ TurnAway(i) \/ ReadAll(i) \/ ReadFails(i)

\* wg.Wait() lets the caller go on.
AllFetched == \A i \in DOMAIN fetcher : fetcher[i] = "done"

-----------------------------------------------------------------------------

\* The entry in each place is that of the candidate in that place, however the
\* requests overlap, and holds no more than the container wrote: a diagnosis
\* reads an entry's pod and container, not its position. Nobody is passed over
\* for want of a slot: whoever was not asked about has the end of the context to
\* blame (FetchPodLogs).
OwnEntries ==
  \A i \in DOMAIN fetcher :
    IF fetcher[i] = "done"
    THEN /\ entries[i].candidate = i
         /\ entries[i].lines \in Beginnings(log[i])
         /\ entries[i].turnedAway => ctx = "ended"
    ELSE entries[i] = NoEntry

=============================================================================
