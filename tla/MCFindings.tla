----------------------------- MODULE MCFindings -----------------------------
(***************************************************************************)
(* Findings for TLC: the target t, two other objects, all graphs over four *)
(* directed edges between them, and all lists of up to three findings.     *)
(***************************************************************************)
EXTENDS Findings

MCNode == {"t", "d", "u"}
MCEdges == {<<"t", "d">>, <<"d", "u">>, <<"u", "t">>, <<"u", "d">>}
MCGraphs == [node : {MCNode}, edge : SUBSET MCEdges]

MCIdRank == "failed-condition" :> 1 @@ "log-signal" :> 2 @@ "terminating" :> 3
              @@ "warning-events" :> 4 @@ "crashloop" :> 5 @@ "probe" :> 6

Ev(type, sig) == [type |-> type, sig |-> sig]
Finding(id, res, sev, conf, ev, fix) ==
  [id |-> id, res |-> res, sev |-> sev, conf |-> conf, ev |-> ev,
   fix |-> fix, corr |-> 0]

\* Severity ranks, confidences (in hundredths) and evidence as the rules set
\* them; log-signal has the excerpt that the probe rule shows, too.
MCFindings ==
  UNION {{Finding("warning-events", r, 2, 40, {Ev("event", "s1")},
                  <<"describe">>),
          Finding("log-signal", r, 2, 70, {Ev("log", "s1")}, <<"logs">>),
          Finding("probe", r, 2, 70, {Ev("event", "s1"), Ev("log", "s1")},
                  <<"describe", "probe">>),
          Finding("terminating", r, 2, 70, {Ev("metadata", "s2")},
                  <<"finalizers">>)} :
          r \in {"t", "d", "u"}}
  \cup {Finding("crashloop", r, 4, 95, {Ev("status", "s3"), Ev("log", "s1")},
                <<"logs">>) : r \in {"t", "d"}}
  \cup {Finding("failed-condition", "d", 3, 60, {Ev("condition", "s4")},
                <<"describe">>)}

MCRawLists == BoundedSeq(MCFindings, 3)
=============================================================================
