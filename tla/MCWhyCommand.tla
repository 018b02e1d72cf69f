---------------------------- MODULE MCWhyCommand ----------------------------
(***************************************************************************)
(* WhyCommand for TLC. Object 1 is the target, 2 and 3 are pods, 4 is      *)
(* another object of the namespace. Three containers are unhealthy, one of *)
(* them an init container, and two logs are read at a time. MCDiagnoses    *)
(* varies where the objects are, what is wrong with them and what the logs *)
(* hold; MCNames the command line and what discovery answers.              *)
(***************************************************************************)
EXTENDS WhyCommand

MCRuleIDs == {"pod/crashloop", "deployment/unavailable", "builtin/log-signal"}
MCAskingRules == {"pod/crashloop"}

BuiltIn(name, kind, short, namespaced) ==
  [group |-> "", version |-> "v1", resource |-> name, kind |-> kind,
   aliases |-> {name, short}, namespaced |-> namespaced, custom |-> FALSE]
MCCatalog == {BuiltIn("pods", "pod", "po", TRUE), BuiltIn("nodes", "node", "no", FALSE)}

Res(name, kind, shortNames, listable, subresource) ==
  [name |-> name, kind |-> kind, shortNames |-> shortNames, namespaced |-> TRUE,
   listable |-> listable, subresource |-> subresource]
List(group, version, resources) ==
  [group |-> group, version |-> version, resources |-> resources]

Core == List("", "v1", {Res("pods", "pod", {"po"}, TRUE, FALSE),
                        Res("nodes", "node", {"no"}, TRUE, FALSE),
                        Res("nodes/proxy", "node", {}, FALSE, TRUE)})
Metrics == List("metrics", "v1beta1", {Res("pods", "podmetrics", {}, TRUE, FALSE)})
Acme1 == List("acme", "v1", {Res("widgets", "widget", {"wd"}, TRUE, FALSE),
                             Res("widgets/status", "widget", {}, FALSE, TRUE)})
Acme2 == List("acme", "v2", {Res("widgets", "widget", {"wd"}, TRUE, FALSE),
                             Res("gadgets", "gadget", {}, TRUE, FALSE)})
Other1 == List("other", "v1", {Res("windows", "window", {"wd"}, TRUE, FALSE),
                               Res("reviews", "review", {}, FALSE, FALSE)})
Other2 == List("other", "v2", {Res("windows", "window", {"wd"}, TRUE, FALSE)})

MCClusters ==
  [preferred : {[acme |-> "v1", metrics |-> "v1beta1"]},
   lists     : {<<Core, Metrics, Acme1, Acme2, Other2, Other1>>,
                <<Core, Acme2, Acme1>>, <<Core, Other1, Other2>>}]

Layers == {<<0, 1, 1, 1>>, <<0, 1, 2, 1>>, <<0, 2, 1, -1>>, <<0, 1, -1, -1>>,
           <<0, -1, -1, 1>>, <<0, 2, 2, 1>>, <<0, -1, 2, 1>>}

Container(p, name, regular) == [pod |-> p, container |-> name, regular |-> regular]
Unhealthy == <<Container(2, "app", TRUE), Container(2, "init", FALSE),
               Container(3, "app", TRUE)>>

World(layers, crashed, unavailable, explained, written, depths, scans, caps) ==
  [node : {1..4}, target : {1}, layer : layers, placeholder : {{}},
   namespace : {<<"ns", "ns", "ns", "ns">>}, pods : {{2, 3}}, isPod : {FALSE},
   finds : {[r \in MCRuleIDs |-> CASE r = "pod/crashloop" -> c
                                   [] r = "deployment/unavailable" -> u
                                   [] OTHER -> {}] :
              c \in crashed, u \in unavailable},
   unhealthy : {Unhealthy}, written : written, explained : explained,
   maxDepth : depths, scan : scans, maxLogCandidates : caps]

Line(tokens, versions, clusters, only, disable, fetch) ==
  [token : tokens, apiVersion : versions, cluster : clusters,
   only : only, disable : disable, fetchLogs : fetch]

\* A world and a command line.
Both(worlds, lines) ==
  {[f \in DOMAIN w \cup DOMAIN l |-> IF f \in DOMAIN w THEN w[f] ELSE l[f]] :
     w \in worlds, l \in lines}

SomeCluster == [preferred |-> [acme |-> "v1"], lists |-> <<Core>>]
PlainLine == Line({"pod"}, {NoVersion}, {SomeCluster}, {{}}, {{}}, {TRUE})

MCDiagnoses ==
  Both(World(Layers, {{}, {2}, {3}}, {{}, {1}, {4}}, {{}, {2}},
             {<<"signal", "signal", "signal">>, <<"noise", "noise", "signal">>},
             {0, 1}, {TRUE, FALSE}, {1, 3}), PlainLine)

OneWorld == World({<<0, 1, -1, 1>>}, {{2}}, {{1}}, {{}}, {<<"signal", "noise", "empty">>},
                  {0}, {TRUE}, {2})

MCNames ==
  Both(OneWorld, Line({"pods", "pod", "po", "widgets", "wd", "gadgets", "reviews"},
                      {NoVersion, <<"", "v1">>, <<"acme", "v1">>, <<"other", "v2">>},
                      MCClusters, {{}}, {{}}, {FALSE}))
  \cup
  Both(OneWorld, Line({"pod"}, {NoVersion}, {SomeCluster},
                      {{}, {"pod/crashloop"}, {"no such rule"}},
                      {{}, {"builtin/log-signal"}, MCRuleIDs, {"no such rule"}}, {TRUE, FALSE}))
  \cup
  Both({[w EXCEPT !.target = 0] : w \in OneWorld}, PlainLine)
  \cup
  Both({[w EXCEPT !.target = 2, !.isPod = TRUE, !.layer = <<1, 0, 2, -1>>,
                  !.placeholder = p, !.pods = {2, 3} \ p,
                  !.unhealthy = IF p = {} THEN @ ELSE <<@[3]>>] :
          w \in OneWorld, p \in {{}, {2}}}, PlainLine)

MCCalls == MCDiagnoses \cup MCNames
=============================================================================
