--------------------------- MODULE ResourceGraph ---------------------------
(***************************************************************************)
(* ResourceSnapshot.BuildGraph: the snapshot of a namespace becomes a      *)
(* graph.  Objects become nodes, first those of the typed lists and then   *)
(* the dynamic ones; their owner references, selectors and references by   *)
(* name become edges.  The target of a reference that no node stands for   *)
(* becomes a placeholder.  Everything hangs on two lookup tables, by UID   *)
(* and by logical key, that grow while they are used.                      *)
(*                                                                         *)
(* The lists of a snapshot have no order the builder could rely on: a loop *)
(* takes the entries that are left in any order.  A logical key is a kind  *)
(* and a name; API versions and namespaces are left out, as are the paths  *)
(* of fields.  What a reference field mentions is part of the object.      *)
(* Objects come from an API server, so each has a UID.                     *)
(***************************************************************************)
EXTENDS Integers

CONSTANT Inputs  \* snapshots, each with the objects of the cluster it lacks

VARIABLES
  in,         \* the snapshot: in.typed, in.dynamic; in.unlisted is elsewhere
  phase,      \* the loop that is running
  todo,       \* its remaining entries
  nodes,      \* graphBuilder.nodes and the nodes of the graph
  byUID,      \* graphBuilder.byUID
  byLogical,  \* graphBuilder.byLogical
  edges       \* the edges of the graph, by the keys of their ends

vars == <<in, phase, todo, nodes, byUID, byLogical, edges>>

LogicalKey(r) == <<r.kind, r.name>>
Key(r) == IF r.uid = "" THEN LogicalKey(r) ELSE <<r.uid>>

\* The reference to what has a kind and a name.
Named(r) == [kind |-> r.kind, name |-> r.name, uid |-> ""]

NodeOf(o) ==
  [kind |-> o.kind, name |-> o.name, uid |-> o.uid, object |-> {o},
   reason |-> ""]

Placeholder(r, reason) ==
  [kind |-> r.kind, name |-> r.name, uid |-> "", object |-> {},
   reason |-> reason]

IsPlaceholder(n) == n.object = {}

Edge(kind, from, to, reason) ==
  [kind |-> kind, from |-> Key(from), to |-> Key(to), reason |-> reason]

-----------------------------------------------------------------------------
(* What the objects refer to.                                              *)

Relationship(edge, m) ==
  [edge |-> edge, target |-> Named(m), reason |-> m.reason]

\* The edge kind of each field the typed extractors read, by its reason.
FieldEdge ==
  [configmap |-> "uses_configmap", secret |-> "uses_secret",
   pvc |-> "mounts", node |-> "scheduled_on",
   backend |-> "references", tls |-> "uses_secret",
   volume |-> "references", storageclass |-> "uses_storageclass",
   scaleTargetRef |-> "scale_target", roleRef |-> "role_ref"]

TypedRelationships(o) ==
  {Relationship(FieldEdge[m.reason], m) : m \in o.mentions}

edgeForTarget(kind) ==
  CASE kind = "Secret" -> "uses_secret"
    [] kind = "ConfigMap" -> "uses_configmap"
    [] OTHER -> "references"

\* An object reference names its kind; other fields imply it.
DynamicRelationships(o) ==
  {Relationship(IF m.reason = "objectRef" THEN "references"
                                          ELSE edgeForTarget(m.kind), m) :
     m \in o.mentions}

\* Objects of one list differ in name or kind. An object has a UID of its own,
\* and the dynamic twin of a typed object has the same. The extractors know the
\* fields of typed objects.
ASSUME InputsAssumption ==
  \A s \in Inputs :
    /\ \A o, p \in s.typed : LogicalKey(o) = LogicalKey(p) => o = p
    /\ \A o, p \in s.dynamic : LogicalKey(o) = LogicalKey(p) => o = p
    /\ \A o, p \in s.typed \cup s.dynamic :
         o.uid = p.uid <=> LogicalKey(o) = LogicalKey(p)
    /\ \A o \in s.typed \cup s.dynamic : o.uid # ""
    /\ \A o \in s.typed : \A m \in o.mentions : m.reason \in DOMAIN FieldEdge

selectorMatches(selector, labels) == selector \subseteq labels

Typed(s, kind) == {o \in s.typed : o.kind = kind}

-----------------------------------------------------------------------------
(* The loops, in the order of addNodes and addEdges.                       *)

ReferringKinds ==
  {"Pod", "PersistentVolumeClaim", "Ingress", "HorizontalPodAutoscaler"}
BindingKinds == {"RoleBinding", "ClusterRoleBinding"}
PolicyKinds == {"PodDisruptionBudget", "NetworkPolicy"}

Policies(s) == {o \in s.typed : o.kind \in PolicyKinds}

References(s, kinds) ==
  UNION {{<<o, r>> : r \in TypedRelationships(o)} :
           o \in {o \in s.typed : o.kind \in kinds}}

DynamicReferences(s) ==
  UNION {{<<o, r>> : r \in DynamicRelationships(o)} : o \in s.dynamic}

\* Mutant of Loops: the dynamic objects join when the references are done.
DynamicNodesLast ==
  <<"nodes", "owners", "services", "references", "policies", "bindings",
    "dynamicNodes", "dynamicReferences", "built">>

Loops == <<"nodes", "dynamicNodes", "owners", "services", "references",
           "policies", "bindings", "dynamicReferences", "built">>

Entries(loop) ==
  CASE loop = "dynamicNodes" -> in.dynamic
    [] loop = "owners" -> nodes
    [] loop = "services" -> Typed(in, "Service")
    [] loop = "references" -> References(in, ReferringKinds)
    [] loop = "policies" -> Policies(in)
    [] loop = "bindings" -> References(in, BindingKinds)
    [] loop = "dynamicReferences" -> DynamicReferences(in)
    [] OTHER -> {}

Init ==
  /\ in \in Inputs
  /\ phase = "nodes"
  /\ todo = in.typed
  /\ nodes = {}
  /\ byUID = [u \in {} |-> {}]
  /\ byLogical = [k \in {} |-> {}]
  /\ edges = {}

\* A loop is through and the next one starts.
NextLoop ==
  /\ todo = {}
  /\ \E i \in 1..8 : /\ phase = Loops[i]
                     /\ phase' = Loops[i + 1]
                     /\ todo' = Entries(Loops[i + 1])
  /\ UNCHANGED <<in, nodes, byUID, byLogical, edges>>

Take(entry) ==
  /\ entry \in todo
  /\ todo' = todo \ {entry}
  /\ UNCHANGED <<in, phase>>

Put(index, key, node) ==
  [k \in DOMAIN index \cup {key} |-> IF k = key THEN node ELSE index[k]]

addNode(o) ==
  /\ nodes' = nodes \cup {NodeOf(o)}
  /\ byLogical' = Put(byLogical, LogicalKey(o), NodeOf(o))
  /\ byUID' = Put(byUID, o.uid, NodeOf(o))

AddTypedNode ==
  /\ phase = "nodes"
  /\ \E o \in todo : Take(o) /\ addNode(o)
  /\ UNCHANGED edges

\* Mutant of AddDynamicNode: every dynamic object becomes a node.
DynamicUnchecked ==
  /\ phase = "dynamicNodes"
  /\ \E o \in todo : Take(o) /\ addNode(o)
  /\ UNCHANGED edges

\* An object the typed lists already hold is skipped.
AddDynamicNode ==
  /\ phase = "dynamicNodes"
  /\ \E o \in todo :
       /\ Take(o)
       /\ \/ LogicalKey(o) \notin DOMAIN byLogical /\ addNode(o)
          \/ /\ LogicalKey(o) \in DOMAIN byLogical
             /\ UNCHANGED <<nodes, byUID, byLogical>>
  /\ UNCHANGED edges

\* Owners are looked up by UID alone.
AddOwnerEdges ==
  /\ phase = "owners"
  /\ \E owned \in todo :
       /\ Take(owned)
       /\ edges' = edges \cup
            {Edge("owns", byUID[w.uid], owned, w.kind) :
               w \in {w \in UNION {o.owners : o \in owned.object} :
                        w.uid \in DOMAIN byUID}}
  /\ UNCHANGED <<nodes, byUID, byLogical>>

Selected(selector) ==
  {p \in Typed(in, "Pod") : /\ selectorMatches(selector, p.labels)
                        /\ p.uid \in DOMAIN byUID}

\* Mutant of servicePods: the empty selector selects every pod.
EmptySelectsAll(svc) == UNION {Selected(s) : s \in svc.selectors}

\* A service without a selector selects nothing.
servicePods(svc) == UNION {Selected(s) : s \in svc.selectors \ {{}}}

serviceSlices(svc) ==
  {e \in Typed(in, "EndpointSlice") : /\ e.service = svc.name
                                  /\ e.uid \in DOMAIN byUID}

AddServiceEdges ==
  /\ phase = "services"
  /\ \E svc \in todo :
       /\ Take(svc)
       /\ LET node == byLogical[LogicalKey(svc)]
          IN  edges' = edges
                \cup {Edge("selected_by", node, byUID[p.uid], "selector") :
                        p \in servicePods(svc)}
                \cup {Edge("references", byUID[e.uid], node, "endpointslice") :
                        e \in serviceSlices(svc)}
  /\ UNCHANGED <<nodes, byUID, byLogical>>

\* The empty selector of a policy selects every pod.
AddPolicyEdges ==
  /\ phase = "policies"
  /\ \E policy \in todo :
       /\ Take(policy)
       /\ edges' = edges \cup
            {Edge("protects", byUID[policy.uid], byUID[p.uid], policy.kind) :
               p \in UNION {Selected(s) : s \in policy.selectors}}
  /\ UNCHANGED <<nodes, byUID, byLogical>>

\* Mutant of ensurePlaceholder: the placeholder enters the table only.
TableOnly(r, reason) ==
  /\ byLogical' = Put(byLogical, LogicalKey(r), Placeholder(r, reason))
  /\ UNCHANGED <<nodes, byUID>>

ensurePlaceholder(r, reason) ==
  /\ nodes' = nodes \cup {Placeholder(r, reason)}
  /\ byLogical' = Put(byLogical, LogicalKey(r), Placeholder(r, reason))
  /\ UNCHANGED byUID

\* Mutant of addRelationship: no edge to a placeholder.
DanglingIgnored(from, r) ==
  /\ \/ /\ LogicalKey(r.target) \in DOMAIN byLogical
        /\ edges' = edges \cup
             {Edge(r.edge, from, byLogical[LogicalKey(r.target)], r.reason)}
        /\ UNCHANGED <<nodes, byUID, byLogical>>
     \/ /\ LogicalKey(r.target) \notin DOMAIN byLogical
        /\ ensurePlaceholder(r.target, r.reason)
        /\ UNCHANGED edges

addRelationship(from, r) ==
  /\ \/ /\ LogicalKey(r.target) \in DOMAIN byLogical
        /\ UNCHANGED <<nodes, byUID, byLogical>>
     \/ /\ LogicalKey(r.target) \notin DOMAIN byLogical
        /\ ensurePlaceholder(r.target, r.reason)
  /\ edges' = edges \cup
       {Edge(r.edge, from, byLogical'[LogicalKey(r.target)], r.reason)}

AddReference ==
  /\ phase \in {"references", "bindings"}
  /\ \E entry \in todo :
       /\ Take(entry)
       /\ addRelationship(byUID[entry[1].uid], entry[2])

\* The node of a dynamic object is found by its logical key, so that the
\* references of an object the typed lists hold too start at the typed node.
AddDynamicReference ==
  /\ phase = "dynamicReferences"
  /\ \E entry \in todo :
       /\ Take(entry)
       /\ addRelationship(byLogical[LogicalKey(entry[1])], entry[2])

Terminating == phase = "built" /\ UNCHANGED vars

Next ==
  \/ NextLoop
  \/ AddTypedNode
  \/ AddDynamicNode
  \/ AddOwnerEdges
  \/ AddServiceEdges
  \/ AddPolicyEdges
  \/ AddReference
  \/ AddDynamicReference
  \/ Terminating

Spec == Init /\ [][Next]_vars

-----------------------------------------------------------------------------
(* The lookups of the finished graph and the rules that read its shape.    *)

\* The nodes FindByRef takes the first of: those with the reference's key, or
\* else those with its logical key.
FindByRef(r) ==
  LET same == {n \in nodes : Key(n) = Key(r)}
  IN  IF same # {} THEN same
                   ELSE {n \in nodes : LogicalKey(n) = LogicalKey(r)}

GetInboundEdges(n) == {e \in edges : e.to = Key(n)}

\* docs/rules/builtin.md:98 counts on it for the Secret a Certificate will
\* generate. No extractor makes an edge of this kind (NothingProduces in
\* ResourceGraphProofs), so it is never true.
RelationshipHasProducer(n) ==
  \E e \in GetInboundEdges(n) : e.kind = "produces"

\* builtin/missing-reference reports the node.
MissingReference(n) ==
  /\ IsPlaceholder(n)
  /\ ~RelationshipHasProducer(n)
  /\ GetInboundEdges(n) # {}

\* The owners builtin/orphaned-owner reports as missing.
OrphanedOwner(o) == {w \in o.owners : FindByRef(w) = {}}

\* The references of an object that hpa/missing-scale-target,
\* rbac/missing-role, pod/config-missing, pvc/missing-storageclass,
\* ingress/backend-missing and ingress/tls-secret-missing report.
MissingRelationships(o) ==
  {r \in TypedRelationships(o) : FindByRef(r.target) = {}}

-----------------------------------------------------------------------------
(* What the graph should be, in terms of the snapshot alone.               *)

\* The objects of a snapshot; a typed object hides its dynamic twin.
Objects(s) ==
  s.typed \cup {o \in s.dynamic :
                  \A t \in s.typed : LogicalKey(t) # LogicalKey(o)}

Held(s, r) == {o \in Objects(s) : LogicalKey(o) = LogicalKey(r)}

\* The keys an edge to r may end in: that of the object, or else of its name.
Ends(s, r) ==
  {Key(o) : o \in Held(s, r)} \cup {k \in {LogicalKey(r)} : Held(s, r) = {}}

Links(kind, froms, tos, reason) ==
  {[kind |-> kind, from |-> f, to |-> t, reason |-> reason] :
     f \in froms, t \in tos}

Mentions(s) ==
  References(s, ReferringKinds) \cup References(s, BindingKinds)
    \cup DynamicReferences(s)

MentionLinks(s, m) ==
  Links(m[2].edge, Ends(s, m[1]), Ends(s, m[2].target), m[2].reason)

OwnerLinks(s, o) ==
  UNION {Links("owns", {Key(p) : p \in {p \in Objects(s) : p.uid = w.uid}},
               {Key(o)}, w.kind) : w \in o.owners}

\* The pods that carry all the labels of one of the selectors.
PodKeys(s, selectors) ==
  {Key(p) : p \in {p \in Typed(s, "Pod") :
                     \E x \in selectors : selectorMatches(x, p.labels)}}

SliceKeys(s, svc) ==
  {Key(e) : e \in {e \in Typed(s, "EndpointSlice") : e.service = svc.name}}

ServiceLinks(s, svc) ==
  Links("selected_by", {Key(svc)}, PodKeys(s, svc.selectors \ {{}}), "selector")
    \cup Links("references", SliceKeys(s, svc), {Key(svc)}, "endpointslice")

PolicyLinks(s, o) ==
  Links("protects", {Key(o)}, PodKeys(s, o.selectors), o.kind)

AllLinks(s, owned, services, policies, mentions) ==
  (UNION {OwnerLinks(s, o) : o \in owned})
    \cup (UNION {ServiceLinks(s, svc) : svc \in services})
    \cup (UNION {PolicyLinks(s, o) : o \in policies})
    \cup (UNION {MentionLinks(s, m) : m \in mentions})

-----------------------------------------------------------------------------

AllPlaceholders ==
  {Placeholder(m[2].target, m[2].reason) : m \in Mentions(in)}

\* Nodes stand for objects of the snapshot or for targets of references, the
\* tables agree with the nodes, and edges end in nodes.
TypeOK ==
  /\ phase \in {Loops[i] : i \in 1..9}
  /\ nodes \subseteq {NodeOf(o) : o \in Objects(in)} \cup AllPlaceholders
  /\ {byLogical[k] : k \in DOMAIN byLogical} = nodes
  /\ {byUID[u] : u \in DOMAIN byUID} = {n \in nodes : ~IsPlaceholder(n)}
  /\ \A e \in edges : {e.from, e.to} \subseteq {Key(n) : n \in nodes}

\* No two nodes answer to one logical key: a placeholder never shadows an
\* object of the snapshot, whether a typed or a dynamic list held it, and there
\* is one placeholder for all references to one absent object (lookupLogical,
\* ensurePlaceholder and the skip of addDynamicNodes).
OneNodePerKey ==
  \A m, n \in nodes : LogicalKey(m) = LogicalKey(n) => m = n

\* The edges of the finished graph are those the snapshot's owner references,
\* selectors and references by name imply, no more and no fewer, in whatever
\* order the lists came (addEdges).
GraphOfSnapshot ==
  phase = "built" =>
    edges = AllLinks(in, Objects(in), Typed(in, "Service"), Policies(in),
                     Mentions(in))

\* FindByRef by name alone, as klue why looks its target up, finds the object
\* itself if the snapshot holds it, and finds nothing but a placeholder if it
\* does not.
LookupFindsObject ==
  phase = "built" =>
    /\ \A o \in Objects(in) : FindByRef(Named(o)) = {NodeOf(o)}
    /\ \A m \in Mentions(in) : Held(in, m[2].target) = {} =>
         \A n \in FindByRef(m[2].target) : IsPlaceholder(n)

\* builtin/missing-reference reports each name that is mentioned and that no
\* object of the snapshot has, once, and nothing else.
\* A name that an object of the snapshot is yet to produce is one of them: see
\* RelationshipHasProducer.
MissingReported ==
  phase = "built" =>
    \A k \in {LogicalKey(n) : n \in nodes}
               \cup {LogicalKey(m[2].target) : m \in Mentions(in)} :
      LET absent == \E m \in Mentions(in) : /\ LogicalKey(m[2].target) = k
                                        /\ Held(in, m[2].target) = {}
          reports == {n \in nodes : LogicalKey(n) = k /\ MissingReference(n)}
      IN  IF absent THEN \E n \in nodes : reports = {n} ELSE reports = {}

-----------------------------------------------------------------------------
(* Statements of the documentation that the code does not keep.            *)

\* docs/rules/builtin.md of missing-reference: "That referenced object does not
\* exist in the cluster."
MissingMeansAbsent ==
  phase = "built" =>
    \A n \in nodes : MissingReference(n) =>
      \A o \in Objects(in) \cup in.unlisted : LogicalKey(o) # LogicalKey(n)

\* docs/rules/builtin.md of orphaned-owner: it detects owner references to an
\* object that no longer exists, for example of a ReplicaSet whose Deployment
\* was deleted.
OrphansReported ==
  phase = "built" =>
    \A o \in Objects(in) : \A w \in o.owners :
      Held(in, w) = {} /\ (\A p \in Objects(in) : p.uid # w.uid)
        => w \in OrphanedOwner(o)

\* docs/rules/reliability.md of hpa/missing-scale-target: it fires when the
\* workload does not exist. The other rules built on MissingRelationships say
\* the same of their references.
MissingScaleTargetReported ==
  phase = "built" =>
    \A o \in Typed(in, "HorizontalPodAutoscaler") :
      \A r \in TypedRelationships(o) :
        Held(in, r.target) = {} => r \in MissingRelationships(o)
=============================================================================
