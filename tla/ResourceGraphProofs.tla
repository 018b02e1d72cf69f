------------------------ MODULE ResourceGraphProofs ------------------------
(***************************************************************************)
(* Proofs about ResourceGraph, for every snapshot.  GraphInv says how far  *)
(* the loops have come: which objects have nodes, whose edges are there.   *)
(***************************************************************************)
EXTENDS ResourceGraph, TLAPS

\* The objects that have their node.
Placed ==
  CASE phase = "nodes" -> in.typed \ todo
    [] phase = "dynamicNodes" ->
         in.typed \cup {o \in in.dynamic \ todo :
                          \A t \in in.typed : LogicalKey(t) # LogicalKey(o)}
    [] OTHER -> Objects(in)

\* The entries the loops are through with.
OwnersDone ==
  CASE phase \in {"nodes", "dynamicNodes"} -> {}
    [] phase = "owners" -> {o \in Objects(in) : NodeOf(o) \notin todo}
    [] OTHER -> Objects(in)

ServicesDone ==
  CASE phase \in {"nodes", "dynamicNodes", "owners"} -> {}
    [] phase = "services" -> Typed(in, "Service") \ todo
    [] OTHER -> Typed(in, "Service")

PoliciesDone ==
  CASE phase \in {"nodes", "dynamicNodes", "owners", "services",
                  "references"} -> {}
    [] phase = "policies" -> Policies(in) \ todo
    [] OTHER -> Policies(in)

MentionsDone ==
  CASE phase \in {"nodes", "dynamicNodes", "owners", "services"} -> {}
    [] phase = "references" -> References(in, ReferringKinds) \ todo
    [] phase = "policies" -> References(in, ReferringKinds)
    [] phase = "bindings" ->
         References(in, ReferringKinds)
           \cup (References(in, BindingKinds) \ todo)
    [] phase = "dynamicReferences" ->
         References(in, ReferringKinds) \cup References(in, BindingKinds)
           \cup (DynamicReferences(in) \ todo)
    [] OTHER -> Mentions(in)

Phases == {"nodes", "dynamicNodes", "owners", "services", "references",
           "policies", "bindings", "dynamicReferences", "built"}

\* A loop takes its entries from its list.
TodoInv ==
  /\ in \in Inputs
  /\ phase \in Phases
  /\ phase = "nodes" => todo \subseteq in.typed
  /\ phase \notin {"nodes", "owners"} => todo \subseteq Entries(phase)
  /\ phase = "owners" => todo \subseteq {NodeOf(o) : o \in Objects(in)}

\* Nodes stand for the objects that were placed and for the missing targets of
\* the references that were followed.
NodesInv ==
  /\ {NodeOf(o) : o \in Placed} \subseteq nodes
  /\ nodes \subseteq
       {NodeOf(o) : o \in Placed}
         \cup {Placeholder(m[2].target, m[2].reason) : m \in MentionsDone}

\* The tables hold exactly the nodes, each under its own key.
TablesInv ==
  /\ DOMAIN byLogical = {LogicalKey(n) : n \in nodes}
  /\ \A n \in nodes : byLogical[LogicalKey(n)] = n
  /\ DOMAIN byUID = {o.uid : o \in Placed}
  /\ \A o \in Placed : byUID[o.uid] = NodeOf(o)

\* The edges are those of the entries that are done, and these have nodes.
EdgesInv ==
  /\ edges = AllLinks(in, OwnersDone, ServicesDone, PoliciesDone, MentionsDone)
  /\ \A m \in MentionsDone : LogicalKey(m[2].target) \in DOMAIN byLogical

GraphInv == TodoInv /\ NodesInv /\ TablesInv /\ EdgesInv
-----------------------------------------------------------------------------

\* A node has the keys of its object, a placeholder those of the name.
LEMMA NodeKeys ==
  /\ \A o : LogicalKey(NodeOf(o)) = LogicalKey(o) /\ Key(NodeOf(o)) = Key(o)
  /\ \A r, x : /\ LogicalKey(Placeholder(r, x)) = LogicalKey(r)
              /\ Key(Placeholder(r, x)) = LogicalKey(r)
              /\ IsPlaceholder(Placeholder(r, x))
  /\ \A o : ~IsPlaceholder(NodeOf(o))
BY DEF NodeOf, Placeholder, LogicalKey, Key, IsPlaceholder

\* The objects of a snapshot differ in name and in UID.
LEMMA ObjectFacts ==
  ASSUME NEW s \in Inputs
  PROVE  /\ \A o, p \in Objects(s) : LogicalKey(o) = LogicalKey(p) => o = p
         /\ \A o, p \in Objects(s) : o.uid = p.uid => o = p
         /\ \A o \in Objects(s) : o.uid # ""
         /\ s.typed \subseteq Objects(s)
         /\ \A o \in s.dynamic : \E p \in Objects(s) :
              LogicalKey(p) = LogicalKey(o)
<1>1. Objects(s) \subseteq s.typed \cup s.dynamic
  BY DEF Objects
<1>2. ASSUME NEW o \in Objects(s), NEW p \in Objects(s),
             LogicalKey(o) = LogicalKey(p)
      PROVE  o = p
  BY <1>2, InputsAssumption DEF Objects
<1>3. ASSUME NEW o \in Objects(s), NEW p \in Objects(s), o.uid = p.uid
      PROVE  o = p
  <2>1. LogicalKey(o) = LogicalKey(p)
    BY <1>1, <1>3, InputsAssumption
  <2>2. QED
    BY <1>2, <2>1
<1>4. \A o \in Objects(s) : o.uid # ""
  BY <1>1, InputsAssumption
<1>5. s.typed \subseteq Objects(s)
  BY DEF Objects
<1>6. ASSUME NEW o \in s.dynamic
      PROVE  \E p \in Objects(s) : LogicalKey(p) = LogicalKey(o)
  BY DEF Objects
<1>7. QED
  BY <1>2, <1>3, <1>4, <1>5, <1>6

\* An object's node is found under its keys.
LEMMA PlacedFound ==
  ASSUME NodesInv, TablesInv, NEW o \in Placed
  PROVE  /\ LogicalKey(o) \in DOMAIN byLogical
         /\ byLogical[LogicalKey(o)] = NodeOf(o)
         /\ o.uid \in DOMAIN byUID
         /\ byUID[o.uid] = NodeOf(o)
<1>1. NodeOf(o) \in nodes
  BY DEF NodesInv
<1>2. QED
  BY <1>1, NodeKeys DEF TablesInv

\* The one end of an edge to a name is the key of the object that has it.
LEMMA EndsOfHeld ==
  ASSUME NEW s \in Inputs, NEW o \in Objects(s), NEW r,
         LogicalKey(o) = LogicalKey(r)
  PROVE  Ends(s, r) = {Key(o)}
<1>1. \A p \in Objects(s) : LogicalKey(p) = LogicalKey(o) => p = o
  BY ObjectFacts
<1>2. Held(s, r) = {o}
  BY <1>1 DEF Held
<1>3. QED
  BY <1>2 DEF Ends

\* If no object has the name, it is the name's own key.
LEMMA EndsOfAbsent ==
  ASSUME NEW s, NEW r, Held(s, r) = {}
  PROVE  Ends(s, r) = {LogicalKey(r)}
BY DEF Ends

\* Once all objects are placed, the table of names answers as Ends says.
LEMMA TableEnds ==
  ASSUME in \in Inputs, NodesInv, TablesInv, Placed = Objects(in), NEW r,
         LogicalKey(r) \in DOMAIN byLogical
  PROVE  Ends(in, r) = {Key(byLogical[LogicalKey(r)])}
<1> DEFINE n == byLogical[LogicalKey(r)]
<1>1. n \in nodes /\ LogicalKey(n) = LogicalKey(r)
  BY DEF TablesInv
<1>2. ASSUME NEW o \in Objects(in), n = NodeOf(o)
      PROVE  Ends(in, r) = {Key(n)}
  BY <1>1, <1>2, NodeKeys, EndsOfHeld
<1>3. ASSUME NEW m \in MentionsDone,
             n = Placeholder(m[2].target, m[2].reason)
      PROVE  Ends(in, r) = {Key(n)}
  <2>1. ASSUME NEW o \in Held(in, r) PROVE FALSE
    <3>1. o \in Placed /\ LogicalKey(o) = LogicalKey(r)
      BY DEF Held
    <3>2. n = NodeOf(o)
      BY <3>1, PlacedFound
    <3>3. QED
      BY <3>2, <1>3, NodeKeys
  <2>2. Ends(in, r) = {LogicalKey(r)}
    BY <2>1, EndsOfAbsent
  <2>3. Key(n) = LogicalKey(r)
    BY <1>1, <1>3, NodeKeys
  <2>4. QED
    BY <2>2, <2>3
<1>4. QED
  BY <1>1, <1>2, <1>3 DEF NodesInv

-----------------------------------------------------------------------------
(* Steps that leave the nodes alone.                                       *)

\* With the same nodes and the same progress, the tables stay right.
LEMMA SameNodes ==
  ASSUME NodesInv, TablesInv, UNCHANGED <<nodes, byUID, byLogical>>,
         Placed' = Placed, MentionsDone \subseteq MentionsDone'
  PROVE  NodesInv' /\ TablesInv'
<1>1. NodesInv'
  BY DEF NodesInv
<1>2. TablesInv'
  BY DEF TablesInv
<1>3. QED
  BY <1>1, <1>2

\* A step that adds no edge and finishes no entry keeps the edges right.
LEMMA SameEdges ==
  ASSUME EdgesInv, UNCHANGED <<in, edges>>,
         DOMAIN byLogical \subseteq DOMAIN byLogical',
         OwnersDone' = OwnersDone, ServicesDone' = ServicesDone,
         PoliciesDone' = PoliciesDone, MentionsDone' = MentionsDone
  PROVE  EdgesInv'
BY DEF EdgesInv

\* The nine loops, one after the other.
LEMMA LoopSteps ==
  ASSUME NextLoop
  PROVE  \/ phase = "nodes" /\ phase' = "dynamicNodes"
         \/ phase = "dynamicNodes" /\ phase' = "owners"
         \/ phase = "owners" /\ phase' = "services"
         \/ phase = "services" /\ phase' = "references"
         \/ phase = "references" /\ phase' = "policies"
         \/ phase = "policies" /\ phase' = "bindings"
         \/ phase = "bindings" /\ phase' = "dynamicReferences"
         \/ phase = "dynamicReferences" /\ phase' = "built"
<1>1. PICK i \in 1..8 : phase = Loops[i] /\ phase' = Loops[i + 1]
  BY DEF NextLoop
<1>2. i = 1 \/ i = 2 \/ i = 3 \/ i = 4 \/ i = 5 \/ i = 6 \/ i = 7 \/ i = 8
  OBVIOUS
<1>3. QED
  BY <1>1, <1>2 DEF Loops

\* The next loop starts with its whole list.
LEMMA LoopEntries == NextLoop => todo = {} /\ todo' = Entries(phase')
BY DEF NextLoop

\* Starting the next loop keeps the invariant: what it has left is its list.
LEMMA NextLoopInv == ASSUME GraphInv, NextLoop PROVE GraphInv'
<1> USE DEF GraphInv
<1>1. /\ UNCHANGED <<in, nodes, byUID, byLogical, edges>>
      /\ todo = {} /\ todo' = Entries(phase')
  BY LoopEntries DEF NextLoop
<1>2. \A o \in Placed : NodeOf(o) \in nodes
  BY DEF NodesInv
<1>3. ASSUME phase = "nodes", phase' = "dynamicNodes"
      PROVE  GraphInv'
  <2>1. todo' = in.dynamic
    BY <1>1, <1>3 DEF Entries
  <2>2. Placed' = Placed
    BY <1>1, <1>3, <2>1 DEF Placed
  <2>3. /\ OwnersDone' = OwnersDone /\ ServicesDone' = ServicesDone
        /\ PoliciesDone' = PoliciesDone /\ MentionsDone' = MentionsDone
    BY <1>3 DEF OwnersDone, ServicesDone, PoliciesDone, MentionsDone
  <2>4. TodoInv'
    BY <1>1, <1>3, <2>1 DEF TodoInv, Phases, Entries
  <2>5. QED
    BY <1>1, <2>2, <2>3, <2>4, SameNodes, SameEdges
<1>4. ASSUME phase = "dynamicNodes", phase' = "owners"
      PROVE  GraphInv'
  <2>1. todo' = nodes
    BY <1>1, <1>4 DEF Entries
  <2>2. Placed = Objects(in) /\ Placed' = Objects(in)
    BY <1>1, <1>4 DEF Placed, Objects
  <2>3. MentionsDone = {}
    BY <1>4 DEF MentionsDone
  <2>4. nodes = {NodeOf(o) : o \in Objects(in)}
    BY <2>2, <2>3 DEF NodesInv
  <2>5. OwnersDone' = {} /\ OwnersDone = {}
    BY <1>1, <1>4, <2>1, <2>4 DEF OwnersDone
  <2>6. /\ ServicesDone' = ServicesDone
        /\ PoliciesDone' = PoliciesDone /\ MentionsDone' = MentionsDone
    BY <1>4 DEF ServicesDone, PoliciesDone, MentionsDone
  <2>7. TodoInv'
    BY <1>1, <1>4, <2>1, <2>4 DEF TodoInv, Phases
  <2>8. QED
    BY <1>1, <2>2, <2>5, <2>6, <2>7, SameNodes, SameEdges
<1>5. ASSUME phase \in Phases \ {"nodes", "dynamicNodes", "built"},
             phase' \in Phases \ {"nodes", "dynamicNodes", "owners"},
             OwnersDone' = OwnersDone, ServicesDone' = ServicesDone,
             PoliciesDone' = PoliciesDone, MentionsDone' = MentionsDone
      PROVE  GraphInv'
  <2>1. Placed' = Placed
    BY <1>1, <1>5 DEF Placed, Phases
  <2>2. TodoInv'
    BY <1>1, <1>5 DEF TodoInv, Entries
  <2>3. QED
    BY <1>1, <1>5, <2>1, <2>2, SameNodes, SameEdges
<1>6. ASSUME phase = "owners", phase' = "services"
      PROVE  GraphInv'
  <2>1. todo' = Typed(in, "Service")
    BY <1>1, <1>6 DEF Entries
  <2>2. /\ OwnersDone' = OwnersDone /\ ServicesDone' = ServicesDone
        /\ PoliciesDone' = PoliciesDone /\ MentionsDone' = MentionsDone
    BY <1>1, <1>6, <2>1
       DEF OwnersDone, ServicesDone, PoliciesDone, MentionsDone
  <2>3. QED
    BY <1>5, <1>6, <2>2 DEF Phases
<1>7. ASSUME phase = "services", phase' = "references"
      PROVE  GraphInv'
  <2>1. todo' = References(in, ReferringKinds)
    BY <1>1, <1>7 DEF Entries
  <2>2. /\ OwnersDone' = OwnersDone /\ ServicesDone' = ServicesDone
        /\ PoliciesDone' = PoliciesDone /\ MentionsDone' = MentionsDone
    BY <1>1, <1>7, <2>1
       DEF OwnersDone, ServicesDone, PoliciesDone, MentionsDone
  <2>3. QED
    BY <1>5, <1>7, <2>2 DEF Phases
<1>8. ASSUME phase = "references", phase' = "policies"
      PROVE  GraphInv'
  <2>1. todo' = Policies(in)
    BY <1>1, <1>8 DEF Entries
  <2>2. /\ OwnersDone' = OwnersDone /\ ServicesDone' = ServicesDone
        /\ PoliciesDone' = PoliciesDone /\ MentionsDone' = MentionsDone
    BY <1>1, <1>8, <2>1
       DEF OwnersDone, ServicesDone, PoliciesDone, MentionsDone
  <2>3. QED
    BY <1>5, <1>8, <2>2 DEF Phases
<1>9. ASSUME phase = "policies", phase' = "bindings"
      PROVE  GraphInv'
  <2>1. todo' = References(in, BindingKinds)
    BY <1>1, <1>9 DEF Entries
  <2>2. /\ OwnersDone' = OwnersDone /\ ServicesDone' = ServicesDone
        /\ PoliciesDone' = PoliciesDone /\ MentionsDone' = MentionsDone
    BY <1>1, <1>9, <2>1
       DEF OwnersDone, ServicesDone, PoliciesDone, MentionsDone
  <2>3. QED
    BY <1>5, <1>9, <2>2 DEF Phases
<1>10. ASSUME phase = "bindings", phase' = "dynamicReferences"
       PROVE  GraphInv'
  <2>1. todo' = DynamicReferences(in)
    BY <1>1, <1>10 DEF Entries
  <2>2. /\ OwnersDone' = OwnersDone /\ ServicesDone' = ServicesDone
        /\ PoliciesDone' = PoliciesDone /\ MentionsDone' = MentionsDone
    BY <1>1, <1>10, <2>1
       DEF OwnersDone, ServicesDone, PoliciesDone, MentionsDone
  <2>3. QED
    BY <1>5, <1>10, <2>2 DEF Phases
<1>11. ASSUME phase = "dynamicReferences", phase' = "built"
       PROVE  GraphInv'
  <2>1. /\ OwnersDone' = OwnersDone /\ ServicesDone' = ServicesDone
        /\ PoliciesDone' = PoliciesDone /\ MentionsDone' = MentionsDone
    BY <1>1, <1>11
       DEF OwnersDone, ServicesDone, PoliciesDone, MentionsDone, Mentions
  <2>2. QED
    BY <1>5, <1>11, <2>1 DEF Phases
<1>12. QED
  BY <1>3, <1>4, <1>6, <1>7, <1>8, <1>9, <1>10, <1>11, LoopSteps

-----------------------------------------------------------------------------
(* The loops over the lists.                                               *)

\* The builder starts in the invariant.
LEMMA InitGraphInv == Init => GraphInv
<1> SUFFICES ASSUME Init PROVE GraphInv
  OBVIOUS
<1>1. phase = "nodes" /\ todo = in.typed /\ in \in Inputs
  BY DEF Init
<1>2. /\ Placed = {} /\ OwnersDone = {} /\ ServicesDone = {}
      /\ PoliciesDone = {} /\ MentionsDone = {}
  BY <1>1 DEF Placed, OwnersDone, ServicesDone, PoliciesDone, MentionsDone
<1>3. TodoInv
  BY <1>1 DEF TodoInv, Phases
<1>4. NodesInv
  BY <1>2 DEF NodesInv, Init
<1>5. TablesInv
  BY <1>2 DEF TablesInv, Init
<1>6. EdgesInv
  <2>1. AllLinks(in, {}, {}, {}, {}) = {}
    BY DEF AllLinks
  <2>2. QED
    BY <1>2, <2>1 DEF EdgesInv, Init
<1>7. QED
  BY <1>3, <1>4, <1>5, <1>6 DEF GraphInv

\* A node for an object whose keys are new fits into the tables.
LEMMA AddNodeTables ==
  ASSUME NodesInv, TablesInv, NEW o, addNode(o), Placed' = Placed \cup {o},
         LogicalKey(o) \notin DOMAIN byLogical, o.uid \notin DOMAIN byUID,
         MentionsDone' = MentionsDone
  PROVE  NodesInv' /\ TablesInv'
<1>1. NodesInv'
  BY DEF NodesInv, addNode
<1>2. nodes' = nodes \cup {NodeOf(o)}
  BY DEF addNode
<1>3. DOMAIN byLogical' = {LogicalKey(n) : n \in nodes'}
  BY <1>2, NodeKeys DEF TablesInv, addNode, Put
<1>4. ASSUME NEW n \in nodes' PROVE byLogical'[LogicalKey(n)] = n
  <2>1. CASE n = NodeOf(o)
    BY <2>1, NodeKeys DEF addNode, Put
  <2>2. CASE n \in nodes
    <3>1. LogicalKey(n) \in DOMAIN byLogical /\ byLogical[LogicalKey(n)] = n
      BY <2>2 DEF TablesInv
    <3>2. LogicalKey(n) # LogicalKey(o)
      BY <3>1
    <3>3. QED
      BY <3>1, <3>2 DEF addNode, Put
  <2>3. QED
    BY <1>2, <2>1, <2>2
<1>5. DOMAIN byUID' = {p.uid : p \in Placed'}
  BY DEF TablesInv, addNode, Put
<1>6. ASSUME NEW p \in Placed' PROVE byUID'[p.uid] = NodeOf(p)
  <2>1. CASE p = o
    BY <2>1 DEF addNode, Put
  <2>2. CASE p \in Placed
    <3>1. p.uid \in DOMAIN byUID /\ byUID[p.uid] = NodeOf(p)
      BY <2>2 DEF TablesInv
    <3>2. p.uid # o.uid
      BY <3>1
    <3>3. QED
      BY <3>1, <3>2 DEF addNode, Put
  <2>3. QED
    BY <2>1, <2>2
<1>7. QED
  BY <1>1, <1>3, <1>4, <1>5, <1>6 DEF TablesInv

\* While nodes are added, the tables hold placed objects only.
LEMMA PlacedKeys ==
  ASSUME NodesInv, TablesInv, MentionsDone = {}
  PROVE  /\ DOMAIN byLogical = {LogicalKey(o) : o \in Placed}
         /\ DOMAIN byUID = {o.uid : o \in Placed}
<1>1. nodes = {NodeOf(o) : o \in Placed}
  BY DEF NodesInv
<1>2. QED
  BY <1>1, NodeKeys DEF TablesInv

\* Adding nodes leaves the edges alone.
LEMMA AddNodeEdges ==
  ASSUME EdgesInv, phase \in {"nodes", "dynamicNodes"},
         UNCHANGED <<in, phase, edges>>
  PROVE  EdgesInv' /\ MentionsDone = {} /\ MentionsDone' = {}
<1>1. /\ OwnersDone' = OwnersDone /\ ServicesDone' = ServicesDone
      /\ PoliciesDone' = PoliciesDone /\ MentionsDone' = MentionsDone
      /\ MentionsDone = {}
  BY DEF OwnersDone, ServicesDone, PoliciesDone, MentionsDone
<1>2. QED
  BY <1>1 DEF EdgesInv

\* A typed object's node has keys no other node has.
LEMMA TypedNodeInv == ASSUME GraphInv, AddTypedNode PROVE GraphInv'
<1> USE DEF GraphInv
<1>1. PICK o \in todo : Take(o) /\ addNode(o)
  BY DEF AddTypedNode
<1>2. /\ phase = "nodes" /\ phase' = phase /\ in' = in /\ edges' = edges
      /\ todo' = todo \ {o} /\ todo \subseteq in.typed /\ in \in Inputs
  BY <1>1 DEF AddTypedNode, Take, TodoInv
<1>3. TodoInv'
  BY <1>2 DEF TodoInv, Phases
<1>4. Placed = in.typed \ todo /\ Placed' = in.typed \ (todo \ {o})
  BY <1>2 DEF Placed
<1>5. Placed' = Placed \cup {o}
  BY <1>2, <1>4
<1>6. EdgesInv' /\ MentionsDone = {} /\ MentionsDone' = {}
  BY <1>2, AddNodeEdges
<1>7. \A p \in Placed : LogicalKey(p) # LogicalKey(o) /\ p.uid # o.uid
  <2>1. ASSUME NEW p \in Placed
        PROVE  LogicalKey(p) # LogicalKey(o) /\ p.uid # o.uid
    <3>1. p \in Objects(in) /\ o \in Objects(in) /\ p # o
      BY <1>2, <1>4, ObjectFacts
    <3>2. QED
      BY <1>2, <3>1, ObjectFacts
  <2>2. QED
    BY <2>1
<1>8. LogicalKey(o) \notin DOMAIN byLogical /\ o.uid \notin DOMAIN byUID
  BY <1>6, <1>7, PlacedKeys
<1>9. NodesInv' /\ TablesInv'
  BY <1>1, <1>5, <1>6, <1>8, AddNodeTables
<1>10. QED
  BY <1>3, <1>6, <1>9

\* A dynamic object is new, or a typed object has its name.
LEMMA DynamicNodeInv == ASSUME GraphInv, AddDynamicNode PROVE GraphInv'
<1> USE DEF GraphInv
<1>1. PICK o \in todo :
        /\ Take(o)
        /\ \/ LogicalKey(o) \notin DOMAIN byLogical /\ addNode(o)
           \/ /\ LogicalKey(o) \in DOMAIN byLogical
              /\ UNCHANGED <<nodes, byUID, byLogical>>
  BY DEF AddDynamicNode
<1>2. /\ phase = "dynamicNodes" /\ phase' = phase /\ in' = in
      /\ edges' = edges /\ todo' = todo \ {o} /\ in \in Inputs
  BY <1>1 DEF AddDynamicNode, Take, TodoInv
<1>3. todo \subseteq in.dynamic
  BY <1>2 DEF TodoInv, Entries
<1>4. TodoInv'
  BY <1>2, <1>3 DEF TodoInv, Phases, Entries
<1>5. EdgesInv' /\ MentionsDone = {} /\ MentionsDone' = {}
  BY <1>2, AddNodeEdges
<1> DEFINE Fresh(p) == \A t \in in.typed : LogicalKey(t) # LogicalKey(p)
<1>6. /\ Placed = in.typed \cup {p \in in.dynamic \ todo : Fresh(p)}
      /\ Placed' = in.typed \cup {p \in in.dynamic \ (todo \ {o}) : Fresh(p)}
  BY <1>2 DEF Placed
<1>8. CASE Fresh(o)
  <2>1. Placed' = Placed \cup {o}
    BY <1>3, <1>6, <1>8
  <2>2. \A p \in Placed : LogicalKey(p) # LogicalKey(o) /\ p.uid # o.uid
    <3>1. ASSUME NEW p \in Placed
          PROVE  LogicalKey(p) # LogicalKey(o) /\ p.uid # o.uid
      <4>1. o \in Objects(in) /\ p \in Objects(in)
        BY <1>3, <1>6, <1>8 DEF Objects
      <4>2. p # o
        BY <1>6, <1>8
      <4>3. QED
        BY <1>2, <4>1, <4>2, ObjectFacts
    <3>2. QED
      BY <3>1
  <2>3. LogicalKey(o) \notin DOMAIN byLogical /\ o.uid \notin DOMAIN byUID
    BY <1>5, <2>2, PlacedKeys
  <2>4. NodesInv' /\ TablesInv'
    BY <1>1, <1>5, <2>1, <2>3, AddNodeTables
  <2>5. QED
    BY <1>4, <1>5, <2>4
<1>9. CASE ~Fresh(o)
  <2>1. Placed' = Placed
    BY <1>3, <1>6, <1>9
  <2>2. LogicalKey(o) \in DOMAIN byLogical
    BY <1>5, <1>6, <1>9, PlacedKeys
  <2>3. NodesInv' /\ TablesInv'
    BY <1>1, <1>5, <2>1, <2>2, SameNodes
  <2>4. QED
    BY <1>4, <1>5, <2>3
<1>10. QED
  BY <1>8, <1>9

-----------------------------------------------------------------------------
(* The loops that add edges.                                               *)

\* A link is the link of one of the entries.
LEMMA LinkMember ==
  ASSUME NEW s, NEW A, NEW B, NEW C, NEW D, NEW x
  PROVE  x \in AllLinks(s, A, B, C, D) <=>
           \/ \E o \in A : x \in OwnerLinks(s, o)
           \/ \E o \in B : x \in ServiceLinks(s, o)
           \/ \E o \in C : x \in PolicyLinks(s, o)
           \/ \E m \in D : x \in MentionLinks(s, m)
<1> DEFINE a == UNION {OwnerLinks(s, o) : o \in A}
           b == UNION {ServiceLinks(s, o) : o \in B}
           c == UNION {PolicyLinks(s, o) : o \in C}
           d == UNION {MentionLinks(s, m) : m \in D}
<1>1. x \in a <=> \E o \in A : x \in OwnerLinks(s, o)
  OBVIOUS
<1>2. x \in b <=> \E o \in B : x \in ServiceLinks(s, o)
  OBVIOUS
<1>3. x \in c <=> \E o \in C : x \in PolicyLinks(s, o)
  OBVIOUS
<1>4. x \in d <=> \E m \in D : x \in MentionLinks(s, m)
  OBVIOUS
<1>5. AllLinks(s, A, B, C, D) = a \cup b \cup c \cup d
  BY DEF AllLinks
<1> HIDE DEF a, b, c, d
<1>6. QED
  BY <1>1, <1>2, <1>3, <1>4, <1>5

\* The links of one more owned object.
LEMMA MoreOwnerLinks ==
  ASSUME NEW s, NEW A, NEW B, NEW C, NEW D, NEW e
  PROVE  AllLinks(s, A \cup {e}, B, C, D)
           = AllLinks(s, A, B, C, D) \cup OwnerLinks(s, e)
<1>1. ASSUME NEW x
      PROVE  x \in AllLinks(s, A \cup {e}, B, C, D) <=>
               x \in AllLinks(s, A, B, C, D) \/ x \in OwnerLinks(s, e)
  BY LinkMember
<1>2. QED
  BY <1>1

\* The links of one more service.
LEMMA MoreServiceLinks ==
  ASSUME NEW s, NEW A, NEW B, NEW C, NEW D, NEW e
  PROVE  AllLinks(s, A, B \cup {e}, C, D)
           = AllLinks(s, A, B, C, D) \cup ServiceLinks(s, e)
<1>1. ASSUME NEW x
      PROVE  x \in AllLinks(s, A, B \cup {e}, C, D) <=>
               x \in AllLinks(s, A, B, C, D) \/ x \in ServiceLinks(s, e)
  BY LinkMember
<1>2. QED
  BY <1>1

\* The links of one more policy.
LEMMA MorePolicyLinks ==
  ASSUME NEW s, NEW A, NEW B, NEW C, NEW D, NEW e
  PROVE  AllLinks(s, A, B, C \cup {e}, D)
           = AllLinks(s, A, B, C, D) \cup PolicyLinks(s, e)
<1>1. ASSUME NEW x
      PROVE  x \in AllLinks(s, A, B, C \cup {e}, D) <=>
               x \in AllLinks(s, A, B, C, D) \/ x \in PolicyLinks(s, e)
  BY LinkMember
<1>2. QED
  BY <1>1

\* The links of one more reference.
LEMMA MoreMentionLinks ==
  ASSUME NEW s, NEW A, NEW B, NEW C, NEW D, NEW e
  PROVE  AllLinks(s, A, B, C, D \cup {e})
           = AllLinks(s, A, B, C, D) \cup MentionLinks(s, e)
<1>1. ASSUME NEW x
      PROVE  x \in AllLinks(s, A, B, C, D \cup {e}) <=>
               x \in AllLinks(s, A, B, C, D) \/ x \in MentionLinks(s, e)
  BY LinkMember
<1>2. QED
  BY <1>1

\* An edge between nodes is the link between the objects they stand for.
LEMMA EdgeIsLink ==
  ASSUME NEW kind, NEW from, NEW to, NEW reason
  PROVE  {Edge(kind, from, to, reason)}
           = Links(kind, {Key(from)}, {Key(to)}, reason)
BY DEF Edge, Links

\* The edges of an owned object come from the owners that were placed.
LEMMA OwnerEdgesInv == ASSUME GraphInv, AddOwnerEdges PROVE GraphInv'
<1> USE DEF GraphInv
<1>1. PICK owned \in todo :
        /\ Take(owned)
        /\ edges' = edges \cup
             {Edge("owns", byUID[w.uid], owned, w.kind) :
                w \in {w \in UNION {o.owners : o \in owned.object} :
                         w.uid \in DOMAIN byUID}}
  BY DEF AddOwnerEdges
<1>2. /\ phase = "owners" /\ phase' = phase /\ in' = in
      /\ todo' = todo \ {owned} /\ in \in Inputs
      /\ UNCHANGED <<nodes, byUID, byLogical>>
  BY <1>1 DEF AddOwnerEdges, Take, TodoInv
<1>3. PICK o \in Objects(in) : owned = NodeOf(o)
  BY <1>2 DEF TodoInv
<1>4. TodoInv'
  BY <1>2 DEF TodoInv, Phases
<1>5. Placed = Objects(in) /\ Placed' = Objects(in)
  BY <1>2 DEF Placed
<1>6. OwnersDone' = OwnersDone \cup {o}
  <2>1. \A p : NodeOf(p) = NodeOf(o) => p = o
    BY DEF NodeOf
  <2>2. QED
    BY <1>2, <1>3, <2>1 DEF OwnersDone
<1>7. /\ ServicesDone' = ServicesDone /\ PoliciesDone' = PoliciesDone
      /\ MentionsDone' = MentionsDone /\ MentionsDone = {}
  BY <1>2 DEF ServicesDone, PoliciesDone, MentionsDone
<1> DEFINE W == {w \in o.owners : w.uid \in DOMAIN byUID}
           New == {Edge("owns", byUID[w.uid], owned, w.kind) : w \in W}
<1>8. edges' = edges \cup New
  <2>1. UNION {x.owners : x \in owned.object} = o.owners
    BY <1>3 DEF NodeOf
  <2>2. QED
    BY <1>1, <2>1
<1>9. New = OwnerLinks(in, o)
  <2> DEFINE LinksOf(w) ==
               Links("owns", {Key(p) : p \in {p \in Objects(in) :
                                              p.uid = w.uid}},
                     {Key(o)}, w.kind)
  <2>1. ASSUME NEW w \in W
        PROVE  LinksOf(w) = {Edge("owns", byUID[w.uid], owned, w.kind)}
    <3>1. PICK p \in Objects(in) : p.uid = w.uid
      BY <1>5 DEF TablesInv
    <3>2. {q \in Objects(in) : q.uid = w.uid} = {p}
      <4>1. \A q \in Objects(in) : q.uid = p.uid => q = p
        BY <1>2, ObjectFacts
      <4>2. QED
        BY <3>1, <4>1
    <3>3. byUID[w.uid] = NodeOf(p)
      BY <1>5, <3>1 DEF TablesInv
    <3>4. LinksOf(w) = Links("owns", {Key(p)}, {Key(o)}, w.kind)
      BY <3>2
    <3>5. Key(byUID[w.uid]) = Key(p) /\ Key(owned) = Key(o)
      BY <1>3, <3>3, NodeKeys
    <3>6. {Edge("owns", byUID[w.uid], owned, w.kind)}
            = Links("owns", {Key(byUID[w.uid])}, {Key(owned)}, w.kind)
      BY EdgeIsLink
    <3>7. QED
      BY <3>4, <3>5, <3>6
  <2>2. ASSUME NEW w \in o.owners, w \notin W PROVE LinksOf(w) = {}
    <3>1. {q \in Objects(in) : q.uid = w.uid} = {}
      BY <1>5, <2>2 DEF TablesInv
    <3>2. QED
      BY <3>1 DEF Links
  <2>3. OwnerLinks(in, o) = UNION {LinksOf(w) : w \in o.owners}
    BY DEF OwnerLinks
  <2> HIDE DEF LinksOf
  <2>4. QED
    BY <2>1, <2>2, <2>3
<1>10. EdgesInv'
  <2>1. edges = AllLinks(in, OwnersDone, ServicesDone, PoliciesDone,
                         MentionsDone)
    BY DEF EdgesInv
  <2>2. edges' = AllLinks(in, OwnersDone \cup {o}, ServicesDone, PoliciesDone,
                          MentionsDone)
    BY <1>8, <1>9, <2>1, MoreOwnerLinks
  <2>3. QED
    BY <1>2, <1>6, <1>7, <2>2 DEF EdgesInv
<1>11. QED
  BY <1>2, <1>4, <1>5, <1>7, <1>10, SameNodes

\* The pods a list of selectors matches are found, each under its UID.
LEMMA SelectedPods ==
  ASSUME in \in Inputs, NodesInv, TablesInv, Placed = Objects(in),
         NEW selectors, NEW kind, NEW from, NEW reason
  PROVE  {Edge(kind, from, byUID[p.uid], reason) :
            p \in UNION {Selected(x) : x \in selectors}}
           = Links(kind, {Key(from)}, PodKeys(in, selectors), reason)
<1> DEFINE Pods == UNION {Selected(x) : x \in selectors}
<1>1. \A p \in Typed(in, "Pod") :
        p.uid \in DOMAIN byUID /\ byUID[p.uid] = NodeOf(p)
  <2>1. Typed(in, "Pod") \subseteq Placed
    BY ObjectFacts DEF Typed
  <2>2. QED
    BY <2>1 DEF TablesInv
<1>2. Pods = {p \in Typed(in, "Pod") :
                \E x \in selectors : selectorMatches(x, p.labels)}
  BY <1>1 DEF Selected
<1>3. PodKeys(in, selectors) = {Key(p) : p \in Pods}
  BY <1>2 DEF PodKeys
<1>4. \A p \in Pods : Key(byUID[p.uid]) = Key(p)
  BY <1>1, <1>2, NodeKeys
<1> HIDE DEF Pods
<1>5. {Edge(kind, from, byUID[p.uid], reason) : p \in Pods}
        = Links(kind, {Key(from)}, {Key(p) : p \in Pods}, reason)
  BY <1>4 DEF Edge, Links
<1>6. QED
  BY <1>3, <1>5 DEF Pods

\* A policy protects the pods its selectors match.
LEMMA PolicyEdgesInv == ASSUME GraphInv, AddPolicyEdges PROVE GraphInv'
<1> USE DEF GraphInv
<1>1. PICK o \in todo :
        /\ Take(o)
        /\ edges' = edges \cup
             {Edge("protects", byUID[o.uid], byUID[p.uid], o.kind) :
                p \in UNION {Selected(x) : x \in o.selectors}}
  BY DEF AddPolicyEdges
<1>2. /\ phase = "policies" /\ phase' = phase /\ in' = in
      /\ todo' = todo \ {o} /\ in \in Inputs
      /\ UNCHANGED <<nodes, byUID, byLogical>>
  BY <1>1 DEF AddPolicyEdges, Take, TodoInv
<1>3. todo \subseteq Policies(in)
  BY <1>2 DEF TodoInv, Entries
<1>4. TodoInv'
  BY <1>2, <1>3 DEF TodoInv, Phases, Entries
<1>5. Placed = Objects(in) /\ Placed' = Objects(in)
  BY <1>2 DEF Placed
<1>6. PoliciesDone' = PoliciesDone \cup {o}
  BY <1>1, <1>2, <1>3 DEF PoliciesDone
<1>7. /\ OwnersDone' = OwnersDone /\ ServicesDone' = ServicesDone
      /\ MentionsDone' = MentionsDone
  BY <1>2 DEF OwnersDone, ServicesDone, MentionsDone
<1>8. Key(byUID[o.uid]) = Key(o)
  <2>1. o \in Placed
    BY <1>2, <1>3, <1>5, ObjectFacts DEF Policies
  <2>2. QED
    BY <2>1, PlacedFound, NodeKeys
<1>9. edges' = edges \cup PolicyLinks(in, o)
  <2>1. {Edge("protects", byUID[o.uid], byUID[p.uid], o.kind) :
           p \in UNION {Selected(x) : x \in o.selectors}}
          = Links("protects", {Key(byUID[o.uid])}, PodKeys(in, o.selectors),
                  o.kind)
    BY <1>2, <1>5, SelectedPods
  <2>2. QED
    BY <1>1, <1>8, <2>1 DEF PolicyLinks
<1>10. EdgesInv'
  <2>1. edges = AllLinks(in, OwnersDone, ServicesDone, PoliciesDone,
                         MentionsDone)
    BY DEF EdgesInv
  <2>2. edges' = AllLinks(in, OwnersDone, ServicesDone, PoliciesDone \cup {o},
                          MentionsDone)
    BY <1>9, <2>1, MorePolicyLinks
  <2>3. QED
    BY <1>2, <1>6, <1>7, <2>2 DEF EdgesInv
<1>11. QED
  BY <1>2, <1>4, <1>5, <1>7, <1>10, SameNodes

\* A service selects its pods and is referred to by its slices.
LEMMA ServiceEdgesInv == ASSUME GraphInv, AddServiceEdges PROVE GraphInv'
<1> USE DEF GraphInv
<1>1. PICK svc \in todo :
        /\ Take(svc)
        /\ edges' = edges
             \cup {Edge("selected_by", byLogical[LogicalKey(svc)],
                        byUID[p.uid], "selector") : p \in servicePods(svc)}
             \cup {Edge("references", byUID[e.uid],
                        byLogical[LogicalKey(svc)], "endpointslice") :
                     e \in serviceSlices(svc)}
  BY DEF AddServiceEdges
<1>2. /\ phase = "services" /\ phase' = phase /\ in' = in
      /\ todo' = todo \ {svc} /\ in \in Inputs
      /\ UNCHANGED <<nodes, byUID, byLogical>>
  BY <1>1 DEF AddServiceEdges, Take, TodoInv
<1>3. todo \subseteq Typed(in, "Service")
  BY <1>2 DEF TodoInv, Entries
<1>4. TodoInv'
  BY <1>2, <1>3 DEF TodoInv, Phases, Entries
<1>5. Placed = Objects(in) /\ Placed' = Objects(in)
  BY <1>2 DEF Placed
<1>6. ServicesDone' = ServicesDone \cup {svc}
  BY <1>1, <1>2, <1>3 DEF ServicesDone
<1>7. /\ OwnersDone' = OwnersDone /\ PoliciesDone' = PoliciesDone
      /\ MentionsDone' = MentionsDone
  BY <1>2 DEF OwnersDone, PoliciesDone, MentionsDone
<1> DEFINE node == byLogical[LogicalKey(svc)]
           Slices == {e \in Typed(in, "EndpointSlice") : e.service = svc.name}
<1>8. Key(node) = Key(svc)
  <2>1. svc \in Placed
    BY <1>2, <1>3, <1>5, ObjectFacts DEF Typed
  <2>2. QED
    BY <2>1, PlacedFound, NodeKeys
<1>9. \A e \in Slices : e.uid \in DOMAIN byUID /\ Key(byUID[e.uid]) = Key(e)
  <2>1. Slices \subseteq Placed
    BY <1>2, <1>5, ObjectFacts DEF Typed
  <2>2. QED
    BY <2>1, PlacedFound, NodeKeys
<1>10. serviceSlices(svc) = Slices
  BY <1>9 DEF serviceSlices
<1>11. {Edge("selected_by", node, byUID[p.uid], "selector") :
          p \in servicePods(svc)}
         = Links("selected_by", {Key(svc)},
                 PodKeys(in, svc.selectors \ {{}}), "selector")
  BY <1>2, <1>5, <1>8, SelectedPods DEF servicePods
<1>12. {Edge("references", byUID[e.uid], node, "endpointslice") :
          e \in serviceSlices(svc)}
         = Links("references", SliceKeys(in, svc), {Key(svc)}, "endpointslice")
  <2>1. SliceKeys(in, svc) = {Key(e) : e \in Slices}
    BY DEF SliceKeys
  <2> HIDE DEF Slices, node
  <2>2. QED
    BY <1>8, <1>9, <1>10, <2>1 DEF Edge, Links
<1>13. edges' = edges \cup ServiceLinks(in, svc)
  BY <1>1, <1>11, <1>12 DEF ServiceLinks
<1>14. EdgesInv'
  <2>1. edges = AllLinks(in, OwnersDone, ServicesDone, PoliciesDone,
                         MentionsDone)
    BY DEF EdgesInv
  <2>2. edges' = AllLinks(in, OwnersDone, ServicesDone \cup {svc},
                          PoliciesDone, MentionsDone)
    BY <1>13, <2>1, MoreServiceLinks
  <2>3. QED
    BY <1>2, <1>6, <1>7, <2>2 DEF EdgesInv
<1>15. QED
  BY <1>2, <1>4, <1>5, <1>7, <1>14, SameNodes

-----------------------------------------------------------------------------
(* The loops over the references.                                          *)

\* Following a reference m = <<o, r>> from the node of o adds its one edge, and
\* the placeholder of its target if nothing has the name yet.
LEMMA AddRelationshipInv ==
  ASSUME in \in Inputs, in' = in, NodesInv, TablesInv, EdgesInv,
         Placed = Objects(in), Placed' = Placed,
         NEW m, NEW from, Ends(in, m[1]) = {Key(from)},
         addRelationship(from, m[2]),
         MentionsDone' = MentionsDone \cup {m},
         OwnersDone' = OwnersDone, ServicesDone' = ServicesDone,
         PoliciesDone' = PoliciesDone
  PROVE  NodesInv' /\ TablesInv' /\ EdgesInv'
<1> DEFINE r == m[2]
           key == LogicalKey(r.target)
           new == Placeholder(r.target, r.reason)
<1>1. edges' = edges \cup {Edge(r.edge, from, byLogical'[key], r.reason)}
  BY DEF addRelationship
<1>2. NodesInv' /\ TablesInv'
  <2>1. CASE key \in DOMAIN byLogical
    <3>1. UNCHANGED <<nodes, byUID, byLogical>>
      BY <2>1 DEF addRelationship
    <3>2. QED
      BY <3>1, SameNodes
  <2>2. CASE key \notin DOMAIN byLogical
    <3>1. /\ nodes' = nodes \cup {new}
          /\ byLogical' = Put(byLogical, key, new) /\ byUID' = byUID
      BY <2>2 DEF addRelationship, ensurePlaceholder
    <3>2. LogicalKey(new) = key
      BY NodeKeys
    <3>3. NodesInv'
      BY <3>1 DEF NodesInv
    <3> HIDE DEF key, new
    <3>4. DOMAIN byLogical' = {LogicalKey(n) : n \in nodes'}
      BY <3>1, <3>2 DEF TablesInv, Put
    <3>5. ASSUME NEW n \in nodes' PROVE byLogical'[LogicalKey(n)] = n
      <4>1. CASE n = new
        BY <3>1, <3>2, <4>1 DEF Put
      <4>2. CASE n \in nodes
        <5>1. LogicalKey(n) \in DOMAIN byLogical
              /\ byLogical[LogicalKey(n)] = n
          BY <4>2 DEF TablesInv
        <5>2. LogicalKey(n) # key
          BY <2>2, <5>1
        <5>3. QED
          BY <3>1, <5>1, <5>2 DEF Put
      <4>3. QED
        BY <3>1, <4>1, <4>2
    <3>6. TablesInv'
      BY <3>1, <3>4, <3>5 DEF TablesInv
    <3>7. QED
      BY <3>3, <3>6
  <2>3. QED
    BY <2>1, <2>2
<1>3. DOMAIN byLogical' = DOMAIN byLogical \cup {key}
  BY DEF addRelationship, ensurePlaceholder, Put
<1>4. Ends(in, r.target) = {Key(byLogical'[key])}
  <2>1. CASE key \in DOMAIN byLogical
    <3>1. byLogical' = byLogical
      BY <2>1 DEF addRelationship
    <3>2. QED
      BY <2>1, <3>1, TableEnds
  <2>2. CASE key \notin DOMAIN byLogical
    <3>1. byLogical'[key] = new
      BY <2>2 DEF addRelationship, ensurePlaceholder, Put
    <3>2. ASSUME NEW o \in Held(in, r.target) PROVE FALSE
      <4>1. o \in Placed /\ LogicalKey(o) = key
        BY DEF Held
      <4>2. QED
        BY <2>2, <4>1, PlacedFound
    <3>3. Ends(in, r.target) = {key}
      BY <3>2, EndsOfAbsent
    <3>4. QED
      BY <3>1, <3>3, NodeKeys
  <2>3. QED
    BY <2>1, <2>2
<1>5. {Edge(r.edge, from, byLogical'[key], r.reason)} = MentionLinks(in, m)
  <2>1. {Edge(r.edge, from, byLogical'[key], r.reason)}
          = Links(r.edge, {Key(from)}, {Key(byLogical'[key])}, r.reason)
    BY EdgeIsLink
  <2>2. QED
    BY <1>4, <2>1 DEF MentionLinks
<1>6. edges' = AllLinks(in, OwnersDone, ServicesDone, PoliciesDone,
                        MentionsDone \cup {m})
  <2>1. edges = AllLinks(in, OwnersDone, ServicesDone, PoliciesDone,
                         MentionsDone)
    BY DEF EdgesInv
  <2>2. QED
    BY <1>1, <1>5, <2>1, MoreMentionLinks
<1>7. \A x \in MentionsDone' : LogicalKey(x[2].target) \in DOMAIN byLogical'
  BY <1>3 DEF EdgesInv
<1>8. EdgesInv'
  BY <1>6, <1>7 DEF EdgesInv
<1>9. QED
  BY <1>2, <1>8

\* A reference of a typed object starts at that object's node.
LEMMA ReferenceInv == ASSUME GraphInv, AddReference PROVE GraphInv'
<1> USE DEF GraphInv
<1>1. PICK m \in todo : /\ Take(m)
                        /\ addRelationship(byUID[m[1].uid], m[2])
  BY DEF AddReference
<1>2. /\ phase \in {"references", "bindings"} /\ phase' = phase /\ in' = in
      /\ todo' = todo \ {m} /\ in \in Inputs
  BY <1>1 DEF AddReference, Take, TodoInv
<1>3. todo \subseteq Entries(phase)
  BY <1>2 DEF TodoInv
<1>4. TodoInv'
  BY <1>2, <1>3 DEF TodoInv, Phases, Entries
<1>5. Placed = Objects(in) /\ Placed' = Placed
  BY <1>2 DEF Placed
<1>6. MentionsDone' = MentionsDone \cup {m}
  BY <1>1, <1>2, <1>3 DEF MentionsDone, Entries
<1>7. /\ OwnersDone' = OwnersDone /\ ServicesDone' = ServicesDone
      /\ PoliciesDone' = PoliciesDone
  <2>1. CASE phase = "references"
    BY <1>2, <2>1 DEF OwnersDone, ServicesDone, PoliciesDone
  <2>2. CASE phase = "bindings"
    BY <1>2, <2>2 DEF OwnersDone, ServicesDone, PoliciesDone
  <2>3. QED
    BY <1>2, <2>1, <2>2
<1>8. m[1] \in in.typed
  BY <1>2, <1>3 DEF Entries, References
<1>9. Ends(in, m[1]) = {Key(byUID[m[1].uid])}
  <2>1. m[1] \in Objects(in)
    BY <1>2, <1>8, ObjectFacts
  <2>2. Ends(in, m[1]) = {Key(m[1])}
    BY <1>2, <2>1, EndsOfHeld
  <2>3. byUID[m[1].uid] = NodeOf(m[1])
    BY <1>5, <2>1, PlacedFound
  <2>4. QED
    BY <2>2, <2>3, NodeKeys
<1>10. NodesInv' /\ TablesInv' /\ EdgesInv'
  BY <1>1, <1>2, <1>5, <1>6, <1>7, <1>9, AddRelationshipInv
<1>11. QED
  BY <1>4, <1>10

\* A reference of a dynamic object starts at the node that has its name.
LEMMA DynamicReferenceInv ==
  ASSUME GraphInv, AddDynamicReference PROVE GraphInv'
<1> USE DEF GraphInv
<1>1. PICK m \in todo :
        /\ Take(m)
        /\ addRelationship(byLogical[LogicalKey(m[1])], m[2])
  BY DEF AddDynamicReference
<1>2. /\ phase = "dynamicReferences" /\ phase' = phase /\ in' = in
      /\ todo' = todo \ {m} /\ in \in Inputs
  BY <1>1 DEF AddDynamicReference, Take, TodoInv
<1>3. todo \subseteq DynamicReferences(in)
  BY <1>2 DEF TodoInv, Entries
<1>4. TodoInv'
  BY <1>2, <1>3 DEF TodoInv, Phases, Entries
<1>5. Placed = Objects(in) /\ Placed' = Placed
  BY <1>2 DEF Placed
<1>6. MentionsDone' = MentionsDone \cup {m}
  BY <1>1, <1>2, <1>3 DEF MentionsDone
<1>7. /\ OwnersDone' = OwnersDone /\ ServicesDone' = ServicesDone
      /\ PoliciesDone' = PoliciesDone
  BY <1>2 DEF OwnersDone, ServicesDone, PoliciesDone
<1>8. m[1] \in in.dynamic
  BY <1>1, <1>3 DEF DynamicReferences
<1>9. Ends(in, m[1]) = {Key(byLogical[LogicalKey(m[1])])}
  <2>1. PICK p \in Objects(in) : LogicalKey(p) = LogicalKey(m[1])
    BY <1>2, <1>8, ObjectFacts
  <2>2. LogicalKey(m[1]) \in DOMAIN byLogical
    BY <1>5, <2>1, PlacedFound
  <2>3. QED
    BY <1>2, <1>5, <2>2, TableEnds
<1>10. NodesInv' /\ TablesInv' /\ EdgesInv'
  BY <1>1, <1>2, <1>5, <1>6, <1>7, <1>9, AddRelationshipInv
<1>11. QED
  BY <1>4, <1>10

-----------------------------------------------------------------------------
(* The invariant and what it implies.                                      *)

\* Every step keeps the invariant.
LEMMA NextGraphInv == GraphInv /\ [Next]_vars => GraphInv'
<1> SUFFICES ASSUME GraphInv, [Next]_vars PROVE GraphInv'
  OBVIOUS
<1>1. CASE UNCHANGED vars
  <2>1. /\ Placed' = Placed /\ OwnersDone' = OwnersDone
        /\ ServicesDone' = ServicesDone /\ PoliciesDone' = PoliciesDone
        /\ MentionsDone' = MentionsDone
    BY <1>1 DEF vars, Placed, OwnersDone, ServicesDone, PoliciesDone,
                MentionsDone
  <2>2. TodoInv'
    BY <1>1 DEF vars, GraphInv, TodoInv, Entries
  <2>3. NodesInv' /\ TablesInv' /\ EdgesInv'
    BY <1>1, <2>1 DEF vars, GraphInv, NodesInv, TablesInv, EdgesInv
  <2>4. QED
    BY <2>2, <2>3 DEF GraphInv
<1>2. CASE NextLoop
  BY <1>2, NextLoopInv
<1>3. CASE AddTypedNode
  BY <1>3, TypedNodeInv
<1>4. CASE AddDynamicNode
  BY <1>4, DynamicNodeInv
<1>5. CASE AddOwnerEdges
  BY <1>5, OwnerEdgesInv
<1>6. CASE AddServiceEdges
  BY <1>6, ServiceEdgesInv
<1>7. CASE AddPolicyEdges
  BY <1>7, PolicyEdgesInv
<1>8. CASE AddReference
  BY <1>8, ReferenceInv
<1>9. CASE AddDynamicReference
  BY <1>9, DynamicReferenceInv
<1>10. QED
  BY <1>1, <1>2, <1>3, <1>4, <1>5, <1>6, <1>7, <1>8, <1>9
     DEF Next, Terminating

\* The invariant holds in every state of the builder.
LEMMA GraphInvariant == Spec => []GraphInv
<1>1. QED
  BY InitGraphInv, NextGraphInv, PTL DEF Spec

\* OneNodePerKey for every snapshot: the table of names (addNode,
\* ensurePlaceholder, lookupLogical) holds every node, so two nodes of one
\* logical key are one.
THEOREM NodesHaveOneKey == Spec => []OneNodePerKey
<1>1. GraphInv => OneNodePerKey
  BY DEF GraphInv, TablesInv, OneNodePerKey
<1>2. QED
  BY <1>1, GraphInvariant, PTL

\* GraphOfSnapshot for every snapshot and every order of its lists: the edges
\* BuildGraph ends with are a function of the snapshot alone.
THEOREM GraphIsOfSnapshot == Spec => []GraphOfSnapshot
<1>1. GraphInv => GraphOfSnapshot
  <2>1. SUFFICES ASSUME GraphInv, phase = "built" PROVE GraphOfSnapshot
    BY DEF GraphOfSnapshot
  <2>2. /\ OwnersDone = Objects(in) /\ ServicesDone = Typed(in, "Service")
        /\ PoliciesDone = Policies(in) /\ MentionsDone = Mentions(in)
    BY <2>1 DEF OwnersDone, ServicesDone, PoliciesDone, MentionsDone
  <2>3. QED
    BY <2>1, <2>2 DEF GraphInv, EdgesInv, GraphOfSnapshot
<1>2. QED
  BY <1>1, GraphInvariant, PTL

-----------------------------------------------------------------------------
(* What follows for the finished graph.                                    *)

\* In the finished graph everything is placed and every reference followed.
LEMMA Finished ==
  ASSUME GraphInv, phase = "built"
  PROVE  Placed = Objects(in) /\ MentionsDone = Mentions(in)
BY DEF Placed, MentionsDone

\* A UID key is no logical key.
LEMMA KeysDiffer ==
  ASSUME NEW s \in Inputs, NEW o \in Objects(s), NEW r
  PROVE  Key(NodeOf(o)) # LogicalKey(r)
<1>1. Key(NodeOf(o)) = <<o.uid>>
  BY ObjectFacts, NodeKeys DEF Key
<1>2. QED
  BY <1>1 DEF LogicalKey

\* What is referred to is referred to by name, by a known object.
LEMMA MentionFacts ==
  ASSUME NEW s \in Inputs, NEW m \in Mentions(s)
  PROVE  /\ m[2].target.uid = ""
         /\ \E o \in Objects(s) : LogicalKey(o) = LogicalKey(m[1])
         /\ m[2].edge # "produces"
<1>1. CASE \E K : m \in References(s, K)
  <2>1. PICK o \in s.typed : \E r \in TypedRelationships(o) : m = <<o, r>>
    BY <1>1 DEF References
  <2>2. PICK x \in o.mentions :
          m = <<o, Relationship(FieldEdge[x.reason], x)>>
    BY <2>1 DEF TypedRelationships
  <2>3. x.reason \in DOMAIN FieldEdge
    BY InputsAssumption
  <2>4. FieldEdge[x.reason] # "produces"
    BY <2>3 DEF FieldEdge
  <2>5. o \in Objects(s)
    BY ObjectFacts
  <2>6. QED
    BY <2>1, <2>2, <2>4, <2>5 DEF Relationship, Named
<1>2. CASE m \in DynamicReferences(s)
  <2>1. PICK o \in s.dynamic : \E r \in DynamicRelationships(o) : m = <<o, r>>
    BY <1>2 DEF DynamicReferences
  <2>2. \A kind : edgeForTarget(kind) # "produces"
    BY DEF edgeForTarget
  <2>3. PICK x, e : e # "produces" /\ m = <<o, Relationship(e, x)>>
    <3>1. PICK x \in o.mentions :
            m = <<o, Relationship(IF x.reason = "objectRef" THEN "references"
                                  ELSE edgeForTarget(x.kind), x)>>
      BY <2>1 DEF DynamicRelationships
    <3>2. CASE x.reason = "objectRef"
      BY <3>1, <3>2
    <3>3. CASE x.reason # "objectRef"
      BY <2>2, <3>1, <3>3
    <3>4. QED
      BY <3>2, <3>3
  <2>4. \E p \in Objects(s) : LogicalKey(p) = LogicalKey(o)
    BY ObjectFacts
  <2>5. QED
    BY <2>1, <2>3, <2>4 DEF Relationship, Named
<1>3. QED
  BY <1>1, <1>2 DEF Mentions

\* A placeholder of the finished graph is that of a name no object has.
LEMMA PlaceholderFacts ==
  ASSUME GraphInv, phase = "built", NEW n \in nodes, IsPlaceholder(n)
  PROVE  \E m \in Mentions(in) : /\ LogicalKey(m[2].target) = LogicalKey(n)
                                 /\ Held(in, m[2].target) = {}
                                 /\ Key(n) = LogicalKey(n)
<1>1. PICK m \in Mentions(in) : n = Placeholder(m[2].target, m[2].reason)
  BY Finished, NodeKeys DEF GraphInv, NodesInv
<1>2. LogicalKey(m[2].target) = LogicalKey(n) /\ Key(n) = LogicalKey(n)
  BY <1>1, NodeKeys
<1>3. ASSUME NEW o \in Held(in, m[2].target) PROVE FALSE
  <2>1. o \in Placed /\ LogicalKey(o) = LogicalKey(n)
    BY <1>2, Finished DEF Held
  <2>2. n = NodeOf(o)
    BY <2>1, PlacedFound DEF GraphInv, TablesInv
  <2>3. QED
    BY <2>2, NodeKeys
<1>4. QED
  BY <1>2, <1>3

\* TypeOK for every snapshot.
THEOREM TypeCorrect == Spec => []TypeOK
<1>1. ASSUME GraphInv PROVE TypeOK
  <2> USE <1>1
  <2>1. in \in Inputs /\ phase \in Phases
    BY DEF GraphInv, TodoInv
  <2>2. phase \in {Loops[i] : i \in 1..9}
    BY <2>1 DEF Phases, Loops
  <2>3. Placed \subseteq Objects(in)
    BY <2>1, ObjectFacts DEF Placed, Objects
  <2>4. MentionsDone \subseteq Mentions(in)
    BY DEF MentionsDone, Mentions
  <2>5. nodes \subseteq {NodeOf(o) : o \in Objects(in)} \cup AllPlaceholders
    BY <2>3, <2>4 DEF GraphInv, NodesInv, AllPlaceholders
  <2>6. {byLogical[k] : k \in DOMAIN byLogical} = nodes
    BY DEF GraphInv, TablesInv
  <2>7. {byUID[u] : u \in DOMAIN byUID} = {n \in nodes : ~IsPlaceholder(n)}
    <3>1. {byUID[u] : u \in DOMAIN byUID} = {NodeOf(o) : o \in Placed}
      BY DEF GraphInv, TablesInv
    <3>2. {n \in nodes : ~IsPlaceholder(n)} = {NodeOf(o) : o \in Placed}
      BY NodeKeys DEF GraphInv, NodesInv
    <3>3. QED
      BY <3>1, <3>2
  <2>8. ASSUME NEW e \in edges
        PROVE  {e.from, e.to} \subseteq {Key(n) : n \in nodes}
    <3>1. \/ \E o \in OwnersDone : e \in OwnerLinks(in, o)
          \/ \E o \in ServicesDone : e \in ServiceLinks(in, o)
          \/ \E o \in PoliciesDone : e \in PolicyLinks(in, o)
          \/ \E m \in MentionsDone : e \in MentionLinks(in, m)
      BY LinkMember DEF GraphInv, EdgesInv
    <3>2. Placed = Objects(in)
      <4>1. phase \notin {"nodes", "dynamicNodes"}
        BY <3>1 DEF OwnersDone, ServicesDone, PoliciesDone, MentionsDone
      <4>2. QED
        BY <2>1, <4>1 DEF Placed
    <3>3. \A o \in Objects(in) : Key(o) \in {Key(n) : n \in nodes}
      BY <3>2, NodeKeys DEF GraphInv, NodesInv
    <3>4. in.typed \subseteq Objects(in)
      BY <2>1, ObjectFacts
    <3>5. CASE \E o \in OwnersDone : e \in OwnerLinks(in, o)
      <4>1. OwnersDone \subseteq Objects(in)
        BY DEF OwnersDone
      <4>2. QED
        BY <3>3, <3>5, <4>1 DEF OwnerLinks, Links
    <3>6. CASE \E o \in ServicesDone : e \in ServiceLinks(in, o)
      <4>1. ServicesDone \subseteq Objects(in)
        BY <3>4 DEF ServicesDone, Typed
      <4>2. \A x : PodKeys(in, x) \subseteq {Key(o) : o \in Objects(in)}
        BY <3>4 DEF PodKeys, Typed
      <4>3. \A x : SliceKeys(in, x) \subseteq {Key(o) : o \in Objects(in)}
        BY <3>4 DEF SliceKeys, Typed
      <4>4. QED
        BY <3>3, <3>6, <4>1, <4>2, <4>3 DEF ServiceLinks, Links
    <3>7. CASE \E o \in PoliciesDone : e \in PolicyLinks(in, o)
      <4>1. PoliciesDone \subseteq Objects(in)
        BY <3>4 DEF PoliciesDone, Policies
      <4>2. \A x : PodKeys(in, x) \subseteq {Key(o) : o \in Objects(in)}
        BY <3>4 DEF PodKeys, Typed
      <4>3. QED
        BY <3>3, <3>7, <4>1, <4>2 DEF PolicyLinks, Links
    <3>8. ASSUME NEW m \in MentionsDone, e \in MentionLinks(in, m)
          PROVE  {e.from, e.to} \subseteq {Key(n) : n \in nodes}
      <4>1. e.from \in Ends(in, m[1]) /\ e.to \in Ends(in, m[2].target)
        BY <3>8 DEF MentionLinks, Links
      <4>2. PICK o \in Objects(in) : LogicalKey(o) = LogicalKey(m[1])
        BY <2>1, <2>4, MentionFacts
      <4>3. Ends(in, m[1]) = {Key(o)}
        BY <2>1, <4>2, EndsOfHeld
      <4>4. LogicalKey(m[2].target) \in DOMAIN byLogical
        BY DEF GraphInv, EdgesInv
      <4>5. Ends(in, m[2].target) = {Key(byLogical[LogicalKey(m[2].target)])}
        BY <2>1, <3>2, <4>4, TableEnds DEF GraphInv
      <4>6. byLogical[LogicalKey(m[2].target)] \in nodes
        BY <2>6, <4>4
      <4>7. QED
        BY <3>3, <4>1, <4>3, <4>5, <4>6
    <3>9. QED
      BY <3>1, <3>5, <3>6, <3>7, <3>8
  <2>9. QED
    BY <2>2, <2>5, <2>6, <2>7, <2>8 DEF TypeOK
<1>2. QED
  BY <1>1, GraphInvariant, PTL

\* LookupFindsObject for every snapshot: FindByRef by name finds the object, or
\* else nothing but a placeholder.
THEOREM NamesFindObjects == Spec => []LookupFindsObject
<1>1. GraphInv => LookupFindsObject
  <2>1. SUFFICES ASSUME GraphInv, phase = "built" PROVE LookupFindsObject
    BY DEF LookupFindsObject
  <2>2. in \in Inputs
    BY <2>1 DEF GraphInv, TodoInv
  <2>3. ASSUME NEW o \in Objects(in)
        PROVE  FindByRef(Named(o)) = {NodeOf(o)}
    <3>1. /\ Key(Named(o)) = LogicalKey(o)
          /\ LogicalKey(Named(o)) = LogicalKey(o)
      BY DEF Named, Key, LogicalKey
    <3>2. NodeOf(o) \in nodes
      BY <2>1, Finished DEF GraphInv, NodesInv
    <3>3. \A n \in nodes : LogicalKey(n) = LogicalKey(o) => n = NodeOf(o)
      BY <2>1, <3>2, NodeKeys DEF GraphInv, TablesInv
    <3>4. ASSUME NEW n \in nodes PROVE Key(n) # LogicalKey(o)
      <4>1. CASE IsPlaceholder(n)
        <5>1. Key(n) = LogicalKey(n)
          BY <2>1, <4>1, PlaceholderFacts
        <5>2. QED
          BY <3>3, <4>1, <5>1, NodeKeys
      <4>2. CASE ~IsPlaceholder(n)
        <5>1. PICK p \in Objects(in) : n = NodeOf(p)
          BY <2>1, <4>2, Finished, NodeKeys DEF GraphInv, NodesInv
        <5>2. QED
          BY <2>2, <5>1, KeysDiffer
      <4>3. QED
        BY <4>1, <4>2
    <3>5. {n \in nodes : Key(n) = Key(Named(o))} = {}
      BY <3>1, <3>4
    <3>6. {n \in nodes : LogicalKey(n) = LogicalKey(Named(o))} = {NodeOf(o)}
      BY <3>1, <3>2, <3>3, NodeKeys
    <3>7. QED
      BY <3>5, <3>6 DEF FindByRef
  <2>4. ASSUME NEW m \in Mentions(in), Held(in, m[2].target) = {},
               NEW n \in FindByRef(m[2].target)
        PROVE  IsPlaceholder(n)
    <3>1. n \in nodes
      BY DEF FindByRef
    <3>2. Key(m[2].target) = LogicalKey(m[2].target)
      BY <2>2, MentionFacts DEF Key
    <3>3. \/ Key(n) = LogicalKey(m[2].target)
          \/ LogicalKey(n) = LogicalKey(m[2].target)
      BY <3>2 DEF FindByRef
    <3>4. ASSUME NEW o \in Objects(in), n = NodeOf(o) PROVE FALSE
      <4>1. LogicalKey(o) # LogicalKey(m[2].target)
        BY <2>4 DEF Held
      <4>2. QED
        BY <2>2, <3>3, <3>4, <4>1, NodeKeys, KeysDiffer
    <3>5. QED
      BY <2>1, <3>1, <3>4, Finished, NodeKeys DEF GraphInv, NodesInv
  <2>5. QED
    BY <2>3, <2>4 DEF LookupFindsObject
<1>2. QED
  BY <1>1, GraphInvariant, PTL

\* No edge says that its source produces its target.
LEMMA NothingProduces ==
  ASSUME GraphInv, phase = "built", NEW e \in edges
  PROVE  e.kind # "produces"
<1>1. in \in Inputs /\ e \in AllLinks(in, OwnersDone, ServicesDone,
                                      PoliciesDone, MentionsDone)
  BY DEF GraphInv, TodoInv, EdgesInv
<1>2. \A o : e \in OwnerLinks(in, o) => e.kind = "owns"
  BY DEF OwnerLinks, Links
<1>3. \A o : e \in ServiceLinks(in, o) => e.kind # "produces"
  BY DEF ServiceLinks, Links
<1>4. \A o : e \in PolicyLinks(in, o) => e.kind = "protects"
  BY DEF PolicyLinks, Links
<1>5. ASSUME NEW m \in Mentions(in), e \in MentionLinks(in, m)
      PROVE  e.kind # "produces"
  <2>1. e.kind = m[2].edge
    BY <1>5 DEF MentionLinks, Links
  <2>2. QED
    BY <1>1, <2>1, MentionFacts
<1>6. \/ \E o \in OwnersDone : e \in OwnerLinks(in, o)
      \/ \E o \in ServicesDone : e \in ServiceLinks(in, o)
      \/ \E o \in PoliciesDone : e \in PolicyLinks(in, o)
      \/ \E m \in MentionsDone : e \in MentionLinks(in, m)
  BY <1>1, LinkMember
<1>7. QED
  BY <1>2, <1>3, <1>4, <1>5, <1>6, Finished

\* MissingReported for every snapshot: builtin/missing-reference reports each
\* mentioned name that no object has, by exactly one node, and nothing else.
THEOREM MissingAreReported == Spec => []MissingReported
<1> DEFINE Absent(k) == \E m \in Mentions(in) : LogicalKey(m[2].target) = k
                                             /\ Held(in, m[2].target) = {}
           Reports(k) == {n \in nodes : /\ LogicalKey(n) = k
                                        /\ MissingReference(n)}
<1>1. ASSUME GraphInv, phase = "built", NEW k, Absent(k)
      PROVE  \E n \in nodes : Reports(k) = {n}
  <2>1. in \in Inputs
    BY <1>1 DEF GraphInv, TodoInv
  <2>2. PICK m \in Mentions(in) : /\ LogicalKey(m[2].target) = k
                                  /\ Held(in, m[2].target) = {}
    BY <1>1
  <2>3. k \in DOMAIN byLogical
    BY <1>1, <2>2, Finished DEF GraphInv, EdgesInv
  <2>4. PICK n \in nodes : LogicalKey(n) = k
    BY <1>1, <2>3 DEF GraphInv, TablesInv
  <2>5. \A x \in nodes : LogicalKey(x) = k => x = n
    BY <1>1, <2>4 DEF GraphInv, TablesInv
  <2>6. IsPlaceholder(n)
    <3>1. ASSUME NEW o \in Objects(in), n = NodeOf(o) PROVE FALSE
      BY <2>2, <2>4, <3>1, NodeKeys DEF Held
    <3>2. QED
      BY <1>1, <3>1, Finished, NodeKeys DEF GraphInv, NodesInv
  <2>7. ~RelationshipHasProducer(n)
    BY <1>1, NothingProduces DEF RelationshipHasProducer, GetInboundEdges
  <2>8. GetInboundEdges(n) # {}
    <3>1. PICK o \in Objects(in) : LogicalKey(o) = LogicalKey(m[1])
      BY <2>1, MentionFacts
    <3>2. Ends(in, m[1]) = {Key(o)}
      BY <2>1, <3>1, EndsOfHeld
    <3>3. Ends(in, m[2].target) = {k}
      BY <2>2, EndsOfAbsent
    <3>4. Key(n) = k
      BY <1>1, <2>4, <2>6, PlaceholderFacts
    <3> DEFINE e == [kind |-> m[2].edge, from |-> Key(o), to |-> k,
                     reason |-> m[2].reason]
    <3>5. e \in MentionLinks(in, m)
      BY <3>2, <3>3 DEF MentionLinks, Links
    <3>6. e \in AllLinks(in, OwnersDone, ServicesDone, PoliciesDone,
                         MentionsDone)
      BY <1>1, <3>5, Finished, LinkMember
    <3>7. e \in edges
      BY <1>1, <3>6 DEF GraphInv, EdgesInv
    <3>8. QED
      BY <3>4, <3>7 DEF GetInboundEdges
  <2>9. QED
    BY <2>4, <2>5, <2>6, <2>7, <2>8 DEF MissingReference
<1>2. ASSUME GraphInv, phase = "built", NEW k, ~Absent(k)
      PROVE  Reports(k) = {}
  BY <1>2, PlaceholderFacts DEF MissingReference
<1>3. GraphInv => MissingReported
  <2> HIDE DEF Reports
  <2>1. QED
    BY <1>1, <1>2 DEF MissingReported, Reports
<1>4. QED
  BY <1>3, GraphInvariant, PTL
=============================================================================
