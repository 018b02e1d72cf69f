------------------------------- MODULE Catalog -------------------------------
(***************************************************************************)
(* From a name on the command line to an API resource: what discovery adds *)
(* to the built-in catalog and how a name is resolved against the result   *)
(* (src/internal/kube/customresource.go, catalog.go). Names are compared   *)
(* after lower-casing and trimming, which is done before they get here; a  *)
(* set of entries stands for the sorted list, whose order decides nothing. *)
(***************************************************************************)
EXTENDS Naturals

CONSTANTS
  BuiltinCatalog,   \* the entries klue knows without asking
  NoVersion         \* --api-version not given

Unresolved == [resource |-> "none"]

\* The fields of an entry.
Entry(group, version, resource, kind, aliases, namespaced, custom) ==
  [group |-> group, version |-> version, resource |-> resource, kind |-> kind,
   aliases |-> aliases, namespaced |-> namespaced, custom |-> custom]

ASSUME CatalogAssumption ==
  \A e \in BuiltinCatalog :
    e = Entry(e.group, e.version, e.resource, e.kind, e.aliases, e.namespaced, FALSE)

IsBuiltinGroup(group) == \E e \in BuiltinCatalog : e.group = group

\* A discovery answer d: d.lists, one list for each group version that could be
\* read, and d.preferred, the preferred version of the groups that state one. A
\* group whose discovery failed contributes no list, and that is no error.

\* The k-th list contributes r: an object kind that can be listed, in a custom
\* group at its preferred version.
Served(d, k, r) ==
  /\ r \in d.lists[k].resources
  /\ ~r.subresource /\ r.listable
  /\ LET group == d.lists[k].group
     IN  /\ ~IsBuiltinGroup(group)
         /\ group \in DOMAIN d.preferred => d.preferred[group] = d.lists[k].version

Descriptor(d, k, r) ==
  Entry(d.lists[k].group, d.lists[k].version, r.name, r.kind, r.shortNames,
        r.namespaced, TRUE)

\* Of several lists that serve one resource of a group the first one counts.
customResourcesFromLists(d) ==
  LET resources == UNION {d.lists[k].resources : k \in DOMAIN d.lists}
      served == {s \in (DOMAIN d.lists) \X resources : Served(d, s[1], s[2])}
      seen(s) == \E q \in served : /\ q[1] < s[1]
                                   /\ d.lists[q[1]].group = d.lists[s[1]].group
                                   /\ q[2].name = s[2].name
  IN  {Descriptor(d, s[1], s[2]) : s \in {s \in served : ~seen(s)}}

\* Short names the API server announces for an entry, built-in ones included.
ShortNames(d, e) ==
  LET own == {k \in DOMAIN d.lists : /\ d.lists[k].group = e.group
                                     /\ d.lists[k].version = e.version}
      same == {r \in UNION {d.lists[k].resources : k \in own} :
                 r.name = e.resource /\ ~r.subresource}
  IN  UNION {r.shortNames : r \in same}

DiscoverResources(d) ==
  {[e EXCEPT !.aliases = e.aliases \cup ShortNames(d, e)] :
     e \in BuiltinCatalog \cup customResourcesFromLists(d)}

\* group/version of an entry, what --api-version is compared with.
APIVersion(e) == <<e.group, e.version>>

resourceMatchesToken(e, token) ==
  token = e.kind \/ token = e.resource \/ token \in e.aliases

Matches(entries, token, apiVersion) ==
  {e \in entries : /\ resourceMatchesToken(e, token)
                   /\ apiVersion = NoVersion \/ APIVersion(e) = apiVersion}

\* Mutant of ResolveResource: the first of several matches is taken.
FirstMatch(entries, token, apiVersion) ==
  LET matches == Matches(entries, token, apiVersion)
  IN  IF matches = {} THEN Unresolved ELSE CHOOSE e \in matches : TRUE

\* The one entry with that name; unknown and ambiguous names are errors.
ResolveResource(entries, token, apiVersion) ==
  LET matches == Matches(entries, token, apiVersion)
  IN  IF \E e \in matches : matches = {e} THEN CHOOSE e \in matches : TRUE ELSE Unresolved

=============================================================================
