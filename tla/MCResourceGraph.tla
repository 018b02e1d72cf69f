-------------------------- MODULE MCResourceGraph --------------------------
(***************************************************************************)
(* ResourceGraph for TLC: snapshots of up to MaxObjects of sixteen         *)
(* objects that own, select and mention one another, among them a          *)
(* Deployment that was deleted and created again under its name, two       *)
(* custom resources, and a dynamic twin of a typed object.  A Role may     *)
(* exist that the user is not allowed to list.                             *)
(***************************************************************************)
EXTENDS ResourceGraph, FiniteSets, FiniteSetsExt

CONSTANT MaxObjects

Bare(kind, name, uid) ==
  [kind |-> kind, name |-> name, uid |-> uid, owners |-> {}, mentions |-> {},
   labels |-> {}, selectors |-> {}, service |-> ""]

Owned(o, owners) == [o EXCEPT !.owners = owners]
Mentioning(o, mentions) == [o EXCEPT !.mentions = mentions]

Mention(reason, kind, name) == [reason |-> reason, kind |-> kind, name |-> name]
Owner(o) == [kind |-> o.kind, name |-> o.name, uid |-> o.uid]

Deployment == Bare("Deployment", "web", "d1")
Recreated == Bare("Deployment", "web", "d2")
Certificate ==
  Mentioning(Bare("Certificate", "web", "ct"),
             {Mention("secretName", "Secret", "tls"),
              Mention("objectRef", "Issuer", "ca")})
Secret == Owned(Bare("Secret", "tls", "s"), {Owner(Certificate)})
ReplicaSet ==
  Owned(Bare("ReplicaSet", "web", "rs"),
        {Owner(Deployment), Owner(Certificate)})
Pod ==
  [Owned(Mentioning(Bare("Pod", "web", "p"),
                    {Mention("secret", "Secret", "tls"),
                     Mention("node", "Node", "n")}),
         {Owner(ReplicaSet)}) EXCEPT !.labels = {"app", "tier"}]
Service == [Bare("Service", "web", "sv") EXCEPT !.selectors = {{"app"}}]
Selectorless == [Bare("Service", "ext", "sx") EXCEPT !.selectors = {{}}]
EndpointSlice == [Bare("EndpointSlice", "web", "es") EXCEPT !.service = "web"]
Ingress ==
  Mentioning(Bare("Ingress", "web", "ig"),
             {Mention("tls", "Secret", "tls"),
              Mention("backend", "Service", "web")})
Autoscaler ==
  Mentioning(Bare("HorizontalPodAutoscaler", "web", "h"),
             {Mention("scaleTargetRef", "Deployment", "web")})
RolloutScaler ==
  Mentioning(Bare("HorizontalPodAutoscaler", "roll", "hr"),
             {Mention("scaleTargetRef", "Rollout", "web")})
Rollout == Bare("Rollout", "web", "ro")
Budget ==
  [Bare("PodDisruptionBudget", "all", "b") EXCEPT !.selectors = {{}}]
Binding ==
  Mentioning(Bare("RoleBinding", "web", "rb"),
             {Mention("roleRef", "Role", "web")})
Role == Bare("Role", "web", "r")

\* What the dynamic client returns for the Secret the typed list holds too.
Twin == Mentioning(Secret, {Mention("objectRef", "Service", "web")})

TypedObjects ==
  {Deployment, Recreated, Secret, ReplicaSet, Pod, Service, Selectorless,
   EndpointSlice, Ingress, Autoscaler, RolloutScaler, Budget, Binding}

MCInputs ==
  {s \in [typed : UNION {kSubset(k, TypedObjects) : k \in 0..MaxObjects},
          dynamic : SUBSET {Certificate, Rollout, Twin},
          unlisted : {{}, {Role}}] :
     /\ Cardinality(s.typed) + Cardinality(s.dynamic) \in 1..MaxObjects
     /\ ~({Deployment, Recreated} \subseteq s.typed)
     /\ Twin \in s.dynamic => Secret \in s.typed}
=============================================================================
