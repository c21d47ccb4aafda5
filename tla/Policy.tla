-------------------------------- MODULE Policy --------------------------------
(***************************************************************************)
(* The placement policy of src/rules and its check against the inventory.  *)
(*                                                                         *)
(* A graph is a set of entities and a set of edges <<from, to>> between    *)
(* entity ids.  The attributes that no rule reads are left out; an         *)
(* attribute the entity does not have is "".  A role that contains         *)
(* "storage" is written "storage".  Ids are compared as the code does: Ids *)
(* lists them in their order.                                              *)
(***************************************************************************)
EXTENDS Integers, Sequences, FiniteSets

NodeKinds == {"node", "platform"}
ServiceKinds == {"service", "container"}

(* The entities an edge, in either direction, joins with `node`. *)
NeighborsOf(graph, node) ==
  {e \in graph.entities : <<node.id, e.id>> \in graph.edges \/ <<e.id, node.id>> \in graph.edges}

IsManager(e) ==
  \/ e.manager_status \in {"leader", "reachable", "manager"}
  \/ e.role \in {"manager", "control-plane"}
  \/ e.node_role \in {"master", "control-plane"}
  \/ e.platform_type = "proxmox"

HasGpu(e, neighbors) == e.gpu_count > 0 \/ \E n \in neighbors : n.kind = "gpu"

HasArray(e, neighbors) == e.array_state # "" \/ \E n \in neighbors : n.kind = "storage-array"

HasStorage(e, neighbors) ==
  \/ e.kind \in {"storage-array", "share", "storage-volume"}
  \/ e.role = "storage"
  \/ \E n \in neighbors : n.kind \in {"share", "storage-volume"}
  \/ HasArray(e, neighbors)

inferCapabilityTags(e, neighbors) ==
  {t \in {"gpu", "array", "storage", "manager", "worker"} :
     CASE t = "gpu" -> HasGpu(e, neighbors)
       [] t = "array" -> HasArray(e, neighbors)
       [] t = "storage" -> HasStorage(e, neighbors)
       [] t = "manager" -> IsManager(e)
       [] t = "worker" -> e.kind \in NodeKinds /\ ~IsManager(e)}

inferEnvTier(e, tags) ==
  IF e.env # "" THEN e.env
  ELSE IF "manager" \in tags THEN "infra"
  ELSE IF "array" \in tags THEN "prod"
  ELSE "unknown"

inferNodeRole(e, tags) ==
  IF e.role # "" THEN e.role
  ELSE IF e.platform_type = "proxmox" THEN "hypervisor"
  ELSE IF e.platform_type = "unraid" THEN "storage"
  ELSE IF "manager" \in tags THEN "manager"
  ELSE IF "array" \in tags THEN "storage"
  ELSE "compute"

NodeFacts(graph, node) ==
  LET neighbors == NeighborsOf(graph, node)
      tags == inferCapabilityTags(node, neighbors)
  IN  [id |-> node.id, capability_tags |-> tags, env_tier |-> inferEnvTier(node, tags),
       role |-> inferNodeRole(node, tags),
       hosted_service_roles |-> {n.role : n \in {m \in neighbors : m.kind \in ServiceKinds}} \ {""}]

analyze(graph) == {NodeFacts(graph, e) : e \in {n \in graph.entities : n.kind \in NodeKinds}}

-------------------------------------------------------------------------------
(* The rules.  A field that a rule does not have is "". *)

Rule(id, type, effect) ==
  [id |-> id, type |-> type, effect |-> effect, capability |-> "", env |-> "", role |-> "",
   require |-> "", antiAffinity |-> "", maxPerNode |-> 1]

InvariantRules ==
  {[Rule("no-workloads-on-manager", "placement", "deny") EXCEPT !.capability = "manager"],
   [Rule("infra-env-approval", "placement", "require-approval") EXCEPT !.env = "infra"],
   [Rule("gpu-required-for-media", "placement", "deny") EXCEPT !.role = "media", !.require = "gpu"],
   [Rule("media-anti-affinity", "affinity", "deny") EXCEPT !.role = "media", !.antiAffinity = "media"],
   [Rule("arr-stack-anti-affinity", "affinity", "deny") EXCEPT
      !.role = "arr-stack", !.antiAffinity = "arr-stack"],
   [Rule("prod-approval", "placement", "require-approval") EXCEPT !.env = "prod"],
   [Rule("prod-maintenance-window", "maintenance-window", "deny") EXCEPT !.env = "prod"],
   Rule("blast-radius-cap", "blast-radius", "deny"),
   Rule("destructiveness-floor", "placement", "require-approval")}

TopologyDerivedRules(topology) ==
  {r \in {[Rule("storage-array-protection", "placement", "require-approval") EXCEPT
             !.capability = "storage"]} :
     \E n \in topology : "storage" \in n.capability_tags}
  \cup {r \in {[Rule("prod-concurrent-deploy-quota", "quota", "deny") EXCEPT !.env = "prod"]} :
          \E n \in topology : n.env_tier = "prod"}

generate(topology) == InvariantRules \cup TopologyDerivedRules(topology)

-------------------------------------------------------------------------------
(* Drift: the services that stand where the rules would not have put them. *)

effectToSeverity(effect) ==
  CASE effect = "deny" -> "P0" [] effect = "require-approval" -> "P1" [] OTHER -> "P2"

(* A rule with a capability condition says which nodes carry no service at all. *)
ReservedViolations(rule, placement) ==
  {s \in placement.services : rule.capability \in placement.tags}

(* A rule with a role condition and a required capability says where the role may run. *)
RequirementViolations(rule, placement) ==
  {s \in placement.services : rule.require \notin placement.tags /\ s.role = rule.role}

(* The services of the role that come before `s` in the order of ids. *)
Earlier(rule, placement, ids, s) ==
  {r \in placement.services :
     /\ r.role = rule.antiAffinity
     /\ \E j, k \in DOMAIN ids : j < k /\ ids[j] = r.id /\ ids[k] = s.id}

\* Bug: one too many may stay.
AffinityViolationsLate(rule, placement, ids) ==
  {s \in placement.services : /\ s.role = rule.antiAffinity
                             /\ Cardinality(Earlier(rule, placement, ids, s)) > rule.maxPerNode}

(* Of too many services of one role the first in the order of ids may stay. *)
AffinityViolations(rule, placement, ids) ==
  {s \in placement.services : /\ s.role = rule.antiAffinity
                             /\ Cardinality(Earlier(rule, placement, ids, s)) >= rule.maxPerNode}

(* Rules of the other types speak of a deployment, not of what runs. *)
Violators(rule, placement, ids) ==
  IF rule.type = "placement" /\ rule.capability # "" THEN ReservedViolations(rule, placement)
  ELSE IF rule.type = "placement" /\ rule.role # "" /\ rule.require # ""
  THEN RequirementViolations(rule, placement)
  ELSE IF rule.type = "affinity" /\ rule.antiAffinity # ""
  THEN AffinityViolations(rule, placement, ids)
  ELSE {}

Placements(graph) ==
  {[node |-> n, tags |-> inferCapabilityTags(n, NeighborsOf(graph, n)),
    services |-> {s \in NeighborsOf(graph, n) : s.kind \in ServiceKinds}] :
     n \in {e \in graph.entities : e.kind \in NodeKinds}}

PolicyDriftScan(graph, ids) ==
  UNION {{[rule |-> rule.id, severity |-> effectToSeverity(rule.effect),
           node |-> placement.node.id, service |-> s.id] : s \in Violators(rule, placement, ids)} :
           rule \in generate(analyze(graph)), placement \in Placements(graph)}
===============================================================================
