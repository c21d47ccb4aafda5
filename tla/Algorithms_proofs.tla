-------------------------- MODULE Algorithms_proofs --------------------------
(***************************************************************************)
(* What Algorithms states of the pure parts of the program, proved for any *)
(* inputs that satisfy its assumption.                                     *)
(***************************************************************************)
EXTENDS Algorithms, FiniteSetTheorems, SequenceTheorems, WellFoundedInduction, TLAPS

LEMMA LeastNat ==
  ASSUME NEW W, W \subseteq Nat, W # {}
  PROVE  \E m \in W : \A n \in W : m <= n
<1> DEFINE Less == {p \in Nat \X Nat : p[1] < p[2]}
<1>1. IsWellFoundedOn(Less, Nat)
  BY NatLessThanWellFounded DEF OpToRel
<1>2. PICK m \in W : \A n \in W : <<n, m>> \notin Less
  BY <1>1, WFMin
<1>3. ASSUME NEW n \in W PROVE m <= n
  <2>1. <<n, m>> \notin Less
    BY <1>2
  <2>2. ~(n < m)
    BY <2>1
  <2> QED
    BY <2>2
<1> QED
  BY <1>3

(* The instances have a definition of their own of what is finite. *)
LEMMA SameCardinality ==
  \A W : R!Cardinality(W) = Cardinality(W) /\ O!Cardinality(W) = Cardinality(W)
<1>1. \A W : R!Cardinality(W) = Cardinality(W)
  BY DEF R!Cardinality, Cardinality
<1>2. \A W : O!Cardinality(W) = Cardinality(W)
  BY DEF O!Cardinality, Cardinality
<1> QED
  BY <1>1, <1>2

(* The input of a case is one of those that its part may be given. *)
Given ==
  \/ case.kind = "start"
  \/ case.kind = "reading" /\ IsReading(case.input)
  \/ case.kind = "drift" /\ IsInventory(case.input)
  \/ case.kind = "sweep" /\ IsSweep(case.input)
  \/ case.kind = "databases"
  \/ case.kind = "enrichment" /\ IsEnrichment(case.input)
  \/ case.kind = "question" /\ IsQuestion(case.input)
  \/ case.kind = "setup" /\ IsSetup(case.input)
  \/ case.kind = "connection" /\ IsConnection(case.input)

LEMMA InputsAreGiven == Spec => []Given
<1>1. Init => Given
  BY DEF Init, Given
<1>2. Given /\ [Next]_vars => Given'
  <2>1. ASSUME NEW kind, NEW inputs, Take(kind, inputs)
        PROVE  case'.kind = kind /\ case'.input \in inputs
    BY <2>1 DEF Take
  <2>2. CASE UNCHANGED vars
    BY <2>2 DEF Given, vars
  <2>3. CASE Next
    BY <2>3, <2>1, InputAssumption DEF Next, Given
  <2> QED
    BY <2>2, <2>3
<1> QED
  BY <1>1, <1>2, PTL DEF Spec

-------------------------------------------------------------------------------
(***************************************************************************)
(* Placement drift.                                                        *)
(***************************************************************************)

(* Why a service is denied on the node of a placement. *)
Offends(placement, ids, s) ==
  /\ s \in placement.services
  /\ \/ "manager" \in placement.tags
     \/ s.role = "media" /\ "gpu" \notin placement.tags
     \/ /\ s.role \in {"media", "arr-stack"}
        /\ \E r \in placement.services :
             r.role = s.role /\ \E j, k \in DOMAIN ids : j < k /\ ids[j] = r.id /\ ids[k] = s.id

Manager == [R!Rule("no-workloads-on-manager", "placement", "deny") EXCEPT !.capability = "manager"]
Media == [R!Rule("gpu-required-for-media", "placement", "deny") EXCEPT !.role = "media", !.require = "gpu"]
Apart(role) ==
  IF role = "media"
  THEN [R!Rule("media-anti-affinity", "affinity", "deny") EXCEPT !.role = "media", !.antiAffinity = "media"]
  ELSE [R!Rule("arr-stack-anti-affinity", "affinity", "deny") EXCEPT
          !.role = "arr-stack", !.antiAffinity = "arr-stack"]

LEMMA AtLeastOneEarlier ==
  ASSUME NEW placement, NEW ids, NEW s, NEW rule, IsFiniteSet(placement.services), rule.maxPerNode = 1
  PROVE  R!Cardinality(R!Earlier(rule, placement, ids, s)) >= rule.maxPerNode
           <=> \E r \in placement.services :
                 /\ r.role = rule.antiAffinity
                 /\ \E j, k \in DOMAIN ids : j < k /\ ids[j] = r.id /\ ids[k] = s.id
<1> DEFINE earlier == R!Earlier(rule, placement, ids, s)
<1>1. earlier \in SUBSET placement.services
  BY DEF R!Earlier
<1>2. IsFiniteSet(earlier)
  BY <1>1, FS_Subset
<1>3. Cardinality(earlier) \in Nat /\ (Cardinality(earlier) = 0 <=> earlier = {})
  BY <1>2, FS_CardinalityType, FS_EmptySet
<1>4. Cardinality(earlier) >= rule.maxPerNode <=> earlier # {}
  BY <1>3
<1> QED
  BY <1>4, SameCardinality DEF R!Earlier

LEMMA DenyRule ==
  ASSUME NEW graph, NEW rule \in R!generate(R!analyze(graph)), rule.effect = "deny",
         NEW placement, NEW ids, NEW s \in R!Violators(rule, placement, ids),
         IsFiniteSet(placement.services)
  PROVE  Offends(placement, ids, s)
<1>1. \/ rule = Manager \/ rule = Media \/ rule = Apart("media") \/ rule = Apart("arr-stack")
      \/ rule.type \in {"maintenance-window", "blast-radius", "quota"}
  <2>1. CASE rule \in R!InvariantRules
    <3>1. \/ rule = Manager \/ rule = Media \/ rule = Apart("media") \/ rule = Apart("arr-stack")
          \/ rule = [R!Rule("infra-env-approval", "placement", "require-approval") EXCEPT !.env = "infra"]
          \/ rule = [R!Rule("prod-approval", "placement", "require-approval") EXCEPT !.env = "prod"]
          \/ rule = [R!Rule("prod-maintenance-window", "maintenance-window", "deny") EXCEPT !.env = "prod"]
          \/ rule = R!Rule("blast-radius-cap", "blast-radius", "deny")
          \/ rule = R!Rule("destructiveness-floor", "placement", "require-approval")
      <4>1. Apart("media") = [R!Rule("media-anti-affinity", "affinity", "deny") EXCEPT
                                !.role = "media", !.antiAffinity = "media"]
        BY DEF Apart
      <4>2. Apart("arr-stack") = [R!Rule("arr-stack-anti-affinity", "affinity", "deny") EXCEPT
                                    !.role = "arr-stack", !.antiAffinity = "arr-stack"]
        BY DEF Apart
      <4> QED
        BY <2>1, <4>1, <4>2, Zenon DEF R!InvariantRules, Manager, Media
    <3>2. /\ R!Rule("blast-radius-cap", "blast-radius", "deny").type = "blast-radius"
          /\ R!Rule("destructiveness-floor", "placement", "require-approval").effect # "deny"
      BY DEF R!Rule
    <3>3. /\ [R!Rule("infra-env-approval", "placement", "require-approval") EXCEPT
               !.env = "infra"].effect # "deny"
          /\ [R!Rule("prod-approval", "placement", "require-approval") EXCEPT !.env = "prod"].effect # "deny"
          /\ [R!Rule("prod-maintenance-window", "maintenance-window", "deny") EXCEPT
               !.env = "prod"].type = "maintenance-window"
      BY DEF R!Rule
    <3> QED
      BY <3>1, <3>2, <3>3, Zenon
  <2>2. CASE rule \in R!TopologyDerivedRules(R!analyze(graph))
    <3>1. \/ rule = [R!Rule("storage-array-protection", "placement", "require-approval")
                      EXCEPT !.capability = "storage"]
          \/ rule = [R!Rule("prod-concurrent-deploy-quota", "quota", "deny") EXCEPT !.env = "prod"]
      BY <2>2 DEF R!TopologyDerivedRules
    <3> QED
      BY <3>1 DEF R!Rule
  <2> QED
    BY <2>1, <2>2 DEF R!generate
<1>2. CASE rule = Manager
  BY <1>2 DEF Manager, R!Rule, R!Violators, R!ReservedViolations, Offends
<1>3. CASE rule = Media
  BY <1>3 DEF Media, R!Rule, R!Violators, R!RequirementViolations, Offends
<1>4. ASSUME NEW role \in {"media", "arr-stack"}, rule = Apart(role) PROVE Offends(placement, ids, s)
  <2>1. rule.antiAffinity = role /\ rule.maxPerNode = 1 /\ rule.type = "affinity"
    BY <1>4 DEF Apart, R!Rule
  <2>2. s \in R!AffinityViolations(rule, placement, ids)
    BY <2>1 DEF R!Violators
  <2> QED
    BY <2>1, <2>2, AtLeastOneEarlier DEF R!AffinityViolations, Offends
<1>5. CASE rule.type \in {"maintenance-window", "blast-radius", "quota"}
  BY <1>5 DEF R!Violators
<1> QED
  BY <1>1, <1>2, <1>3, <1>4, <1>5

LEMMA OffenceHasRule ==
  ASSUME NEW graph, NEW placement, NEW ids, NEW s, Offends(placement, ids, s),
         IsFiniteSet(placement.services)
  PROVE  \E rule \in R!generate(R!analyze(graph)) :
           rule.effect = "deny" /\ s \in R!Violators(rule, placement, ids)
<1>1. /\ Manager \in R!generate(R!analyze(graph)) /\ Media \in R!generate(R!analyze(graph))
      /\ Apart("media") \in R!generate(R!analyze(graph))
      /\ Apart("arr-stack") \in R!generate(R!analyze(graph))
  BY DEF R!generate, R!InvariantRules, Manager, Media, Apart
<1>2. CASE "manager" \in placement.tags
  <2>1. Manager.effect = "deny" /\ s \in R!Violators(Manager, placement, ids)
    BY <1>2 DEF Manager, R!Rule, R!Violators, R!ReservedViolations, Offends
  <2> QED
    BY <2>1, <1>1
<1>3. CASE s.role = "media" /\ "gpu" \notin placement.tags
  <2>1. Media.effect = "deny" /\ s \in R!Violators(Media, placement, ids)
    BY <1>3 DEF Media, R!Rule, R!Violators, R!RequirementViolations, Offends
  <2> QED
    BY <2>1, <1>1
<1>4. ASSUME NEW r \in placement.services, s.role \in {"media", "arr-stack"}, r.role = s.role,
             \E j, k \in DOMAIN ids : j < k /\ ids[j] = r.id /\ ids[k] = s.id
      PROVE  Apart(s.role).effect = "deny" /\ s \in R!Violators(Apart(s.role), placement, ids)
  <2> DEFINE rule == Apart(s.role)
  <2>1. /\ rule.antiAffinity = s.role /\ rule.maxPerNode = 1 /\ rule.type = "affinity"
        /\ rule.effect = "deny"
    BY <1>4 DEF Apart, R!Rule
  <2>2. R!Cardinality(R!Earlier(rule, placement, ids, s)) >= rule.maxPerNode
    <3> HIDE DEF rule
    <3> QED
      BY <2>1, <1>4, AtLeastOneEarlier
  <2>3. s \in R!AffinityViolations(rule, placement, ids)
    <3> HIDE DEF rule
    <3> QED
      BY <2>1, <2>2 DEF R!AffinityViolations, Offends
  <2>4. rule.antiAffinity # ""
    BY <2>1, <1>4
  <2>5. rule.effect = "deny" /\ s \in R!Violators(rule, placement, ids)
    <3> HIDE DEF rule
    <3> QED
      BY <2>1, <2>3, <2>4 DEF R!Violators
  <2> QED
    BY <2>5
<1> QED
  BY <1>1, <1>2, <1>3, <1>4 DEF Offends

LEMMA PlacementOf ==
  ASSUME NEW graph, NEW placement \in R!Placements(graph)
  PROVE  /\ placement.node \in graph.entities /\ placement.node.kind \in R!NodeKinds
         /\ placement.services = {s \in R!NeighborsOf(graph, placement.node) : s.kind \in R!ServiceKinds}
         /\ "manager" \in placement.tags <=> R!IsManager(placement.node)
         /\ "gpu" \in placement.tags
              <=> R!HasGpu(placement.node, R!NeighborsOf(graph, placement.node))
<1>1. PICK n \in graph.entities :
        /\ n.kind \in R!NodeKinds
        /\ placement = [node |-> n, tags |-> R!inferCapabilityTags(n, R!NeighborsOf(graph, n)),
                        services |-> {s \in R!NeighborsOf(graph, n) : s.kind \in R!ServiceKinds}]
  BY DEF R!Placements
<1>2. placement.node = n /\ placement.tags = R!inferCapabilityTags(n, R!NeighborsOf(graph, n))
  BY <1>1
<1>3. /\ "manager" \in R!inferCapabilityTags(n, R!NeighborsOf(graph, n)) <=> R!IsManager(n)
      /\ "gpu" \in R!inferCapabilityTags(n, R!NeighborsOf(graph, n))
           <=> R!HasGpu(n, R!NeighborsOf(graph, n))
  BY DEF R!inferCapabilityTags
<1> QED
  BY <1>1, <1>2, <1>3

(* What is denied, by the services and nodes it is about. *)
LEMMA DeniedIsOffence ==
  ASSUME NEW graph, NEW ids, IsFiniteSet(graph.entities), NEW n, NEW s
  PROVE  (\E v \in Denied(graph, ids) : v.node = n /\ v.service = s)
           <=> \E placement \in R!Placements(graph) : \E e :
                 /\ placement.node.id = n /\ e.id = s
                 /\ Offends(placement, ids, e)
<1> DEFINE entry(rule, placement, e) ==
             [rule |-> rule.id, severity |-> R!effectToSeverity(rule.effect),
              node |-> placement.node.id, service |-> e.id]
<1>1. ASSUME NEW placement \in R!Placements(graph) PROVE IsFiniteSet(placement.services)
  <2>1. placement.services = {x \in R!NeighborsOf(graph, placement.node) : x.kind \in R!ServiceKinds}
    BY PlacementOf
  <2>2. R!NeighborsOf(graph, placement.node) \subseteq graph.entities
    BY DEF R!NeighborsOf
  <2>3. placement.services \in SUBSET graph.entities
    <3> HIDE DEF entry
    <3> QED
      BY <2>1, <2>2
  <2> QED
    BY <2>3, FS_Subset
<1>2. \A v : v \in R!PolicyDriftScan(graph, ids) <=>
        \E rule \in R!generate(R!analyze(graph)), placement \in R!Placements(graph) :
          \E e \in R!Violators(rule, placement, ids) : v = entry(rule, placement, e)
  <2> DEFINE entries(rule, placement) ==
               {[rule |-> rule.id, severity |-> R!effectToSeverity(rule.effect),
                 node |-> placement.node.id, service |-> e.id] : e \in R!Violators(rule, placement, ids)}
  <2>1. R!PolicyDriftScan(graph, ids) =
          UNION {entries(rule, placement) : rule \in R!generate(R!analyze(graph)),
                                            placement \in R!Placements(graph)}
    BY DEF R!PolicyDriftScan
  <2>2. \A rule, placement, v : v \in entries(rule, placement) <=>
          \E e \in R!Violators(rule, placement, ids) : v = entry(rule, placement, e)
    OBVIOUS
  <2>3. ASSUME NEW v
        PROVE  v \in R!PolicyDriftScan(graph, ids) <=>
                 \E rule \in R!generate(R!analyze(graph)), placement \in R!Placements(graph) :
                   v \in entries(rule, placement)
    <3> HIDE DEF entries
    <3> QED
      BY <2>1
  <2> HIDE DEF entries, entry
  <2> QED
    BY <2>2, <2>3
<1>3. ASSUME NEW v \in Denied(graph, ids), v.node = n, v.service = s
      PROVE  \E placement \in R!Placements(graph) : \E e :
                 /\ placement.node.id = n /\ e.id = s
                 /\ Offends(placement, ids, e)
  <2>1. PICK rule \in R!generate(R!analyze(graph)), placement \in R!Placements(graph) :
          \E e \in R!Violators(rule, placement, ids) : v = entry(rule, placement, e)
    BY <1>2 DEF Denied
  <2>2. PICK e \in R!Violators(rule, placement, ids) : v = entry(rule, placement, e)
    BY <2>1
  <2>3. rule.effect = "deny"
    BY <2>2 DEF Denied, R!effectToSeverity
  <2>4. Offends(placement, ids, e)
    BY <2>3, <1>1, DenyRule
  <2> QED
    BY <2>2, <2>4, <1>3
<1>4. ASSUME NEW placement \in R!Placements(graph), NEW e, placement.node.id = n, e.id = s,
             Offends(placement, ids, e)
      PROVE  \E v \in Denied(graph, ids) : v.node = n /\ v.service = s
  <2>1. PICK rule \in R!generate(R!analyze(graph)) :
          rule.effect = "deny" /\ e \in R!Violators(rule, placement, ids)
    BY <1>4, <1>1, OffenceHasRule
  <2>2. entry(rule, placement, e) \in R!PolicyDriftScan(graph, ids)
    BY <2>1, <1>2
  <2>3. entry(rule, placement, e) \in Denied(graph, ids)
    BY <2>1, <2>2 DEF Denied, R!effectToSeverity
  <2> QED
    BY <2>3, <1>4
<1> QED
  BY <1>3, <1>4

LEMMA ToleratedIsNotDenied ==
  ASSUME NEW graph, NEW ids, IsInventory([graph |-> graph, ids |-> ids]), Tolerated(graph)
  PROVE  Denied(graph, ids) = {}
<1>1. IsFiniteSet(graph.entities)
  BY DEF IsInventory
<1>2. ASSUME NEW placement \in R!Placements(graph), NEW s, Offends(placement, ids, s) PROVE FALSE
  <2> DEFINE n == placement.node
             neighbors == R!NeighborsOf(graph, n)
             placed == {e \in neighbors : e.kind \in R!ServiceKinds}
  <2>1. /\ R!IsManager(n) => placed = {}
        /\ (\E e \in placed : e.role = "media") => R!HasGpu(n, neighbors)
        /\ \A e, t \in placed : e.role = t.role /\ e.role \in {"media", "arr-stack"} => e = t
    BY PlacementOf DEF Tolerated
  <2>2. placement.services = placed /\ s \in placed
    BY <1>2, PlacementOf DEF Offends
  <2>3. CASE \E r \in placed : /\ r.role = s.role /\ s.role \in {"media", "arr-stack"}
                               /\ \E j, k \in DOMAIN ids : j < k /\ ids[j] = r.id /\ ids[k] = s.id
    <3>1. PICK j, k \in DOMAIN ids : j < k /\ ids[j] = s.id /\ ids[k] = s.id
      <4> HIDE DEF placed
      <4> QED
        BY <2>1, <2>2, <2>3
    <3>2. j = k
      BY <3>1 DEF IsInventory
    <3>3. DOMAIN ids \subseteq Nat
      BY LenProperties DEF IsInventory
    <3> QED
      BY <3>1, <3>2, <3>3
  <2> HIDE DEF placed
  <2> QED
    BY <1>2, <2>1, <2>2, <2>3, PlacementOf DEF Offends
<1> QED
  <2> SUFFICES ASSUME NEW v \in Denied(graph, ids) PROVE FALSE
    OBVIOUS
  <2>1. \E placement \in R!Placements(graph) : \E e : Offends(placement, ids, e)
    <3>1. \E w \in Denied(graph, ids) : w.node = v.node /\ w.service = v.service
      OBVIOUS
    <3> QED
      BY <1>1, <3>1, DeniedIsOffence
  <2> QED
    BY <1>2, <2>1

LEMMA SameFacts ==
  ASSUME NEW graph, NEW ids, IsInventory([graph |-> graph, ids |-> ids]),
         NEW n \in graph.entities, n.kind \in R!NodeKinds
  PROVE  LET left == R!NeighborsOf(Relieved(graph, ids), n) IN
         /\ left \subseteq R!NeighborsOf(graph, n)
         /\ \A s \in left : ~\E v \in Denied(graph, ids) : v.node = n.id /\ v.service = s.id
         /\ R!HasGpu(n, left) <=> R!HasGpu(n, R!NeighborsOf(graph, n))
<1> DEFINE left == R!NeighborsOf(Relieved(graph, ids), n)
<1>1. /\ Relieved(graph, ids).entities = graph.entities
      /\ \A e : e \in Relieved(graph, ids).edges <=>
                 e \in graph.edges /\ ~\E v \in Denied(graph, ids) :
                                       e \in {<<v.service, v.node>>, <<v.node, v.service>>}
  BY DEF Relieved
<1>2. left \subseteq R!NeighborsOf(graph, n)
  BY <1>1 DEF R!NeighborsOf
<1>3. \A s \in left : ~\E v \in Denied(graph, ids) : v.node = n.id /\ v.service = s.id
  BY <1>1 DEF R!NeighborsOf
<1>4. ASSUME NEW m \in R!NeighborsOf(graph, n), m.kind \notin R!ServiceKinds PROVE m \in left
  <2>1. ASSUME NEW v \in Denied(graph, ids) PROVE v.service \notin {n.id, m.id}
    <3>1. PICK placement \in R!Placements(graph) : \E e :
            e.id = v.service /\ Offends(placement, ids, e)
      <4>1. IsFiniteSet(graph.entities) /\ \E w \in Denied(graph, ids) : w.node = v.node /\ w.service = v.service
        BY DEF IsInventory
      <4> QED
        BY <4>1, DeniedIsOffence
    <3>2. PICK e : e.id = v.service /\ Offends(placement, ids, e)
      BY <3>1
    <3>3. e \in graph.entities /\ e.kind \in R!ServiceKinds
      BY <3>2, PlacementOf DEF Offends, R!NeighborsOf
    <3>4. e # n /\ e # m
      BY <3>3, <1>4 DEF R!ServiceKinds, R!NodeKinds
    <3>5. m \in graph.entities /\ \A x, y \in graph.entities : x.id = y.id => x = y
      BY <1>4 DEF R!NeighborsOf, IsInventory
    <3> QED
      BY <3>2, <3>3, <3>4, <3>5
  <2>2. /\ ~\E v \in Denied(graph, ids) : <<n.id, m.id>> \in {<<v.service, v.node>>, <<v.node, v.service>>}
        /\ ~\E v \in Denied(graph, ids) : <<m.id, n.id>> \in {<<v.service, v.node>>, <<v.node, v.service>>}
    BY <2>1
  <2> QED
    BY <1>1, <1>4, <2>2 DEF R!NeighborsOf
<1>5. R!HasGpu(n, left) <=> R!HasGpu(n, R!NeighborsOf(graph, n))
  <2> HIDE DEF left
  <2> QED
    BY <1>2, <1>4 DEF R!HasGpu, R!ServiceKinds
<1> QED
  BY <1>2, <1>3, <1>5

LEMMA RelievedIsTolerated ==
  ASSUME NEW graph, NEW ids, IsInventory([graph |-> graph, ids |-> ids])
  PROVE  Tolerated(Relieved(graph, ids))
<1>1. IsFiniteSet(graph.entities) /\ Relieved(graph, ids).entities = graph.entities
  BY DEF IsInventory, Relieved
<1> SUFFICES ASSUME NEW n \in graph.entities, n.kind \in R!NodeKinds
             PROVE  LET neighbors == R!NeighborsOf(Relieved(graph, ids), n)
                        placed == {s \in neighbors : s.kind \in R!ServiceKinds}
                    IN  /\ R!IsManager(n) => placed = {}
                        /\ (\E s \in placed : s.role = "media") => R!HasGpu(n, neighbors)
                        /\ \A s, t \in placed : s.role = t.role /\ s.role \in {"media", "arr-stack"} => s = t
  BY <1>1 DEF Tolerated
<1> DEFINE left == R!NeighborsOf(Relieved(graph, ids), n)
           placed == {s \in left : s.kind \in R!ServiceKinds}
           placement == [node |-> n, tags |-> R!inferCapabilityTags(n, R!NeighborsOf(graph, n)),
                         services |-> {s \in R!NeighborsOf(graph, n) : s.kind \in R!ServiceKinds}]
<1>2. placement \in R!Placements(graph) /\ placement.node = n
  BY DEF R!Placements
<1>3. /\ placement.services = {s \in R!NeighborsOf(graph, n) : s.kind \in R!ServiceKinds}
      /\ "manager" \in placement.tags <=> R!IsManager(n)
      /\ "gpu" \in placement.tags <=> R!HasGpu(n, left)
  <2> HIDE DEF placement
  <2> QED
    BY <1>2, PlacementOf, SameFacts
<1>4. placed \subseteq placement.services
  BY <1>3, SameFacts
<1> HIDE DEF placement
<1>5. ASSUME NEW s \in placed PROVE ~Offends(placement, ids, s)
  <2>1. ~\E v \in Denied(graph, ids) : v.node = n.id /\ v.service = s.id
    BY SameFacts
  <2>2. ~\E p \in R!Placements(graph) : \E e : p.node.id = n.id /\ e.id = s.id /\ Offends(p, ids, e)
    BY <1>1, <2>1, DeniedIsOffence
  <2> QED
    BY <1>2, <2>2
<1>6. ASSUME NEW s \in placed, NEW t \in placed, s.role = t.role, s.role \in {"media", "arr-stack"}
      PROVE  s = t
  <2>1. s \in graph.entities /\ t \in graph.entities
    BY <1>1 DEF R!NeighborsOf
  <2>2. PICK j, k \in DOMAIN ids : ids[j] = s.id /\ ids[k] = t.id
    BY <2>1 DEF IsInventory
  <2>3. j \in Nat /\ k \in Nat
    BY LenProperties DEF IsInventory
  <2>4. ~(j < k) /\ ~(k < j)
    BY <1>4, <1>5, <1>6, <2>2 DEF Offends
  <2>5. s.id = t.id
    BY <2>2, <2>3, <2>4
  <2> QED
    BY <2>1, <2>5 DEF IsInventory
<1>7. R!IsManager(n) => placed = {}
  BY <1>3, <1>4, <1>5 DEF Offends
<1>8. (\E s \in placed : s.role = "media") => R!HasGpu(n, left)
  BY <1>3, <1>4, <1>5 DEF Offends
<1> QED
  BY <1>6, <1>7, <1>8

(* Taking the denied services off their nodes repairs the placement, and    *)
(* the drift probe denies nothing that the rules tolerate: generate,        *)
(* inferCapabilityTags and scan agree.                                      *)
THEOREM RepairRemovesDrift == Spec => []DriftIsRepaired
<1>1. ASSUME NEW input, IsInventory(input)
      PROVE  LET graph == input.graph
                 ids == input.ids
             IN  /\ Tolerated(Relieved(graph, ids))
                 /\ Denied(Relieved(graph, ids), ids) = {}
                 /\ Tolerated(graph) => Denied(graph, ids) = {}
  <2>1. IsInventory([graph |-> input.graph, ids |-> input.ids])
    BY <1>1 DEF IsInventory
  <2>2. IsInventory([graph |-> Relieved(input.graph, input.ids), ids |-> input.ids])
    <3>1. Relieved(input.graph, input.ids).entities = input.graph.entities
      BY DEF Relieved
    <3> QED
      BY <2>1, <3>1 DEF IsInventory
  <2>3. Tolerated(Relieved(input.graph, input.ids))
    BY <2>1, RelievedIsTolerated
  <2> QED
    BY <2>1, <2>2, <2>3, ToleratedIsNotDenied
<1>2. Given => DriftIsRepaired
  BY <1>1 DEF Given, DriftIsRepaired
<1> QED
  BY <1>2, InputsAreGiven, PTL

-------------------------------------------------------------------------------
(***************************************************************************)
(* Failing commands.                                                       *)
(***************************************************************************)

(* What a host finds, as the enumerators report it. *)
Contained(found, healthy, failed) ==
  /\ found.entities \subseteq healthy.entities
  /\ \A i \in healthy.entities \ found.entities : i[1] \in Cost(failed)

(* Edges of an enumeration of the platform. *)
Closed(found, pid) ==
  \A e \in found.edges : /\ e.from \in found.entities
                         /\ e.to \in found.entities \cup {E!PlatformEntity(pid)}

LEMMA CostIs ==
  ASSUME NEW failed
  PROVE  /\ "nodes" \in failed => "node" \in Cost(failed)
         /\ "services" \in failed => "service" \in Cost(failed) /\ "container" \in Cost(failed)
         /\ "tasks" \in failed => "container" \in Cost(failed)
         /\ "networks" \in failed => "network" \in Cost(failed)
         /\ "gpus" \in failed => "gpu" \in Cost(failed)
         /\ "cron" \in failed => "job" \in Cost(failed)
         /\ "mdcmd" \in failed /\ "ini" \in failed =>
              "storage-array" \in Cost(failed) /\ "storage-disk" \in Cost(failed)
         /\ "shares" \in failed /\ "files" \in failed => "share" \in Cost(failed)
<1>1. DOMAIN CostOf = {"nodes", "services", "tasks", "networks", "gpus", "cron"}
  BY DEF CostOf
<1>2. \A f \in failed \cap DOMAIN CostOf : CostOf[f] \subseteq Cost(failed)
  BY DEF Cost
<1>3. /\ CostOf["nodes"] = {"node"} /\ CostOf["services"] = {"service", "container"}
      /\ CostOf["tasks"] = {"container"} /\ CostOf["networks"] = {"network"}
      /\ CostOf["gpus"] = {"gpu"} /\ CostOf["cron"] = {"job"}
  BY DEF CostOf
<1>4. ASSUME "mdcmd" \in failed, "ini" \in failed
      PROVE  "storage-array" \in Cost(failed) /\ "storage-disk" \in Cost(failed)
  <2>1. {"mdcmd", "ini"} \subseteq failed
    BY <1>4
  <2> QED
    BY <2>1 DEF Cost
<1>5. ASSUME "shares" \in failed, "files" \in failed
      PROVE  "share" \in Cost(failed)
  <2>1. {"shares", "files"} \subseteq failed
    BY <1>5
  <2> QED
    BY <2>1 DEF Cost
<1> QED
  BY <1>1, <1>2, <1>3, <1>4, <1>5

LEMMA UnraidClosed ==
  ASSUME NEW pid, NEW host, NEW head
  PROVE  Closed(E!UnraidEnumerate(pid, host, head), pid)
<1> DEFINE storage == E!fetchArrayAndDisks(host)
           array == <<"storage-array", pid>>
           arrays == IF storage.found THEN {array} ELSE {}
           disks == {E!DiskId(pid, d) : d \in storage.disks}
           share(s) == <<"share", pid, s.name>>
           shares == {share(s) : s \in E!fetchShares(host)}
           gpus == E!GpuIds(pid, host)
           entities == arrays \cup disks \cup shares \cup gpus \cup E!JobIds(pid, host, head)
           backed == UNION {{E!Edge("backed-by", share(s), E!DiskId(pid, d)) :
                                d \in UNION {E!DiskNamed(n, storage.disks) : n \in s.included}} :
                               s \in E!fetchShares(host)}
           found == E!UnraidEnumerate(pid, host, head)
<1>1. /\ found.entities = entities
      /\ found.edges = E!MemberOfPlatform(entities, pid)
                       \cup {E!Edge("member-of", d, array) : d \in disks}
                       \cup {E!Edge("runs-on", g, E!PlatformEntity(pid)) : g \in gpus}
                       \cup backed
  BY DEF E!UnraidEnumerate
<1>2. disks # {} => array \in arrays
  BY DEF E!fetchArrayAndDisks
<1>3. ASSUME NEW e \in backed PROVE e.from \in shares /\ e.to \in disks
  <2>1. PICK s \in E!fetchShares(host) :
          e \in {E!Edge("backed-by", share(s), E!DiskId(pid, d)) :
                    d \in UNION {E!DiskNamed(n, storage.disks) : n \in s.included}}
    BY <1>3
  <2>2. PICK d \in UNION {E!DiskNamed(n, storage.disks) : n \in s.included} :
          e = E!Edge("backed-by", share(s), E!DiskId(pid, d))
    BY <2>1
  <2>3. \A n : E!DiskNamed(n, storage.disks) \subseteq storage.disks
    BY DEF E!DiskNamed
  <2>4. d \in storage.disks
    BY <2>2, <2>3
  <2> QED
    BY <2>2, <2>4 DEF E!Edge
<1>4. \A e \in E!MemberOfPlatform(entities, pid) : e.from \in entities /\ e.to = E!PlatformEntity(pid)
  <2> HIDE DEF entities
  <2> QED
    BY DEF E!MemberOfPlatform, E!Edge
<1>5. \A e \in {E!Edge("member-of", d, array) : d \in disks} : e.from \in disks /\ e.to \in arrays
  <2> HIDE DEF disks, arrays, array
  <2> QED
    BY <1>2 DEF E!Edge
<1>6. \A e \in {E!Edge("runs-on", g, E!PlatformEntity(pid)) : g \in gpus} :
        e.from \in gpus /\ e.to = E!PlatformEntity(pid)
  BY DEF E!Edge
<1>7. arrays \cup disks \cup shares \cup gpus \subseteq entities
  OBVIOUS
<1>8. \A e \in found.edges : e.from \in entities /\ e.to \in entities \cup {E!PlatformEntity(pid)}
  <2> DEFINE own == E!MemberOfPlatform(entities, pid)
             inArray == {E!Edge("member-of", d, array) : d \in disks}
             onHost == {E!Edge("runs-on", g, E!PlatformEntity(pid)) : g \in gpus}
  <2>1. found.edges = own \cup inArray \cup onHost \cup backed
    BY <1>1
  <2>2. \A e \in own : e.from \in entities /\ e.to = E!PlatformEntity(pid)
    BY <1>4
  <2>3. \A e \in inArray : e.from \in disks /\ e.to \in arrays
    BY <1>5
  <2>4. \A e \in onHost : e.from \in gpus /\ e.to = E!PlatformEntity(pid)
    BY <1>6
  <2> HIDE DEF entities, disks, arrays, shares, gpus, array, backed, found, own, inArray, onHost
  <2> QED
    BY <2>1, <2>2, <2>3, <2>4, <1>3, <1>7
<1> HIDE DEF entities
<1> QED
  BY <1>1, <1>8 DEF Closed

LEMMA SwarmClosed ==
  ASSUME NEW pid, NEW host
  PROVE  Closed(E!SwarmEnumerate(pid, host), pid)
<1> DEFINE node(n) == <<"node", pid, n.id>>
           service(s) == <<"service", pid, s.name>>
           container(t) == <<"container", pid, t.id>>
           nodes == E!Answer(host.nodes)
           services == E!Answer(host.services)
           tasks == E!RunningTasks(host)
           networks == {<<"network", pid, n.name>> : n \in E!OwnNetworks(host)}
           members == {node(n) : n \in nodes} \cup {service(s) : s \in services} \cup networks
           entities == members \cup {container(t) : t \in tasks}
           exposed == {E!Edge("exposes", service(s), E!PlatformEntity(pid)) :
                         s \in {r \in services : r.ports # {}}}
           running == UNION {{E!Edge("runs-on", container(t), node(n)) :
                        n \in {m \in nodes : t.node \in {m.id, m.hostname}}} : t \in tasks}
           parts == UNION {{E!Edge("member-of", container(t), service(s)) :
                        s \in {r \in services : t.service \in {r.name, r.id}}} : t \in tasks}
           found == E!SwarmEnumerate(pid, host)
<1>1. /\ found.entities = entities
      /\ found.edges = E!MemberOfPlatform(members, pid) \cup exposed \cup running \cup parts
  BY DEF E!SwarmEnumerate
<1>2. \A e \in E!MemberOfPlatform(members, pid) : e.from \in members /\ e.to = E!PlatformEntity(pid)
  <2> HIDE DEF members
  <2> QED
    BY DEF E!MemberOfPlatform, E!Edge
<1>3. \A e \in exposed : e.from \in members /\ e.to = E!PlatformEntity(pid)
  <2> SUFFICES ASSUME NEW e \in exposed PROVE e.from \in members /\ e.to = E!PlatformEntity(pid)
    OBVIOUS
  <2>1. PICK s \in services : e = E!Edge("exposes", service(s), E!PlatformEntity(pid))
    <3> HIDE DEF services, service
    <3> QED
      OBVIOUS
  <2>2. e.from = service(s) /\ e.to = E!PlatformEntity(pid)
    BY <2>1 DEF E!Edge
  <2>3. service(s) \in members
    OBVIOUS
  <2> HIDE DEF members, service
  <2> QED
    BY <2>2, <2>3
<1>4. \A e \in running : e.from \in entities /\ e.to \in members
  <2> HIDE DEF nodes, tasks, networks, services
  <2> QED
    BY DEF E!Edge
<1>5. \A e \in parts : e.from \in entities /\ e.to \in members
  <2> HIDE DEF nodes, tasks, networks, services
  <2> QED
    BY DEF E!Edge
<1>6. \A e \in found.edges : e.from \in entities /\ e.to \in entities \cup {E!PlatformEntity(pid)}
  <2> DEFINE own == E!MemberOfPlatform(members, pid)
  <2>1. found.edges = own \cup exposed \cup running \cup parts /\ members \subseteq entities
    BY <1>1
  <2>2. \A e \in own : e.from \in members /\ e.to = E!PlatformEntity(pid)
    BY <1>2
  <2> HIDE DEF members, entities, exposed, running, parts, found, own
  <2> QED
    BY <2>1, <2>2, <1>3, <1>4, <1>5
<1> HIDE DEF entities
<1> QED
  BY <1>1, <1>6 DEF Closed

LEMMA DisksContained ==
  ASSUME NEW pid, NEW host, NEW now, NEW failed, UnraidAgrees(host), UnraidFails(now, host, failed)
  PROVE  LET found(h) == {E!DiskId(pid, d) : d \in E!fetchArrayAndDisks(h).disks} IN
         /\ found(now) \subseteq found(host) /\ E!fetchArrayAndDisks(host).found
         /\ "mdcmd" \notin failed \/ "ini" \notin failed =>
              found(host) \subseteq found(now) /\ E!fetchArrayAndDisks(now).found
<1> DEFINE disks(h) == E!fetchArrayAndDisks(h).disks
           found(h) == {E!DiskId(pid, d) : d \in disks(h)}
           fromCmd == E!diskEntriesFromMdcmd(host.mdcmd.slots)
           fromIni == E!diskEntriesFromDisksIni(host.ini.slots)
<1>1. disks(host) = fromCmd /\ E!fetchArrayAndDisks(host).found
  <2>1. E!fetchArrayAndDisks(host) = [found |-> TRUE, mdState |-> host.mdcmd.mdState, disks |-> fromCmd]
    BY DEF UnraidAgrees, E!fetchArrayAndDisks
  <2> QED
    BY <2>1
<1>2. disks(now) \in {fromCmd, fromIni, {}}
  BY DEF UnraidFails, E!fetchArrayAndDisks
<1>3. \A d \in fromCmd : \E e \in fromIni : d.slot = e.slot
  <2> HIDE DEF fromCmd, fromIni
  <2>1. {d.slot : d \in fromCmd} = {d.slot : d \in fromIni}
    BY DEF UnraidAgrees, fromCmd, fromIni
  <2> QED
    BY <2>1
<1>4. \A d \in fromIni : \E e \in fromCmd : d.slot = e.slot
  <2> HIDE DEF fromCmd, fromIni
  <2>1. {d.slot : d \in fromIni} = {d.slot : d \in fromCmd}
    BY DEF UnraidAgrees, fromCmd, fromIni
  <2>2. \A d \in fromIni : d.slot \in {e.slot : e \in fromCmd}
    BY <2>1
  <2> QED
    BY <2>2
<1>5. ASSUME "mdcmd" \notin failed \/ "ini" \notin failed
      PROVE  disks(now) \in {fromCmd, fromIni} /\ E!fetchArrayAndDisks(now).found
  BY <1>5 DEF UnraidAgrees, UnraidFails, E!fetchArrayAndDisks
<1>6. found(now) \subseteq found(host)
  <2> HIDE DEF disks, fromCmd, fromIni
  <2> QED
    BY <1>1, <1>2, <1>4 DEF E!DiskId
<1>7. ASSUME "mdcmd" \notin failed \/ "ini" \notin failed PROVE found(host) \subseteq found(now)
  <2> HIDE DEF disks, fromCmd, fromIni
  <2> QED
    BY <1>1, <1>3, <1>5, <1>7 DEF E!DiskId
<1> QED
  BY <1>1, <1>5, <1>6, <1>7

LEMMA SharesContained ==
  ASSUME NEW host, NEW now, NEW failed, UnraidAgrees(host), UnraidFails(now, host, failed)
  PROVE  /\ \A s \in E!fetchShares(now) : \E t \in E!fetchShares(host) : s.name = t.name
         /\ "shares" \notin failed \/ "files" \notin failed =>
              \A s \in E!fetchShares(host) : \E t \in E!fetchShares(now) : s.name = t.name
<1> DEFINE inIni == host.shares_ini.shares
           inFiles == Readable(host.share_files)
<1>1. {s.name : s \in inIni} = {f.name : f \in inFiles}
  BY DEF UnraidAgrees
<1>2. E!fetchShares(host) \in {inIni, inFiles}
  BY DEF UnraidAgrees, E!fetchShares, Readable
<1>3. E!fetchShares(now) = inIni \/ E!fetchShares(now) = Readable(now.share_files)
  BY DEF UnraidFails, E!fetchShares, Readable
<1>4. Readable(now.share_files) \subseteq inFiles
  BY DEF UnraidFails
<1>5. ASSUME "shares" \notin failed \/ "files" \notin failed
      PROVE  E!fetchShares(now) \in {inIni, inFiles} \/ inIni = {}
  BY <1>5 DEF UnraidFails, E!fetchShares, Readable
<1>6. (\A s \in inIni : \E f \in inFiles : s.name = f.name) /\ (\A f \in inFiles : \E s \in inIni : f.name = s.name)
  <2> HIDE DEF inIni, inFiles
  <2> QED
    BY <1>1
<1> HIDE DEF inIni, inFiles
<1> QED
  BY <1>2, <1>3, <1>4, <1>5, <1>6

LEMMA JobsContained ==
  ASSUME NEW pid, NEW host, NEW now, NEW failed, NEW head, UnraidFails(now, host, failed)
  PROVE  /\ E!JobIds(pid, now, head) \subseteq E!JobIds(pid, host, head)
         /\ "cron" \notin failed => E!JobIds(pid, now, head) = E!JobIds(pid, host, head)
<1>1. \A h : E!fetchJobs(h) = UNION {E!parseCrontab(f) : f \in Readable(h.cron_files)}
  BY DEF E!fetchJobs, Readable
<1>2. /\ Readable(now.cron_files) \subseteq Readable(host.cron_files)
      /\ "cron" \notin failed => Readable(now.cron_files) = Readable(host.cron_files)
  BY DEF UnraidFails
<1>3. E!fetchJobs(now) \subseteq E!fetchJobs(host)
  BY <1>1, <1>2
<1>4. "cron" \notin failed => E!fetchJobs(now) = E!fetchJobs(host)
  BY <1>1, <1>2
<1> QED
  BY <1>3, <1>4 DEF E!JobIds

LEMMA GpusContained ==
  ASSUME NEW pid, NEW host, NEW now, NEW failed, UnraidAgrees(host), UnraidFails(now, host, failed)
  PROVE  /\ E!GpuIds(pid, now) \subseteq E!GpuIds(pid, host)
         /\ "gpus" \notin failed => E!GpuIds(pid, now) = E!GpuIds(pid, host)
<1>1. /\ E!fetchGpus(now) \subseteq E!fetchGpus(host)
      /\ "gpus" \notin failed => E!fetchGpus(now) = E!fetchGpus(host)
  BY DEF UnraidAgrees, UnraidFails, E!fetchGpus
<1> QED
  BY <1>1 DEF E!GpuIds

LEMMA UnraidContained ==
  ASSUME NEW pid, NEW host, NEW now, NEW failed, NEW head,
         UnraidAgrees(host), UnraidFails(now, host, failed)
  PROVE  Contained(E!UnraidEnumerate(pid, now, head), E!UnraidEnumerate(pid, host, head), failed)
<1> DEFINE arrays(h) == IF E!fetchArrayAndDisks(h).found THEN {<<"storage-array", pid>>} ELSE {}
           disks(h) == {E!DiskId(pid, d) : d \in E!fetchArrayAndDisks(h).disks}
           shares(h) == {<<"share", pid, s.name>> : s \in E!fetchShares(h)}
<1>1. \A h : E!UnraidEnumerate(pid, h, head).entities =
              arrays(h) \cup disks(h) \cup shares(h) \cup E!GpuIds(pid, h) \cup E!JobIds(pid, h, head)
  BY DEF E!UnraidEnumerate
<1>2. /\ \A i \in arrays(host) : i[1] = "storage-array"
      /\ \A i \in disks(host) : i[1] = "storage-disk"
      /\ \A i \in shares(host) : i[1] = "share"
      /\ \A i \in E!GpuIds(pid, host) : i[1] = "gpu"
      /\ \A i \in E!JobIds(pid, host, head) : i[1] = "job"
  BY DEF E!DiskId, E!GpuIds, E!JobIds
<1>3. /\ arrays(now) \subseteq arrays(host) /\ disks(now) \subseteq disks(host)
      /\ "mdcmd" \notin failed \/ "ini" \notin failed =>
           arrays(host) \subseteq arrays(now) /\ disks(host) \subseteq disks(now)
  BY DisksContained
<1>4. /\ shares(now) \subseteq shares(host)
      /\ "shares" \notin failed \/ "files" \notin failed => shares(host) \subseteq shares(now)
  BY SharesContained
<1> HIDE DEF arrays, disks, shares
<1>5. E!UnraidEnumerate(pid, now, head).entities \subseteq E!UnraidEnumerate(pid, host, head).entities
  BY <1>1, <1>3, <1>4, JobsContained, GpusContained
<1>6. ASSUME NEW i \in E!UnraidEnumerate(pid, host, head).entities \ E!UnraidEnumerate(pid, now, head).entities
      PROVE  i[1] \in Cost(failed)
  <2>1. \/ i \in arrays(host) \ arrays(now) \/ i \in disks(host) \ disks(now)
        \/ i \in shares(host) \ shares(now) \/ i \in E!GpuIds(pid, host) \ E!GpuIds(pid, now)
        \/ i \in E!JobIds(pid, host, head) \ E!JobIds(pid, now, head)
    BY <1>1
  <2> QED
    BY <2>1, <1>2, <1>3, <1>4, JobsContained, GpusContained, CostIs
<1> QED
  BY <1>5, <1>6 DEF Contained

LEMMA SwarmContained ==
  ASSUME NEW pid, NEW host, NEW now, NEW failed, SwarmFails(now, host, failed)
  PROVE  Contained(E!SwarmEnumerate(pid, now), E!SwarmEnumerate(pid, host), failed)
<1> DEFINE nodes(h) == {<<"node", pid, n.id>> : n \in E!Answer(h.nodes)}
           services(h) == {<<"service", pid, s.name>> : s \in E!Answer(h.services)}
           networks(h) == {<<"network", pid, n.name>> : n \in E!OwnNetworks(h)}
           containers(h) == {<<"container", pid, t.id>> : t \in E!RunningTasks(h)}
<1>1. \A h : E!SwarmEnumerate(pid, h).entities = nodes(h) \cup services(h) \cup networks(h) \cup containers(h)
  BY DEF E!SwarmEnumerate
<1>2. /\ \A i \in nodes(host) : i[1] = "node"
      /\ \A i \in services(host) : i[1] = "service"
      /\ \A i \in networks(host) : i[1] = "network"
      /\ \A i \in containers(host) : i[1] = "container"
  OBVIOUS
<1>3. \A c \in {"nodes", "services", "tasks", "networks"} :
        /\ E!Answer(now[c]) \subseteq E!Answer(host[c])
        /\ c \notin failed => E!Answer(now[c]) = E!Answer(host[c])
  BY DEF SwarmFails, E!Answer
<1>4. nodes(now) \subseteq nodes(host) /\ ("nodes" \notin failed => nodes(host) \subseteq nodes(now))
  BY <1>3
<1>5. /\ services(now) \subseteq services(host)
      /\ "services" \notin failed => services(host) \subseteq services(now)
  BY <1>3
<1>6. /\ networks(now) \subseteq networks(host)
      /\ "networks" \notin failed => networks(host) \subseteq networks(now)
  BY <1>3 DEF E!OwnNetworks
<1>7. /\ containers(now) \subseteq containers(host)
      /\ "services" \notin failed /\ "tasks" \notin failed => containers(host) \subseteq containers(now)
  <2>1. /\ E!RunningTasks(now) \subseteq E!RunningTasks(host)
        /\ "services" \notin failed /\ "tasks" \notin failed => E!RunningTasks(now) = E!RunningTasks(host)
    BY <1>3 DEF E!RunningTasks
  <2> QED
    BY <2>1
<1> HIDE DEF nodes, services, networks, containers
<1>8. E!SwarmEnumerate(pid, now).entities \subseteq E!SwarmEnumerate(pid, host).entities
  BY <1>1, <1>4, <1>5, <1>6, <1>7
<1>9. ASSUME NEW i \in E!SwarmEnumerate(pid, host).entities \ E!SwarmEnumerate(pid, now).entities
      PROVE  i[1] \in Cost(failed)
  <2>1. \/ i \in nodes(host) \ nodes(now) \/ i \in services(host) \ services(now)
        \/ i \in networks(host) \ networks(now) \/ i \in containers(host) \ containers(now)
    BY <1>1
  <2> QED
    BY <2>1, <1>2, <1>4, <1>5, <1>6, <1>7, CostIs
<1> QED
  BY <1>8, <1>9 DEF Contained

LEMMA SweepsAreContained ==
  ASSUME NEW s, IsSweep(s)
  PROVE  SweepIsContained(s)
<1> DEFINE found == E!DeepEnumerate(s.platforms, s.filter, s.hosts, s.head)
           healthy == E!DeepEnumerate(s.platforms, s.filter, s.healthy, s.head)
<1>1. ASSUME NEW p \in DOMAIN found
      PROVE  /\ p \in s.platforms
             /\ found[p] = E!EnumeratePlatform(p, s.hosts[p.id], s.head)
             /\ healthy[p] = E!EnumeratePlatform(p, s.healthy[p.id], s.head)
  BY DEF E!DeepEnumerate
<1>2. ASSUME NEW p \in DOMAIN found
      PROVE  /\ Closed(E!Enumerated(p, s.hosts[p.id], s.head), p.id)
             /\ Contained(E!Enumerated(p, s.hosts[p.id], s.head),
                          E!Enumerated(p, s.healthy[p.id], s.head), s.failed)
  <2>1. CASE E!getEnumerator(p.kind) = "unraid"
    <3>1. UnraidAgrees(s.healthy[p.id]) /\ UnraidFails(s.hosts[p.id], s.healthy[p.id], s.failed)
      BY <1>1, <2>1 DEF IsSweep
    <3> QED
      BY <2>1, <3>1, UnraidClosed, UnraidContained DEF E!Enumerated
  <2>2. CASE E!getEnumerator(p.kind) = "swarm"
    <3>1. SwarmFails(s.hosts[p.id], s.healthy[p.id], s.failed)
      BY <1>1, <2>2 DEF IsSweep
    <3>2. \A h : E!Enumerated(p, h, s.head) = E!SwarmEnumerate(p.id, h)
      BY <2>2 DEF E!Enumerated
    <3> QED
      BY <3>1, <3>2, SwarmClosed, SwarmContained
  <2>3. CASE E!getEnumerator(p.kind) \notin {"unraid", "swarm"}
    BY <2>3 DEF E!Enumerated, E!StubEnumerate, Closed, Contained
  <2> QED
    BY <2>1, <2>2, <2>3
<1>3. ASSUME NEW p \in DOMAIN found
      PROVE  /\ Closed(found[p], p.id) /\ found[p].ok = healthy[p].ok
             /\ Contained(found[p], healthy[p], s.failed)
  <2>1. p.refused = {}
    BY <1>1 DEF IsSweep
  <2>2. CASE E!getEnumerator(p.kind) = "none" \/ ~p.connects \/ ~p.readable
    <3>1. /\ found[p] = [ok |-> FALSE, entities |-> {}, edges |-> {}]
          /\ healthy[p] = [ok |-> FALSE, entities |-> {}, edges |-> {}]
      BY <1>1, <2>2 DEF E!EnumeratePlatform
    <3> QED
      BY <3>1 DEF Closed, Contained
  <2>3. CASE ~(E!getEnumerator(p.kind) = "none" \/ ~p.connects \/ ~p.readable)
    <3>1. \A h : E!EnumeratePlatform(p, h, s.head) =
                  [ok |-> TRUE, entities |-> E!Enumerated(p, h, s.head).entities \ p.refused,
                   edges |-> E!Enumerated(p, h, s.head).edges]
      BY <2>3 DEF E!EnumeratePlatform
    <3>2. /\ found[p].entities = E!Enumerated(p, s.hosts[p.id], s.head).entities
          /\ found[p].edges = E!Enumerated(p, s.hosts[p.id], s.head).edges
          /\ healthy[p].entities = E!Enumerated(p, s.healthy[p.id], s.head).entities
          /\ found[p].ok = healthy[p].ok
      <4>1. /\ found[p] = E!EnumeratePlatform(p, s.hosts[p.id], s.head)
            /\ healthy[p] = E!EnumeratePlatform(p, s.healthy[p.id], s.head)
        BY <1>1
      <4>2. \A h : /\ E!EnumeratePlatform(p, h, s.head).ok = TRUE
                   /\ E!EnumeratePlatform(p, h, s.head).entities = E!Enumerated(p, h, s.head).entities
                   /\ E!EnumeratePlatform(p, h, s.head).edges = E!Enumerated(p, h, s.head).edges
        <5> TAKE h
        <5>1. E!Enumerated(p, h, s.head).entities \ p.refused = E!Enumerated(p, h, s.head).entities
          BY <2>1
        <5> DEFINE all == E!Enumerated(p, h, s.head).entities
                   edges == E!Enumerated(p, h, s.head).edges
        <5>2. E!EnumeratePlatform(p, h, s.head) = [ok |-> TRUE, entities |-> all \ p.refused, edges |-> edges]
          BY <3>1
        <5>3. E!EnumeratePlatform(p, h, s.head) = [ok |-> TRUE, entities |-> all, edges |-> edges]
          BY <5>1, <5>2
        <5> HIDE DEF all, edges, found, healthy
        <5>4. /\ E!EnumeratePlatform(p, h, s.head).ok = TRUE
              /\ E!EnumeratePlatform(p, h, s.head).entities = all
              /\ E!EnumeratePlatform(p, h, s.head).edges = edges
          BY <5>3
        <5> QED
          BY <5>4 DEF all, edges
      <4> HIDE DEF found, healthy
      <4> QED
        BY <4>1, <4>2
    <3> HIDE DEF found, healthy
    <3> QED
      BY <1>2, <3>2 DEF Closed, Contained
  <2> QED
    BY <2>2, <2>3
<1> HIDE DEF found, healthy
<1>4. EdgesAreClosed(found)
  BY <1>3 DEF EdgesAreClosed, Closed
<1>5. \A p \in DOMAIN found : /\ found[p].ok = healthy[p].ok
                              /\ found[p].entities \subseteq healthy[p].entities
                              /\ \A i \in healthy[p].entities \ found[p].entities : i[1] \in Cost(s.failed)
  BY <1>3 DEF Contained
<1> QED
  BY <1>4, <1>5 DEF SweepIsContained, found, healthy

LEMMA DatabasesAreClosed ==
  ASSUME NEW d
  PROVE  ProbeIsClosed(d)
<1> DEFINE candidates == E!findCandidates(d.candidates)
           children(e) == {<<"database", e.name, c>> : c \in E!Introspection(e, d.asked[e.name]).children}
           below == UNION {children(e) : e \in candidates}
           members == UNION {{E!Edge("member-of", c, E!DatastoreId(e)) : c \in children(e)} : e \in candidates}
           found == E!DatastoreProbe(d.candidates, d.asked)
<1>1. found.entities = {E!DatastoreId(e) : e \in candidates} \cup below /\ found.edges = members
  BY DEF E!DatastoreProbe
<1>2. ASSUME NEW e \in members PROVE {e.from, e.to} \subseteq found.entities
  <2>1. PICK f \in candidates : e \in {E!Edge("member-of", c, E!DatastoreId(f)) : c \in children(f)}
    BY <1>2
  <2>2. PICK c \in children(f) : e = E!Edge("member-of", c, E!DatastoreId(f))
    BY <2>1
  <2>3. e.from = c /\ e.to = E!DatastoreId(f)
    BY <2>2 DEF E!Edge
  <2> HIDE DEF found, candidates, children
  <2> QED
    BY <2>3, <1>1
<1> QED
  BY <1>1, <1>2 DEF ProbeIsClosed

-------------------------------------------------------------------------------
(***************************************************************************)
(* The listing of a secret store.                                          *)
(***************************************************************************)

(* The folders of a store are paths over some names. *)
Store(tree, names) ==
  /\ DOMAIN tree \subseteq Seq(names)
  /\ \A p \in DOMAIN tree : \A f \in tree[p].folders : f \in names /\ Append(p, f) \in DOMAIN tree
  /\ \A p \in DOMAIN tree : tree[p].status \in {"ok", "missing", "error"}

(* Folder `q` is listed on the way from its i-th part on. *)
Listed(tree, q, i) == tree[SubSeq(q, 1, i - 1)].status = "ok" /\ q[i] \in tree[SubSeq(q, 1, i - 1)].folders

(* The folders that the listing of folder `p` comes to. *)
Under(tree, depth, p) ==
  {q \in DOMAIN tree : /\ Len(p) <= Len(q) /\ Len(q) <= depth /\ SubSeq(q, 1, Len(p)) = p
                       /\ \A i \in Len(p) + 1..Len(q) : Listed(tree, q, i)}

LEMMA Prefixes ==
  ASSUME NEW names, NEW q \in Seq(names), NEW n \in 0..Len(q)
  PROVE  /\ SubSeq(q, 1, n) \in Seq(names) /\ Len(SubSeq(q, 1, n)) = n
         /\ \A i \in 1..n : SubSeq(q, 1, n)[i] = q[i]
  BY SubSeqProperties

LEMMA PrefixIs ==
  ASSUME NEW names, NEW q \in Seq(names), NEW p \in Seq(names), Len(p) <= Len(q),
         \A i \in 1..Len(p) : p[i] = q[i]
  PROVE  SubSeq(q, 1, Len(p)) = p
<1>1. Len(p) \in 0..Len(q)
  BY LenProperties
<1>2. /\ SubSeq(q, 1, Len(p)) \in Seq(names) /\ Len(SubSeq(q, 1, Len(p))) = Len(p)
      /\ \A i \in 1..Len(p) : SubSeq(q, 1, Len(p))[i] = p[i]
  BY <1>1, Prefixes
<1> QED
  BY <1>2, SeqEqual

LEMMA PrefixElements ==
  ASSUME NEW names, NEW q \in Seq(names), NEW p \in Seq(names), Len(p) <= Len(q),
         SubSeq(q, 1, Len(p)) = p
  PROVE  \A i \in 1..Len(p) : p[i] = q[i]
<1>1. Len(p) \in 0..Len(q)
  BY LenProperties
<1> QED
  BY <1>1, Prefixes

(* The listing stops below its depth and at a folder that has no listing. *)
LEMMA UnderLeaf ==
  ASSUME NEW names, NEW tree, Store(tree, names), NEW depth \in Nat, NEW p \in DOMAIN tree
  PROVE  /\ Len(p) > depth => Under(tree, depth, p) = {}
         /\ Len(p) <= depth => p \in Under(tree, depth, p)
         /\ Len(p) <= depth /\ tree[p].status # "ok" => Under(tree, depth, p) = {p}
<1>1. p \in Seq(names) /\ Len(p) \in Nat
  BY LenProperties DEF Store
<1>2. ASSUME Len(p) > depth PROVE Under(tree, depth, p) = {}
  <2>1. ASSUME NEW q \in Under(tree, depth, p) PROVE FALSE
    <3>1. q \in Seq(names) /\ Len(p) <= Len(q) /\ Len(q) <= depth
      BY DEF Under, Store
    <3> QED
      BY <3>1, <1>1, <1>2, LenProperties
  <2> QED
    BY <2>1
<1>3. ASSUME Len(p) <= depth PROVE p \in Under(tree, depth, p)
  <2>1. SubSeq(p, 1, Len(p)) = p
    BY <1>1, PrefixIs
  <2>2. Len(p) + 1..Len(p) = {}
    BY <1>1
  <2> QED
    BY <1>1, <1>3, <2>1, <2>2 DEF Under
<1>4. ASSUME Len(p) <= depth, tree[p].status # "ok", NEW q \in Under(tree, depth, p) PROVE q = p
  <2>1. /\ q \in Seq(names) /\ Len(q) \in Nat /\ Len(p) <= Len(q) /\ SubSeq(q, 1, Len(p)) = p
        /\ \A i \in Len(p) + 1..Len(q) : Listed(tree, q, i)
    BY LenProperties DEF Under, Store
  <2>2. CASE Len(q) = Len(p)
    <3>1. SubSeq(q, 1, Len(q)) = q
      BY <2>1, PrefixIs
    <3> QED
      BY <2>1, <2>2, <3>1
  <2>3. CASE Len(q) # Len(p)
    <3>1. Len(p) + 1 \in Len(p) + 1..Len(q)
      BY <1>1, <2>1, <2>3
    <3>2. Listed(tree, q, Len(p) + 1) /\ (Len(p) + 1) - 1 = Len(p)
      BY <1>1, <2>1, <3>1
    <3> QED
      BY <2>1, <3>2, <1>4 DEF Listed
  <2> QED
    BY <2>2, <2>3
<1> QED
  BY <1>2, <1>3, <1>4

(* The listing of a folder that answers is that of its folders besides. *)
LEMMA UnderFolders ==
  ASSUME NEW names, NEW tree, Store(tree, names), NEW depth \in Nat, NEW p \in DOMAIN tree,
         Len(p) <= depth, tree[p].status = "ok"
  PROVE  /\ \A f \in tree[p].folders : Under(tree, depth, Append(p, f)) \subseteq Under(tree, depth, p)
         /\ \A q \in Under(tree, depth, p) :
              q = p \/ \E f \in tree[p].folders : q \in Under(tree, depth, Append(p, f))
<1>1. p \in Seq(names) /\ Len(p) \in Nat
  BY LenProperties DEF Store
<1>2. ASSUME NEW f \in tree[p].folders
      PROVE  /\ f \in names /\ Append(p, f) \in Seq(names) /\ Len(Append(p, f)) = Len(p) + 1
             /\ \A i \in 1..Len(p) : Append(p, f)[i] = p[i]
             /\ Append(p, f)[Len(p) + 1] = f
  <2>1. f \in names
    BY DEF Store
  <2> QED
    BY <1>1, <2>1, AppendProperties
<1>3. ASSUME NEW f \in tree[p].folders, NEW q \in Under(tree, depth, Append(p, f))
      PROVE  q \in Under(tree, depth, p)
  <2>1. /\ q \in Seq(names) /\ Len(q) \in Nat /\ Len(p) + 1 <= Len(q) /\ Len(q) <= depth
        /\ q \in DOMAIN tree /\ SubSeq(q, 1, Len(p) + 1) = Append(p, f)
        /\ \A i \in Len(p) + 2..Len(q) : Listed(tree, q, i)
    BY <1>1, <1>2, LenProperties DEF Under, Store
  <2>2. \A i \in 1..Len(p) + 1 : Append(p, f)[i] = q[i]
    BY <1>1, <1>2, <2>1, PrefixElements
  <2>3. \A i \in 1..Len(p) : p[i] = q[i]
    BY <1>1, <1>2, <2>2
  <2>4. SubSeq(q, 1, Len(p)) = p
    BY <1>1, <2>1, <2>3, PrefixIs
  <2>5. q[Len(p) + 1] = f
    BY <1>1, <1>2, <2>2
  <2>6. Listed(tree, q, Len(p) + 1)
    <3>1. (Len(p) + 1) - 1 = Len(p)
      BY <1>1
    <3> QED
      BY <2>4, <2>5, <3>1 DEF Listed
  <2>7. \A i \in Len(p) + 1..Len(q) : i = Len(p) + 1 \/ i \in Len(p) + 2..Len(q)
    BY <1>1, <2>1
  <2>8. \A i \in Len(p) + 1..Len(q) : Listed(tree, q, i)
    BY <2>1, <2>6, <2>7
  <2> QED
    BY <1>1, <2>1, <2>4, <2>8 DEF Under
<1>4. ASSUME NEW q \in Under(tree, depth, p), q # p
      PROVE  \E f \in tree[p].folders : q \in Under(tree, depth, Append(p, f))
  <2>1. /\ q \in Seq(names) /\ Len(q) \in Nat /\ Len(p) <= Len(q) /\ Len(q) <= depth
        /\ q \in DOMAIN tree /\ SubSeq(q, 1, Len(p)) = p
        /\ \A i \in Len(p) + 1..Len(q) : Listed(tree, q, i)
    BY LenProperties DEF Under, Store
  <2>2. Len(q) # Len(p)
    <3>1. SubSeq(q, 1, Len(q)) = q
      BY <2>1, PrefixIs
    <3> QED
      BY <2>1, <1>4, <3>1
  <2>3. Len(p) + 1 \in Len(p) + 1..Len(q) /\ (Len(p) + 1) - 1 = Len(p)
    BY <1>1, <2>1, <2>2
  <2>4. q[Len(p) + 1] \in tree[p].folders
    BY <2>1, <2>3 DEF Listed
  <2> DEFINE f == q[Len(p) + 1]
  <2>5. \A i \in 1..Len(p) : p[i] = q[i]
    BY <1>1, <2>1, PrefixElements
  <2>6. \A i \in 1..Len(p) + 1 : Append(p, f)[i] = q[i]
    <3>1. \A i \in 1..Len(p) + 1 : i \in 1..Len(p) \/ i = Len(p) + 1
      BY <1>1
    <3> QED
      BY <1>2, <2>4, <2>5, <3>1
  <2>7. SubSeq(q, 1, Len(Append(p, f))) = Append(p, f)
    <3>1. Len(Append(p, f)) = Len(p) + 1 /\ Append(p, f) \in Seq(names)
      BY <1>2, <2>4
    <3>2. Len(p) + 1 <= Len(q)
      BY <1>1, <2>1, <2>2
    <3> HIDE DEF f
    <3> QED
      BY <2>1, <2>6, <3>1, <3>2, PrefixIs
  <2>8. Len(Append(p, f)) = Len(p) + 1
    BY <1>2, <2>4
  <2>9. \A i \in Len(p) + 1 + 1..Len(q) : i \in Len(p) + 1..Len(q)
    BY <1>1, <2>1
  <2>10. Len(p) + 1 <= Len(q)
    BY <1>1, <2>1, <2>2
  <2>11. q \in Under(tree, depth, Append(p, f))
    <3> HIDE DEF f
    <3> QED
      BY <2>1, <2>7, <2>8, <2>9, <2>10 DEF Under
  <2> QED
    BY <2>4, <2>11
<1> QED
  BY <1>3, <1>4

-------------------------------------------------------------------------------
(* What the listing of folder `p` comes to, given that of its folders. *)
Step(tree, depth, list, p) ==
  IF Len(p) > depth \/ tree[p].status = "missing" THEN [ok |-> TRUE, keys |-> {}]
  ELSE IF tree[p].status = "error" THEN [ok |-> FALSE, keys |-> {}]
  ELSE [ok |-> \A f \in tree[p].folders : list[Append(p, f)].ok,
        keys |-> {Append(p, k) : k \in tree[p].keys}
                 \cup UNION {list[Append(p, f)].keys : f \in tree[p].folders}]

IsListing(tree, depth, list) == list = [p \in DOMAIN tree |-> Step(tree, depth, list, p)]

(* The same, of all the folders below it at once. *)
Listable(tree, depth, p) == \A q \in Under(tree, depth, p) : tree[q].status # "error"

Keys(tree, depth, p) ==
  UNION {{Append(q, k) : k \in tree[q].keys} : q \in {r \in Under(tree, depth, p) : tree[r].status = "ok"}}

Total(tree, depth, p) == [ok |-> Listable(tree, depth, p), keys |-> Keys(tree, depth, p)]

LEMMA TotalFields ==
  ASSUME NEW tree, NEW depth, NEW p
  PROVE  Total(tree, depth, p).ok = Listable(tree, depth, p) /\ Total(tree, depth, p).keys = Keys(tree, depth, p)
  BY DEF Total

LEMMA TotalStep ==
  ASSUME NEW names, NEW tree, Store(tree, names), NEW depth \in Nat, NEW p \in DOMAIN tree, NEW list,
         \A f \in tree[p].folders :
           Len(p) <= depth /\ tree[p].status = "ok" => list[Append(p, f)] = Total(tree, depth, Append(p, f))
  PROVE  Step(tree, depth, list, p) = Total(tree, depth, p)
<1>1. p \in Seq(names) /\ Len(p) \in Nat /\ tree[p].status \in {"ok", "missing", "error"}
  BY LenProperties DEF Store
<1>2. CASE Len(p) > depth
  <2>1. Under(tree, depth, p) = {}
    BY <1>2, UnderLeaf
  <2>2. Keys(tree, depth, p) = {} /\ Listable(tree, depth, p) = TRUE
    BY <2>1 DEF Keys, Listable
  <2> QED
    BY <1>2, <2>2 DEF Total, Step
<1>3. CASE Len(p) <= depth /\ tree[p].status = "missing"
  <2>1. Under(tree, depth, p) = {p}
    BY <1>3, UnderLeaf
  <2>2. Keys(tree, depth, p) = {} /\ Listable(tree, depth, p) = TRUE
    BY <1>3, <2>1 DEF Keys, Listable
  <2> QED
    BY <1>3, <2>2 DEF Total, Step
<1>4. CASE Len(p) <= depth /\ tree[p].status = "error"
  <2>1. Under(tree, depth, p) = {p}
    BY <1>4, UnderLeaf
  <2>2. Keys(tree, depth, p) = {} /\ Listable(tree, depth, p) = FALSE
    BY <1>4, <2>1 DEF Keys, Listable
  <2>3. Step(tree, depth, list, p) = [ok |-> FALSE, keys |-> {}]
    BY <1>1, <1>4 DEF Step
  <2> QED
    BY <2>2, <2>3 DEF Total
<1>5. CASE Len(p) <= depth /\ tree[p].status = "ok"
  <2>1. /\ p \in Under(tree, depth, p)
        /\ \A f \in tree[p].folders : Under(tree, depth, Append(p, f)) \subseteq Under(tree, depth, p)
        /\ \A q \in Under(tree, depth, p) :
             q = p \/ \E f \in tree[p].folders : q \in Under(tree, depth, Append(p, f))
    BY <1>5, UnderLeaf, UnderFolders
  <2>2. \A f \in tree[p].folders : /\ list[Append(p, f)].ok = Listable(tree, depth, Append(p, f))
                                   /\ list[Append(p, f)].keys = Keys(tree, depth, Append(p, f))
    BY <1>5, TotalFields
  <2>3. (\A f \in tree[p].folders : list[Append(p, f)].ok) <=> Listable(tree, depth, p)
    BY <1>5, <2>1, <2>2 DEF Listable
  <2> DEFINE own == {Append(p, k) : k \in tree[p].keys}
             below == UNION {list[Append(p, f)].keys : f \in tree[p].folders}
  <2>4. \A k : k \in Keys(tree, depth, p)
               <=> \E q \in Under(tree, depth, p) : tree[q].status = "ok" /\ k \in {Append(q, l) : l \in tree[q].keys}
    BY DEF Keys
  <2>5. \A k : k \in below
               <=> \E f \in tree[p].folders : \E q \in Under(tree, depth, Append(p, f)) :
                     tree[q].status = "ok" /\ k \in {Append(q, l) : l \in tree[q].keys}
    BY <2>2 DEF Keys
  <2>6. own \cup below = Keys(tree, depth, p)
    <3> HIDE DEF below
    <3>1. \A k : k \in Keys(tree, depth, p) => k \in own \/ k \in below
      BY <2>1, <2>4, <2>5
    <3>2. \A k : k \in own => k \in Keys(tree, depth, p)
      BY <1>5, <2>1, <2>4
    <3>3. \A k : k \in below => k \in Keys(tree, depth, p)
      BY <2>1, <2>4, <2>5
    <3> QED
      BY <3>1, <3>2, <3>3
  <2>7. Step(tree, depth, list, p) =
          [ok |-> \A f \in tree[p].folders : list[Append(p, f)].ok, keys |-> own \cup below]
    BY <1>1, <1>5 DEF Step
  <2>8. (\A f \in tree[p].folders : list[Append(p, f)].ok) = Listable(tree, depth, p)
    BY <2>3 DEF Listable
  <2> QED
    BY <2>6, <2>7, <2>8 DEF Total
<1> QED
  BY <1>1, <1>2, <1>3, <1>4, <1>5

LEMMA ListingIsTotal ==
  ASSUME NEW names, NEW tree, Store(tree, names), NEW depth \in Nat, NEW list, IsListing(tree, depth, list)
  PROVE  \A p \in DOMAIN tree : list[p] = Total(tree, depth, p)
<1>1. \A p \in DOMAIN tree : list[p] = Step(tree, depth, list, p)
  BY DEF IsListing
<1>2. \A p \in DOMAIN tree : p \in Seq(names) /\ Len(p) \in Nat
  BY LenProperties DEF Store
<1> DEFINE Wrong == {p \in DOMAIN tree : list[p] # Total(tree, depth, p) /\ Len(p) <= depth}
           left(p) == depth - Len(p)
           Left == {left(p) : p \in Wrong}
<1>3. ASSUME Wrong # {} PROVE FALSE
  <2>1. Left \subseteq Nat /\ Left # {}
    BY <1>2, <1>3
  <2>2. PICK n \in Left : \A m \in Left : n <= m
    <3> HIDE DEF Left
    <3> QED
      BY <2>1, LeastNat
  <2>3. PICK p \in Wrong : n = left(p)
    BY <2>2
  <2>4. ASSUME NEW f \in tree[p].folders
        PROVE  list[Append(p, f)] = Total(tree, depth, Append(p, f))
    <3>1. Append(p, f) \in DOMAIN tree /\ f \in names
      BY DEF Store
    <3>2. Len(Append(p, f)) = Len(p) + 1
      BY <1>2, <3>1, AppendProperties
    <3>3. CASE Len(p) + 1 <= depth
      <4>1. ASSUME Append(p, f) \in Wrong PROVE FALSE
        <5>1. left(Append(p, f)) \in Left
          BY <4>1
        <5>2. left(Append(p, f)) = n - 1 /\ n \in Nat
          BY <2>3, <3>2, <1>2
        <5>3. n <= left(Append(p, f))
          <6> HIDE DEF Left, left
          <6> QED
            BY <5>1, <2>2
        <5> QED
          BY <5>2, <5>3
      <4> QED
        BY <3>1, <3>2, <3>3, <4>1
    <3>4. CASE ~(Len(p) + 1 <= depth)
      <4>1. Len(Append(p, f)) > depth
        BY <1>2, <3>2, <3>4
      <4>2. list[Append(p, f)] = Step(tree, depth, list, Append(p, f))
        BY <1>1, <3>1
      <4>3. ~(Len(Append(p, f)) <= depth)
        BY <4>1, <3>2, <1>2
      <4> QED
        BY <3>1, <4>2, <4>3, TotalStep
    <3> QED
      BY <3>3, <3>4
  <2>5. Step(tree, depth, list, p) = Total(tree, depth, p)
    BY <2>4, TotalStep
  <2> QED
    BY <1>1, <2>3, <2>5
<1>4. ASSUME NEW p \in DOMAIN tree, ~(Len(p) <= depth) PROVE list[p] = Total(tree, depth, p)
  BY <1>1, <1>4, TotalStep
<1> QED
  BY <1>3, <1>4

LEMMA TotalIsListing ==
  ASSUME NEW names, NEW tree, Store(tree, names), NEW depth \in Nat
  PROVE  IsListing(tree, depth, [p \in DOMAIN tree |-> Total(tree, depth, p)])
<1> DEFINE list == [p \in DOMAIN tree |-> Total(tree, depth, p)]
<1>1. ASSUME NEW p \in DOMAIN tree PROVE Step(tree, depth, list, p) = Total(tree, depth, p)
  <2>1. \A f \in tree[p].folders : Append(p, f) \in DOMAIN tree
    BY DEF Store
  <2>2. \A f \in tree[p].folders : list[Append(p, f)] = Total(tree, depth, Append(p, f))
    BY <2>1
  <2> HIDE DEF list
  <2> QED
    BY <2>2, TotalStep
<1> HIDE DEF list
<1>2. [p \in DOMAIN tree |-> Step(tree, depth, list, p)] = [p \in DOMAIN tree |-> Total(tree, depth, p)]
  BY <1>1
<1> QED
  BY <1>2 DEF IsListing, list

(* The recursion of the listing comes to an end, at the same for any        *)
(* function that satisfies it.                                              *)
LEMMA ListingIs ==
  ASSUME NEW names, NEW tree, Store(tree, names), NEW depth \in Nat, <<>> \in DOMAIN tree
  PROVE  T!listPathsRecursive(tree, depth) = Total(tree, depth, <<>>)
<1> DEFINE list == CHOOSE l : IsListing(tree, depth, l)
<1>1. IsListing(tree, depth, list)
  BY TotalIsListing
<1>2. T!listPathsRecursive(tree, depth) = list[<<>>]
  BY DEF T!listPathsRecursive, IsListing, Step
<1> HIDE DEF list
<1> QED
  BY <1>1, <1>2, ListingIsTotal

-------------------------------------------------------------------------------
LEMMA ReachedIs ==
  ASSUME NEW names, NEW tree, Store(tree, names), NEW depth \in Nat, <<>> \in DOMAIN tree
  PROVE  Reached(tree, depth) = Under(tree, depth, <<>>)
<1>1. ASSUME NEW q \in DOMAIN tree
      PROVE  /\ Len(q) \in Nat /\ Len(<<>>) = 0 /\ SubSeq(q, 1, Len(<<>>)) = <<>>
             /\ \A i \in 1..Len(q) : Listed(tree, q, i)
                                     <=> LET p == SubSeq(q, 1, i - 1)
                                         IN  tree[p].status = "ok" /\ q[i] \in tree[p].folders
  <2>1. q \in Seq(names) /\ Len(q) \in Nat /\ <<>> \in Seq(names) /\ Len(<<>>) = 0
    BY LenProperties, EmptySeq DEF Store
  <2>2. Len(<<>>) <= Len(q) /\ \A i \in 1..Len(<<>>) : <<>>[i] = q[i]
    BY <2>1
  <2> QED
    BY <2>1, <2>2, PrefixIs DEF Listed
<1>2. ASSUME NEW q \in DOMAIN tree
      PROVE  q \in Reached(tree, depth) <=> q \in Under(tree, depth, <<>>)
  <2>1. Len(<<>>) <= Len(q) /\ Len(<<>>) + 1 = 1
    BY <1>1
  <2> QED
    BY <1>1, <2>1 DEF Reached, Under
<1> QED
  BY <1>2 DEF Reached, Under

(* A mount is listed as a whole or not at all. *)
LEMMA MountIsListed ==
  ASSUME NEW names, NEW tree, Store(tree, names), NEW depth \in Nat, <<>> \in DOMAIN tree, NEW mount
  PROVE  T!VaultMount(tree, mount, depth) = SecretsOf(tree, mount, depth)
<1> DEFINE ok == Listable(tree, depth, <<>>)
           keys == Keys(tree, depth, <<>>)
<1>1. T!listPathsRecursive(tree, depth).ok = ok /\ T!listPathsRecursive(tree, depth).keys = keys
  BY ListingIs, TotalFields
<1>2. T!VaultMount(tree, mount, depth) = IF ok THEN {T!SecretRef(mount, p) : p \in keys} ELSE {}
  BY <1>1 DEF T!VaultMount
<1>3. Reached(tree, depth) = Under(tree, depth, <<>>)
  BY ReachedIs
<1>4. ok <=> ~\E q \in Reached(tree, depth) : tree[q].status = "error"
  BY <1>3 DEF Listable
<1> DEFINE answering == {p \in Reached(tree, depth) : tree[p].status = "ok"}
           refs == UNION {{T!SecretRef(mount, Append(q, k)) : k \in tree[q].keys} : q \in answering}
<1>5. keys = UNION {{Append(q, k) : k \in tree[q].keys} : q \in answering}
  BY <1>3 DEF Keys
<1>6. {T!SecretRef(mount, p) : p \in keys} = refs
  <2> HIDE DEF answering, keys
  <2>1. \A r : r \in refs <=> \E q \in answering : \E k \in tree[q].keys : r = T!SecretRef(mount, Append(q, k))
    OBVIOUS
  <2>2. \A p : p \in keys <=> \E q \in answering : \E k \in tree[q].keys : p = Append(q, k)
    BY <1>5
  <2> DEFINE given == {T!SecretRef(mount, p) : p \in keys}
  <2>3. \A r : r \in given <=> \E p \in keys : r = T!SecretRef(mount, p)
    OBVIOUS
  <2> HIDE DEF refs, given
  <2>4. ASSUME NEW r \in given PROVE r \in refs
    <3>1. PICK p \in keys : r = T!SecretRef(mount, p)
      BY <2>3
    <3>2. PICK q \in answering : \E k \in tree[q].keys : p = Append(q, k)
      BY <2>2
    <3> QED
      BY <2>1, <3>1, <3>2
  <2>5. ASSUME NEW r \in refs PROVE r \in given
    <3>1. PICK q \in answering : \E k \in tree[q].keys : r = T!SecretRef(mount, Append(q, k))
      BY <2>1
    <3>2. PICK k \in tree[q].keys : r = T!SecretRef(mount, Append(q, k))
      BY <3>1
    <3>3. Append(q, k) \in keys
      BY <2>2
    <3> QED
      BY <2>3, <3>2, <3>3
  <2>6. given = refs
    BY <2>4, <2>5
  <2> QED
    BY <2>6 DEF given
<1>7. SecretsOf(tree, mount, depth) = IF ok THEN refs ELSE {}
  BY <1>4 DEF SecretsOf
<1> QED
  BY <1>2, <1>6, <1>7

(* The way to a folder that the listing comes to leads through folders. *)
LEMMA WayIsThroughFolders ==
  ASSUME NEW names, NEW tree, Store(tree, names), NEW depth \in Nat, <<>> \in DOMAIN tree,
         NEW q \in Reached(tree, depth)
  PROVE  \A n \in 0..Len(q) : SubSeq(q, 1, n) \in DOMAIN tree
<1>1. /\ q \in Seq(names) /\ Len(q) \in Nat
      /\ \A i \in 1..Len(q) : Listed(tree, q, i)
  BY LenProperties DEF Reached, Listed, Store
<1> DEFINE Off == {n \in 0..Len(q) : SubSeq(q, 1, n) \notin DOMAIN tree}
<1>2. ASSUME Off # {} PROVE FALSE
  <2>1. PICK n \in Off : \A m \in Off : n <= m
    <3>1. Off \subseteq Nat
      BY <1>1
    <3> HIDE DEF Off
    <3> QED
      BY <1>2, <3>1, LeastNat
  <2>2. n # 0
    <3>1. SubSeq(q, 1, 0) = <<>>
      <4>1. Len(<<>>) = 0 /\ <<>> \in Seq(names) /\ \A i \in 1..0 : <<>>[i] = q[i]
        BY EmptySeq
      <4> QED
        BY <1>1, <4>1, PrefixIs
    <3> QED
      BY <3>1
  <2>3. n \in 1..Len(q) /\ n - 1 \in 0..Len(q) /\ n - 1 \notin Off
    BY <1>1, <2>1, <2>2
  <2> DEFINE p == SubSeq(q, 1, n - 1)
  <2>4. p \in DOMAIN tree /\ q[n] \in tree[p].folders
    BY <1>1, <2>3 DEF Listed
  <2>5. p \in Seq(names) /\ Len(p) = n - 1 /\ \A i \in 1..n - 1 : p[i] = q[i]
    BY <1>1, <2>3, Prefixes
  <2>6. Append(p, q[n]) \in DOMAIN tree /\ q[n] \in names
    <3> HIDE DEF p
    <3> QED
      BY <2>4 DEF Store
  <2>7. /\ Append(p, q[n]) \in Seq(names) /\ Len(Append(p, q[n])) = n
        /\ \A i \in 1..n - 1 : Append(p, q[n])[i] = q[i]
        /\ Append(p, q[n])[n] = q[n]
    <3> HIDE DEF p
    <3>1. Len(p) + 1 = n /\ 1..Len(p) = 1..n - 1
      BY <2>3, <2>5, <1>1
    <3> QED
      BY <2>5, <2>6, <3>1, AppendProperties
  <2>8. \A i \in 1..n : i \in 1..n - 1 \/ i = n
    BY <1>1, <2>3
  <2>9. SubSeq(q, 1, n) = Append(p, q[n])
    <3> HIDE DEF p
    <3>1. n <= Len(q) /\ \A i \in 1..n : Append(p, q[n])[i] = q[i]
      BY <1>1, <2>3, <2>7, <2>8
    <3> QED
      BY <1>1, <2>7, <3>1, PrefixIs
  <2> QED
    BY <2>1, <2>6, <2>9
<1> QED
  BY <1>2

(* A store that lists fewer folders gives fewer secrets. *)
LEMMA SecretsContained ==
  ASSUME NEW now, NEW tree, TreeFails(now, tree), NEW depth \in Nat, NEW mount
  PROVE  /\ \E names : Store(now, names)
         /\ \E names : Store(tree, names)
         /\ <<>> \in DOMAIN now /\ <<>> \in DOMAIN tree
         /\ SecretsOf(now, mount, depth) \subseteq SecretsOf(tree, mount, depth)
<1> DEFINE names == Names(now)
<1>1. /\ DOMAIN now = DOMAIN tree /\ <<>> \in DOMAIN now
      /\ \A p \in DOMAIN tree : /\ tree[p].status = "ok" /\ now[p].keys = tree[p].keys
                                /\ now[p].folders = tree[p].folders
  BY DEF TreeFails, IsTree
<1>2. Store(now, names)
  <2>1. \A p \in DOMAIN now : now[p].folders \subseteq names
    BY DEF Names
  <2> HIDE DEF names
  <2>2. DOMAIN now \subseteq Seq(names)
    BY DEF TreeFails, IsTree, names
  <2> QED
    BY <2>1, <2>2 DEF TreeFails, IsTree, Store
<1>3. Store(tree, names)
  <2> HIDE DEF names
  <2> QED
    BY <1>1, <1>2 DEF Store
<1> HIDE DEF names
<1>4. ASSUME NEW q \in Reached(now, depth) PROVE q \in Reached(tree, depth)
  <2>1. \A n \in 0..Len(q) : SubSeq(q, 1, n) \in DOMAIN now
    BY <1>1, <1>2, WayIsThroughFolders
  <2>2. /\ q \in DOMAIN now /\ Len(q) <= depth
        /\ \A i \in 1..Len(q) : q[i] \in now[SubSeq(q, 1, i - 1)].folders
    BY DEF Reached
  <2>3. Len(q) \in Nat
    BY <2>2, <1>2, LenProperties DEF Store
  <2>4. \A i \in 1..Len(q) : SubSeq(q, 1, i - 1) \in DOMAIN tree
    <3> TAKE i \in 1..Len(q)
    <3>1. i - 1 \in 0..Len(q)
      BY <2>3
    <3> QED
      BY <1>1, <2>1, <3>1
  <2>5. \A i \in 1..Len(q) : /\ tree[SubSeq(q, 1, i - 1)].status = "ok"
                             /\ q[i] \in tree[SubSeq(q, 1, i - 1)].folders
    BY <1>1, <2>2, <2>4
  <2> QED
    BY <1>1, <2>2, <2>5 DEF Reached
<1>5. \A q \in Reached(tree, depth) : q \in DOMAIN tree
  BY DEF Reached
<1>6. ASSUME NEW r \in SecretsOf(now, mount, depth) PROVE r \in SecretsOf(tree, mount, depth)
  <2>1. PICK q \in Reached(now, depth) : r \in {T!SecretRef(mount, Append(q, k)) : k \in now[q].keys}
    BY <1>6 DEF SecretsOf
  <2>2. q \in Reached(tree, depth) /\ now[q].keys = tree[q].keys /\ tree[q].status = "ok"
    BY <1>1, <1>4, <1>5
  <2>3. ~\E p \in Reached(tree, depth) : tree[p].status = "error"
    BY <1>1, <1>5
  <2>4. r \in {T!SecretRef(mount, Append(q, k)) : k \in tree[q].keys}
    BY <2>1, <2>2
  <2> QED
    BY <2>2, <2>3, <2>4 DEF SecretsOf
<1> QED
  BY <1>1, <1>2, <1>3, <1>6

-------------------------------------------------------------------------------
(***************************************************************************)
(* The passes of the enricher.                                             *)
(***************************************************************************)

LEMMA RoutesContained ==
  ASSUME NEW e, IsEnrichment(e)
  PROVE  LET now == T!NpmDiscover(e.listed, e.env.npm_token, e.answers.npm)
             healthy == T!NpmDiscover(e.listed, e.env.npm_token, e.healthy.npm)
         IN  /\ now.entities \subseteq healthy.entities /\ now.edges \subseteq healthy.edges
             /\ ~e.answers.npm.failed => now.edges = healthy.edges
             /\ \A i \in now.entities : i.kind = "route"
             /\ \A d \in healthy.edges : d.type = "routes-to"
<1> DEFINE now == T!NpmDiscover(e.listed, e.env.npm_token, e.answers.npm)
           healthy == T!NpmDiscover(e.listed, e.env.npm_token, e.healthy.npm)
           services == T!OfKinds(e.listed, {"service"}) \o T!OfKinds(e.listed, {"container"})
           routes == {T!RoutesOf(ph, Head(T!ProxiesIn(e.listed)), services) : ph \in e.healthy.npm.hosts}
           found == T!Found(UNION {r.entities : r \in routes}, UNION {r.edges : r \in routes})
<1>1. e.answers.npm.hosts = e.healthy.npm.hosts /\ ~e.healthy.npm.failed
  BY DEF IsEnrichment
<1>2. \/ now = T!NothingFound /\ healthy = T!NothingFound
      \/ now = T!Degraded /\ (healthy = T!Degraded \/ (e.answers.npm.failed /\ healthy = found))
      \/ now = found /\ healthy = found
  <2> DEFINE hosts == e.answers.npm.hosts
             first == Head(T!ProxiesIn(e.listed))
             none == T!ProxiesIn(e.listed) = <<>>
             off == T!deriveNpmApiBase(first) = "" \/ ~e.env.npm_token
             same == {T!RoutesOf(ph, first, services) : ph \in hosts}
             again == T!Found(UNION {r.entities : r \in same}, UNION {r.edges : r \in same})
  <2>1. same = routes
    BY <1>1
  <2>2. again = found
    <3> HIDE DEF same, routes
    <3> QED
      BY <2>1
  <2>3. now = IF none THEN T!NothingFound ELSE IF off \/ e.answers.npm.failed THEN T!Degraded ELSE again
    BY DEF T!NpmDiscover
  <2>4. healthy = IF none THEN T!NothingFound ELSE IF off \/ e.healthy.npm.failed THEN T!Degraded ELSE found
    BY DEF T!NpmDiscover
  <2> HIDE DEF now, healthy, none, off, again, found
  <2> QED
    BY <1>1, <2>2, <2>3, <2>4
<1>3. /\ T!NothingFound.entities = {} /\ T!NothingFound.edges = {}
      /\ T!Degraded.entities = {} /\ T!Degraded.edges = {}
  BY DEF T!NothingFound, T!Degraded, T!Found
<1>4. found.entities = UNION {r.entities : r \in routes} /\ found.edges = UNION {r.edges : r \in routes}
  BY DEF T!Found
<1>5. ASSUME NEW i \in UNION {r.entities : r \in routes} PROVE i.kind = "route"
  <2>1. PICK r \in routes : i \in r.entities
    BY <1>5
  <2>2. PICK ph : r = T!RoutesOf(ph, Head(T!ProxiesIn(e.listed)), services)
    BY <2>1
  <2>3. r.entities = {[id |-> T!RouteId(ph, d), kind |-> "route"] : d \in T!DomainsOf(ph)}
    BY <2>2 DEF T!RoutesOf
  <2> QED
    BY <2>1, <2>3
<1>8. ASSUME NEW d \in UNION {r.edges : r \in routes} PROVE d.type = "routes-to"
  <2>1. PICK r \in routes : d \in r.edges
    BY <1>8
  <2>2. PICK ph : r = T!RoutesOf(ph, Head(T!ProxiesIn(e.listed)), services)
    BY <2>1
  <2> DEFINE proxy == Head(T!ProxiesIn(e.listed))
             target == T!matchForwardTarget(ph, services)
             served == {T!Edge("routes-to", T!RouteId(ph, c), proxy.id, "served-by") : c \in T!DomainsOf(ph)}
             forwarded == {T!Edge("routes-to", T!RouteId(ph, c), target, "") :
                             c \in {b \in T!DomainsOf(ph) : target # "none"}}
  <2>3. r.edges = served \cup forwarded
    BY <2>2 DEF T!RoutesOf
  <2> HIDE DEF proxy, target
  <2>4. ASSUME NEW c \in served \cup forwarded PROVE c.type = "routes-to"
    <3>1. PICK id, end, role : c = T!Edge("routes-to", id, end, role)
      BY <2>4
    <3> QED
      BY <3>1 DEF T!Edge
  <2> QED
    BY <2>1, <2>3, <2>4
<1> HIDE DEF now, healthy, found, routes
<1>6. /\ now.entities \subseteq healthy.entities /\ now.edges \subseteq healthy.edges
      /\ ~e.answers.npm.failed => now.edges = healthy.edges
  BY <1>2, <1>3
<1>7. \A i \in now.entities : i.kind = "route"
  BY <1>2, <1>3, <1>4, <1>5
<1>9. \A d \in healthy.edges : d.type = "routes-to"
  BY <1>2, <1>3, <1>4, <1>8
<1> QED
  BY <1>6, <1>7, <1>9 DEF now, healthy

LEMMA RefsContained ==
  ASSUME NEW e, IsEnrichment(e)
  PROVE  LET now == T!VaultDiscover(e.listed, e.env.vault_addr, e.env.vault_token, e.answers.trees,
                                    e.answers.max_depth)
             healthy == T!VaultDiscover(e.listed, e.env.vault_addr, e.env.vault_token, e.healthy.trees,
                                        e.healthy.max_depth)
             secrets == UNION {SecretsOf(e.answers.trees[m], m, e.answers.max_depth) : m \in MountsOf(e)}
         IN  /\ now.entities \subseteq healthy.entities /\ now.edges \subseteq healthy.edges
             /\ \A d \in healthy.edges : d.type = "member-of"
             /\ now.entities = {[id |-> r, kind |-> "secret-ref"] : r \in secrets}
<1> DEFINE depth == e.answers.max_depth
           first == Head(T!VaultsIn(e.listed))
           refs(trees) == UNION {T!VaultMount(trees[m], m, depth) : m \in T!extractKvMounts(first)}
           found(trees) == T!Found({[id |-> r, kind |-> "secret-ref"] : r \in refs(trees)},
                                   {T!Edge("member-of", r, first.id, "") : r \in refs(trees)})
           asked(trees) == T!VaultDiscover(e.listed, e.env.vault_addr, e.env.vault_token, trees, depth)
           secrets == UNION {SecretsOf(e.answers.trees[m], m, depth) : m \in MountsOf(e)}
<1>1. /\ T!VaultsIn(e.listed) # <<>>
      /\ T!deriveVaultAddress(first, e.env.vault_addr) # "" /\ e.env.vault_token
      /\ depth \in Nat /\ depth = e.healthy.max_depth
      /\ \A m \in MountsOf(e) : TreeFails(e.answers.trees[m], e.healthy.trees[m])
      /\ MountsOf(e) = T!extractKvMounts(first)
  BY DEF IsEnrichment, MountsOf
<1>2. asked(e.answers.trees) = found(e.answers.trees) /\ asked(e.healthy.trees) = found(e.healthy.trees)
  BY <1>1 DEF T!VaultDiscover
<1>3. ASSUME NEW m \in MountsOf(e)
      PROVE  /\ T!VaultMount(e.answers.trees[m], m, depth) = SecretsOf(e.answers.trees[m], m, depth)
             /\ T!VaultMount(e.answers.trees[m], m, depth) \subseteq T!VaultMount(e.healthy.trees[m], m, depth)
  <2>1. TreeFails(e.answers.trees[m], e.healthy.trees[m]) /\ depth \in Nat
    BY <1>1
  <2> DEFINE now == e.answers.trees[m]
             tree == e.healthy.trees[m]
  <2> HIDE DEF now, tree, depth
  <2>2. TreeFails(now, tree)
    BY <2>1 DEF now, tree
  <2>3. /\ \E names : Store(now, names)
        /\ \E names : Store(tree, names)
        /\ <<>> \in DOMAIN now /\ <<>> \in DOMAIN tree
        /\ SecretsOf(now, m, depth) \subseteq SecretsOf(tree, m, depth)
    BY <2>1, <2>2, SecretsContained
  <2>4. T!VaultMount(now, m, depth) = SecretsOf(now, m, depth)
    BY <2>1, <2>3, MountIsListed
  <2>5. T!VaultMount(tree, m, depth) = SecretsOf(tree, m, depth)
    BY <2>1, <2>3, MountIsListed
  <2> QED
    BY <2>3, <2>4, <2>5 DEF now, tree
<1>4. refs(e.answers.trees) = secrets /\ refs(e.answers.trees) \subseteq refs(e.healthy.trees)
  <2>1. refs(e.answers.trees) = UNION {T!VaultMount(e.answers.trees[m], m, depth) : m \in MountsOf(e)}
    BY <1>1
  <2>2. refs(e.healthy.trees) = UNION {T!VaultMount(e.healthy.trees[m], m, depth) : m \in MountsOf(e)}
    BY <1>1
  <2> HIDE DEF refs, depth
  <2> QED
    BY <1>3, <2>1, <2>2 DEF secrets
<1> DEFINE now == refs(e.answers.trees)
           healthy == refs(e.healthy.trees)
           nowFound == found(e.answers.trees)
           healthyFound == found(e.healthy.trees)
<1>5. /\ nowFound.entities = {[id |-> r, kind |-> "secret-ref"] : r \in now}
      /\ nowFound.edges = {T!Edge("member-of", r, first.id, "") : r \in now}
      /\ healthyFound.entities = {[id |-> r, kind |-> "secret-ref"] : r \in healthy}
      /\ healthyFound.edges = {T!Edge("member-of", r, first.id, "") : r \in healthy}
  <2> HIDE DEF refs
  <2> QED
    BY DEF T!Found
<1>6. now = secrets /\ now \subseteq healthy
  BY <1>4
<1>7. /\ nowFound.entities \subseteq healthyFound.entities /\ nowFound.edges \subseteq healthyFound.edges
      /\ nowFound.entities = {[id |-> r, kind |-> "secret-ref"] : r \in secrets}
      /\ \A d \in healthyFound.edges : d.type = "member-of"
  <2> HIDE DEF nowFound, healthyFound, now, healthy, first, secrets
  <2>1. nowFound.entities \subseteq healthyFound.entities
    BY <1>5, <1>6
  <2>2. nowFound.edges \subseteq healthyFound.edges
    BY <1>5, <1>6
  <2>3. ASSUME NEW d \in healthyFound.edges PROVE d.type = "member-of"
    <3>1. PICK r \in healthy : d = T!Edge("member-of", r, first.id, "")
      BY <1>5
    <3> QED
      BY <3>1 DEF T!Edge
  <2>4. nowFound.entities = {[id |-> r, kind |-> "secret-ref"] : r \in secrets}
    BY <1>5, <1>6
  <2> QED
    BY <2>1, <2>2, <2>3, <2>4
<1> HIDE DEF refs, found, secrets, depth, asked
<1>8. /\ asked(e.answers.trees).entities \subseteq asked(e.healthy.trees).entities
      /\ asked(e.answers.trees).edges \subseteq asked(e.healthy.trees).edges
      /\ \A d \in asked(e.healthy.trees).edges : d.type = "member-of"
      /\ asked(e.answers.trees).entities = {[id |-> r, kind |-> "secret-ref"] : r \in secrets}
  BY <1>2, <1>7
<1> QED
  BY <1>1, <1>8 DEF asked, secrets, depth

LEMMA DependenciesAre ==
  ASSUME NEW entities, NEW long
  PROVE  \A d \in T!derive(entities, long) : d.type = "depends-on"
<1> DEFINE sources == {e \in entities : e.kind \in {"service", "container"}}
           targets == {e \in entities : e.kind \in {"service", "container", "datastore"}}
           pairs == {p \in sources \X targets : p[1].id # p[2].id /\ T!DependsOn(p[1], p[2], long)}
<1>1. T!derive(entities, long) = {T!Edge("depends-on", pair[1].id, pair[2].id, "") : pair \in pairs}
  BY DEF T!derive
<1> HIDE DEF pairs
<1>2. ASSUME NEW d \in T!derive(entities, long) PROVE d.type = "depends-on"
  <2>1. PICK pair \in pairs : d = T!Edge("depends-on", pair[1].id, pair[2].id, "")
    BY <1>1
  <2> QED
    BY <2>1 DEF T!Edge
<1> QED
  BY <1>2

-------------------------------------------------------------------------------
(* What one pass writes. *)
LEMMA PassWrites ==
  ASSUME NEW graph, NEW thrown, NEW found, NEW refused
  PROVE  LET after == T!RunPass(graph, thrown, found, refused) IN
         /\ \A e : e \in after.entities <=>
                    \/ e \in graph.entities
                    \/ ~thrown /\ e \in found.entities /\ e.id \notin refused.entities
         /\ \A e : e \in after.edges <=>
                    e \in graph.edges \/ (~thrown /\ e \in found.edges /\ e \notin refused.edges)
  BY DEF T!RunPass, T!Upserted

(* What the three passes write. *)
LEMMA EnrichmentWrites ==
  ASSUME NEW graph, NEW listed, NEW env, NEW answers, NEW refused
  PROVE  LET found == T!enrich(graph, listed, env, answers, refused)
             npm == T!NpmDiscover(listed, env.npm_token, answers.npm)
             vault == T!VaultDiscover(listed, env.vault_addr, env.vault_token, answers.trees, answers.max_depth)
             deps == T!derive({listed[i] : i \in DOMAIN listed}, env.long)
         IN  /\ \A e : e \in found.entities <=>
                  \/ e \in graph.entities
                  \/ ~answers.npm_thrown /\ e \in npm.entities /\ e.id \notin refused.entities
                  \/ ~answers.vault_thrown /\ e \in vault.entities /\ e.id \notin refused.entities
             /\ \A e : e \in found.edges <=>
                  \/ e \in graph.edges
                  \/ ~answers.npm_thrown /\ e \in npm.edges /\ e \notin refused.edges
                  \/ ~answers.vault_thrown /\ e \in vault.edges /\ e \notin refused.edges
                  \/ ~answers.deps_thrown /\ e \in deps /\ e \notin refused.edges
<1> DEFINE npm == T!NpmDiscover(listed, env.npm_token, answers.npm)
           vault == T!VaultDiscover(listed, env.vault_addr, env.vault_token, answers.trees, answers.max_depth)
           deps == T!derive({listed[i] : i \in DOMAIN listed}, env.long)
           afterNpm == T!RunPass(graph, answers.npm_thrown, npm, refused)
           afterVault == T!RunPass(afterNpm, answers.vault_thrown, vault, refused)
           read == [entities |-> {}, edges |-> deps]
           found == T!RunPass(afterVault, answers.deps_thrown, read, refused)
<1>1. T!enrich(graph, listed, env, answers, refused) = found
  BY DEF T!enrich
<1>2. read.entities = {} /\ read.edges = deps
  OBVIOUS
<1> HIDE DEF npm, vault, deps, read
<1>3. /\ \A e : e \in afterNpm.entities <=>
                 e \in graph.entities \/ (~answers.npm_thrown /\ e \in npm.entities /\ e.id \notin refused.entities)
      /\ \A e : e \in afterNpm.edges <=>
                 e \in graph.edges \/ (~answers.npm_thrown /\ e \in npm.edges /\ e \notin refused.edges)
  BY PassWrites
<1> HIDE DEF afterNpm
<1>4. /\ \A e : e \in afterVault.entities <=>
                 e \in afterNpm.entities \/ (~answers.vault_thrown /\ e \in vault.entities /\ e.id \notin refused.entities)
      /\ \A e : e \in afterVault.edges <=>
                 e \in afterNpm.edges \/ (~answers.vault_thrown /\ e \in vault.edges /\ e \notin refused.edges)
  BY PassWrites
<1> HIDE DEF afterVault
<1>5. /\ \A e : e \in found.entities <=>
                 e \in afterVault.entities \/ (~answers.deps_thrown /\ e \in read.entities /\ e.id \notin refused.entities)
      /\ \A e : e \in found.edges <=>
                 e \in afterVault.edges \/ (~answers.deps_thrown /\ e \in read.edges /\ e \notin refused.edges)
  BY PassWrites
<1> HIDE DEF found
<1>7. \A e : e \in found.entities <=>
         \/ e \in graph.entities
         \/ ~answers.npm_thrown /\ e \in npm.entities /\ e.id \notin refused.entities
         \/ ~answers.vault_thrown /\ e \in vault.entities /\ e.id \notin refused.entities
  BY <1>2, <1>3, <1>4, <1>5
<1>8. \A e : e \in found.edges <=>
         \/ e \in graph.edges
         \/ ~answers.npm_thrown /\ e \in npm.edges /\ e \notin refused.edges
         \/ ~answers.vault_thrown /\ e \in vault.edges /\ e \notin refused.edges
         \/ ~answers.deps_thrown /\ e \in deps /\ e \notin refused.edges
  BY <1>2, <1>3, <1>4, <1>5
<1> QED
  BY <1>1, <1>7, <1>8 DEF npm, vault, deps

LEMMA EnrichmentsAreContained ==
  ASSUME NEW e, IsEnrichment(e)
  PROVE  EnrichmentIsContained(e)
<1> DEFINE now == T!enrich(e.graph, e.listed, e.env, e.answers, e.refused)
           healthy == T!enrich(e.graph, e.listed, e.env, e.healthy, e.refused)
           secrets == UNION {SecretsOf(e.answers.trees[m], m, e.answers.max_depth) : m \in MountsOf(e)}
           npm == T!NpmDiscover(e.listed, e.env.npm_token, e.answers.npm)
           allNpm == T!NpmDiscover(e.listed, e.env.npm_token, e.healthy.npm)
           vault == T!VaultDiscover(e.listed, e.env.vault_addr, e.env.vault_token, e.answers.trees,
                                    e.answers.max_depth)
           allVault == T!VaultDiscover(e.listed, e.env.vault_addr, e.env.vault_token, e.healthy.trees,
                                       e.healthy.max_depth)
           deps == T!derive({e.listed[i] : i \in DOMAIN e.listed}, e.env.long)
<1>1. /\ npm.entities \subseteq allNpm.entities /\ npm.edges \subseteq allNpm.edges
      /\ ~e.answers.npm.failed => npm.edges = allNpm.edges
      /\ \A i \in npm.entities : i.kind = "route"
      /\ \A d \in allNpm.edges : d.type = "routes-to"
  BY RoutesContained
<1>2. /\ vault.entities \subseteq allVault.entities /\ vault.edges \subseteq allVault.edges
      /\ \A d \in allVault.edges : d.type = "member-of"
      /\ vault.entities = {[id |-> r, kind |-> "secret-ref"] : r \in secrets}
  BY RefsContained
<1>3. \A d \in deps : d.type = "depends-on"
  BY DependenciesAre
<1>4. /\ \A i : i \in now.entities <=>
           \/ i \in e.graph.entities
           \/ ~e.answers.npm_thrown /\ i \in npm.entities /\ i.id \notin e.refused.entities
           \/ ~e.answers.vault_thrown /\ i \in vault.entities /\ i.id \notin e.refused.entities
      /\ \A d : d \in now.edges <=>
           \/ d \in e.graph.edges
           \/ ~e.answers.npm_thrown /\ d \in npm.edges /\ d \notin e.refused.edges
           \/ ~e.answers.vault_thrown /\ d \in vault.edges /\ d \notin e.refused.edges
           \/ ~e.answers.deps_thrown /\ d \in deps /\ d \notin e.refused.edges
  BY EnrichmentWrites
<1>5. /\ \A i : i \in healthy.entities <=>
           \/ i \in e.graph.entities
           \/ ~e.healthy.npm_thrown /\ i \in allNpm.entities /\ i.id \notin e.refused.entities
           \/ ~e.healthy.vault_thrown /\ i \in allVault.entities /\ i.id \notin e.refused.entities
      /\ \A d : d \in healthy.edges <=>
           \/ d \in e.graph.edges
           \/ ~e.healthy.npm_thrown /\ d \in allNpm.edges /\ d \notin e.refused.edges
           \/ ~e.healthy.vault_thrown /\ d \in allVault.edges /\ d \notin e.refused.edges
           \/ ~e.healthy.deps_thrown /\ d \in deps /\ d \notin e.refused.edges
  BY EnrichmentWrites
<1>6. ~e.healthy.npm_thrown /\ ~e.healthy.vault_thrown /\ ~e.healthy.deps_thrown
  BY DEF IsEnrichment
<1> HIDE DEF npm, allNpm, vault, allVault, deps, now, healthy
<1>8. e.graph.entities \subseteq now.entities /\ now.entities \subseteq healthy.entities
  BY <1>1, <1>2, <1>4, <1>5, <1>6
<1>9. e.graph.edges \subseteq now.edges /\ now.edges \subseteq healthy.edges
  BY <1>1, <1>2, <1>4, <1>5, <1>6
<1>10. ASSUME ~(e.answers.npm_thrown \/ e.answers.npm.failed)
       PROVE  OfType(now, "routes-to") = OfType(healthy, "routes-to")
  <2>1. ASSUME NEW d \in healthy.edges, d.type = "routes-to" PROVE d \in now.edges
    <3>1. d \notin allVault.edges /\ d \notin deps
      BY <1>2, <1>3, <2>1
    <3> QED
      BY <1>1, <1>4, <1>5, <1>10, <2>1, <3>1
  <2> QED
    BY <1>9, <2>1 DEF OfType
<1>11. ASSUME ~e.answers.deps_thrown
       PROVE  OfType(now, "depends-on") = OfType(healthy, "depends-on")
  <2>1. ASSUME NEW d \in healthy.edges, d.type = "depends-on" PROVE d \in now.edges
    <3>1. d \notin allVault.edges /\ d \notin allNpm.edges
      BY <1>1, <1>2, <2>1
    <3> QED
      BY <1>4, <1>5, <1>11, <2>1, <3>1
  <2> QED
    BY <1>9, <2>1 DEF OfType
<1>12. ASSUME ~e.answers.vault_thrown
       PROVE  OfKind(now, "secret-ref") =
                OfKind(e.graph, "secret-ref")
                \cup {[id |-> r, kind |-> "secret-ref"] : r \in secrets \ e.refused.entities}
  <2> DEFINE written == {[id |-> r, kind |-> "secret-ref"] : r \in secrets \ e.refused.entities}
  <2>1. ASSUME NEW i \in now.entities, i.kind = "secret-ref" PROVE i \in e.graph.entities \/ i \in written
    <3>1. i \notin npm.entities
      BY <1>1, <2>1
    <3>2. CASE i \in vault.entities /\ i.id \notin e.refused.entities
      <4>1. PICK r \in secrets : i = [id |-> r, kind |-> "secret-ref"]
        BY <1>2, <3>2
      <4> QED
        BY <3>2, <4>1
    <3> QED
      BY <1>4, <3>1, <3>2
  <2>2. ASSUME NEW i \in written PROVE i \in now.entities /\ i.kind = "secret-ref"
    <3>1. PICK r \in secrets \ e.refused.entities : i = [id |-> r, kind |-> "secret-ref"]
      BY <2>2
    <3>2. i \in vault.entities /\ i.id = r /\ i.kind = "secret-ref"
      BY <1>2, <3>1
    <3> QED
      BY <1>4, <1>12, <3>1, <3>2
  <2>3. OfKind(now, "secret-ref") = OfKind(e.graph, "secret-ref") \cup written
    <3> HIDE DEF written
    <3> QED
      BY <1>8, <2>1, <2>2 DEF OfKind
  <2> QED
    BY <2>3
<1> QED
  BY <1>8, <1>9, <1>10, <1>11, <1>12 DEF EnrichmentIsContained, now, healthy

(* What fails costs what it would have found and nothing else: enumerate,  *)
(* probe and the passes of the enricher.                                   *)
THEOREM FailuresAreContained == Spec => []FailureIsContained
<1>1. Given => FailureIsContained
  BY SweepsAreContained, DatabasesAreClosed, EnrichmentsAreContained DEF Given, FailureIsContained
<1> QED
  BY <1>1, InputsAreGiven, PTL

-------------------------------------------------------------------------------
(***************************************************************************)
(* Log queries.                                                            *)
(***************************************************************************)

(* An order of entries, and how many stand before one of them in it. *)
Before(order, entries, e) == {f \in entries : <<f, e>> \in order}
RankIn(order, entries, e) == Cardinality(Before(order, entries, e))

Orders(order, entries) ==
  /\ IsFiniteSet(entries)
  /\ \A e \in entries : <<e, e>> \notin order
  /\ \A e, f \in entries : e = f \/ <<e, f>> \in order \/ <<f, e>> \in order
  /\ \A e, f, g \in entries : <<e, f>> \in order /\ <<f, g>> \in order => <<e, g>> \in order

(* The order in which a backend cuts, and that in which the sort leaves what was answered. *)
LaterOf(entries) == {p \in entries \X entries : O!Later(p[1], p[2])}
AheadOf(all, now) == {p \in all \X all : O!Ahead(all, now, p[1], p[2])}

LEMMA PartsAreEntries ==
  ASSUME NEW entries, AreEntries(entries), NEW part, part \subseteq entries
  PROVE  AreEntries(part)
<1>1. IsFiniteSet(part)
  <2>1. part \in SUBSET entries /\ IsFiniteSet(entries)
    BY DEF AreEntries
  <2> QED
    BY <2>1, FS_Subset
<1> QED
  BY <1>1 DEF AreEntries

LEMMA NumbersOfEntries ==
  ASSUME NEW entries, AreEntries(entries)
  PROVE  /\ IsFiniteSet(entries)
         /\ \A e \in entries : e.at \in Int /\ e.place \in Int /\ e.lands \in Int
         /\ \A e, f \in entries : e.place = f.place => e = f
  BY DEF AreEntries

LEMMA LaterOrders ==
  ASSUME NEW entries, AreEntries(entries), NEW part, part \subseteq entries
  PROVE  Orders(LaterOf(entries), part)
<1>1. IsFiniteSet(part)
  BY PartsAreEntries DEF AreEntries
<1>2. \A e, f \in entries : <<e, f>> \in LaterOf(entries) <=> O!Later(e, f)
  BY DEF LaterOf
<1>3. /\ \A e \in entries : ~O!Later(e, e)
      /\ \A e, f \in entries : e = f \/ O!Later(e, f) \/ O!Later(f, e)
      /\ \A e, f, g \in entries : O!Later(e, f) /\ O!Later(f, g) => O!Later(e, g)
  BY NumbersOfEntries DEF O!Later
<1> QED
  BY <1>1, <1>2, <1>3 DEF Orders

LEMMA AheadOrders ==
  ASSUME NEW all, AreEntries(all), NEW now \in Int
  PROVE  Orders(AheadOf(all, now), all)
<1> DEFINE muddled == \E g \in all : g.stamp = "garbled"
           time(e) == O!TimeRead(e, now)
<1>1. \A e, f \in all : <<e, f>> \in AheadOf(all, now) <=> O!Ahead(all, now, e, f)
  BY DEF AheadOf
<1>2. \A e \in all : time(e) \in Int
  BY NumbersOfEntries DEF O!TimeRead
<1> HIDE DEF time
<1>3. CASE muddled
  <2>1. \A e, f \in all : O!Ahead(all, now, e, f) <=> e.lands < f.lands \/ (e.lands = f.lands /\ e.place < f.place)
    BY <1>3 DEF O!Ahead
  <2> QED
    BY <1>1, <2>1, NumbersOfEntries DEF Orders
<1>4. CASE ~muddled
  <2>1. \A e, f \in all : O!Ahead(all, now, e, f) <=> time(e) > time(f) \/ (time(e) = time(f) /\ e.place < f.place)
    BY <1>4 DEF O!Ahead, time
  <2> QED
    BY <1>1, <1>2, <2>1, NumbersOfEntries DEF Orders
<1> QED
  BY <1>3, <1>4

LEMMA OneToOne ==
  ASSUME NEW S, NEW W, IsFiniteSet(S), NEW g \in [S -> W],
         \A a, b \in S : g[a] = g[b] => a = b, \A w \in W : \E a \in S : g[a] = w
  PROVE  IsFiniteSet(W) /\ Cardinality(W) = Cardinality(S)
<1>1. g \in Bijection(S, W)
  BY DEF Bijection, Injection, Surjection, IsInjective
<1> QED
  BY <1>1, FS_Bijection DEF ExistsBijection

LEMMA RankIsLess ==
  ASSUME NEW order, NEW entries, Orders(order, entries), NEW e \in entries
  PROVE  /\ RankIn(order, entries, e) \in 0..Cardinality(entries) - 1
         /\ IsFiniteSet(Before(order, entries, e)) /\ Cardinality(entries) \in Nat
         /\ \A f \in entries : <<f, e>> \in order => RankIn(order, entries, f) < RankIn(order, entries, e)
<1>1. \A f \in entries : IsFiniteSet(Before(order, entries, f)) /\ RankIn(order, entries, f) \in Nat
  <2> TAKE f \in entries
  <2>1. Before(order, entries, f) \in SUBSET entries /\ IsFiniteSet(entries)
    BY DEF Before, Orders
  <2> QED
    BY <2>1, FS_Subset, FS_CardinalityType DEF RankIn
<1>2. Cardinality(entries) \in Nat /\ IsFiniteSet(entries)
  BY FS_CardinalityType DEF Orders
<1>3. RankIn(order, entries, e) < Cardinality(entries)
  <2>1. Before(order, entries, e) \in SUBSET entries /\ e \notin Before(order, entries, e)
    BY DEF Before, Orders
  <2> QED
    BY <1>1, <1>2, <2>1, FS_Subset DEF RankIn
<1>4. ASSUME NEW f \in entries, <<f, e>> \in order PROVE RankIn(order, entries, f) < RankIn(order, entries, e)
  <2>1. Before(order, entries, f) \in SUBSET Before(order, entries, e) /\ f \in Before(order, entries, e) /\ f \notin Before(order, entries, f)
    BY <1>4 DEF Before, Orders
  <2> QED
    BY <1>1, <2>1, FS_Subset DEF RankIn
<1> QED
  BY <1>1, <1>2, <1>3, <1>4

(* The ranks are the places of the entries in order. *)
LEMMA RanksArePlaces ==
  ASSUME NEW order, NEW entries, Orders(order, entries)
  PROVE  /\ \A e, f \in entries : /\ RankIn(order, entries, e) = RankIn(order, entries, f) => e = f
                                  /\ RankIn(order, entries, e) < RankIn(order, entries, f) => <<e, f>> \in order
         /\ \A n \in 0..Cardinality(entries) - 1 : \E e \in entries : RankIn(order, entries, e) = n
         /\ \A n \in 0..Cardinality(entries) : Cardinality({e \in entries : RankIn(order, entries, e) < n}) = n
<1>1. Cardinality(entries) \in Nat /\ IsFiniteSet(entries)
  BY FS_CardinalityType DEF Orders
<1>2. \A e \in entries : RankIn(order, entries, e) \in 0..Cardinality(entries) - 1
  BY RankIsLess
<1>3. \A e, f \in entries : <<f, e>> \in order => RankIn(order, entries, f) < RankIn(order, entries, e)
  BY RankIsLess
<1>4. \A e, f \in entries : /\ RankIn(order, entries, e) = RankIn(order, entries, f) => e = f
                            /\ RankIn(order, entries, e) < RankIn(order, entries, f) => <<e, f>> \in order
  <2> TAKE e, f \in entries
  <2>1. e = f \/ <<e, f>> \in order \/ <<f, e>> \in order
    BY DEF Orders
  <2>2. RankIn(order, entries, e) \in Int /\ RankIn(order, entries, f) \in Int
    BY <1>1, <1>2
  <2>3. /\ <<f, e>> \in order => RankIn(order, entries, f) < RankIn(order, entries, e)
        /\ <<e, f>> \in order => RankIn(order, entries, e) < RankIn(order, entries, f)
    BY <1>3
  <2> QED
    BY <2>1, <2>2, <2>3
<1> DEFINE Taken == {RankIn(order, entries, e) : e \in entries}
<1>5. Taken = 0..Cardinality(entries) - 1
  <2> DEFINE g == [e \in entries |-> RankIn(order, entries, e)]
  <2>1. Cardinality(Taken) = Cardinality(entries)
    <3>1. g \in [entries -> Taken] /\ \A w \in Taken : \E e \in entries : g[e] = w
      OBVIOUS
    <3>2. \A e, f \in entries : g[e] = g[f] => e = f
      BY <1>4
    <3> HIDE DEF g, Taken
    <3> QED
      BY <1>1, <3>1, <3>2, OneToOne
  <2>2. /\ IsFiniteSet(0..Cardinality(entries) - 1)
        /\ Cardinality(0..Cardinality(entries) - 1) = Cardinality(entries)
    <3>1. 0 \in Int /\ Cardinality(entries) - 1 \in Int
      BY <1>1
    <3> QED
      BY <1>1, <3>1, FS_Interval
  <2>3. Taken \in SUBSET (0..Cardinality(entries) - 1)
    BY <1>2
  <2> HIDE DEF Taken
  <2> QED
    BY <2>1, <2>2, <2>3, FS_Subset
<1>6. \A n \in 0..Cardinality(entries) - 1 : \E e \in entries : RankIn(order, entries, e) = n
  BY <1>5
<1>7. ASSUME NEW n \in 0..Cardinality(entries)
      PROVE  Cardinality({e \in entries : RankIn(order, entries, e) < n}) = n
  <2> DEFINE first == {e \in entries : RankIn(order, entries, e) < n}
             g == [e \in first |-> RankIn(order, entries, e)]
  <2>1. IsFiniteSet(first)
    <3>1. first \in SUBSET entries
      OBVIOUS
    <3> QED
      BY <1>1, <3>1, FS_Subset
  <2>2. g \in [first -> 0..n - 1]
    BY <1>1, <1>2
  <2>3. \A e, f \in first : g[e] = g[f] => e = f
    BY <1>4
  <2>4. \A w \in 0..n - 1 : \E e \in first : g[e] = w
    BY <1>1, <1>6
  <2>5. Cardinality(0..n - 1) = Cardinality(first)
    <3> HIDE DEF g, first
    <3> QED
      BY <2>1, <2>2, <2>3, <2>4, OneToOne
  <2>6. Cardinality(0..n - 1) = n
    <3>1. 0 \in Int /\ n - 1 \in Int
      BY <1>1
    <3> QED
      BY <1>1, <3>1, FS_Interval
  <2> QED
    BY <2>5, <2>6
<1> QED
  BY <1>4, <1>6, <1>7

-------------------------------------------------------------------------------
(* The first entries in the order, and as many as the limit. *)
Newest(order, entries, limit) == {e \in entries : RankIn(order, entries, e) < limit}

(* What is merged is in the order in which the sort leaves it, and the first of it. *)
LEMMA MergedIsInOrder ==
  ASSUME NEW answers, AreEntries(UNION answers), NEW now \in Int, NEW limit \in Nat
  PROVE  LET all == UNION answers
             order == AheadOf(all, now)
             merged == O!Merged(answers, now, limit)
         IN  /\ Len(merged) = O!SmallerOf(limit, Cardinality(all))
             /\ DOMAIN merged = 1..Len(merged)
             /\ \A i, j \in DOMAIN merged : i < j => <<merged[i], merged[j]>> \in order
             /\ {merged[i] : i \in DOMAIN merged} = Newest(order, all, limit)
<1> DEFINE all == UNION answers
           order == AheadOf(all, now)
           merged == O!Merged(answers, now, limit)
           n == O!SmallerOf(limit, Cardinality(all))
<1>4. Orders(order, all)
  BY AheadOrders
<1>1. Cardinality(all) \in Nat
  BY <1>4, FS_CardinalityType DEF Orders
<1>2. n \in Nat /\ n <= limit /\ n <= Cardinality(all) /\ (n = limit \/ n = Cardinality(all))
  BY <1>1 DEF O!SmallerOf
<1> DEFINE rank(e) == O!Cardinality({f \in all : O!Ahead(all, now, f, e)})
<1>11. \A e \in all : rank(e) = RankIn(order, all, e)
  <2> TAKE e \in all
  <2>1. {f \in all : O!Ahead(all, now, f, e)} = Before(order, all, e)
    BY DEF Before, AheadOf
  <2> QED
    BY <2>1, SameCardinality DEF RankIn
<1>3. merged = [i \in 1..n |-> CHOOSE e \in all : rank(e) = i - 1]
  <2>1. merged = [i \in 1..O!SmallerOf(limit, O!Cardinality(all)) |-> CHOOSE e \in all : rank(e) = i - 1]
    BY DEF O!Merged
  <2>2. n = O!SmallerOf(limit, O!Cardinality(all))
    BY SameCardinality
  <2> HIDE DEF all, n, merged, rank
  <2> QED
    BY <2>1, <2>2
<1> HIDE DEF all, order, n, rank
<1>5. \A i \in 1..n : merged[i] \in all /\ RankIn(order, all, merged[i]) = i - 1
  <2> TAKE i \in 1..n
  <2>1. i - 1 \in 0..Cardinality(all) - 1
    BY <1>1, <1>2
  <2>2. \E e \in all : rank(e) = i - 1
    BY <1>4, <1>11, <2>1, RanksArePlaces
  <2>3. merged[i] = CHOOSE e \in all : rank(e) = i - 1
    BY <1>3
  <2> HIDE DEF merged
  <2>4. merged[i] \in all /\ rank(merged[i]) = i - 1
    BY <2>2, <2>3
  <2> QED
    BY <1>11, <2>4
<1>6. DOMAIN merged = 1..n
  BY <1>3
<1>7. Len(merged) = n
  <2>1. merged \in Seq(all)
    <3>1. merged \in [1..n -> all]
      BY <1>3, <1>5
    <3> QED
      BY <1>2, <3>1, SeqDef
  <2> QED
    BY <1>2, <1>6, <2>1, LenProperties
<1>8. \A i, j \in 1..n : i < j => <<merged[i], merged[j]>> \in order
  <2> HIDE DEF merged
  <2> TAKE i, j \in 1..n
  <2> HAVE i < j
  <2>1. RankIn(order, all, merged[i]) < RankIn(order, all, merged[j])
    BY <1>2, <1>5
  <2> QED
    BY <1>4, <1>5, <2>1, RanksArePlaces
<1>9. \A e \in all : RankIn(order, all, e) \in 0..Cardinality(all) - 1
  BY <1>4, RankIsLess
<1>10. {merged[i] : i \in 1..n} = Newest(order, all, limit)
  <2> HIDE DEF merged
  <2>1. ASSUME NEW i \in 1..n PROVE merged[i] \in Newest(order, all, limit)
    BY <1>2, <1>5 DEF Newest
  <2>2. ASSUME NEW e \in Newest(order, all, limit) PROVE \E i \in 1..n : merged[i] = e
    <3> DEFINE i == RankIn(order, all, e) + 1
    <3>1. i \in 1..n /\ i - 1 = RankIn(order, all, e)
      BY <1>1, <1>2, <1>9 DEF Newest
    <3>2. merged[i] \in all /\ RankIn(order, all, merged[i]) = RankIn(order, all, e)
      <4> HIDE DEF i
      <4> QED
        BY <1>5, <3>1
    <3>3. merged[i] = e
      <4>1. e \in all
        BY DEF Newest
      <4>2. \A f, g \in all : /\ RankIn(order, all, f) = RankIn(order, all, g) => f = g
                              /\ RankIn(order, all, f) < RankIn(order, all, g) => <<f, g>> \in order
        BY <1>4, RanksArePlaces
      <4> HIDE DEF i
      <4> QED
        BY <3>2, <4>1, <4>2
    <3> QED
      BY <3>1, <3>3
  <2> QED
    BY <2>1, <2>2
<1> QED
  BY <1>6, <1>7, <1>8, <1>10 DEF all, order, n

(* Cutting the answer of each backend leaves as many as are asked for. *)
LEMMA CutLosesNothing ==
  ASSUME NEW order, NEW entries, Orders(order, entries), NEW limit \in Nat, NEW part,
         Newest(order, entries, limit) \subseteq part, part \subseteq entries
  PROVE  /\ O!SmallerOf(limit, Cardinality(part)) = O!SmallerOf(limit, Cardinality(entries))
         /\ part # entries => Cardinality(Newest(order, entries, limit)) = limit
<1> DEFINE newest == Newest(order, entries, limit)
<1>1. /\ Cardinality(entries) \in Nat /\ Cardinality(part) \in Nat /\ Cardinality(part) <= Cardinality(entries)
      /\ IsFiniteSet(part)
  <2>1. part \in SUBSET entries /\ IsFiniteSet(entries)
    BY DEF Orders
  <2> QED
    BY <2>1, FS_CardinalityType, FS_Subset
<1>2. \A e \in entries : RankIn(order, entries, e) \in 0..Cardinality(entries) - 1
  BY RankIsLess
<1>3. CASE Cardinality(entries) <= limit
  <2>1. entries \subseteq newest
    BY <1>1, <1>2, <1>3 DEF Newest
  <2>2. part = entries
    <3> HIDE DEF newest
    <3> QED
      BY <2>1 DEF newest
  <2> QED
    BY <2>2
<1>4. CASE limit < Cardinality(entries)
  <2>1. limit \in 0..Cardinality(entries)
    BY <1>1, <1>4
  <2>2. Cardinality(newest) = limit
    BY <2>1, RanksArePlaces DEF Newest
  <2>3. newest \in SUBSET part
    OBVIOUS
  <2> HIDE DEF newest
  <2>4. limit <= Cardinality(part)
    BY <1>1, <2>2, <2>3, FS_Subset
  <2> QED
    BY <1>1, <1>4, <2>2, <2>4 DEF O!SmallerOf, newest
<1> QED
  BY <1>1, <1>3, <1>4

-------------------------------------------------------------------------------
(* The window of the query is the one asked for. *)
LEMMA SelectsWhatIsAsked ==
  ASSUME NEW q, IsQuestion(q), q.query.until.kind # "garbled", NEW e \in Held(q.backends)
  PROVE  O!Selects(q.query, e, q.now) <=> Asked(q.query, e, q.now)
<1> DEFINE since == q.query.since
           until == q.query.until
           now == q.now
<1>1. e.at \in Int /\ now \in Int
  <2>1. AreEntries(Held(q.backends))
    BY DEF IsQuestion, AreBackends
  <2> QED
    BY <2>1, NumbersOfEntries DEF IsQuestion
<1>2. until.kind \in {"date", "absent"} /\ (until.kind = "date" => until.at \in Int)
  BY DEF IsQuestion, IsTime
<1>3. /\ since.kind \in {"duration", "date", "garbled", "absent"}
      /\ since.kind = "duration" => since.hours \in Int
      /\ since.kind = "date" => since.at \in Int
  BY DEF IsQuestion, IsTime
<1>4. e.at <= O!untilOf(until, now) <=> e.at <= IF until.kind = "date" THEN until.at ELSE now
  BY <1>2 DEF O!untilOf
<1>5. O!parseSince(since, now) <= e.at
        <=> /\ e.at >= now - 168
            /\ since.kind = "duration" => e.at >= now - since.hours
            /\ since.kind = "date" => e.at >= since.at
            /\ since.kind = "absent" => e.at >= now - 1
  <2>1. CASE since.kind = "duration"
    <3>1. O!parseSince(since, now) = O!LargerOf(now - since.hours, now - 168)
      BY <2>1 DEF O!parseSince, O!MAX_LOOKBACK
    <3> QED
      BY <1>1, <1>3, <2>1, <3>1 DEF O!LargerOf
  <2>2. CASE since.kind = "date"
    <3>1. O!parseSince(since, now) = O!LargerOf(since.at, now - 168)
      BY <2>2 DEF O!parseSince, O!MAX_LOOKBACK
    <3> QED
      BY <1>1, <1>3, <2>2, <3>1 DEF O!LargerOf
  <2>3. CASE since.kind = "garbled"
    <3>1. O!parseSince(since, now) = now - 168
      BY <2>3 DEF O!parseSince, O!MAX_LOOKBACK
    <3> QED
      BY <1>1, <2>3, <3>1
  <2>4. CASE since.kind = "absent"
    <3>1. O!parseSince(since, now) = now - 1
      BY <2>4 DEF O!parseSince
    <3> QED
      BY <1>1, <2>4, <3>1
  <2> QED
    BY <1>3, <2>1, <2>2, <2>3, <2>4
<1> QED
  BY <1>4, <1>5 DEF O!Selects, Asked

LEMMA LimitIsNat ==
  ASSUME NEW limit \in Int
  PROVE  O!clampLimit(limit) \in Nat
  BY DEF O!clampLimit, O!SmallerOf, O!MAX_LOG_LIMIT

(* What the backends answer holds the newest of what is asked of them.      *)
LEMMA BackendCutsLatest ==
  ASSUME NEW part, NEW limit
  PROVE  {e \in part : O!Cardinality({f \in part : O!Later(f, e)}) < limit} = Newest(LaterOf(part), part, limit)
<1>1. ASSUME NEW e \in part
      PROVE  O!Cardinality({f \in part : O!Later(f, e)}) = RankIn(LaterOf(part), part, e)
  <2>1. {f \in part : O!Later(f, e)} = Before(LaterOf(part), part, e)
    BY DEF Before, LaterOf
  <2> QED
    BY <2>1, SameCardinality DEF RankIn
<1> QED
  BY <1>1 DEF Newest

LEMMA AnswersHoldNewest ==
  ASSUME NEW q, IsQuestion(q), q.query.until.kind # "garbled",
         NEW reachable, reachable \subseteq DOMAIN q.backends
  PROVE  LET limit == O!clampLimit(q.query.limit)
             answers == {O!AskBackend(q.backends[b], q.query, q.now, limit) : b \in reachable}
             answering == {b \in reachable : q.backends[b].status = "ok"}
             matching == {e \in UNION {q.backends[b].entries : b \in answering} : Asked(q.query, e, q.now)}
         IN  /\ AreEntries(matching)
             /\ UNION answers \subseteq matching
             /\ Newest(LaterOf(matching), matching, limit) \subseteq UNION answers
<1> DEFINE limit == O!clampLimit(q.query.limit)
           answer(b) == O!AskBackend(q.backends[b], q.query, q.now, limit)
           answers == {answer(b) : b \in reachable}
           answering == {b \in reachable : q.backends[b].status = "ok"}
           matching == {e \in UNION {q.backends[b].entries : b \in answering} : Asked(q.query, e, q.now)}
           asked(b) == {e \in q.backends[b].entries : O!Selects(q.query, e, q.now)}
<1>1. AreEntries(Held(q.backends)) /\ limit \in Nat
  BY LimitIsNat DEF IsQuestion, AreBackends
<1>2. \A b \in reachable : q.backends[b].entries \subseteq Held(q.backends)
  BY DEF Held
<1>3. matching \subseteq Held(q.backends)
  BY <1>2
<1>4. AreEntries(matching)
  <2>1. matching \in SUBSET Held(q.backends) /\ IsFiniteSet(Held(q.backends))
    BY <1>1, <1>3 DEF AreEntries
  <2>2. IsFiniteSet(matching)
    <3> HIDE DEF matching
    <3> QED
      BY <2>1, FS_Subset
  <2> HIDE DEF matching
  <2> QED
    BY <1>1, <1>3, <2>2 DEF AreEntries
<1>5. ASSUME NEW b \in answering PROVE asked(b) \subseteq matching
  <2>1. ASSUME NEW e \in asked(b) PROVE e \in matching
    <3>1. b \in reachable /\ e \in Held(q.backends) /\ e \in q.backends[b].entries
      BY <1>2
    <3>2. Asked(q.query, e, q.now)
      BY <3>1, SelectsWhatIsAsked
    <3> QED
      BY <3>1, <3>2
  <2> QED
    BY <2>1
<1>6. ASSUME NEW b \in answering
      PROVE  answer(b) = Newest(LaterOf(asked(b)), asked(b), limit)
  <2> DEFINE part == {e \in q.backends[b].entries : O!Selects(q.query, e, q.now)}
             cut == {e \in part : O!Cardinality({f \in part : O!Later(f, e)}) < limit}
  <2>1. q.backends[b].status = "ok"
    OBVIOUS
  <2>2. answer(b) = cut
    BY <2>1 DEF O!AskBackend
  <2>3. cut = Newest(LaterOf(part), part, limit)
    <3> HIDE DEF part, limit
    <3> QED
      BY BackendCutsLatest
  <2>4. part = asked(b)
    OBVIOUS
  <2> HIDE DEF part, cut, asked, answer, limit
  <2> QED
    BY <2>2, <2>3, <2>4
<1>7. ASSUME NEW b \in reachable, b \notin answering PROVE answer(b) = {}
  BY <1>7 DEF O!AskBackend
<1>8. UNION answers \subseteq matching
  <2> HIDE DEF asked, answer, matching, answering
  <2>1. ASSUME NEW b \in reachable PROVE answer(b) \subseteq matching
    <3>1. CASE b \in answering
      <4>1. Newest(LaterOf(asked(b)), asked(b), limit) \subseteq asked(b)
        BY DEF Newest
      <4> QED
        BY <1>5, <1>6, <3>1, <4>1
    <3>2. CASE b \notin answering
      BY <1>7, <3>2
    <3> QED
      BY <3>1, <3>2
  <2> QED
    BY <2>1
<1>9. ASSUME NEW e \in matching, RankIn(LaterOf(matching), matching, e) < limit PROVE e \in UNION answers
  <2>1. PICK b \in answering : e \in q.backends[b].entries
    OBVIOUS
  <2>2. e \in asked(b)
    <3>1. Asked(q.query, e, q.now) /\ e \in Held(q.backends)
      BY <1>3
    <3> QED
      BY <2>1, <3>1, SelectsWhatIsAsked
  <2> DEFINE part == asked(b)
             inner == LaterOf(part)
             order == LaterOf(matching)
  <2>3. part \subseteq matching
    BY <1>5
  <2> HIDE DEF part, matching, asked, answering
  <2>4. Before(inner, part, e) \in SUBSET Before(order, matching, e)
    BY <2>3 DEF Before, LaterOf
  <2>5. Orders(order, matching)
    BY <1>4, LaterOrders
  <2> HIDE DEF order, inner
  <2>6. IsFiniteSet(Before(order, matching, e)) /\ RankIn(order, matching, e) \in Nat
    BY <2>5, RankIsLess, FS_CardinalityType DEF RankIn
  <2>7. RankIn(inner, part, e) <= RankIn(order, matching, e) /\ RankIn(inner, part, e) \in Nat
    BY <2>4, <2>6, FS_Subset, FS_CardinalityType DEF RankIn
  <2>8. RankIn(inner, part, e) < limit
    BY <1>1, <1>9, <2>6, <2>7 DEF order
  <2>9. e \in answer(b)
    <3> HIDE DEF answer
    <3> QED
      BY <1>6, <2>2, <2>8 DEF part, inner, Newest
  <2>10. b \in reachable
    BY DEF answering
  <2> HIDE DEF answer
  <2> QED
    BY <2>9, <2>10
<1>10. Newest(LaterOf(matching), matching, limit) \subseteq UNION answers
  <2> HIDE DEF matching, answers
  <2> QED
    BY <1>9 DEF Newest
<1> QED
  BY <1>4, <1>8, <1>10

(* No entry whose own time was read is left out for an older one. *)
LEMMA NoOlderIsKept ==
  ASSUME NEW all, NEW now \in Int, NEW matching, AreEntries(matching), all \subseteq matching,
         NEW limit \in Nat, Newest(LaterOf(matching), matching, limit) \subseteq all,
         \A g \in matching : g.stamp # "garbled",
         NEW e \in matching, e \notin Newest(AheadOf(all, now), all, limit), e.stamp = "own",
         NEW f \in Newest(AheadOf(all, now), all, limit), f.stamp = "own"
  PROVE  f.at >= O!SmallerOf(e.at, now)
<1> DEFINE order == AheadOf(all, now)
           L == LaterOf(matching)
           time(g) == O!TimeRead(g, now)
<1>1. AreEntries(all) /\ Orders(order, all) /\ Orders(L, matching)
  BY PartsAreEntries, AheadOrders, LaterOrders
<1>2. \A g, h \in all : <<g, h>> \in order <=> time(g) > time(h) \/ (time(g) = time(h) /\ g.place < h.place)
  BY DEF AheadOf, O!Ahead
<1>3. \A g \in matching : /\ g.at \in Int /\ time(g) \in Int /\ g.place \in Int /\ time(g) \in {g.at, now}
                          /\ g.stamp = "own" => time(g) = g.at
  BY NumbersOfEntries DEF O!TimeRead
<1>4. f \in all /\ f \in matching /\ RankIn(order, all, f) < limit
  BY DEF Newest
<1> HIDE DEF order, time
<1>5. CASE e \in all
  <2>1. ~(RankIn(order, all, e) < limit)
    BY <1>5 DEF Newest, order
  <2>2. RankIn(order, all, e) \in Nat /\ RankIn(order, all, f) \in Nat
    BY <1>1, <1>4, <1>5, RankIsLess
  <2>3. <<f, e>> \in order
    BY <1>1, <1>4, <1>5, <2>1, <2>2, RanksArePlaces
  <2>4. f.at >= e.at
    BY <1>2, <1>3, <1>4, <1>5, <2>3
  <2> QED
    BY <1>3, <1>4, <2>4 DEF O!SmallerOf
<1>6. CASE e \notin all
  <2> SUFFICES ASSUME ~(f.at >= O!SmallerOf(e.at, now))
               PROVE  FALSE
    OBVIOUS
  <2> DEFINE first == Newest(L, matching, limit)
  <2>1. Cardinality(first) = limit
    BY <1>1, <1>6, CutLosesNothing
  <2>2. ~(RankIn(L, matching, e) < limit)
    BY <1>6 DEF Newest
  <2>3. ASSUME NEW g \in first PROVE g \in Before(order, all, f)
    <3>1. g \in matching /\ g \in all /\ RankIn(L, matching, g) < limit
      BY DEF Newest
    <3>2. RankIn(L, matching, g) < RankIn(L, matching, e)
      BY <1>1, <2>2, <3>1, RankIsLess
    <3>3. <<g, e>> \in L
      BY <1>1, <3>1, <3>2, RanksArePlaces
    <3>4. g.at >= e.at
      BY <1>3, <3>1, <3>3 DEF LaterOf, O!Later
    <3>5. f.at < e.at /\ f.at < now
      BY <1>3, <1>4 DEF O!SmallerOf
    <3>6. time(g) > time(f)
      BY <1>3, <1>4, <3>1, <3>4, <3>5
    <3> QED
      BY <1>2, <1>4, <3>1, <3>6 DEF Before
  <2> HIDE DEF first
  <2>4. first \in SUBSET Before(order, all, f) /\ IsFiniteSet(Before(order, all, f))
    BY <1>1, <1>4, <2>3, RankIsLess
  <2>5. limit <= RankIn(order, all, f) /\ RankIn(order, all, f) \in Nat
    BY <2>1, <2>4, FS_Subset, FS_CardinalityType DEF RankIn
  <2> QED
    BY <1>4, <2>5
<1> QED
  BY <1>5, <1>6

(* What is promised of the merged entries, of all that match. *)
Promised(entries, matching, now, limit) ==
  LET returned == {entries[i] : i \in DOMAIN entries}
  IN  /\ returned \subseteq matching
      /\ \A i, j \in DOMAIN entries : i < j => entries[i] # entries[j]
      /\ Len(entries) = O!SmallerOf(limit, Cardinality(matching))
      /\ (\A e \in matching : e.stamp # "garbled") =>
           /\ \A i, j \in DOMAIN entries : i < j => O!TimeRead(entries[i], now) >= O!TimeRead(entries[j], now)
           /\ \A e \in matching \ returned, f \in returned :
                e.stamp = "own" /\ f.stamp = "own" => f.at >= O!SmallerOf(e.at, now)

LEMMA NewestAreMerged ==
  ASSUME NEW answers, NEW matching, NEW limit \in Nat, NEW now \in Int, AreEntries(matching),
         UNION answers \subseteq matching, Newest(LaterOf(matching), matching, limit) \subseteq UNION answers
  PROVE  Promised(O!Merged(answers, now, limit), matching, now, limit)
<1> DEFINE all == UNION answers
           order == AheadOf(all, now)
           entries == O!Merged(answers, now, limit)
           returned == {entries[i] : i \in DOMAIN entries}
<1>1. /\ AreEntries(all) /\ Orders(order, all)
      /\ O!SmallerOf(limit, Cardinality(all)) = O!SmallerOf(limit, Cardinality(matching))
  <2>1. AreEntries(all)
    <3> HIDE DEF all
    <3> QED
      BY PartsAreEntries DEF all
  <2>2. Orders(order, all)
    BY <2>1, AheadOrders
  <2>3. Orders(LaterOf(matching), matching)
    BY LaterOrders
  <2> HIDE DEF all, order
  <2> QED
    BY <2>1, <2>2, <2>3, CutLosesNothing DEF all
<1>2. /\ Len(entries) = O!SmallerOf(limit, Cardinality(all))
      /\ \A i, j \in DOMAIN entries : i < j => <<entries[i], entries[j]>> \in order
      /\ returned = Newest(order, all, limit)
  BY <1>1, MergedIsInOrder
<1> HIDE DEF entries
<1>3. \A i \in DOMAIN entries : entries[i] \in all
  BY <1>2 DEF Newest
<1>4. returned \subseteq matching
  BY <1>3
<1>5. \A i, j \in DOMAIN entries : i < j => entries[i] # entries[j]
  <2> HIDE DEF order, all
  <2> QED
    BY <1>1, <1>2, <1>3 DEF Orders
<1>6. ASSUME \A e \in matching : e.stamp # "garbled", NEW i \in DOMAIN entries, NEW j \in DOMAIN entries, i < j
      PROVE  O!TimeRead(entries[i], now) >= O!TimeRead(entries[j], now)
  <2>1. O!Ahead(all, now, entries[i], entries[j])
    BY <1>2, <1>6 DEF AheadOf
  <2>2. \A g \in all : g.stamp # "garbled"
    BY <1>6
  <2>3. \A e \in all : O!TimeRead(e, now) \in Int
    <3> HIDE DEF all
    <3> QED
      BY <1>1, NumbersOfEntries DEF O!TimeRead
  <2>4. entries[i] \in all /\ entries[j] \in all
    BY <1>3
  <2> HIDE DEF all
  <2>5. \/ O!TimeRead(entries[i], now) > O!TimeRead(entries[j], now)
        \/ O!TimeRead(entries[i], now) = O!TimeRead(entries[j], now)
    BY <2>1, <2>2 DEF O!Ahead
  <2> QED
    BY <2>3, <2>4, <2>5
<1>7. ASSUME \A e \in matching : e.stamp # "garbled", NEW e \in matching \ returned, NEW f \in returned,
             e.stamp = "own", f.stamp = "own"
      PROVE  f.at >= O!SmallerOf(e.at, now)
  <2>1. f \in Newest(order, all, limit) /\ e \notin Newest(order, all, limit) /\ e \in matching
    BY <1>2
  <2>2. all \subseteq matching
    OBVIOUS
  <2> HIDE DEF all, returned
  <2> QED
    BY <1>7, <2>1, <2>2, NoOlderIsKept DEF all
<1> QED
  BY <1>1, <1>2, <1>4, <1>5, <1>6, <1>7 DEF Promised, entries

LEMMA NothingIsThere ==
  ASSUME NEW answers, \A a \in answers : a = {}, NEW matching, matching = {}, NEW limit
  PROVE  /\ AreEntries(matching) /\ UNION answers \subseteq matching
         /\ Newest(LaterOf(matching), matching, limit) \subseteq UNION answers
  BY FS_EmptySet DEF AreEntries, Newest

(* The log query gives the entries of the window asked for that the backends *)
(* hold, as many as were asked for, in the order of the times that it read,   *)
(* and leaves out none for an older one unless a time was not there or none,  *)
(* though each backend cuts its answer by a time of its own: LogsQuery,       *)
(* AskBackend and Merged.                                                      *)
THEOREM NewestAreReturned == Spec => []NewestLogs
<1>1. ASSUME NEW q, IsQuestion(q)
      PROVE  LET entries == O!LogsQuery(q.query, q.backends, q.configured, q.services, q.now).entries
                 answering == {b \in DOMAIN q.backends :
                                 /\ q.backends[b].status = "ok"
                                 /\ O!Resolved(q.configured[b], O!discoverLogsEndpoints(q.services)[b]) # "none"}
                 matching == {e \in UNION {q.backends[b].entries : b \in answering} :
                                q.query.until.kind # "garbled" /\ Asked(q.query, e, q.now)}
             IN  Promised(entries, matching, q.now, O!clampLimit(q.query.limit))
  <2> DEFINE entries == O!LogsQuery(q.query, q.backends, q.configured, q.services, q.now).entries
             address == [b \in DOMAIN q.backends |->
                           O!Resolved(q.configured[b], O!discoverLogsEndpoints(q.services)[b])]
             answering == {b \in DOMAIN q.backends :
                             /\ q.backends[b].status = "ok"
                             /\ O!Resolved(q.configured[b], O!discoverLogsEndpoints(q.services)[b]) # "none"}
             matching == {e \in UNION {q.backends[b].entries : b \in answering} :
                            q.query.until.kind # "garbled" /\ Asked(q.query, e, q.now)}
             limit == O!clampLimit(q.query.limit)
             reachable == {b \in DOMAIN q.backends : address[b] # "none"}
             answers == {O!AskBackend(q.backends[b], q.query, q.now, limit) : b \in reachable}
  <2>1. entries = O!Merged(answers, q.now, limit)
    BY DEF O!LogsQuery
  <2>2. limit \in Nat /\ reachable \subseteq DOMAIN q.backends /\ q.now \in Int
    BY <1>1, LimitIsNat DEF IsQuestion
  <2>3. ASSUME q.query.until.kind # "garbled"
        PROVE  /\ AreEntries(matching) /\ UNION answers \subseteq matching
               /\ Newest(LaterOf(matching), matching, limit) \subseteq UNION answers
    <3> DEFINE open == {b \in reachable : q.backends[b].status = "ok"}
               asked == {e \in UNION {q.backends[b].entries : b \in open} : Asked(q.query, e, q.now)}
    <3>1. open = answering
      OBVIOUS
    <3>2. /\ AreEntries(asked) /\ UNION answers \subseteq asked
          /\ Newest(LaterOf(asked), asked, limit) \subseteq UNION answers
      <4> HIDE DEF reachable
      <4> QED
        BY <1>1, <2>2, <2>3, AnswersHoldNewest
    <3>3. asked = matching
      <4> HIDE DEF open, answering
      <4> QED
        BY <2>3, <3>1
    <3> HIDE DEF asked, matching, answers, limit
    <3> QED
      BY <3>2, <3>3
  <2>4. ASSUME q.query.until.kind = "garbled"
        PROVE  /\ AreEntries(matching) /\ UNION answers \subseteq matching
               /\ Newest(LaterOf(matching), matching, limit) \subseteq UNION answers
    <3>1. matching = {}
      BY <2>4
    <3>2. \A a \in answers : a = {}
      BY <2>4 DEF O!AskBackend
    <3> HIDE DEF matching, answers, limit
    <3> QED
      BY <3>1, <3>2, NothingIsThere
  <2> HIDE DEF matching, answers, limit, entries
  <2>5. Promised(O!Merged(answers, q.now, limit), matching, q.now, limit)
    BY <2>2, <2>3, <2>4, NewestAreMerged
  <2> QED
    BY <2>1, <2>5 DEF entries, matching, limit
<1>2. ASSUME case.kind = "question", IsQuestion(case.input)
      PROVE  NewestLogs
  BY <1>1, <1>2 DEF NewestLogs, Promised
<1>3. Given => NewestLogs
  BY <1>2 DEF Given, NewestLogs
<1> QED
  BY <1>3, InputsAreGiven, PTL

-------------------------------------------------------------------------------
(***************************************************************************)
(* The hosts of the configuration.                                         *)
(***************************************************************************)

(* `f` gives the answers for the hosts up to the n-th. *)
Resolves(hosts, vault, n, f) ==
  f = [i \in 0..n |->
         IF i = 0 THEN [ok |-> FALSE, cache |-> A!NoToken]
         ELSE A!resolve(f[i - 1].cache, vault, hosts[i].key_ref, (i - 1) * vault.took)]

(* The same, as the values at 0 and at each host. *)
Answers(hosts, vault, n, f) ==
  /\ f[0] = [ok |-> FALSE, cache |-> A!NoToken]
  /\ \A i \in 1..n : f[i] = A!resolve(f[i - 1].cache, vault, hosts[i].key_ref, (i - 1) * vault.took)

LEMMA ResolvesIs ==
  ASSUME NEW hosts, NEW vault, NEW n \in Nat, NEW f, Resolves(hosts, vault, n, f)
  PROVE  Answers(hosts, vault, n, f)
<1> DEFINE next(i) == A!resolve(f[i - 1].cache, vault, hosts[i].key_ref, (i - 1) * vault.took)
           start == [ok |-> FALSE, cache |-> A!NoToken]
<1>1. f = [i \in 0..n |-> IF i = 0 THEN start ELSE next(i)]
  BY DEF Resolves
<1> HIDE DEF next, start
<1>2. f[0] = start
  BY <1>1
<1>3. \A i \in 1..n : f[i] = next(i)
  <2> TAKE i \in 1..n
  <2>1. i \in 0..n /\ i # 0
    OBVIOUS
  <2> QED
    BY <1>1, <2>1
<1> QED
  BY <1>2, <1>3 DEF Answers, next, start

LEMMA ResolvesExists ==
  ASSUME NEW hosts, NEW vault, NEW n \in Nat
  PROVE  \E f : Resolves(hosts, vault, n, f)
<1> DEFINE Open == {m \in Nat : ~\E f : Resolves(hosts, vault, m, f)}
           start == [ok |-> FALSE, cache |-> A!NoToken]
<1>1. ASSUME Open # {} PROVE FALSE
  <2>1. PICK m \in Open : \A k \in Open : m <= k
    <3> HIDE DEF Open
    <3>1. Open \subseteq Nat
      BY DEF Open
    <3> QED
      BY <1>1, <3>1, LeastNat
  <2>2. CASE m = 0
    <3> DEFINE f == [i \in 0..0 |-> start]
               next(i) == A!resolve(f[i - 1].cache, vault, hosts[i].key_ref, (i - 1) * vault.took)
    <3>1. f = [i \in 0..0 |-> IF i = 0 THEN start ELSE next(i)]
      <4> HIDE DEF next, start
      <4> QED
        OBVIOUS
    <3>2. Resolves(hosts, vault, 0, f)
      BY <3>1 DEF Resolves
    <3> QED
      BY <2>1, <2>2, <3>2
  <2>3. CASE m # 0
    <3>1. m - 1 \in Nat /\ m - 1 \notin Open
      BY <2>1, <2>3
    <3>2. PICK f : Resolves(hosts, vault, m - 1, f)
      BY <3>1
    <3> DEFINE last == A!resolve(f[m - 1].cache, vault, hosts[m].key_ref, (m - 1) * vault.took)
               g == [i \in 0..m |-> IF i < m THEN f[i] ELSE last]
               next(i) == A!resolve(g[i - 1].cache, vault, hosts[i].key_ref, (i - 1) * vault.took)
    <3>3. /\ f[0] = start
          /\ \A i \in 1..m - 1 : f[i] = A!resolve(f[i - 1].cache, vault, hosts[i].key_ref, (i - 1) * vault.took)
      <4> HIDE DEF last, g, next, Open
      <4>1. Answers(hosts, vault, m - 1, f)
        <5> HIDE DEF start
        <5> QED
          BY <3>1, <3>2, ResolvesIs
      <4> QED
        BY <4>1 DEF Answers
    <3>4. ASSUME NEW i \in 0..m PROVE g[i] = IF i = 0 THEN start ELSE next(i)
      <4>1. CASE i = 0
        <5> HIDE DEF last, start
        <5> QED
          BY <3>1, <3>3, <4>1
      <4>2. CASE i \in 1..m - 1
        <5>1. g[i] = f[i] /\ g[i - 1] = f[i - 1] /\ i # 0
          <6> HIDE DEF last
          <6> QED
            BY <3>1, <4>2
        <5>2. f[i] = A!resolve(f[i - 1].cache, vault, hosts[i].key_ref, (i - 1) * vault.took)
          BY <3>3, <4>2
        <5> HIDE DEF g
        <5> QED
          BY <5>1, <5>2
      <4>3. CASE i = m
        <5>1. g[i] = last /\ g[i - 1] = f[m - 1] /\ i # 0
          <6> HIDE DEF last
          <6> QED
            BY <3>1, <2>3, <4>3
        <5> HIDE DEF g
        <5> QED
          BY <5>1, <4>3
      <4> QED
        BY <3>1, <4>1, <4>2, <4>3
    <3>5. g = [i \in 0..m |-> IF i = 0 THEN start ELSE next(i)]
      <4>1. g = [i \in 0..m |-> g[i]]
        <5> HIDE DEF last
        <5> QED
          OBVIOUS
      <4> HIDE DEF g, next, start
      <4> QED
        BY <3>4, <4>1
    <3>6. Resolves(hosts, vault, m, g)
      <4> HIDE DEF g
      <4> QED
        BY <3>5 DEF Resolves
    <3> QED
      BY <2>1, <3>6
  <2> QED
    BY <2>2, <2>3
<1> QED
  BY <1>1

LEMMA ResolvedIs ==
  ASSUME NEW hosts, NEW vault, Len(hosts) \in Nat
  PROVE  Resolves(hosts, vault, Len(hosts), A!Resolved(hosts, vault))
<1>1. A!Resolved(hosts, vault) = CHOOSE f : Resolves(hosts, vault, Len(hosts), f)
  BY DEF A!Resolved, Resolves
<1> QED
  BY <1>1, ResolvesExists

(* A vault as the setup has it. *)
IsVault(vault) ==
  /\ vault.method \in {"approle", "token"} /\ {vault.env, vault.login.token} \subseteq BOOLEAN
  /\ vault.took \in Nat /\ vault.life \in Nat /\ vault.login.lease \in Nat \cup {-1}
  /\ vault.method = "approle" => vault.life > 0 /\ vault.life >= 9 * Lease(vault)

(* The cache holds no token, or one that the store gave out for what it was *)
(* shown.                                                                   *)
Admitted(vault) ==
  vault.env /\ (vault.method = "approle" => A!Success(vault.login.status) /\ vault.login.token)

IsCache(vault, cache) ==
  \/ cache = A!NoToken
  \/ /\ Admitted(vault) /\ cache.issued \in Nat /\ cache.expiresAt \in Int
     /\ vault.method = "approle" => cache.expiresAt = cache.issued + 9 * Lease(vault)
     /\ vault.method = "token" => cache.issued = 0

LEMMA LeaseIsNat ==
  ASSUME NEW vault, IsVault(vault)
  PROVE  Lease(vault) \in Nat
  BY DEF IsVault, Lease, A!DefaultLease

LEMMA LoginGives ==
  ASSUME NEW vault, IsVault(vault), NEW now \in Nat
  PROVE  /\ IsCache(vault, A!login(vault, now))
         /\ Admitted(vault) <=> A!login(vault, now) # A!NoToken
         /\ Admitted(vault) /\ vault.method = "approle" => A!login(vault, now).issued = now
         /\ A!NoToken.expiresAt = 0 /\ A!NoToken.issued = -1
<1>1. CASE vault.method = "approle"
  <2>1. A!login(vault, now) = A!loginApprole(vault, now)
    BY <1>1 DEF A!login
  <2>2. CASE Admitted(vault)
    <3>1. A!login(vault, now) = [issued |-> now, expiresAt |-> now + 9 * Lease(vault)]
      BY <1>1, <2>1, <2>2 DEF A!loginApprole, Admitted, Lease
    <3> QED
      BY <1>1, <2>2, <3>1, LeaseIsNat DEF IsCache, A!NoToken
  <2>3. CASE ~Admitted(vault)
    <3>1. A!login(vault, now) = A!NoToken
      BY <1>1, <2>1, <2>3 DEF A!loginApprole, Admitted
    <3> QED
      BY <2>3, <3>1 DEF IsCache, A!NoToken
  <2> QED
    BY <2>2, <2>3
<1>2. CASE vault.method = "token"
  <2>1. CASE vault.env
    <3>1. A!login(vault, now) = [issued |-> 0, expiresAt |-> now + A!TokenMethodLife]
      BY <1>2, <2>1 DEF A!login
    <3> QED
      BY <1>2, <2>1, <3>1 DEF IsCache, A!NoToken, Admitted, A!TokenMethodLife
  <2>2. CASE ~vault.env
    <3>1. A!login(vault, now) = A!NoToken
      BY <1>2, <2>2 DEF A!login
    <3> QED
      BY <2>2, <3>1 DEF IsCache, A!NoToken, Admitted
  <2> QED
    BY <2>1, <2>2
<1> QED
  BY <1>1, <1>2 DEF IsVault

(* A token that the cache has or gets is known to the store, but for one    *)
(* that was given and not obtained.                                         *)
LEMMA ResolveAnswers ==
  ASSUME NEW vault, IsVault(vault), NEW now \in Nat, NEW cache, IsCache(vault, cache), NEW ref
  PROVE  LET resolved == A!resolve(cache, vault, ref, now)
             secret == vault.secrets[ref.vault_path]
         IN  /\ IsCache(vault, resolved.cache)
             /\ resolved.ok <=> /\ Admitted(vault)
                                /\ vault.method = "token" => now < vault.life
                                /\ A!Success(secret.status) /\ ref.vault_field \in secret.fields
<1> DEFINE token == A!getToken(cache, vault, now)
           resolved == A!resolve(cache, vault, ref, now)
           secret == vault.secrets[ref.vault_path]
           answer == A!Answer(vault, ref.vault_path, token, now)
<1>1. /\ A!NoToken.expiresAt = 0 /\ A!NoToken.issued = -1
      /\ IsCache(vault, A!login(vault, now))
      /\ Admitted(vault) <=> A!login(vault, now) # A!NoToken
      /\ Admitted(vault) /\ vault.method = "approle" => A!login(vault, now).issued = now
  BY LoginGives
<1>2. \/ token = cache /\ now < cache.expiresAt /\ cache # A!NoToken
      \/ token = A!login(vault, now)
  BY <1>1 DEF A!getToken
<1>3. IsCache(vault, token)
  BY <1>1, <1>2
<1>4. Admitted(vault) <=> token # A!NoToken
  BY <1>1, <1>2 DEF IsCache
<1>5. resolved = IF token = A!NoToken THEN [ok |-> FALSE, cache |-> cache]
                 ELSE [ok |-> A!Success(answer.status) /\ ref.vault_field \in answer.fields, cache |-> token]
  BY DEF A!resolve
<1>6. CASE ~Admitted(vault)
  <2>1. resolved = [ok |-> FALSE, cache |-> cache]
    BY <1>4, <1>5, <1>6
  <2> QED
    BY <1>6, <2>1
<1>7. CASE Admitted(vault)
  <2>1. /\ resolved.ok <=> A!Success(answer.status) /\ ref.vault_field \in answer.fields
        /\ resolved.cache = token
    <3> HIDE DEF token, answer
    <3>1. resolved = [ok |-> A!Success(answer.status) /\ ref.vault_field \in answer.fields, cache |-> token]
      BY <1>4, <1>5, <1>7
    <3> HIDE DEF resolved
    <3> QED
      BY <3>1
  <2>2. now < token.issued + vault.life <=> (vault.method = "token" => now < vault.life)
    <3> HIDE DEF token
    <3>1. CASE vault.method = "token"
      <4>1. token.issued = 0
        BY <1>3, <1>4, <1>7, <3>1 DEF IsCache
      <4> QED
        BY <3>1, <4>1 DEF IsVault
    <3>2. CASE vault.method = "approle"
      <4>1. token.issued \in Nat /\ token.expiresAt = token.issued + 9 * Lease(vault)
        BY <1>3, <1>4, <1>7, <3>2 DEF IsCache
      <4>2. now < token.expiresAt \/ token.issued = now
        BY <1>1, <1>2, <1>7, <3>2
      <4>3. Lease(vault) \in Nat /\ vault.life \in Nat /\ vault.life > 0 /\ vault.life >= 9 * Lease(vault)
        BY <3>2, LeaseIsNat DEF IsVault
      <4>4. now < token.issued + vault.life
        BY <4>1, <4>2, <4>3
      <4> QED
        BY <3>2, <4>4
    <3> QED
      BY <3>1, <3>2 DEF IsVault
  <2>3. CASE vault.method = "token" => now < vault.life
    <3>1. answer = secret
      BY <2>2, <2>3 DEF A!Answer
    <3>2. resolved.ok <=> A!Success(secret.status) /\ ref.vault_field \in secret.fields
      <4> HIDE DEF token, answer, resolved, secret
      <4> QED
        BY <2>1, <3>1
    <3>3. IsCache(vault, resolved.cache)
      <4> HIDE DEF token, resolved
      <4> QED
        BY <1>3, <2>1
    <3> HIDE DEF token, answer, resolved, secret
    <3> QED
      BY <1>7, <2>3, <3>2, <3>3 DEF resolved, secret
  <2>4. CASE ~(vault.method = "token" => now < vault.life)
    <3>1. answer = [status |-> 403, fields |-> {}]
      BY <2>2, <2>4 DEF A!Answer
    <3>2. ~resolved.ok
      <4> HIDE DEF answer, resolved
      <4> QED
        BY <2>1, <3>1
    <3>3. IsCache(vault, resolved.cache)
      <4> HIDE DEF token, resolved
      <4> QED
        BY <1>3, <2>1
    <3> HIDE DEF token, answer, resolved, secret
    <3> QED
      BY <2>4, <3>2, <3>3 DEF resolved, secret
  <2> QED
    BY <2>3, <2>4
<1> QED
  BY <1>6, <1>7

LEMMA Elapsed ==
  ASSUME NEW i \in Nat, i > 0, NEW took \in Nat
  PROVE  (i - 1) * took \in Nat
<1>1. i - 1 \in Nat
  OBVIOUS
<1>2. \A m, n \in Nat : m * n \in Nat
  OBVIOUS
<1> QED
  BY <1>1, <1>2

LEMMA KeysAreFound ==
  ASSUME NEW vault, IsVault(vault), NEW hosts, IsSequence(hosts)
  PROVE  \A i \in DOMAIN hosts : A!Resolved(hosts, vault)[i].ok <=> KeyIsGiven(vault, hosts, i)
<1> DEFINE n == Len(hosts)
           f == A!Resolved(hosts, vault)
           Now(i) == (i - 1) * vault.took
           Bad == {m \in 0..n : ~IsCache(vault, f[m].cache)}
<1>1. n \in Nat /\ DOMAIN hosts = 1..n
  <2> DEFINE S == {hosts[i] : i \in DOMAIN hosts}
  <2>1. hosts \in Seq(S)
    BY DEF IsSequence
  <2> HIDE DEF S
  <2> QED
    BY <2>1
<1>2. /\ f[0].cache = A!NoToken
      /\ \A i \in 1..n : f[i] = A!resolve(f[i - 1].cache, vault, hosts[i].key_ref, Now(i))
  <2>1. Resolves(hosts, vault, n, f)
    BY <1>1, ResolvedIs
  <2> HIDE DEF f, n
  <2>2. n \in Nat
    BY <1>1
  <2> HIDE DEF n, Bad, Now
  <2>3. Answers(hosts, vault, n, f)
    BY <2>1, <2>2, ResolvesIs
  <2>4. f[0] = [ok |-> FALSE, cache |-> A!NoToken]
    BY <2>3 DEF Answers
  <2>5. \A i \in 1..n : f[i] = A!resolve(f[i - 1].cache, vault, hosts[i].key_ref, Now(i))
    BY <2>3 DEF Answers, Now
  <2> QED
    BY <2>4, <2>5
<1>3. \A i \in 1..n : Now(i) \in Nat
  <2> TAKE i \in 1..n
  <2>1. i \in Nat /\ i > 0 /\ vault.took \in Nat
    BY <1>1 DEF IsVault
  <2> QED
    BY <2>1, Elapsed
<1> HIDE DEF n, f, Now
<1>4. ASSUME NEW i \in 1..n, IsCache(vault, f[i - 1].cache)
      PROVE  IsCache(vault, f[i].cache) /\ (f[i].ok <=> KeyIsGiven(vault, hosts, i))
  <2>1. Now(i) \in Nat
    BY <1>3
  <2> DEFINE cache == f[i - 1].cache
             ref == hosts[i].key_ref
             secret == vault.secrets[ref.vault_path]
             now == Now(i)
  <2>2. f[i] = A!resolve(cache, vault, ref, now)
    BY <1>2
  <2>3. /\ IsCache(vault, f[i].cache)
        /\ f[i].ok <=> /\ Admitted(vault)
                       /\ vault.method = "token" => now < vault.life
                       /\ A!Success(secret.status) /\ ref.vault_field \in secret.fields
    <3>1. IsCache(vault, cache)
      BY <1>4
    <3> HIDE DEF cache, ref, now
    <3> QED
      BY <2>1, <2>2, <3>1, ResolveAnswers DEF now
  <2> QED
    BY <2>3 DEF KeyIsGiven, Admitted, Now
<1>5. ASSUME Bad # {} PROVE FALSE
  <2>1. PICK m \in Bad : \A k \in Bad : m <= k
    <3>1. Bad \subseteq Nat
      BY <1>1
    <3> HIDE DEF Bad
    <3> QED
      BY <1>5, <3>1, LeastNat
  <2>2. m # 0
    BY <1>2, <2>1 DEF IsCache
  <2>3. m \in 1..n /\ m - 1 \in 0..n /\ m - 1 \notin Bad
    BY <1>1, <2>1, <2>2
  <2>4. IsCache(vault, f[m - 1].cache)
    BY <2>3
  <2> QED
    BY <1>4, <2>1, <2>3, <2>4
<1>6. ASSUME NEW i \in 1..n PROVE f[i].ok <=> KeyIsGiven(vault, hosts, i)
  <2>1. i - 1 \in 0..n
    BY <1>1
  <2>2. IsCache(vault, f[i - 1].cache)
    BY <1>5, <2>1
  <2> QED
    BY <1>4, <2>2
<1> QED
  BY <1>1, <1>6 DEF f

LEMMA Greatest ==
  ASSUME NEW n \in Nat, NEW S \in SUBSET (1..n), S # {}
  PROVE  \E m \in S : \A k \in S : k <= m
<1> DEFINE Rest == {n - k : k \in S}
<1>1. PICK r \in Rest : \A q \in Rest : r <= q
  <2>1. \A k \in S : n - k \in Nat
    <3> TAKE k \in S
    <3>1. k \in 1..n
      OBVIOUS
    <3> QED
      BY <3>1
  <2>2. Rest \subseteq Nat /\ Rest # {}
    BY <2>1
  <2> HIDE DEF Rest
  <2> QED
    BY <2>2, LeastNat
<1>2. PICK m \in S : r = n - m
  BY <1>1
<1>3. ASSUME NEW k \in S PROVE k <= m
  <2>1. n - m <= n - k
    BY <1>1, <1>2
  <2> QED
    BY <2>1
<1> QED
  BY <1>3

(* The hosts of that name whose key is given. *)
Keyed(vault, hosts, name) ==
  {j \in DOMAIN hosts : hosts[j].hostname = name /\ KeyIsGiven(vault, hosts, j)}

LEMMA LastIsKept ==
  ASSUME NEW vault, IsVault(vault), NEW hosts, IsSequence(hosts), NEW name
  PROVE  /\ name \in DOMAIN A!Preloaded(hosts, vault) <=> Keyed(vault, hosts, name) # {}
         /\ Keyed(vault, hosts, name) # {} =>
              \E m \in Keyed(vault, hosts, name) :
                /\ \A k \in Keyed(vault, hosts, name) : k <= m
                /\ A!Preloaded(hosts, vault)[name] = A!SeededEntry(hosts[m])
<1> DEFINE keyed == {i \in DOMAIN hosts : A!Resolved(hosts, vault)[i].ok}
           Named(x) == {i \in keyed : hosts[i].hostname = x}
           names == {hosts[i].hostname : i \in keyed}
           Last(x) == CHOOSE i \in Named(x) : \A j \in Named(x) : j <= i
           S == Keyed(vault, hosts, name)
<1>1. A!Preloaded(hosts, vault) = [x \in names |-> A!SeededEntry(hosts[Last(x)])]
  BY DEF A!Preloaded
<1>2. Named(name) = S
  <2>1. \A i \in DOMAIN hosts : A!Resolved(hosts, vault)[i].ok <=> KeyIsGiven(vault, hosts, i)
    BY KeysAreFound
  <2> QED
    BY <2>1 DEF Keyed
<1>3. name \in names <=> S # {}
  BY <1>2
<1>4. name \in DOMAIN A!Preloaded(hosts, vault) <=> S # {}
  <2> HIDE DEF names, Last, S
  <2> QED
    BY <1>1, <1>3
<1>5. ASSUME S # {}
      PROVE  /\ Last(name) \in S /\ \A k \in S : k <= Last(name)
             /\ A!Preloaded(hosts, vault)[name] = A!SeededEntry(hosts[Last(name)])
  <2>1. PICK m \in S : \A k \in S : k <= m
    <3>1. Len(hosts) \in Nat /\ S \subseteq 1..Len(hosts)
      <4> DEFINE V == {hosts[i] : i \in DOMAIN hosts}
      <4>1. hosts \in Seq(V)
        BY DEF IsSequence
      <4> HIDE DEF V
      <4>2. Len(hosts) \in Nat /\ DOMAIN hosts = 1..Len(hosts)
        BY <4>1
      <4> QED
        BY <4>2 DEF Keyed
    <3> HIDE DEF S
    <3> QED
      BY <1>5, <3>1, Greatest
  <2>2. Last(name) = CHOOSE i \in S : \A j \in S : j <= i
    <3> HIDE DEF S, keyed
    <3> QED
      BY <1>2
  <2>3. Last(name) \in S /\ \A k \in S : k <= Last(name)
    <3> HIDE DEF S, Last
    <3> QED
      BY <2>1, <2>2
  <2>4. A!Preloaded(hosts, vault)[name] = A!SeededEntry(hosts[Last(name)])
    <3> HIDE DEF names, Last, S
    <3> QED
      BY <1>1, <1>3, <1>5
  <2> QED
    BY <2>3, <2>4
<1>6. S # {} => \E m \in S : /\ \A k \in S : k <= m
                             /\ A!Preloaded(hosts, vault)[name] = A!SeededEntry(hosts[m])
  <2> HIDE DEF S, Last
  <2> QED
    BY <1>5
<1> QED
  BY <1>4, <1>6

(* A host whose key was found is connected to by ssh, but not if it is      *)
(* pinned to MCP and can do without: the pool has no client for it.         *)
SeededConnection(host) == A!createConnection(A!SeededEntry(host), FALSE)

LEMMA SeededConnects ==
  ASSUME NEW host, host.mcp_endpoint \in BOOLEAN, NEW up
  PROVE  A!connect(SeededConnection(host), up).ok
           <=> "ssh" \in up /\ (host.mcp_endpoint => host.platform = "unraid")
<1> DEFINE c == SeededConnection(host)
<1>1. /\ c.type = IF host.platform = "unraid" THEN "unraid" ELSE "docker-swarm"
      /\ c.key /\ ~c.client
      /\ c.prefer = IF host.mcp_endpoint THEN "mcp" ELSE "ssh"
  BY DEF SeededConnection, A!createConnection, A!SeededEntry, A!configPlatformToType
<1> HIDE DEF c
<1>2. A!Failed.ok = FALSE /\ A!Opened("ssh").ok = TRUE
  BY DEF A!Failed, A!Opened
<1>3. A!fallbackSSH(c, up).ok <=> "ssh" \in up
  BY <1>1, <1>2 DEF A!fallbackSSH
<1>4. CASE host.platform = "unraid"
  <2>1. A!connect(c, up) = A!fallbackSSH(c, up)
    BY <1>1, <1>4 DEF A!connect, A!McpOrSsh
  <2> QED
    BY <1>3, <1>4, <2>1 DEF c
<1>5. CASE host.platform # "unraid"
  <2>1. A!connect(c, up) = A!ConnectMcpOrSsh(c, up)
    BY <1>1, <1>5 DEF A!connect, A!McpOrSsh
  <2>2. CASE host.mcp_endpoint
    <3>1. A!ConnectMcpOrSsh(c, up) = A!Failed
      BY <1>1, <2>2 DEF A!ConnectMcpOrSsh, A!tryMCP
    <3> QED
      BY <1>2, <1>5, <2>1, <2>2, <3>1 DEF c
  <2>3. CASE ~host.mcp_endpoint
    <3>1. A!ConnectMcpOrSsh(c, up) = A!fallbackSSH(c, up)
      BY <1>1, <2>3 DEF A!ConnectMcpOrSsh, A!tryMCP
    <3> QED
      BY <1>3, <2>1, <2>3, <3>1 DEF c
  <2> QED
    BY <2>2, <2>3
<1> QED
  BY <1>4, <1>5

LEMMA HostIsReached ==
  ASSUME NEW s, IsVault(s.vault), NEW hosts, IsSequence(hosts), NEW i \in DOMAIN hosts,
         \A j \in DOMAIN hosts : hosts[j].mcp_endpoint \in BOOLEAN,
         NEW runtime, runtime.preloaded = A!Preloaded(hosts, s.vault)
  PROVE  A!getConnection(runtime, hosts[i], s.up).ok <=> CanBeReached(s, hosts, i)
<1> DEFINE name == hosts[i].hostname
           S == Keyed(s.vault, hosts, name)
           pre == A!Preloaded(hosts, s.vault)
<1>1. /\ name \in DOMAIN pre <=> S # {}
      /\ S # {} => \E m \in S : (\A k \in S : k <= m) /\ pre[name] = A!SeededEntry(hosts[m])
  <2> HIDE DEF name
  <2> QED
    BY LastIsKept
<1>2. CanBeReached(s, hosts, i)
        <=> \E j \in S : /\ \A k \in S : k <= j
                         /\ "ssh" \in s.up[name]
                         /\ hosts[j].mcp_endpoint => hosts[j].platform = "unraid"
  BY DEF CanBeReached, Keyed
<1>3. S \subseteq DOMAIN hosts /\ S \subseteq Int
  <2> DEFINE V == {hosts[k] : k \in DOMAIN hosts}
  <2>1. hosts \in Seq(V)
    BY DEF IsSequence
  <2> HIDE DEF V
  <2>2. DOMAIN hosts \subseteq Int
    BY <2>1
  <2> QED
    BY <2>2 DEF Keyed
<1>4. A!getConnection(runtime, hosts[i], s.up)
        = IF name \in DOMAIN pre THEN A!connect(A!createConnection(pre[name], FALSE), s.up[name])
          ELSE A!Failed
  BY DEF A!getConnection
<1> HIDE DEF S, pre, name
<1>5. CASE S = {}
  BY <1>1, <1>2, <1>4, <1>5 DEF A!Failed
<1>6. CASE S # {}
  <2>1. PICK m \in S : (\A k \in S : k <= m) /\ pre[name] = A!SeededEntry(hosts[m])
    BY <1>1, <1>6
  <2>2. \A j \in S : (\A k \in S : k <= j) => j = m
    BY <1>3, <2>1
  <2>3. hosts[m].mcp_endpoint \in BOOLEAN
    BY <1>3, <2>1
  <2>4. A!connect(SeededConnection(hosts[m]), s.up[name]).ok
          <=> "ssh" \in s.up[name] /\ (hosts[m].mcp_endpoint => hosts[m].platform = "unraid")
    BY <2>3, SeededConnects
  <2>5. A!getConnection(runtime, hosts[i], s.up)
          = A!connect(SeededConnection(hosts[m]), s.up[name])
    BY <1>1, <1>4, <1>6, <2>1 DEF SeededConnection
  <2>6. CanBeReached(s, hosts, i)
          <=> "ssh" \in s.up[name] /\ (hosts[m].mcp_endpoint => hosts[m].platform = "unraid")
    BY <1>2, <2>1, <2>2
  <2> QED
    BY <2>4, <2>5, <2>6
<1> QED
  BY <1>5, <1>6

LEMMA SetupsReach ==
  ASSUME NEW s, IsSetup(s)
  PROVE  SetupReaches(s)
<1> DEFINE runtime == A!assembleRuntime(s.files, s.explicit, s.fromEnv, s.vault)
           config == ConfigOf(s)
           hosts == config.hosts
           test == A!runConnectTest(runtime, s.filter, s.up)
           tested == {i \in DOMAIN hosts : s.filter \in {"none", hosts[i].hostname}}
           good == config.ok /\ A!ping(s.vault.health)
           ran == [ok |-> TRUE, hosts |-> hosts, preloaded |-> A!Preloaded(hosts, s.vault)]
<1>1. IsVault(s.vault)
  BY DEF IsSetup, IsVault
<1>2. runtime = IF good THEN ran ELSE A!Failed
  <2>1. runtime = IF ~config.ok \/ ~A!ping(s.vault.health) THEN A!Failed ELSE ran
    BY DEF A!assembleRuntime, ConfigOf
  <2> HIDE DEF runtime, config, ran
  <2> QED
    BY <2>1
<1>3. runtime.ok <=> good
  <2>1. ran.ok = TRUE /\ A!Failed.ok = FALSE
    BY DEF A!Failed
  <2> HIDE DEF runtime, ran, good
  <2> QED
    BY <1>2, <2>1
<1>4. ASSUME good
      PROVE  /\ DOMAIN test.results = tested
             /\ \A i \in tested : test.results[i].outcome = "ok" <=> CanBeReached(s, hosts, i)
             /\ test.exit = "ok" <=> tested # {} /\ \A i \in tested : CanBeReached(s, hosts, i)
  <2>1. runtime.hosts = hosts /\ runtime.preloaded = A!Preloaded(hosts, s.vault)
    <3>1. runtime = ran
      BY <1>2, <1>4
    <3> HIDE DEF runtime, hosts
    <3> QED
      BY <3>1
  <2>2. IsSequence(hosts) /\ \A j \in DOMAIN hosts : hosts[j].mcp_endpoint \in BOOLEAN
    BY <1>4 DEF IsSetup
  <2> DEFINE results == [i \in tested |-> A!HostResult(runtime, hosts[i], s.up)]
  <2> HIDE DEF runtime, hosts
  <2>3. /\ test.results = results
        /\ test.exit = IF (tested = {} /\ s.filter # "none") \/ \E i \in tested : results[i].outcome = "fail"
                       THEN "fail" ELSE "ok"
    BY <2>1 DEF A!runConnectTest
  <2> HIDE DEF test
  <2>4. ASSUME NEW i \in tested
        PROVE  results[i].outcome = IF CanBeReached(s, hosts, i) THEN "ok" ELSE "fail"
    <3>1. i \in DOMAIN hosts
      OBVIOUS
    <3>2. A!getConnection(runtime, hosts[i], s.up).ok <=> CanBeReached(s, hosts, i)
      BY <1>1, <2>1, <2>2, <3>1, HostIsReached
    <3> HIDE DEF tested
    <3>3. results[i] = A!HostResult(runtime, hosts[i], s.up)
      OBVIOUS
    <3> HIDE DEF results
    <3> QED
      BY <3>2, <3>3 DEF A!HostResult
  <2>5. DOMAIN results = tested
    OBVIOUS
  <2>6. tested = {} => s.filter # "none"
    <3>1. hosts # <<>>
      <4>1. config.ok /\ A!Failed.ok = FALSE
        BY <1>4 DEF A!Failed
      <4>2. PICK path : config = IF /\ path \in DOMAIN s.files
                                    /\ s.files[path].parses
                                    /\ A!InlineSecrets(s.files[path].keys) = {}
                                    /\ s.files[path].valid /\ s.files[path].hosts # <<>>
                                 THEN [ok |-> TRUE, hosts |-> s.files[path].hosts]
                                 ELSE A!Failed
        BY DEF ConfigOf, A!loadHomelabConfig
      <4> HIDE DEF config
      <4>3. s.files[path].hosts # <<>> /\ config.hosts = s.files[path].hosts
        BY <4>1, <4>2
      <4> QED
        BY <4>3 DEF hosts
    <3>2. DOMAIN hosts # {}
      <4> DEFINE V == {hosts[i] : i \in DOMAIN hosts}
      <4>1. hosts \in Seq(V)
        BY <2>2 DEF IsSequence
      <4> HIDE DEF V
      <4>2. Len(hosts) # 0 /\ Len(hosts) \in Nat /\ DOMAIN hosts = 1..Len(hosts)
        BY <3>1, <4>1, EmptySeq
      <4> QED
        BY <4>2
    <3> QED
      BY <3>2
  <2> HIDE DEF results, tested
  <2> QED
    BY <2>3, <2>4, <2>5, <2>6
<1> QED
  BY <1>3, <1>4 DEF SetupReaches

(* A connection opens by the first of the transports that the entry may be *)
(* reached by and has the means for.                                        *)
LEMMA ConnectionsOpen ==
  ASSUME NEW c, IsConnection(c)
  PROVE  ConnectionOpens(c)
<1> DEFINE made == A!createConnection(c.entry, c.client)
           opened == A!connect(made, c.up)
           usable == Permitted(c.entry) \cap Equipped(c) \cap c.up
           pinned(t) == c.entry.prefer = t
<1>1. /\ made.type = c.entry.type /\ made.key = c.entry.key /\ made.client = c.client
      /\ made.prefer = IF c.entry.prefer \in {"mcp", "ssh"} THEN c.entry.prefer ELSE "none"
  BY DEF A!createConnection
<1>2. /\ A!Failed.ok = FALSE
      /\ \A t : A!Opened(t).ok = TRUE /\ A!Opened(t).transport = t
  BY DEF A!Failed, A!Opened
<1>3. A!fallbackSSH(made, c.up)
        = IF "ssh" \in c.up /\ c.entry.key THEN A!Opened("ssh") ELSE A!Failed
  BY <1>1 DEF A!fallbackSSH
<1>4. /\ "mcp" \in Equipped(c) <=> c.client
      /\ "ssh" \in Equipped(c) <=> c.entry.key
      /\ "https" \in Equipped(c)
  BY DEF Equipped
<1>5. c.entry.key \in BOOLEAN /\ c.client \in BOOLEAN
  BY DEF IsConnection
<1>6. CASE c.entry.type \in A!McpOrSsh
  <2>1. opened = A!ConnectMcpOrSsh(made, c.up)
    BY <1>1, <1>6 DEF A!connect, A!McpOrSsh
  <2>2. \A t : t \in Permitted(c.entry)
                 <=> t \in {"mcp", "ssh"} /\ (c.entry.prefer \in {"mcp", "ssh"} => c.entry.prefer = t)
    BY <1>6 DEF Permitted, A!McpOrSsh
  <2>3. A!tryMCP(made, c.up) <=> c.client /\ "mcp" \in c.up
    BY <1>1 DEF A!tryMCP
  <2> HIDE DEF made, opened
  <2>4. CASE c.entry.prefer = "ssh"
    <3>1. opened = A!fallbackSSH(made, c.up)
      BY <1>1, <2>1, <2>4 DEF A!ConnectMcpOrSsh
    <3>2. usable = {t \in {"ssh"} : c.entry.key /\ t \in c.up}
      BY <1>4, <2>2, <2>4
    <3> HIDE DEF usable
    <3>3. /\ opened.ok <=> usable # {}
          /\ opened.ok => opened.transport \in usable
      BY <1>2, <1>3, <3>1, <3>2
    <3> QED
      BY <3>3 DEF ConnectionOpens, opened, made, usable
  <2>5. CASE c.entry.prefer = "mcp"
    <3>1. opened = IF c.client /\ "mcp" \in c.up THEN A!Opened("mcp") ELSE A!Failed
      BY <1>1, <2>1, <2>3, <2>5 DEF A!ConnectMcpOrSsh
    <3>2. usable = {t \in {"mcp"} : c.client /\ t \in c.up}
      BY <1>4, <2>2, <2>5
    <3> HIDE DEF usable
    <3>3. /\ opened.ok <=> usable # {}
          /\ opened.ok => opened.transport \in usable
      BY <1>2, <3>1, <3>2
    <3> QED
      BY <3>3 DEF ConnectionOpens, opened, made, usable
  <2>6. CASE c.entry.prefer \notin {"mcp", "ssh"}
    <3>1. opened = IF c.client /\ "mcp" \in c.up THEN A!Opened("mcp") ELSE A!fallbackSSH(made, c.up)
      BY <1>1, <2>1, <2>3, <2>6 DEF A!ConnectMcpOrSsh
    <3>2. usable = {t \in {"mcp"} : c.client /\ t \in c.up} \cup {t \in {"ssh"} : c.entry.key /\ t \in c.up}
      BY <1>4, <2>2, <2>6
    <3> HIDE DEF usable
    <3>3. /\ opened.ok <=> usable # {}
          /\ opened.ok => opened.transport \in usable
      BY <1>2, <1>3, <3>1, <3>2
    <3> QED
      BY <3>3 DEF ConnectionOpens, opened, made, usable
  <2> QED
    BY <2>4, <2>5, <2>6
<1>7. CASE c.entry.type = "unifi"
  <2>1. opened = A!ConnectHttps(c.up)
    BY <1>1, <1>7 DEF A!connect, A!McpOrSsh
  <2>2. Permitted(c.entry) = {"https"}
    BY <1>7 DEF Permitted, A!McpOrSsh
  <2>3. usable = {t \in {"https"} : t \in c.up}
    BY <1>4, <2>2
  <2> HIDE DEF made, opened, usable
  <2>4. /\ opened.ok <=> usable # {}
        /\ opened.ok => opened.transport \in usable
    BY <1>2, <2>1, <2>3 DEF A!ConnectHttps
  <2> QED
    BY <2>4 DEF ConnectionOpens, opened, made, usable
<1>8. CASE c.entry.type = "truenas"
  <2>1. opened = IF A!ConnectHttps(c.up).ok THEN A!ConnectHttps(c.up) ELSE A!fallbackSSH(made, c.up)
    BY <1>1, <1>8 DEF A!connect, A!McpOrSsh
  <2>2. Permitted(c.entry) = {"https", "ssh"}
    BY <1>8 DEF Permitted, A!McpOrSsh
  <2>3. usable = {t \in {"https"} : t \in c.up} \cup {t \in {"ssh"} : c.entry.key /\ t \in c.up}
    BY <1>4, <2>2
  <2> HIDE DEF made, opened, usable
  <2>4. /\ opened.ok <=> usable # {}
        /\ opened.ok => opened.transport \in usable
    BY <1>2, <1>3, <2>1, <2>3 DEF A!ConnectHttps
  <2> QED
    BY <2>4 DEF ConnectionOpens, opened, made, usable
<1>9. CASE c.entry.type = "unraid"
  <2>1. opened = A!fallbackSSH(made, c.up)
    BY <1>1, <1>9 DEF A!connect, A!McpOrSsh
  <2>2. Permitted(c.entry) = {"ssh"}
    BY <1>9 DEF Permitted, A!McpOrSsh
  <2>3. usable = {t \in {"ssh"} : c.entry.key /\ t \in c.up}
    BY <1>4, <2>2
  <2> HIDE DEF made, opened, usable
  <2>4. /\ opened.ok <=> usable # {}
        /\ opened.ok => opened.transport \in usable
    BY <1>2, <1>3, <2>1, <2>3
  <2> QED
    BY <2>4 DEF ConnectionOpens, opened, made, usable
<1> QED
  BY <1>6, <1>7, <1>8, <1>9 DEF IsConnection

(* The command reaches the hosts whose key the store gives, as they are     *)
(* pinned, and an entry of the pool opens by a transport that it may be     *)
(* reached by whenever one answers: `connect test`, the preloading of the   *)
(* pool and the connections.                                                *)
THEOREM HostsOfTheConfigAreReached == Spec => []HostsAreReached
<1>1. Given => HostsAreReached
  BY SetupsReach, ConnectionsOpen DEF Given, HostsAreReached
<1> QED
  BY <1>1, InputsAreGiven, PTL

-------------------------------------------------------------------------------
(***************************************************************************)
(* Worse readings.                                                         *)
(***************************************************************************)

Severities == {"P0", "P1", "P2"}

LEMMA RanksAre ==
  /\ P!Rank["P0"] = 3 /\ P!Rank["P1"] = 2 /\ P!Rank["P2"] = 1
  /\ DOMAIN P!Rank = Severities
  /\ \A severity \in Severities : P!Rank[severity] \in 1..3
  /\ \A pattern, resource, severity :
       /\ P!Obs(pattern, resource, severity).pattern = pattern
       /\ P!Obs(pattern, resource, severity).resource = resource
       /\ P!Obs(pattern, resource, severity).severity = severity
  /\ \A resource : P!unreachable(resource).severity = "P0" /\ P!unreachable(resource).resource = resource
  BY DEF P!Rank, P!Obs, P!unreachable, Severities

LEMMA HostsAre ==
  /\ DOMAIN HostOf = {"array", "pool", "zfs", "smart", "proxmox", "swarm", "docker", "k8s", "unifi", "overdue"}
  /\ HostOf["array"] = "array" /\ HostOf["pool"] = "pool" /\ HostOf["zfs"] = "zfs"
  /\ HostOf["smart"] = "smart" /\ HostOf["proxmox"] = "proxmox" /\ HostOf["swarm"] = "swarm"
  /\ HostOf["docker"] = "dockerd" /\ HostOf["k8s"] = "cluster" /\ HostOf["unifi"] = "unifi"
  /\ HostOf["overdue"] = "backup-manifest"
  BY DEF HostOf

(* Of one thing something as urgent is said. *)
LEMMA SaidIsTold ==
  ASSUME NEW probe, NEW o, NEW found, NEW p \in found, p.resource = o.resource,
         P!Rank[o.severity] <= P!Rank[p.severity]
  PROVE  Told(probe, o, found)
  BY DEF Told

LEMMA SameIsTold ==
  ASSUME NEW probe, NEW found, NEW o \in found, o.severity \in Severities
  PROVE  Told(probe, o, found)
<1>1. P!Rank[o.severity] <= P!Rank[o.severity]
  BY RanksAre
<1> QED
  BY <1>1, SaidIsTold

(* A host that cannot be asked is as bad as anything it could answer. *)
LEMMA ScanTells ==
  ASSUME NEW probe \in DOMAIN HostOf, NEW r, NEW s, NEW found, NEW other, NEW unread,
         \A p \in found : p.severity \in Severities,
         s => r /\ \A p \in found : p \in unread \/ Told(probe, p, other),
         NEW o \in P!Scan(r, HostOf[probe], found)
  PROVE  Told(probe, o, P!Scan(s, HostOf[probe], other)) \/ o \in unread
<1> DEFINE lost == P!unreachable(HostOf[probe])
<1>1. lost.severity = "P0" /\ lost.resource = HostOf[probe]
  BY RanksAre
<1> HIDE DEF lost
<1>2. /\ P!Scan(r, HostOf[probe], found) = IF r THEN found ELSE {lost}
      /\ P!Scan(s, HostOf[probe], other) = IF s THEN other ELSE {lost}
  BY DEF P!Scan, lost
<1>3. o.severity \in Severities
  BY <1>1, <1>2 DEF Severities
<1>4. CASE ~s
  <2>1. lost \in P!Scan(s, HostOf[probe], other)
    BY <1>2, <1>4
  <2>2. P!Rank[o.severity] <= P!Rank[lost.severity]
    BY <1>1, <1>3, RanksAre
  <2> QED
    BY <1>1, <2>1, <2>2 DEF Told
<1>5. CASE s
  BY <1>2, <1>5
<1> QED
  BY <1>4, <1>5

(* The scans that report the same, of one severity, again. *)
LEMMA EvenScanTells ==
  ASSUME NEW probe \in DOMAIN HostOf, NEW r, NEW s, NEW found, NEW other, NEW unread,
         NEW severity \in Severities, \A p \in found : p.severity = severity,
         s => r /\ \A p \in found : p \in unread \/ p \in other,
         NEW o \in P!Scan(r, HostOf[probe], found)
  PROVE  Told(probe, o, P!Scan(s, HostOf[probe], other)) \/ o \in unread
<1>1. \A p \in found : p.severity \in Severities
  OBVIOUS
<1>2. s => r /\ \A p \in found : p \in unread \/ Told(probe, p, other)
  BY <1>1, SameIsTold
<1> QED
  BY <1>1, <1>2, ScanTells

LEMMA HeartbeatTells ==
  ASSUME NEW x, NEW y, HeartbeatNotBetter(x, y), NEW o \in P!HeartbeatScan(x)
  PROVE  Told("heartbeat", o, P!HeartbeatScan(y))
<1> DEFINE stale == P!Obs("daemon_heartbeat_stale", "daemon/autonomous-dev", "P0")
<1>1. o = stale /\ ~(x.status = "read" /\ x.age <= 5)
  BY DEF P!HeartbeatScan, P!StaleAfter
<1>2. ~(y.status = "read" /\ y.age <= 5)
  BY <1>1 DEF HeartbeatNotBetter, AtMost
<1>3. stale \in P!HeartbeatScan(y)
  BY <1>2 DEF P!HeartbeatScan, P!StaleAfter
<1>4. stale.severity \in Severities
  BY RanksAre DEF Severities
<1> HIDE DEF stale
<1> QED
  BY <1>1, <1>3, <1>4, SameIsTold

LEMMA ArrayTells ==
  ASSUME NEW x, NEW y, ArrayNotBetter(x, y), NEW o \in P!UnraidArrayScan(x.read, x.mdState)
  PROVE  Told("array", o, P!UnraidArrayScan(y.read, y.mdState)) \/ ArrayUnread(y, o)
<1> DEFINE of(m) == P!Obs("disk_io_error", "array", IF m = "STOPPED" THEN "P1" ELSE "P0")
           found(m) == {p \in {of(m)} : m \notin {"STARTED", ""}}
           unread == {p \in found(x.mdState) : ArrayUnread(y, p)}
<1>1. \A m : of(m).severity = (IF m = "STOPPED" THEN "P1" ELSE "P0") /\ of(m).resource = "array"
  BY RanksAre
<1>2. P!UnraidArrayScan(x.read, x.mdState) = P!Scan(x.read, "array", found(x.mdState))
  BY DEF P!UnraidArrayScan
<1>3. P!UnraidArrayScan(y.read, y.mdState) = P!Scan(y.read, "array", found(y.mdState))
  BY DEF P!UnraidArrayScan
<1> HIDE DEF of
<1>4. \A m, p : p \in found(m) <=> p = of(m) /\ m \notin {"STARTED", ""}
  OBVIOUS
<1>5. \A p : p \in unread <=> p \in found(x.mdState) /\ ArrayUnread(y, p)
  OBVIOUS
<1> HIDE DEF found, unread
<1>6. \A p \in found(x.mdState) : p.severity \in Severities
  BY <1>1, <1>4 DEF Severities
<1>7. ASSUME y.read, NEW p \in found(x.mdState), p \notin unread
      PROVE  Told("array", p, found(y.mdState))
  <2>1. p = of(x.mdState) /\ x.mdState \notin {"STARTED", ""} /\ y.mdState # ""
    BY <1>4, <1>5, <1>7 DEF ArrayUnread
  <2>2. y.mdState = x.mdState \/ y.mdState \notin {"STARTED", "STOPPED"}
    BY <1>7, <2>1 DEF ArrayNotBetter
  <2>3. of(y.mdState) \in found(y.mdState)
    BY <1>4, <2>1, <2>2
  <2>4. P!Rank[p.severity] <= P!Rank[of(y.mdState).severity]
    <3>1. p.severity \in {"P0", "P1"} /\ of(y.mdState).severity \in {"P0", "P1"}
      BY <1>1, <2>1
    <3>2. of(y.mdState).severity \in {p.severity, "P0"}
      BY <1>1, <2>1, <2>2
    <3> QED
      BY <3>1, <3>2, RanksAre
  <2> QED
    BY <1>1, <2>1, <2>3, <2>4, SaidIsTold
<1>8. y.read => x.read
  BY DEF ArrayNotBetter
<1>9. y.read => x.read /\ \A p \in found(x.mdState) : p \in unread \/ Told("array", p, found(y.mdState))
  BY <1>7, <1>8
<1> QED
  BY <1>2, <1>3, <1>5, <1>6, <1>9, HostsAre, ScanTells

LEMMA PoolTells ==
  ASSUME NEW x, NEW y, PoolNotBetter(x, y), NEW o \in P!UnraidPoolScan(x.read, x.pools)
  PROVE  Told("pool", o, P!UnraidPoolScan(y.read, y.pools)) \/ PoolUnread(y, o)
<1> DEFINE of(m, p) == P!Obs("zfs_pool_degraded", p, IF m[p] \in {"FAULTED", "UNAVAIL"} THEN "P0" ELSE "P1")
           found(m) == {of(m, p) : p \in {q \in DOMAIN m : m[q] # "ONLINE"}}
           unread == {p \in found(x.pools) : PoolUnread(y, p)}
<1>1. \A m, p : /\ of(m, p).severity = IF m[p] \in {"FAULTED", "UNAVAIL"} THEN "P0" ELSE "P1"
                /\ of(m, p).resource = p
  BY RanksAre
<1>2. P!UnraidPoolScan(x.read, x.pools) = P!Scan(x.read, "pool", found(x.pools))
  BY DEF P!UnraidPoolScan
<1>3. P!UnraidPoolScan(y.read, y.pools) = P!Scan(y.read, "pool", found(y.pools))
  BY DEF P!UnraidPoolScan
<1> HIDE DEF of
<1>4. \A m, p : p \in found(m) <=> \E q \in DOMAIN m : m[q] # "ONLINE" /\ p = of(m, q)
  OBVIOUS
<1>5. \A p : p \in unread <=> p \in found(x.pools) /\ PoolUnread(y, p)
  OBVIOUS
<1> HIDE DEF found, unread
<1>6. \A p \in found(x.pools) : p.severity \in Severities
  BY <1>1, <1>4 DEF Severities
<1>7. ASSUME y.read, NEW p \in found(x.pools), p \notin unread
      PROVE  Told("pool", p, found(y.pools))
  <2>1. PICK q \in DOMAIN x.pools : x.pools[q] # "ONLINE" /\ p = of(x.pools, q)
    BY <1>4
  <2>2. p.resource = q /\ q \in DOMAIN y.pools /\ ~(p.severity = "P0" /\ y.pools[q] = "")
    <3>1. p.resource = q
      BY <1>1, <2>1
    <3>2. ~PoolUnread(y, p)
      BY <1>5, <1>7
    <3> QED
      BY <3>1, <3>2 DEF PoolUnread
  <2>3. \/ x.pools[q] \in {"ONLINE", y.pools[q]}
        \/ y.pools[q] \in {"FAULTED", "UNAVAIL", ""}
    BY <1>7, <2>2 DEF PoolNotBetter
  <2>4. of(y.pools, q) \in found(y.pools)
    BY <1>4, <2>1, <2>2, <2>3
  <2>5. P!Rank[p.severity] <= P!Rank[of(y.pools, q).severity]
    <3>1. /\ p.severity = IF x.pools[q] \in {"FAULTED", "UNAVAIL"} THEN "P0" ELSE "P1"
          /\ of(y.pools, q).severity = IF y.pools[q] \in {"FAULTED", "UNAVAIL"} THEN "P0" ELSE "P1"
      BY <1>1, <2>1
    <3>2. of(y.pools, q).severity \in {p.severity, "P0"}
      BY <2>1, <2>2, <2>3, <3>1
    <3>3. p.severity \in {"P0", "P1"}
      BY <3>1
    <3> QED
      BY <3>2, <3>3, RanksAre
  <2> QED
    BY <1>1, <2>2, <2>4, <2>5, SaidIsTold
<1>8. y.read => x.read
  BY DEF PoolNotBetter
<1>9. y.read => x.read /\ \A p \in found(x.pools) : p \in unread \/ Told("pool", p, found(y.pools))
  BY <1>7, <1>8
<1> QED
  BY <1>2, <1>3, <1>5, <1>6, <1>9, HostsAre, ScanTells

LEMMA ZfsTells ==
  ASSUME NEW x, NEW y, ZfsNotBetter(x, y), NEW o \in P!ZfsScan(x.read, x.blocks)
  PROVE  Told("zfs", o, P!ZfsScan(y.read, y.blocks)) \/ ZfsUnread(y, o)
<1> DEFINE of(d) == P!Obs("zfs_pool_degraded", d, "P0")
           bad(m) == {d \in DOMAIN m : P!parseZpoolStatus(m)[d] # "ONLINE"}
           found(m) == {of(d) : d \in bad(m)}
           unread == {p \in found(x.blocks) : ZfsUnread(y, p)}
<1>1. P!ZfsScan(x.read, x.blocks) = P!Scan(x.read, "zfs", found(x.blocks))
  BY DEF P!ZfsScan
<1>2. P!ZfsScan(y.read, y.blocks) = P!Scan(y.read, "zfs", found(y.blocks))
  BY DEF P!ZfsScan
<1>3. \A d : of(d).severity = "P0" /\ of(d).resource = d
  BY RanksAre
<1>4. \A p : p \in unread <=> p \in found(x.blocks) /\ ZfsUnread(y, p)
  OBVIOUS
<1> HIDE DEF of, unread
<1>5. \A p \in found(x.blocks) : p.severity = "P0"
  BY <1>3
<1>6. y.read => x.read
  BY DEF ZfsNotBetter
<1>7. ASSUME y.read, NEW p \in found(x.blocks), p \notin unread PROVE p \in found(y.blocks)
  <2>1. PICK d \in bad(x.blocks) : p = of(d)
    BY <1>7
  <2>2. d \in DOMAIN x.blocks /\ d \in DOMAIN y.blocks /\ ~ZfsUnread(y, p) /\ p.resource = d
    BY <1>3, <1>4, <1>7, <2>1 DEF ZfsUnread
  <2>3. d \in bad(y.blocks)
    BY <1>7, <2>1, <2>2 DEF ZfsNotBetter, P!parseZpoolStatus
  <2> HIDE DEF bad
  <2> QED
    BY <2>1, <2>3
<1> HIDE DEF found, unread
<1>8. y.read => x.read /\ \A p \in found(x.blocks) : p \in unread \/ p \in found(y.blocks)
  BY <1>6, <1>7
<1> QED
  BY <1>1, <1>2, <1>4, <1>5, <1>8, HostsAre, EvenScanTells DEF Severities

LEMMA SmartTells ==
  ASSUME NEW x, NEW y, SmartNotBetter(x, y), NEW o \in P!SmartScan(x.read, x.disks)
  PROVE  Told("smart", o, P!SmartScan(y.read, y.disks)) \/ SmartUnread(y, o)
<1> DEFINE of(d) == P!Obs("disk_io_error", d, "P0")
           bad(m) == {d \in DOMAIN m : m[d].read /\ P!SmartBad(m[d])}
           found(m) == {of(d) : d \in bad(m)}
           unread == {p \in found(x.disks) : SmartUnread(y, p)}
<1>1. P!SmartScan(x.read, x.disks) = P!Scan(x.read, "smart", found(x.disks))
  BY DEF P!SmartScan
<1>2. P!SmartScan(y.read, y.disks) = P!Scan(y.read, "smart", found(y.disks))
  BY DEF P!SmartScan
<1>3. \A d : of(d).severity = "P0" /\ of(d).resource = d
  BY RanksAre
<1>4. \A p : p \in unread <=> p \in found(x.disks) /\ SmartUnread(y, p)
  OBVIOUS
<1> HIDE DEF of, unread
<1>5. \A p \in found(x.disks) : p.severity = "P0"
  BY <1>3
<1>6. y.read => x.read
  BY DEF SmartNotBetter
<1>7. ASSUME y.read, NEW p \in found(x.disks), p \notin unread PROVE p \in found(y.disks)
  <2>1. PICK d \in bad(x.disks) : p = of(d)
    BY <1>7
  <2>2. d \in DOMAIN x.disks /\ d \in DOMAIN y.disks /\ ~SmartUnread(y, p) /\ p.resource = d
    BY <1>3, <1>4, <1>7, <2>1 DEF SmartUnread
  <2>3. d \in bad(y.disks)
    BY <1>7, <2>1, <2>2 DEF SmartNotBetter, SmartUnread, DiskNotBetter, NoLess, AtMost, P!SmartBad
  <2> HIDE DEF bad
  <2> QED
    BY <2>1, <2>3
<1> HIDE DEF found, unread
<1>8. y.read => x.read /\ \A p \in found(x.disks) : p \in unread \/ p \in found(y.disks)
  BY <1>6, <1>7
<1> QED
  BY <1>1, <1>2, <1>4, <1>5, <1>8, HostsAre, EvenScanTells DEF Severities

LEMMA ProxmoxTells ==
  ASSUME NEW x, NEW y, SetNotBetter(x, y, EntryName, EntryNotBetter), NEW o \in P!ProxmoxScan(x.read, x.set)
  PROVE  Told("proxmox", o, P!ProxmoxScan(y.read, y.set)) \/ ProxmoxUnread(y, o)
<1> DEFINE of(e) == P!Obs(IF e.type = "node" THEN "daemon_heartbeat_stale" ELSE "disk_io_error", e.name, "P0")
           bad(m) == {e \in m : (e.type = "node" /\ ~e.up) \/ (e.type = "storage" /\ ~e.up)}
           found(m) == {of(e) : e \in bad(m)}
           unread == {p \in found(x.set) : ProxmoxUnread(y, p)}
<1>1. P!ProxmoxScan(x.read, x.set) = P!Scan(x.read, "proxmox", found(x.set))
  BY DEF P!ProxmoxScan
<1>2. P!ProxmoxScan(y.read, y.set) = P!Scan(y.read, "proxmox", found(y.set))
  BY DEF P!ProxmoxScan
<1>3. \A e : of(e).severity = "P0" /\ of(e).resource = e.name
  BY RanksAre
<1>4. \A p : p \in unread <=> p \in found(x.set) /\ ProxmoxUnread(y, p)
  OBVIOUS
<1> HIDE DEF of, unread
<1>5. \A p \in found(x.set) : p.severity = "P0"
  BY <1>3
<1>6. y.read => x.read
  BY DEF SetNotBetter
<1>7. ASSUME y.read, NEW p \in found(x.set), p \notin unread PROVE p \in found(y.set)
  <2>1. PICK e \in bad(x.set) : p = of(e)
    BY <1>7
  <2>2. EntryName(e) = p.resource /\ e \in x.set
    BY <1>3, <2>1 DEF EntryName
  <2>3. ~ProxmoxUnread(y, p)
    BY <1>4, <1>7
  <2>4. \E f \in y.set : EntryName(f) = EntryName(e)
    BY <2>2, <2>3 DEF ProxmoxUnread, EntryName
  <2>5. PICK f \in y.set : EntryName(f) = EntryName(e) /\ EntryNotBetter(e, f)
    BY <1>7, <2>2, <2>4 DEF SetNotBetter, Carried
  <2>6. f \in bad(y.set) /\ of(f) = of(e)
    BY <2>1, <2>5 DEF of, EntryName, EntryNotBetter
  <2> HIDE DEF bad
  <2> QED
    BY <2>1, <2>6
<1> HIDE DEF found, unread
<1>8. y.read => x.read /\ \A p \in found(x.set) : p \in unread \/ p \in found(y.set)
  BY <1>6, <1>7
<1> QED
  BY <1>1, <1>2, <1>4, <1>5, <1>8, HostsAre, EvenScanTells DEF Severities

LEMMA DockerTells ==
  ASSUME NEW x, NEW y, SetNotBetter(x, y, DockerName, DockerNotBetter), NEW o \in P!DockerScan(x.read, x.set)
  PROVE  Told("docker", o, P!DockerScan(y.read, y.set)) \/ DockerUnread(y, o)
<1> DEFINE of(e) == P!Obs("oom_kill", e.name, "P1")
           bad(m) == {e \in m : e.parsed /\ e.name # ""}
           found(m) == {of(e) : e \in bad(m)}
           unread == {p \in found(x.set) : DockerUnread(y, p)}
<1>1. P!DockerScan(x.read, x.set) = P!Scan(x.read, "dockerd", found(x.set))
  BY DEF P!DockerScan
<1>2. P!DockerScan(y.read, y.set) = P!Scan(y.read, "dockerd", found(y.set))
  BY DEF P!DockerScan
<1>3. \A e : of(e).severity = "P1" /\ of(e).resource = e.name
  BY RanksAre
<1>4. \A p : p \in unread <=> p \in found(x.set) /\ DockerUnread(y, p)
  OBVIOUS
<1> HIDE DEF of, unread
<1>5. \A p \in found(x.set) : p.severity = "P1"
  BY <1>3
<1>6. y.read => x.read
  BY DEF SetNotBetter
<1>7. ASSUME y.read, NEW p \in found(x.set), p \notin unread PROVE p \in found(y.set)
  <2>1. PICK e \in bad(x.set) : p = of(e)
    BY <1>7
  <2>2. DockerName(e) = p.resource /\ e \in x.set
    BY <1>3, <2>1 DEF DockerName
  <2>3. ~DockerUnread(y, p)
    BY <1>4, <1>7
  <2>4. \E f \in y.set : DockerName(f) = DockerName(e)
    BY <2>2, <2>3 DEF DockerUnread, DockerName
  <2>5. PICK f \in y.set : DockerName(f) = DockerName(e) /\ DockerNotBetter(e, f)
    BY <1>7, <2>2, <2>4 DEF SetNotBetter, Carried
  <2>6. f \in bad(y.set) /\ of(f) = of(e)
    <3>1. e.parsed /\ e.name # ""
      OBVIOUS
    <3>2. f.parsed /\ f.name = e.name
      BY <2>5, <3>1 DEF DockerName, DockerNotBetter
    <3> QED
      BY <3>1, <3>2 DEF of
  <2> HIDE DEF bad
  <2> QED
    BY <2>1, <2>6
<1> HIDE DEF found, unread
<1>8. y.read => x.read /\ \A p \in found(x.set) : p \in unread \/ p \in found(y.set)
  BY <1>6, <1>7
<1> QED
  BY <1>1, <1>2, <1>4, <1>5, <1>8, HostsAre, EvenScanTells DEF Severities

LEMMA UnifiTells ==
  ASSUME NEW x, NEW y, SetNotBetter(x, y, UnifiAp, UnifiNotBetter), NEW o \in P!UnifiScan(x.read, x.set)
  PROVE  Told("unifi", o, P!UnifiScan(y.read, y.set)) \/ UnifiUnread(y, o)
<1> DEFINE of(e) == P!Obs("unifi_ap_offline", e.ap, "P1")
           bad(m) == {e \in m : e.key = "EVT_AP_LOST_CONTACT"}
           found(m) == {of(e) : e \in bad(m)}
           unread == {p \in found(x.set) : UnifiUnread(y, p)}
<1>1. P!UnifiScan(x.read, x.set) = P!Scan(x.read, "unifi", found(x.set))
  BY DEF P!UnifiScan
<1>2. P!UnifiScan(y.read, y.set) = P!Scan(y.read, "unifi", found(y.set))
  BY DEF P!UnifiScan
<1>3. \A e : of(e).severity = "P1" /\ of(e).resource = e.ap
  BY RanksAre
<1>4. \A p : p \in unread <=> p \in found(x.set) /\ UnifiUnread(y, p)
  OBVIOUS
<1> HIDE DEF of, unread
<1>5. \A p \in found(x.set) : p.severity = "P1"
  BY <1>3
<1>6. y.read => x.read
  BY DEF SetNotBetter
<1>7. ASSUME y.read, NEW p \in found(x.set), p \notin unread PROVE p \in found(y.set)
  <2>1. PICK e \in bad(x.set) : p = of(e)
    BY <1>7
  <2>2. UnifiAp(e) = p.resource /\ e \in x.set
    BY <1>3, <2>1 DEF UnifiAp
  <2>3. ~UnifiUnread(y, p)
    BY <1>4, <1>7
  <2>4. \E f \in y.set : UnifiAp(f) = UnifiAp(e)
    BY <2>2, <2>3 DEF UnifiUnread, UnifiAp
  <2>5. PICK f \in y.set : UnifiAp(f) = UnifiAp(e) /\ UnifiNotBetter(e, f)
    BY <1>7, <2>2, <2>4 DEF SetNotBetter, Carried
  <2>6. f \in bad(y.set) /\ of(f) = of(e)
    BY <2>1, <2>5 DEF of, UnifiAp, UnifiNotBetter
  <2> HIDE DEF bad
  <2> QED
    BY <2>1, <2>6
<1> HIDE DEF found, unread
<1>8. y.read => x.read /\ \A p \in found(x.set) : p \in unread \/ p \in found(y.set)
  BY <1>6, <1>7
<1> QED
  BY <1>1, <1>2, <1>4, <1>5, <1>8, HostsAre, EvenScanTells DEF Severities

LEMMA OverdueTells ==
  ASSUME NEW x, NEW y, SetNotBetter(x, y, OverdueTarget, OverdueNotBetter), NEW o \in P!BackupOverdueScan(x.read, x.set)
  PROVE  Told("overdue", o, P!BackupOverdueScan(y.read, y.set)) \/ OverdueUnread(y, o)
<1> DEFINE of(e) == P!Obs("backup_overdue", e.target, "P1")
           limit(e) == IF e.max_age = -1 THEN P!DayHours ELSE e.max_age
           bad(m) == {e \in m : e.dated /\ e.age > limit(e)}
           found(m) == {of(e) : e \in bad(m)}
           unread == {p \in found(x.set) : OverdueUnread(y, p)}
<1>1. P!BackupOverdueScan(x.read, x.set) = P!Scan(x.read, "backup-manifest", found(x.set))
  BY DEF P!BackupOverdueScan
<1>2. P!BackupOverdueScan(y.read, y.set) = P!Scan(y.read, "backup-manifest", found(y.set))
  BY DEF P!BackupOverdueScan
<1>3. \A e : of(e).severity = "P1" /\ of(e).resource = e.target
  BY RanksAre
<1>4. \A p : p \in unread <=> p \in found(x.set) /\ OverdueUnread(y, p)
  OBVIOUS
<1> HIDE DEF of, unread
<1>5. \A p \in found(x.set) : p.severity = "P1"
  BY <1>3
<1>6. y.read => x.read
  BY DEF SetNotBetter
<1>7. ASSUME y.read, NEW p \in found(x.set), p \notin unread PROVE p \in found(y.set)
  <2>1. PICK e \in bad(x.set) : p = of(e)
    BY <1>7
  <2>2. OverdueTarget(e) = p.resource /\ e \in x.set
    BY <1>3, <2>1 DEF OverdueTarget
  <2>3. ~OverdueUnread(y, p)
    BY <1>4, <1>7
  <2>4. \E f \in y.set : OverdueTarget(f) = OverdueTarget(e)
    BY <2>2, <2>3 DEF OverdueUnread, OverdueTarget
  <2>5. PICK f \in y.set : OverdueTarget(f) = OverdueTarget(e) /\ OverdueNotBetter(e, f)
    BY <1>7, <2>2, <2>4 DEF SetNotBetter, Carried
  <2>6. f \in bad(y.set) /\ of(f) = of(e)
    <3>1. f.max_age = e.max_age /\ e.max_age \in Int /\ e.age \in Int /\ f.age \in Int /\ e.age <= f.age
      BY <2>5 DEF OverdueNotBetter, Same, AtMost
    <3>2. limit(f) = limit(e) /\ limit(e) \in Int
      BY <3>1 DEF P!DayHours
    <3>3. e.dated /\ e.age > limit(e)
      OBVIOUS
    <3> HIDE DEF limit
    <3>4. f.age > limit(f)
      BY <3>1, <3>2, <3>3
    <3>5. f.dated /\ f.target = e.target
      BY <2>5, <3>3 DEF OverdueTarget, OverdueNotBetter
    <3> QED
      BY <3>4, <3>5 DEF of
  <2> HIDE DEF bad
  <2> QED
    BY <2>1, <2>6
<1> HIDE DEF found, unread
<1>8. y.read => x.read /\ \A p \in found(x.set) : p \in unread \/ p \in found(y.set)
  BY <1>6, <1>7
<1> QED
  BY <1>1, <1>2, <1>4, <1>5, <1>8, HostsAre, EvenScanTells DEF Severities

LEMMA K8sTells ==
  ASSUME NEW x, NEW y, SetNotBetter(x, y, K8sObject, K8sNotBetter), NEW o \in P!K8sScan(x.read, x.set)
  PROVE  Told("k8s", o, P!K8sScan(y.read, y.set)) \/ K8sUnread(y, o)
<1> DEFINE of(e) == P!Obs(IF e.reason = "OOMKilled" THEN "oom_kill" ELSE "crash_loop", e.object, "P1")
           bad(m) == {e \in m : e.reason \in {"BackOff", "OOMKilled"}}
           found(m) == {of(e) : e \in bad(m)}
           unread == {p \in found(x.set) : K8sUnread(y, p)}
<1>1. P!K8sScan(x.read, x.set) = P!Scan(x.read, "cluster", found(x.set))
  BY DEF P!K8sScan
<1>2. P!K8sScan(y.read, y.set) = P!Scan(y.read, "cluster", found(y.set))
  BY DEF P!K8sScan
<1>3. \A e : of(e).severity = "P1" /\ of(e).resource = e.object
  BY RanksAre
<1>4. \A p : p \in unread <=> p \in found(x.set) /\ K8sUnread(y, p)
  OBVIOUS
<1> HIDE DEF of, unread
<1>5. \A p \in found(x.set) : p.severity = "P1"
  BY <1>3
<1>6. y.read => x.read
  BY DEF SetNotBetter
<1>7. ASSUME y.read, NEW p \in found(x.set), p \notin unread PROVE Told("k8s", p, found(y.set))
  <2>1. PICK e \in bad(x.set) : p = of(e)
    BY <1>7
  <2>2. K8sObject(e) = p.resource /\ e \in x.set
    BY <1>3, <2>1 DEF K8sObject
  <2>3. ~K8sUnread(y, p)
    BY <1>4, <1>7
  <2>4. \E f \in y.set : K8sObject(f) = K8sObject(e)
    BY <2>2, <2>3 DEF K8sUnread, K8sObject
  <2>5. PICK f \in y.set : K8sObject(f) = K8sObject(e) /\ K8sNotBetter(e, f)
    BY <1>7, <2>2, <2>4 DEF SetNotBetter, Carried
  <2>6. f \in bad(y.set)
    BY <2>1, <2>5 DEF K8sNotBetter
  <2> HIDE DEF bad
  <2>7. of(f) \in found(y.set) /\ of(f).resource = p.resource
    BY <1>3, <2>1, <2>5, <2>6 DEF K8sObject
  <2>8. P!Rank[p.severity] <= P!Rank[of(f).severity]
    BY <1>3, <2>1, RanksAre
  <2> HIDE DEF found
  <2> QED
    BY <2>7, <2>8, SaidIsTold
<1> HIDE DEF found, unread
<1>8. y.read => x.read /\ \A p \in found(x.set) : p \in unread \/ Told("k8s", p, found(y.set))
  BY <1>6, <1>7
<1>9. \A p \in found(x.set) : p.severity \in Severities
  BY <1>5 DEF Severities
<1> QED
  BY <1>1, <1>2, <1>4, <1>8, <1>9, HostsAre, ScanTells

LEMMA SwarmTells ==
  ASSUME NEW x, NEW y, SwarmNotBetter(x, y), NEW o \in P!SwarmScan(x.read, x.services)
  PROVE  Told("swarm", o, P!SwarmScan(y.read, y.services)) \/ SwarmUnread(y, o)
<1> DEFINE grade(m, t) == IF m[t].running = 0 THEN "P0" ELSE "P1"
           of(m, t) == P!Obs("crash_loop", t, grade(m, t))
           bad(m) == {t \in DOMAIN m : m[t].running >= 0 /\ m[t].running < m[t].desired}
           found(m) == {of(m, t) : t \in bad(m)}
           unread == {p \in found(x.services) : SwarmUnread(y, p)}
<1>1. P!SwarmScan(x.read, x.services) = P!Scan(x.read, "swarm", found(x.services))
  BY DEF P!SwarmScan
<1>2. P!SwarmScan(y.read, y.services) = P!Scan(y.read, "swarm", found(y.services))
  BY DEF P!SwarmScan
<1>3. \A m, t : of(m, t).severity = grade(m, t) /\ of(m, t).resource = t
  BY RanksAre
<1>4. \A p : p \in unread <=> p \in found(x.services) /\ SwarmUnread(y, p)
  OBVIOUS
<1> HIDE DEF of, unread
<1>5. \A p \in found(x.services) : p.severity \in Severities
  BY <1>3 DEF Severities
<1>6. y.read => x.read
  BY DEF SwarmNotBetter
<1>7. ASSUME y.read, NEW p \in found(x.services), p \notin unread
      PROVE  Told("swarm", p, found(y.services))
  <2>1. PICK t \in bad(x.services) : p = of(x.services, t)
    BY <1>7
  <2>2. /\ t \in DOMAIN y.services /\ p.resource = t
        /\ y.services[t].running # -1 /\ y.services[t].desired # -1
    BY <1>3, <1>4, <1>7, <2>1 DEF SwarmUnread
  <2>3. /\ Same(x.services[t].desired, y.services[t].desired)
        /\ AtMost(0, y.services[t].running) /\ AtMost(y.services[t].running, x.services[t].running)
    BY <1>7, <2>1, <2>2 DEF SwarmNotBetter
  <2>4. t \in bad(y.services)
    BY <2>1, <2>2, <2>3 DEF Same, AtMost
  <2>5. grade(x.services, t) = "P0" => grade(y.services, t) = "P0"
    BY <2>1, <2>3 DEF AtMost
  <2>6. {grade(x.services, t), grade(y.services, t)} \subseteq {"P0", "P1"}
    OBVIOUS
  <2> HIDE DEF bad, grade
  <2>7. P!Rank[p.severity] <= P!Rank[of(y.services, t).severity]
    BY <1>3, <2>1, <2>5, <2>6, RanksAre
  <2>8. of(y.services, t) \in found(y.services) /\ of(y.services, t).resource = p.resource
    BY <1>3, <2>2, <2>4
  <2> HIDE DEF found
  <2> QED
    BY <2>7, <2>8, SaidIsTold
<1> HIDE DEF found, unread
<1>8. y.read => x.read /\ \A p \in found(x.services) : p \in unread \/ Told("swarm", p, found(y.services))
  BY <1>6, <1>7
<1> QED
  BY <1>1, <1>2, <1>4, <1>5, <1>8, HostsAre, ScanTells

LEMMA CertTells ==
  ASSUME NEW x, NEW y, CertNotBetter(x, y), NEW o \in P!CertScan(x)
  PROVE  Told("cert", o, P!CertScan(y)) \/ CertUnread(y, o)
<1> DEFINE of(e) == P!Obs("cert_expiry_imminent", e, "P2")
           lost(e) == P!unreachable(e)
<1>1. \A m, p : p \in P!CertScan(m)
                  <=> \E e \in DOMAIN m : \/ m[e].read /\ m[e].dated /\ m[e].days <= 7 /\ p = of(e)
                                          \/ ~m[e].read /\ p = lost(e)
  BY DEF P!CertScan, P!Scan, P!WarnDays
<1>2. \A e : /\ of(e).severity = "P2" /\ of(e).resource = e
             /\ lost(e).severity = "P0" /\ lost(e).resource = e
  BY RanksAre
<1> HIDE DEF of, lost
<1>3. PICK e \in DOMAIN x : \/ x[e].read /\ x[e].dated /\ x[e].days <= 7 /\ o = of(e)
                            \/ ~x[e].read /\ o = lost(e)
  BY <1>1
<1>4. o.resource = e /\ o.severity \in Severities
  BY <1>2, <1>3 DEF Severities
<1>5. e \in DOMAIN y /\ (~y[e].read \/ (x[e].read /\ (~y[e].dated \/ AtMost(y[e].days, x[e].days))))
  BY <1>3 DEF CertNotBetter
<1>6. CASE ~y[e].read
  <2>1. lost(e) \in P!CertScan(y)
    BY <1>1, <1>5, <1>6
  <2>2. P!Rank[o.severity] <= P!Rank[lost(e).severity]
    BY <1>2, <1>4, RanksAre
  <2> QED
    BY <1>2, <1>4, <2>1, <2>2, SaidIsTold
<1>7. CASE y[e].read /\ ~y[e].dated
  BY <1>4, <1>7 DEF CertUnread
<1>8. CASE y[e].read /\ y[e].dated
  <2>1. AtMost(y[e].days, x[e].days) /\ x[e].days <= 7 /\ o = of(e)
    BY <1>3, <1>5, <1>8
  <2>2. y[e].days <= 7
    BY <2>1 DEF AtMost
  <2>3. o \in P!CertScan(y)
    BY <1>1, <1>5, <1>8, <2>1, <2>2
  <2> QED
    BY <1>4, <2>3, SameIsTold
<1> QED
  BY <1>6, <1>7, <1>8

LEMMA AlertsTell ==
  ASSUME NEW x, NEW y, AlertsNotBetter(x, y), NEW o \in P!AlertScan(x.api, x.endpoint, x.answer)
  PROVE  Told("alert", o, P!AlertScan(y.api, y.endpoint, y.answer)) \/ AlertsUnread(y, o)
<1> DEFINE grade(a) == P!alertSeverity(a.severity)
           of(a) == P!Obs("prometheus_alert", P!alertResource(a.labels), grade(a))
           fires(a) == a.state \in {"", P!FiringState[x.api]}
<1>1. \A m, p : m.api = x.api =>
        (p \in P!AlertScan(m.api, m.endpoint, m.answer)
           <=> ~AlertsLost(m) /\ \E a \in m.answer.alerts : fires(a) /\ p = of(a))
  BY DEF P!AlertScan, P!MapAlerts, AlertsLost
<1>2. \A a : of(a).severity = grade(a) /\ of(a).resource = AlertResource(a)
  BY RanksAre DEF AlertResource
<1> HIDE DEF of
<1>3. SUFFICES ASSUME ~AlertsUnread(y, o) PROVE Told("alert", o, P!AlertScan(y.api, y.endpoint, y.answer))
  OBVIOUS
<1>4. PICK a \in x.answer.alerts : fires(a) /\ o = of(a)
  BY <1>1
<1>5. y.api = x.api /\ ~AlertsLost(y) /\ \E b \in y.answer.alerts : AlertResource(b) = AlertResource(a)
  BY <1>2, <1>3, <1>4 DEF AlertsUnread, AlertsNotBetter
<1>6. PICK b \in y.answer.alerts : AlertResource(b) = AlertResource(a) /\ AlertNotBetter(a, b)
  BY <1>5 DEF AlertsNotBetter, Carried
<1>7. P!FiringState[x.api] \notin {"inactive", "pending", ""}
  <2>1. x.api \in DOMAIN P!FiringState
    BY DEF AlertsNotBetter
  <2>2. x.api \in {"alertmanager", "prometheus"}
    BY <2>1 DEF P!FiringState
  <2>3. P!FiringState["alertmanager"] = "active" /\ P!FiringState["prometheus"] = "firing"
    BY DEF P!FiringState
  <2> QED
    BY <2>2, <2>3
<1>8. fires(b)
  BY <1>4, <1>6, <1>7 DEF AlertNotBetter
<1>9. of(b) \in P!AlertScan(y.api, y.endpoint, y.answer)
  BY <1>1, <1>5, <1>8
<1>10. P!Rank[o.severity] <= P!Rank[of(b).severity] /\ of(b).resource = o.resource
  BY <1>2, <1>4, <1>6 DEF AlertNotBetter
<1> QED
  BY <1>9, <1>10, SaidIsTold

LEMMA AtLeastIsMonotone ==
  ASSUME NEW p, NEW q, NEW w, NEW v, NEW c \in Int, AtMost(p, q), Same(w, v), P!AtLeast(p, w, c)
  PROVE  P!AtLeast(q, v, c)
<1>1. p \in Int /\ q \in Int /\ p <= q /\ w = v
  BY DEF AtMost, Same
<1> DEFINE level == c * w
<1>2. w > 0 /\ p >= 0 /\ p * 100 >= level
  BY DEF P!AtLeast
<1> HIDE DEF level
<1>3. level \in Int
  BY <1>1 DEF level, Same
<1>4. q >= 0 /\ q * 100 >= level
  BY <1>1, <1>2, <1>3
<1> QED
  BY <1>1, <1>2, <1>4 DEF P!AtLeast, level

LEMMA PercentsAre ==
  P!SaturationPercent \in Int /\ P!WarnPercent = 80 /\ P!CriticalPercent = 90 /\ P!GrowthWindow = 7
  BY DEF P!SaturationPercent, P!WarnPercent, P!CriticalPercent, P!GrowthWindow

LEMMA ReportTells ==
  ASSUME NEW name, NEW s, NEW t, NEW o \in P!DatastoreReport(name, s),
         \/ ~t.alive
         \/ /\ s.alive
            /\ o.pattern = "replication_lag" /\ s.role = "replica" /\ s.lag > P!ReplicationLagSeconds
                 => t.role = "replica" /\ t.lag > P!ReplicationLagSeconds
            /\ o.pattern = "datastore_near_capacity" =>
                 /\ P!AtLeast(s.connections, s.max_connections, P!SaturationPercent)
                      => P!AtLeast(t.connections, t.max_connections, P!SaturationPercent)
                 /\ P!AtLeast(s.memory_used, s.memory_limit, P!SaturationPercent)
                      => P!AtLeast(t.memory_used, t.memory_limit, P!SaturationPercent)
            /\ o.pattern = "datastore_disk_pressure" /\ P!AtLeast(s.disk_used, s.disk_limit, P!SaturationPercent)
                 => P!AtLeast(t.disk_used, t.disk_limit, P!SaturationPercent)
  PROVE  Told("datastore", o, P!DatastoreReport(name, t))
<1> DEFINE down == P!Obs("datastore_unhealthy", name, "P0")
           lag == P!Obs("replication_lag", name, "P1")
           near == P!Obs("datastore_near_capacity", name, "P1")
           disk == P!Obs("datastore_disk_pressure", name, "P0")
           lags(z) == z.role = "replica" /\ z.lag > P!ReplicationLagSeconds
           nears(z) == \/ P!AtLeast(z.connections, z.max_connections, P!SaturationPercent)
                       \/ P!AtLeast(z.memory_used, z.memory_limit, P!SaturationPercent)
           fills(z) == P!AtLeast(z.disk_used, z.disk_limit, P!SaturationPercent)
<1>1. \A z, p : p \in P!DatastoreReport(name, z)
                  <=> \/ ~z.alive /\ p = down
                      \/ z.alive /\ (\/ p = lag /\ lags(z)
                                     \/ p = near /\ nears(z)
                                     \/ p = disk /\ fills(z))
  BY DEF P!DatastoreReport
<1>2. /\ down.severity = "P0" /\ lag.severity = "P1" /\ near.severity = "P1" /\ disk.severity = "P0"
      /\ \A p \in {down, lag, near, disk} : p.resource = name
      /\ lag.pattern = "replication_lag" /\ near.pattern = "datastore_near_capacity"
      /\ disk.pattern = "datastore_disk_pressure"
  BY RanksAre
<1>3. \/ ~t.alive
      \/ /\ s.alive
         /\ o.pattern = "replication_lag" /\ lags(s) => lags(t)
         /\ o.pattern = "datastore_near_capacity" /\ nears(s) => nears(t)
         /\ o.pattern = "datastore_disk_pressure" /\ fills(s) => fills(t)
  OBVIOUS
<1> HIDE DEF down, lag, near, disk, lags, nears, fills
<1>4. o \in {down, lag, near, disk}
  BY <1>1
<1>5. o.severity \in Severities /\ o.resource = name
  BY <1>2, <1>4 DEF Severities
<1>6. CASE ~t.alive
  <2>1. down \in P!DatastoreReport(name, t)
    BY <1>1, <1>6
  <2>2. P!Rank[o.severity] <= P!Rank[down.severity]
    BY <1>2, <1>5, RanksAre
  <2> QED
    BY <1>2, <1>5, <2>1, <2>2, SaidIsTold
<1>7. CASE t.alive
  <2>1. o \in P!DatastoreReport(name, t)
    BY <1>1, <1>2, <1>3, <1>7
  <2> QED
    BY <1>5, <2>1, SameIsTold
<1> QED
  BY <1>6, <1>7

(* What the commands of each engine give. *)
LEMMA PostgresTells ==
  ASSUME NEW name, NEW x, NEW y, PostgresNotBetter(x, y),
         NEW o \in P!DatastoreReport(name, P!PostgresSignals(x)), ~PostgresUnread(y, o)
  PROVE  Told("datastore", o, P!DatastoreReport(name, P!PostgresSignals(y)))
<1> DEFINE s == P!PostgresSignals(x)
           t == P!PostgresSignals(y)
<1>0. o \in P!DatastoreReport(name, s)
  OBVIOUS
<1>1. CASE y.ping # "1"
  <2>1. ~t.alive
    BY <1>1 DEF P!PostgresSignals, P!DefaultSignals
  <2> HIDE DEF s, t
  <2>2. Told("datastore", o, P!DatastoreReport(name, t))
    BY <1>0, <2>1, ReportTells
  <2> QED
    BY <2>2 DEF t
<1>2. CASE y.ping = "1"
  <2>1. /\ x.ping = "1" /\ y.in_recovery \in {FALSE, x.in_recovery} /\ NoLess(x.lag, y.lag)
        /\ Kept(x.max_connections, y.max_connections) /\ NoLess(x.connections, y.connections)
    BY <1>2 DEF PostgresNotBetter
  <2>2. \A z : z.ping = "1" =>
          /\ P!PostgresSignals(z).alive = TRUE
          /\ P!PostgresSignals(z).connections = z.connections
          /\ P!PostgresSignals(z).max_connections = z.max_connections
          /\ P!PostgresSignals(z).role = IF z.in_recovery THEN "replica" ELSE "primary"
          /\ P!PostgresSignals(z).lag = IF z.in_recovery THEN z.lag ELSE -1
          /\ P!PostgresSignals(z).disk_used = z.disk_used
          /\ P!PostgresSignals(z).disk_limit = -1
          /\ P!PostgresSignals(z).memory_used = -1 /\ P!PostgresSignals(z).memory_limit = -1
    BY DEF P!PostgresSignals, P!DefaultSignals
  <2>3. /\ s.alive = TRUE /\ s.connections = x.connections /\ s.max_connections = x.max_connections
        /\ s.role = IF x.in_recovery THEN "replica" ELSE "primary"
        /\ s.lag = IF x.in_recovery THEN x.lag ELSE -1
        /\ s.disk_limit = -1 /\ s.memory_limit = -1
    BY <2>1, <2>2
  <2>4. /\ t.connections = y.connections /\ t.max_connections = y.max_connections
        /\ t.role = IF y.in_recovery THEN "replica" ELSE "primary"
        /\ t.lag = IF y.in_recovery THEN y.lag ELSE -1
    BY <1>2, <2>2
  <2> HIDE DEF s, t
  <2>5. o.pattern = "replication_lag" /\ s.role = "replica" /\ s.lag > P!ReplicationLagSeconds
          => t.role = "replica" /\ t.lag > P!ReplicationLagSeconds
    <3> HAVE o.pattern = "replication_lag" /\ s.role = "replica" /\ s.lag > P!ReplicationLagSeconds
    <3>1. y.in_recovery /\ AtMost(x.lag, y.lag)
      BY <2>1 DEF PostgresUnread, NoLess
    <3>2. x.in_recovery
      BY <2>3
    <3>3. s.lag = x.lag /\ t.lag = y.lag /\ t.role = "replica"
      BY <2>3, <2>4, <3>1, <3>2
    <3> QED
      BY <3>1, <3>3 DEF AtMost, P!ReplicationLagSeconds
  <2>6. o.pattern = "datastore_near_capacity" =>
          (P!AtLeast(s.connections, s.max_connections, P!SaturationPercent)
             => P!AtLeast(t.connections, t.max_connections, P!SaturationPercent))
    <3> HAVE o.pattern = "datastore_near_capacity"
    <3>1. Same(x.max_connections, y.max_connections) /\ AtMost(x.connections, y.connections)
      BY <2>1 DEF PostgresUnread, NoLess, Kept
    <3> QED
      BY <2>3, <2>4, <3>1, AtLeastIsMonotone, PercentsAre
  <2>7. ~P!AtLeast(s.memory_used, s.memory_limit, P!SaturationPercent)
    BY <2>3 DEF P!AtLeast
  <2>8. ~P!AtLeast(s.disk_used, s.disk_limit, P!SaturationPercent)
    BY <2>3 DEF P!AtLeast
  <2>9. Told("datastore", o, P!DatastoreReport(name, t))
    BY <1>0, <2>3, <2>5, <2>6, <2>7, <2>8, ReportTells
  <2> QED
    BY <2>9 DEF t
<1> QED
  BY <1>1, <1>2

LEMMA RedisTells ==
  ASSUME NEW name, NEW x, NEW y, RedisNotBetter(x, y),
         NEW o \in P!DatastoreReport(name, P!RedisSignals(x)), ~RedisUnread(y, o)
  PROVE  Told("datastore", o, P!DatastoreReport(name, P!RedisSignals(y)))
<1> DEFINE s == P!RedisSignals(x)
           t == P!RedisSignals(y)
<1>0. o \in P!DatastoreReport(name, s)
  OBVIOUS
<1>1. CASE y.ping # "PONG"
  <2>1. ~t.alive
    BY <1>1 DEF P!RedisSignals, P!DefaultSignals
  <2> HIDE DEF s, t
  <2>2. Told("datastore", o, P!DatastoreReport(name, t))
    BY <1>0, <2>1, ReportTells
  <2> QED
    BY <2>2 DEF t
<1>2. CASE y.ping = "PONG"
  <2> DEFINE limit(z) == IF z.memory_limit > 0 THEN z.memory_limit ELSE -1
             role(z) == IF z.role = "slave" THEN "replica" ELSE z.role
  <2>1. /\ x.ping = "PONG" /\ y.role \in {"standalone", x.role} /\ NoLess(x.lag, y.lag)
        /\ Kept(x.max_connections, y.max_connections) /\ NoLess(x.connections, y.connections)
        /\ Kept(x.memory_limit, y.memory_limit) /\ NoLess(x.memory_used, y.memory_used)
    BY <1>2 DEF RedisNotBetter
  <2>2. \A z : z.ping = "PONG" =>
          /\ P!RedisSignals(z).alive = TRUE
          /\ P!RedisSignals(z).connections = z.connections
          /\ P!RedisSignals(z).max_connections = z.max_connections
          /\ P!RedisSignals(z).role = role(z)
          /\ P!RedisSignals(z).lag = z.lag
          /\ P!RedisSignals(z).disk_limit = -1
          /\ P!RedisSignals(z).memory_used = z.memory_used
          /\ P!RedisSignals(z).memory_limit = limit(z)
    BY DEF P!RedisSignals, P!DefaultSignals
  <2>3. /\ s.alive = TRUE /\ s.connections = x.connections /\ s.max_connections = x.max_connections
        /\ s.role = role(x) /\ s.lag = x.lag /\ s.disk_limit = -1
        /\ s.memory_used = x.memory_used /\ s.memory_limit = limit(x)
    BY <2>1, <2>2
  <2>4. /\ t.connections = y.connections /\ t.max_connections = y.max_connections
        /\ t.role = role(y) /\ t.lag = y.lag
        /\ t.memory_used = y.memory_used /\ t.memory_limit = limit(y)
    BY <1>2, <2>2
  <2>5. y.role # "standalone" => role(x) = role(y)
    BY <2>1
  <2>6. Same(x.memory_limit, y.memory_limit) => Same(limit(x), limit(y))
    BY DEF Same
  <2> HIDE DEF s, t, limit, role
  <2>7. o.pattern = "replication_lag" /\ s.role = "replica" /\ s.lag > P!ReplicationLagSeconds
          => t.role = "replica" /\ t.lag > P!ReplicationLagSeconds
    <3> HAVE o.pattern = "replication_lag" /\ s.role = "replica" /\ s.lag > P!ReplicationLagSeconds
    <3>1. y.role # "standalone" /\ AtMost(x.lag, y.lag)
      BY <2>1 DEF RedisUnread, NoLess
    <3> QED
      BY <2>3, <2>4, <2>5, <3>1 DEF AtMost, P!ReplicationLagSeconds
  <2>8. ASSUME o.pattern = "datastore_near_capacity"
        PROVE  /\ P!AtLeast(s.connections, s.max_connections, P!SaturationPercent)
                    => P!AtLeast(t.connections, t.max_connections, P!SaturationPercent)
               /\ P!AtLeast(s.memory_used, s.memory_limit, P!SaturationPercent)
                    => P!AtLeast(t.memory_used, t.memory_limit, P!SaturationPercent)
    <3>1. /\ Same(x.max_connections, y.max_connections) /\ AtMost(x.connections, y.connections)
          /\ Same(x.memory_limit, y.memory_limit) /\ AtMost(x.memory_used, y.memory_used)
      BY <2>1, <2>8 DEF RedisUnread, NoLess, Kept
    <3>2. P!AtLeast(s.connections, s.max_connections, P!SaturationPercent)
            => P!AtLeast(t.connections, t.max_connections, P!SaturationPercent)
      BY <2>3, <2>4, <3>1, AtLeastIsMonotone, PercentsAre
    <3>3. P!AtLeast(s.memory_used, s.memory_limit, P!SaturationPercent)
            => P!AtLeast(t.memory_used, t.memory_limit, P!SaturationPercent)
      BY <2>3, <2>4, <2>6, <3>1, AtLeastIsMonotone, PercentsAre
    <3> QED
      BY <3>2, <3>3
  <2>9. ~P!AtLeast(s.disk_used, s.disk_limit, P!SaturationPercent)
    BY <2>3 DEF P!AtLeast
  <2>10. Told("datastore", o, P!DatastoreReport(name, t))
    BY <1>0, <2>3, <2>7, <2>8, <2>9, ReportTells
  <2> QED
    BY <2>10 DEF t
<1> QED
  BY <1>1, <1>2

LEMMA OpensearchTells ==
  ASSUME NEW name, NEW x, NEW y, OpensearchNotBetter(x, y),
         NEW o \in P!DatastoreReport(name, P!OpensearchSignals(x)), ~OpensearchUnread(y, o)
  PROVE  Told("datastore", o, P!DatastoreReport(name, P!OpensearchSignals(y)))
<1> DEFINE s == P!OpensearchSignals(x)
           t == P!OpensearchSignals(y)
<1>0. o \in P!DatastoreReport(name, s)
  OBVIOUS
<1>1. CASE y.status \notin {"green", "yellow"}
  <2>1. ~t.alive
    BY <1>1 DEF P!OpensearchSignals, P!DefaultSignals
  <2> HIDE DEF s, t
  <2>2. Told("datastore", o, P!DatastoreReport(name, t))
    BY <1>0, <2>1, ReportTells
  <2> QED
    BY <2>2 DEF t
<1>2. CASE y.status \in {"green", "yellow"}
  <2> DEFINE used(z) == IF z.disk_limit > 0 THEN z.disk_used ELSE -1
             limit(z) == IF z.disk_limit > 0 THEN z.disk_limit ELSE -1
  <2>1. /\ x.status \in {"green", "yellow"}
        /\ Kept(x.disk_limit, y.disk_limit) /\ NoLess(x.disk_used, y.disk_used)
    BY <1>2 DEF OpensearchNotBetter
  <2>2. \A z : z.status \in {"green", "yellow"} =>
          /\ P!OpensearchSignals(z).alive = TRUE
          /\ P!OpensearchSignals(z).max_connections = -1
          /\ P!OpensearchSignals(z).role = "standalone"
          /\ P!OpensearchSignals(z).memory_limit = -1
          /\ P!OpensearchSignals(z).disk_used = used(z)
          /\ P!OpensearchSignals(z).disk_limit = limit(z)
    BY DEF P!OpensearchSignals, P!DefaultSignals
  <2>3. /\ s.alive = TRUE /\ s.max_connections = -1 /\ s.role = "standalone" /\ s.memory_limit = -1
        /\ s.disk_used = used(x) /\ s.disk_limit = limit(x)
    BY <2>1, <2>2
  <2>4. t.disk_used = used(y) /\ t.disk_limit = limit(y)
    BY <1>2, <2>2
  <2>5. Same(x.disk_limit, y.disk_limit) /\ AtMost(x.disk_used, y.disk_used)
          => AtMost(used(x), used(y)) /\ Same(limit(x), limit(y))
    BY DEF Same, AtMost
  <2> HIDE DEF s, t, limit, used
  <2>6. ~P!AtLeast(s.connections, s.max_connections, P!SaturationPercent)
    BY <2>3 DEF P!AtLeast
  <2>7. ~P!AtLeast(s.memory_used, s.memory_limit, P!SaturationPercent)
    BY <2>3 DEF P!AtLeast
  <2>8. o.pattern = "datastore_disk_pressure" /\ P!AtLeast(s.disk_used, s.disk_limit, P!SaturationPercent)
          => P!AtLeast(t.disk_used, t.disk_limit, P!SaturationPercent)
    <3> HAVE o.pattern = "datastore_disk_pressure" /\ P!AtLeast(s.disk_used, s.disk_limit, P!SaturationPercent)
    <3>1. AtMost(used(x), used(y)) /\ Same(limit(x), limit(y))
      BY <2>1, <2>5 DEF OpensearchUnread, NoLess, Kept
    <3> QED
      BY <2>3, <2>4, <3>1, AtLeastIsMonotone, PercentsAre
  <2>9. Told("datastore", o, P!DatastoreReport(name, t))
    BY <1>0, <2>3, <2>6, <2>7, <2>8, ReportTells
  <2> QED
    BY <2>9 DEF t
<1> QED
  BY <1>1, <1>2

LEMMA Neo4jTells ==
  ASSUME NEW name, NEW x, NEW y, Neo4jNotBetter(x, y),
         NEW o \in P!DatastoreReport(name, P!Neo4jSignals(x))
  PROVE  Told("datastore", o, P!DatastoreReport(name, P!Neo4jSignals(y)))
<1> DEFINE s == P!Neo4jSignals(x)
           t == P!Neo4jSignals(y)
<1>0. o \in P!DatastoreReport(name, s)
  OBVIOUS
<1>1. CASE y.status = "lost"
  <2>1. ~t.alive
    BY <1>1 DEF P!Neo4jSignals, P!DefaultSignals
  <2> HIDE DEF s, t
  <2>2. Told("datastore", o, P!DatastoreReport(name, t))
    BY <1>0, <2>1, ReportTells
  <2> QED
    BY <2>2 DEF t
<1>2. CASE y.status # "lost"
  <2>1. x.status # "lost"
    BY <1>2 DEF Neo4jNotBetter
  <2>2. s.alive = TRUE /\ s.role = "standalone" /\ s.max_connections = -1 /\ s.memory_limit = -1 /\ s.disk_limit = -1
    BY <2>1 DEF P!Neo4jSignals, P!DefaultSignals
  <2> HIDE DEF s, t
  <2>3. Told("datastore", o, P!DatastoreReport(name, t))
    BY <1>0, <2>2, ReportTells DEF P!AtLeast
  <2> QED
    BY <2>3 DEF t
<1> QED
  BY <1>1, <1>2

LEMMA DatastoreTells ==
  ASSUME NEW x, NEW y, DatastoreNotBetter(x, y),
         NEW o \in P!DatastoreProbeEntity(x.entity, x.asked)
  PROVE  Told("datastore", o, P!DatastoreProbeEntity(y.entity, y.asked)) \/ DatastoreUnread(y, o)
<1> DEFINE engine == P!findHealthProbe(x.entity)
           name == x.entity.name
           report(z) == P!DatastoreReport(name, P!CollectSignals(engine, z))
<1>1. /\ engine \in {"postgres", "redis", "opensearch", "neo4j", "none"}
      /\ engine = "postgres" => PostgresNotBetter(x.asked, y.asked)
      /\ engine = "redis" => RedisNotBetter(x.asked, y.asked)
      /\ engine = "opensearch" => OpensearchNotBetter(x.asked, y.asked)
      /\ engine = "neo4j" => Neo4jNotBetter(x.asked, y.asked)
      /\ x.entity = y.entity
  BY DEF DatastoreNotBetter
<1>2. /\ P!DatastoreProbeEntity(x.entity, x.asked) = IF engine = "none" THEN {} ELSE report(x.asked)
      /\ P!DatastoreProbeEntity(y.entity, y.asked) = IF engine = "none" THEN {} ELSE report(y.asked)
  BY <1>1 DEF P!DatastoreProbeEntity
<1>3. /\ engine = "postgres" => (PostgresUnread(y.asked, o) => DatastoreUnread(y, o))
      /\ engine = "redis" => (RedisUnread(y.asked, o) => DatastoreUnread(y, o))
      /\ engine = "opensearch" => (OpensearchUnread(y.asked, o) => DatastoreUnread(y, o))
  BY <1>1 DEF DatastoreUnread
<1> HIDE DEF engine, name
<1>4. \A z : /\ engine = "postgres" => P!CollectSignals(engine, z) = P!PostgresSignals(z)
             /\ engine = "redis" => P!CollectSignals(engine, z) = P!RedisSignals(z)
             /\ engine = "opensearch" => P!CollectSignals(engine, z) = P!OpensearchSignals(z)
             /\ engine = "neo4j" => P!CollectSignals(engine, z) = P!Neo4jSignals(z)
  BY DEF P!CollectSignals
<1>5. engine # "none" /\ o \in report(x.asked)
  BY <1>2
<1>6. CASE engine = "postgres"
  <2>1. o \in P!DatastoreReport(name, P!PostgresSignals(x.asked))
    BY <1>4, <1>5, <1>6
  <2>2. \/ Told("datastore", o, P!DatastoreReport(name, P!PostgresSignals(y.asked)))
        \/ PostgresUnread(y.asked, o)
    BY <1>1, <1>6, <2>1, PostgresTells
  <2> QED
    BY <1>2, <1>3, <1>4, <1>5, <1>6, <2>2
<1>7. CASE engine = "redis"
  <2>1. o \in P!DatastoreReport(name, P!RedisSignals(x.asked))
    BY <1>4, <1>5, <1>7
  <2>2. \/ Told("datastore", o, P!DatastoreReport(name, P!RedisSignals(y.asked)))
        \/ RedisUnread(y.asked, o)
    BY <1>1, <1>7, <2>1, RedisTells
  <2> QED
    BY <1>2, <1>3, <1>4, <1>5, <1>7, <2>2
<1>8. CASE engine = "opensearch"
  <2>1. o \in P!DatastoreReport(name, P!OpensearchSignals(x.asked))
    BY <1>4, <1>5, <1>8
  <2>2. \/ Told("datastore", o, P!DatastoreReport(name, P!OpensearchSignals(y.asked)))
        \/ OpensearchUnread(y.asked, o)
    BY <1>1, <1>8, <2>1, OpensearchTells
  <2> QED
    BY <1>2, <1>3, <1>4, <1>5, <1>8, <2>2
<1>9. CASE engine = "neo4j"
  <2>1. o \in P!DatastoreReport(name, P!Neo4jSignals(x.asked))
    BY <1>4, <1>5, <1>9
  <2>2. Told("datastore", o, P!DatastoreReport(name, P!Neo4jSignals(y.asked)))
    BY <1>1, <1>9, <2>1, Neo4jTells
  <2> QED
    BY <1>2, <1>4, <1>5, <1>9, <2>2
<1> QED
  BY <1>1, <1>5, <1>6, <1>7, <1>8, <1>9

(* The sample that the attributes give. *)
LEMMA AttributesGive ==
  ASSUME NEW pairs \in Seq([used : Int, total : Int])
  PROVE  LET sample == P!readCapacityFromAttributes(pairs)
         IN  \/ sample = P!NoSample
             \/ sample.used \in Int /\ sample.total \in Int /\ sample.total > 0 /\ sample.used >= 0
<1> DEFINE measured == {i \in DOMAIN pairs : P!Measured(pairs[i])}
           first == CHOOSE i \in measured : \A j \in measured : i <= j
<1>1. P!readCapacityFromAttributes(pairs) = IF measured = {} THEN P!NoSample ELSE pairs[first]
  BY DEF P!readCapacityFromAttributes
<1>2. CASE measured = {}
  BY <1>1, <1>2
<1>3. CASE measured # {}
  <2>1. first \in measured
    <3>1. measured \subseteq Nat
      OBVIOUS
    <3> HIDE DEF measured
    <3>2. \E i \in measured : \A j \in measured : i <= j
      BY <1>3, <3>1, LeastNat
    <3> QED
      BY <3>2
  <2> HIDE DEF first
  <2>2. P!Measured(pairs[first]) /\ pairs[first] \in [used : Int, total : Int]
    <3> DEFINE Pair == [used : Int, total : Int]
    <3>1. pairs \in Seq(Pair)
      OBVIOUS
    <3> HIDE DEF Pair
    <3>2. \A i \in DOMAIN pairs : pairs[i] \in Pair
      BY <3>1
    <3>3. first \in DOMAIN pairs /\ P!Measured(pairs[first])
      BY <2>1
    <3> QED
      BY <3>2, <3>3 DEF Pair
  <2>3. P!readCapacityFromAttributes(pairs) = pairs[first]
    BY <1>1, <1>3
  <2> QED
    BY <2>2, <2>3 DEF P!Measured
<1> QED
  BY <1>2, <1>3

(* More is used of as much, and what came in came in on top of less. *)
LEMMA CapacityReportTells ==
  ASSUME NEW resource, NEW s, NEW t, NEW p, NEW q, NEW days \in Int,
         s.total \in Int, s.total > 0, t.total = s.total,
         s.used \in Int, t.used \in Int, 0 <= s.used, s.used <= t.used,
         NEW o \in P!CapacityReport(resource, p, s, days),
         o.pattern = "capacity_growth" =>
           /\ p.total \in Int /\ q.total = p.total
           /\ p.used \in Int /\ q.used \in Int /\ 0 <= q.used /\ q.used <= p.used
  PROVE  Told("capacity", o, P!CapacityReport(resource, q, t, days))
<1> DEFINE critical == P!Obs("capacity_critical", resource, "P0")
           warning == P!Obs("capacity_warning", resource, "P1")
           growth == P!Obs("capacity_growth", resource, "P1")
           full(z) == P!AtLeast(z.used, z.total, P!CriticalPercent)
           near(z) == P!AtLeast(z.used, z.total, P!WarnPercent)
           grows(r, z) == P!FullWithin(P!GrowthWindow, r, z, days)
           report(r, z) == IF full(z) THEN {critical} ELSE IF near(z) THEN {warning}
                           ELSE IF grows(r, z) THEN {growth} ELSE {}
<1>1. s # P!NoSample /\ t # P!NoSample
  <2>1. P!NoSample.total = -1
    BY DEF P!NoSample
  <2> QED
    BY <2>1
<1>2. /\ P!CapacityReport(resource, p, s, days) = report(p, s)
      /\ P!CapacityReport(resource, q, t, days) = report(q, t)
  BY <1>1 DEF P!CapacityReport
<1>3. /\ critical.severity = "P0" /\ warning.severity = "P1" /\ growth.severity = "P1"
      /\ \A r \in {critical, warning, growth} : r.resource = resource
      /\ growth.pattern = "capacity_growth"
  BY RanksAre
<1>4. /\ full(s) => full(t)
      /\ near(s) => near(t)
  BY PercentsAre DEF P!AtLeast
<1>5. o.pattern = "capacity_growth" /\ grows(p, s) => grows(q, t) \/ full(t)
  <2> HAVE o.pattern = "capacity_growth" /\ grows(p, s)
  <2> DEFINE came == s.used - p.used
             comes == t.used - q.used
             free == s.total - s.used
             left == t.total - t.used
  <2>1. p.total > 0 /\ p.used >= 0 /\ days > 0 /\ came > 0 /\ free > 0 /\ free * days <= 7 * came
    BY PercentsAre DEF P!FullWithin, P!Measured
  <2>2. came \in Int /\ comes \in Int /\ free \in Int /\ left \in Int /\ came <= comes /\ left <= free
    OBVIOUS
  <2>3. CASE left > 0
    <3> HIDE DEF came, comes, free, left
    <3>1. left * days <= free * days
      BY <2>1, <2>2, <2>3
    <3>2. left * days \in Int /\ free * days \in Int
      BY <2>2
    <3>3. left * days <= 7 * comes
      BY <2>1, <2>2, <3>1, <3>2
    <3>4. q.used < t.used /\ t.used < t.total
      BY <2>1, <2>2, <2>3 DEF comes, left
    <3>5. grows(q, t)
      BY <2>1, <3>3, <3>4, PercentsAre DEF P!FullWithin, P!Measured, comes, left
    <3> QED
      BY <3>5
  <2>4. CASE ~(left > 0)
    <3>1. t.used >= t.total
      BY <2>4
    <3> QED
      BY <3>1, PercentsAre DEF P!AtLeast
  <2> QED
    BY <2>3, <2>4
<1> HIDE DEF critical, warning, growth, full, near, grows
<1>6. \E r \in report(q, t) : r.resource = o.resource /\ P!Rank[o.severity] <= P!Rank[r.severity]
  <2>1. CASE full(t)
    BY <1>2, <1>3, <2>1, RanksAre
  <2>2. CASE ~full(t) /\ near(t)
    BY <1>2, <1>3, <1>4, <2>2, RanksAre
  <2>3. CASE ~full(t) /\ ~near(t)
    <3>1. o = growth /\ grows(p, s)
      BY <1>2, <1>4, <2>3
    <3> QED
      BY <1>3, <1>5, <2>3, <3>1, RanksAre
  <2> QED
    BY <2>1, <2>2, <2>3
<1> QED
  BY <1>2, <1>6, SaidIsTold

LEMMA CapacityTells ==
  ASSUME NEW x, NEW y, CapacityNotBetter(x, y),
         NEW o \in P!CapacityProbeEntity(x.entity, x.host, x.pairs, x.prev, x.days),
         ~CapacityUnread(y, o)
  PROVE  Told("capacity", o, P!CapacityProbeEntity(y.entity, y.host, y.pairs, y.prev, y.days))
<1> DEFINE resource == <<x.entity.kind, x.entity.name>>
           days == x.days
           p == x.prev
           q == y.prev
           asked(host) == P!HostSample(x.entity, host)
           kept == P!readCapacityFromAttributes(x.pairs)
           sample(host) == IF asked(host) # P!NoSample THEN asked(host) ELSE kept
           s == sample(x.host)
           t == sample(y.host)
<1>1. /\ x.entity = y.entity /\ x.pairs = y.pairs /\ y.days = days /\ days \in Int
      /\ x.host.read /\ y.host.read /\ x.host.line.columns = y.host.line.columns
      /\ y.host.line.total = x.host.line.total /\ x.host.line.total \in Int
      /\ x.host.line.used \in Int /\ y.host.line.used \in Int
      /\ 0 <= x.host.line.used /\ x.host.line.used <= y.host.line.used
      /\ x.pairs \in Seq([used : Int, total : Int])
  BY DEF CapacityNotBetter, CapacityUnread, Same, AtMost
<1>2. o.pattern = "capacity_growth" =>
        /\ p.total \in Int /\ q.total = p.total
        /\ p.used \in Int /\ q.used \in Int /\ 0 <= q.used /\ q.used <= p.used
  BY DEF CapacityNotBetter, CapacityUnread, Same, AtMost
<1>3. /\ P!collectSample(x.entity, x.host, x.pairs) = s
      /\ P!collectSample(y.entity, y.host, y.pairs) = t
  BY <1>1 DEF P!collectSample
<1>4. /\ x.entity.kind \in P!CapacityKinds
      /\ o \in P!CapacityReport(resource, p, s, days)
      /\ P!CapacityProbeEntity(y.entity, y.host, y.pairs, y.prev, y.days)
           = P!CapacityReport(resource, q, t, days)
  <2> HIDE DEF s, t
  <2> QED
    BY <1>1, <1>3 DEF P!CapacityProbeEntity
<1>5. ASSUME NEW columns \in {3, 5}
      PROVE  \/ /\ P!ParseLine(x.host.line, columns) = P!NoSample
                /\ P!ParseLine(y.host.line, columns) = P!NoSample
             \/ /\ P!ParseLine(x.host.line, columns) = [used |-> x.host.line.used, total |-> x.host.line.total]
                /\ P!ParseLine(y.host.line, columns) = [used |-> y.host.line.used, total |-> x.host.line.total]
                /\ x.host.line.total > 0
  BY <1>1 DEF P!ParseLine
<1>6. \/ asked(x.host) = P!NoSample /\ asked(y.host) = P!NoSample
      \/ /\ asked(x.host) = [used |-> x.host.line.used, total |-> x.host.line.total]
         /\ asked(y.host) = [used |-> y.host.line.used, total |-> x.host.line.total]
         /\ x.host.line.total > 0
  BY <1>1, <1>5 DEF P!HostSample
<1> HIDE DEF asked
<1>7. \/ s = kept /\ t = kept
      \/ /\ s = [used |-> x.host.line.used, total |-> x.host.line.total]
         /\ t = [used |-> y.host.line.used, total |-> x.host.line.total]
         /\ x.host.line.total > 0
  <2>1. P!NoSample.total = -1
    BY DEF P!NoSample
  <2> QED
    BY <1>1, <1>6, <2>1
<1>8. kept = P!NoSample \/ (kept.used \in Int /\ kept.total \in Int /\ kept.total > 0 /\ kept.used >= 0)
  BY <1>1, AttributesGive
<1>9. days \in Int
  BY <1>1
<1> HIDE DEF sample, kept, s, t, p, q, days, resource
<1>10. s # P!NoSample
  BY <1>4 DEF P!CapacityReport
<1>11. /\ s.total \in Int /\ s.total > 0 /\ t.total = s.total
       /\ s.used \in Int /\ t.used \in Int /\ 0 <= s.used /\ s.used <= t.used
  <2>1. CASE s = kept /\ t = kept
    BY <1>8, <1>10, <2>1
  <2>2. CASE ~(s = kept /\ t = kept)
    BY <1>1, <1>7, <2>2
  <2> QED
    BY <2>1, <2>2
<1>12. Told("capacity", o, P!CapacityReport(resource, q, t, days))
  BY <1>2, <1>4, <1>9, <1>11, CapacityReportTells
<1> QED
  BY <1>4, <1>12

LEMMA HostProbesTell ==
  ASSUME NEW probe \in HostProbes, NEW x, NEW y, HostNotBetter(probe, x, y), NEW o \in HostReport(probe, x)
  PROVE  Told(probe, o, HostReport(probe, y)) \/ HostUnread(probe, y, o)
<1>1. CASE probe = "datastore"
  BY <1>1, DatastoreTells DEF HostNotBetter, HostReport, HostUnread
<1>2. CASE probe = "capacity"
  BY <1>2, CapacityTells DEF HostNotBetter, HostReport, HostUnread
<1>3. CASE probe = "heartbeat"
  BY <1>3, HeartbeatTells DEF HostNotBetter, HostReport
<1>4. CASE probe = "array"
  BY <1>4, ArrayTells DEF HostNotBetter, HostReport, HostUnread
<1>5. CASE probe = "pool"
  BY <1>5, PoolTells DEF HostNotBetter, HostReport, HostUnread
<1>6. CASE probe = "zfs"
  BY <1>6, ZfsTells DEF HostNotBetter, HostReport, HostUnread
<1>7. CASE probe = "smart"
  BY <1>7, SmartTells DEF HostNotBetter, HostReport, HostUnread
<1>8. CASE probe = "proxmox"
  BY <1>8, ProxmoxTells DEF HostNotBetter, HostReport, HostUnread
<1> QED
  BY <1>1, <1>2, <1>3, <1>4, <1>5, <1>6, <1>7, <1>8 DEF HostProbes

LEMMA ServiceProbesTell ==
  ASSUME NEW probe \in ServiceProbes, NEW x, NEW y, ServiceNotBetter(probe, x, y),
         NEW o \in ServiceReport(probe, x)
  PROVE  Told(probe, o, ServiceReport(probe, y)) \/ ServiceUnread(probe, y, o)
<1>1. CASE probe = "swarm"
  BY <1>1, SwarmTells DEF ServiceNotBetter, ServiceReport, ServiceUnread
<1>2. CASE probe = "docker"
  BY <1>2, DockerTells DEF ServiceNotBetter, ServiceReport, ServiceUnread
<1>3. CASE probe = "k8s"
  BY <1>3, K8sTells DEF ServiceNotBetter, ServiceReport, ServiceUnread
<1>4. CASE probe = "unifi"
  BY <1>4, UnifiTells DEF ServiceNotBetter, ServiceReport, ServiceUnread
<1>5. CASE probe = "cert"
  BY <1>5, CertTells DEF ServiceNotBetter, ServiceReport, ServiceUnread
<1>6. CASE probe = "overdue"
  BY <1>6, OverdueTells DEF ServiceNotBetter, ServiceReport, ServiceUnread
<1>7. CASE probe = "alert"
  BY <1>7, AlertsTell DEF ServiceNotBetter, ServiceReport, ServiceUnread
<1> QED
  BY <1>1, <1>2, <1>3, <1>4, <1>5, <1>6, <1>7 DEF ServiceProbes

-------------------------------------------------------------------------------
(* The health score. *)

LEMMA DivisionIs ==
  ASSUME NEW a \in Nat, NEW d \in Nat, d > 0
  PROVE  a \div d \in Nat /\ d * (a \div d) <= a /\ a < d * (a \div d) + d
  OBVIOUS

LEMMA DivisionIsMonotone ==
  ASSUME NEW a \in Nat, NEW b \in Nat, a <= b, NEW d \in Nat, NEW e \in Nat, e > 0, e <= d
  PROVE  a \div d <= b \div e
<1> DEFINE m == a \div d
           n == b \div e
<1>1. m \in Nat /\ d * m <= a
  BY DivisionIs
<1>2. n \in Nat /\ b < e * n + e
  BY DivisionIs
<1> HIDE DEF m, n
<1>3. ASSUME n < m PROVE FALSE
  <2>1. n + 1 <= m /\ n + 1 \in Nat
    BY <1>1, <1>2, <1>3
  <2>2. e * (n + 1) <= e * m
    BY <1>1, <2>1
  <2>3. e * m <= d * m
    BY <1>1
  <2>4. e * (n + 1) = e * n + e
    BY <1>2
  <2> QED
    BY <1>1, <1>2, <2>2, <2>3, <2>4
<1> QED
  BY <1>1, <1>2, <1>3 DEF m, n

(* `p` gives the powers of two up to the n-th. *)
Powers(p, n) == p = [i \in 0..n |-> IF i = 0 THEN 1 ELSE 2 * p[i - 1]]

LEMMA PowersAre ==
  ASSUME NEW n \in Nat, NEW p, Powers(p, n)
  PROVE  p[0] = 1 /\ \A i \in 1..n : p[i] = 2 * p[i - 1]
<1> DEFINE next(i) == 2 * p[i - 1]
<1>1. p = [i \in 0..n |-> IF i = 0 THEN 1 ELSE next(i)]
  BY DEF Powers
<1> HIDE DEF next
<1>2. p[0] = 1
  BY <1>1
<1>3. \A i \in 1..n : p[i] = next(i)
  <2> TAKE i \in 1..n
  <2>1. i \in 0..n /\ i # 0
    OBVIOUS
  <2> QED
    BY <1>1, <2>1
<1> QED
  BY <1>2, <1>3 DEF next

LEMMA PowersExist ==
  ASSUME NEW n \in Nat
  PROVE  \E p : Powers(p, n)
<1> DEFINE Open == {m \in Nat : ~\E p : Powers(p, m)}
<1>1. ASSUME Open # {} PROVE FALSE
  <2>1. PICK m \in Open : \A k \in Open : m <= k
    <3> HIDE DEF Open
    <3>1. Open \subseteq Nat
      BY DEF Open
    <3> QED
      BY <1>1, <3>1, LeastNat
  <2>2. CASE m = 0
    <3> DEFINE p == [i \in 0..0 |-> 1]
               next(i) == 2 * p[i - 1]
    <3>1. p = [i \in 0..0 |-> IF i = 0 THEN 1 ELSE next(i)]
      <4> HIDE DEF next
      <4> QED
        OBVIOUS
    <3>2. Powers(p, 0)
      BY <3>1 DEF Powers
    <3> QED
      BY <2>1, <2>2, <3>2
  <2>3. CASE m # 0
    <3>1. m - 1 \in Nat /\ m - 1 \notin Open
      BY <2>1, <2>3
    <3>2. PICK p : Powers(p, m - 1)
      BY <3>1
    <3> DEFINE last == 2 * p[m - 1]
               q == [i \in 0..m |-> IF i < m THEN p[i] ELSE last]
               next(i) == 2 * q[i - 1]
    <3>3. p[0] = 1 /\ \A i \in 1..m - 1 : p[i] = 2 * p[i - 1]
      <4> HIDE DEF last, q, next, Open
      <4>1. m - 1 \in Nat
        BY <3>1
      <4> QED
        BY <3>2, <4>1, PowersAre
    <3>4. ASSUME NEW i \in 0..m PROVE q[i] = IF i = 0 THEN 1 ELSE next(i)
      <4>1. CASE i = 0
        <5> HIDE DEF last
        <5> QED
          BY <3>1, <3>3, <4>1
      <4>2. CASE i \in 1..m - 1
        <5>1. q[i] = p[i] /\ q[i - 1] = p[i - 1] /\ i # 0
          <6> HIDE DEF last
          <6> QED
            BY <3>1, <4>2
        <5>2. p[i] = 2 * p[i - 1]
          BY <3>3, <4>2
        <5> HIDE DEF q
        <5> QED
          BY <5>1, <5>2
      <4>3. CASE i = m
        <5>1. q[i] = last /\ q[i - 1] = p[m - 1] /\ i # 0
          <6> HIDE DEF last
          <6> QED
            BY <3>1, <2>3, <4>3
        <5> HIDE DEF q
        <5> QED
          BY <5>1, <4>3
      <4> QED
        BY <3>1, <4>1, <4>2, <4>3
    <3>5. q = [i \in 0..m |-> IF i = 0 THEN 1 ELSE next(i)]
      <4>1. q = [i \in 0..m |-> q[i]]
        <5> HIDE DEF last
        <5> QED
          OBVIOUS
      <4> HIDE DEF q, next
      <4> QED
        BY <3>4, <4>1
    <3>6. Powers(q, m)
      <4> HIDE DEF q
      <4> QED
        BY <3>5 DEF Powers
    <3> QED
      BY <2>1, <3>6
  <2> QED
    BY <2>2, <2>3
<1> QED
  BY <1>1

LEMMA PowersAgree ==
  ASSUME NEW n \in Nat, NEW k \in Nat, NEW p, NEW q, Powers(p, n), Powers(q, k),
         NEW i \in Nat, i <= n, i <= k
  PROVE  p[i] = q[i]
<1> DEFINE Open == {m \in Nat : m <= n /\ m <= k /\ p[m] # q[m]}
<1>1. p[0] = 1 /\ \A m \in 1..n : p[m] = 2 * p[m - 1]
  BY PowersAre
<1>2. q[0] = 1 /\ \A m \in 1..k : q[m] = 2 * q[m - 1]
  BY PowersAre
<1>3. ASSUME Open # {} PROVE FALSE
  <2>1. PICK m \in Open : \A l \in Open : m <= l
    <3> HIDE DEF Open
    <3>1. Open \subseteq Nat
      BY DEF Open
    <3> QED
      BY <1>3, <3>1, LeastNat
  <2>2. m # 0
    BY <1>1, <1>2, <2>1
  <2>3. m \in 1..n /\ m \in 1..k /\ m - 1 \in Nat /\ m - 1 \notin Open
    BY <2>1, <2>2
  <2>4. p[m - 1] = q[m - 1]
    BY <2>3
  <2>5. p[m] = 2 * p[m - 1] /\ q[m] = 2 * q[m - 1]
    BY <1>1, <1>2, <2>3
  <2> QED
    BY <2>1, <2>4, <2>5
<1> QED
  BY <1>3

LEMMA PowerOfTwoIs ==
  /\ O!PowerOfTwo[0] = 1
  /\ \A n \in Nat \ {0} : O!PowerOfTwo[n] = 2 * O!PowerOfTwo[n - 1]
<1> DEFINE Rule(f) == f = [n \in Nat |-> IF n = 0 THEN 1 ELSE 2 * f[n - 1]]
           of(n) == CHOOSE p : Powers(p, n)
           f == [n \in Nat |-> of(n)[n]]
           next(n) == 2 * f[n - 1]
<1>1. \A n \in Nat : Powers(of(n), n)
  BY PowersExist
<1> HIDE DEF of
<1>2. ASSUME NEW n \in Nat PROVE f[n] = IF n = 0 THEN 1 ELSE next(n)
  <2>1. Powers(of(n), n)
    BY <1>1
  <2>2. of(n)[0] = 1 /\ \A i \in 1..n : of(n)[i] = 2 * of(n)[i - 1]
    BY <2>1, PowersAre
  <2>3. CASE n = 0
    BY <2>2, <2>3
  <2>4. CASE n # 0
    <3>1. n - 1 \in Nat /\ n - 1 <= n /\ n \in 1..n
      BY <2>4
    <3>2. Powers(of(n - 1), n - 1)
      BY <1>1, <3>1
    <3>3. of(n)[n - 1] = of(n - 1)[n - 1]
      <4> DEFINE k == n - 1
                 p == of(n)
                 q == of(k)
      <4>1. k \in Nat /\ k <= n /\ k <= k /\ Powers(p, n) /\ Powers(q, k)
        BY <2>1, <3>1, <3>2
      <4> HIDE DEF k, p, q
      <4>2. p[k] = q[k]
        BY <4>1, PowersAgree
      <4> QED
        BY <4>2 DEF k, p, q
    <3>4. f[n] = of(n)[n] /\ f[n - 1] = of(n - 1)[n - 1]
      BY <3>1
    <3>5. of(n)[n] = 2 * of(n)[n - 1]
      BY <2>2, <3>1
    <3> HIDE DEF f
    <3> QED
      BY <2>4, <3>3, <3>4, <3>5
  <2> QED
    BY <2>3, <2>4
<1>3. f = [n \in Nat |-> IF n = 0 THEN 1 ELSE next(n)]
  <2>1. f = [n \in Nat |-> f[n]]
    OBVIOUS
  <2> HIDE DEF f, next
  <2> QED
    BY <1>2, <2>1
<1>4. Rule(f)
  <2> HIDE DEF f
  <2> QED
    BY <1>3
<1>5. O!PowerOfTwo = CHOOSE g : Rule(g)
  BY DEF O!PowerOfTwo
<1> DEFINE pow == O!PowerOfTwo
           again(n) == 2 * pow[n - 1]
<1>6. Rule(pow)
  <2> HIDE DEF f, Rule
  <2> QED
    BY <1>4, <1>5
<1>7. pow = [n \in Nat |-> IF n = 0 THEN 1 ELSE again(n)]
  <2> HIDE DEF pow
  <2> QED
    BY <1>6
<1> HIDE DEF pow, again
<1>8. pow[0] = 1 /\ \A n \in Nat \ {0} : pow[n] = again(n)
  BY <1>7
<1> QED
  BY <1>8 DEF pow, again

LEMMA PowersGrow ==
  /\ \A n \in Nat : O!PowerOfTwo[n] \in Nat /\ O!PowerOfTwo[n] > 0
  /\ \A m, n \in Nat : m <= n => O!PowerOfTwo[m] <= O!PowerOfTwo[n]
<1> DEFINE pow == O!PowerOfTwo
<1>1. pow[0] = 1 /\ \A n \in Nat \ {0} : pow[n] = 2 * pow[n - 1]
  BY PowerOfTwoIs
<1> HIDE DEF pow
<1>2. \A n \in Nat : pow[n] \in Nat /\ pow[n] > 0
  <2> DEFINE Bad == {n \in Nat : ~(pow[n] \in Nat /\ pow[n] > 0)}
  <2>1. ASSUME Bad # {} PROVE FALSE
    <3>1. PICK m \in Bad : \A k \in Bad : m <= k
      <4> HIDE DEF Bad
      <4>1. Bad \subseteq Nat
        BY DEF Bad
      <4> QED
        BY <2>1, <4>1, LeastNat
    <3>2. m # 0
      BY <1>1, <3>1
    <3>3. m - 1 \in Nat /\ m - 1 \notin Bad
      BY <3>1, <3>2
    <3>4. pow[m - 1] \in Nat /\ pow[m - 1] > 0 /\ pow[m] = 2 * pow[m - 1]
      BY <1>1, <3>1, <3>2, <3>3
    <3> QED
      BY <3>1, <3>4
  <2> QED
    BY <2>1
<1>3. ASSUME NEW m \in Nat, NEW n \in Nat, m <= n PROVE pow[m] <= pow[n]
  <2> DEFINE Bad == {k \in Nat : m <= k /\ ~(pow[m] <= pow[k])}
  <2>1. ASSUME Bad # {} PROVE FALSE
    <3>1. PICK k \in Bad : \A j \in Bad : k <= j
      <4> HIDE DEF Bad
      <4>1. Bad \subseteq Nat
        BY DEF Bad
      <4> QED
        BY <2>1, <4>1, LeastNat
    <3>2. k # m
      BY <1>2, <3>1
    <3>3. k - 1 \in Nat /\ k # 0 /\ m <= k - 1 /\ k - 1 \notin Bad
      BY <3>1, <3>2
    <3>4. pow[m] <= pow[k - 1] /\ pow[k] = 2 * pow[k - 1] /\ pow[k - 1] \in Nat /\ pow[m] \in Nat
      BY <1>1, <1>2, <3>3
    <3> QED
      BY <3>1, <3>4
  <2> QED
    BY <1>3, <2>1
<1> QED
  BY <1>2, <1>3 DEF pow

LEMMA WeightsAre ==
  /\ O!Quarter = 4 /\ O!PenaltyCap = 70 /\ O!ReplicaWeight = 40 /\ O!DefaultWindow = 24
  /\ O!SeverityWeight["P0"] = 40 /\ O!SeverityWeight["P1"] = 20 /\ O!SeverityWeight["P2"] = 10
  /\ P!Rank["P0"] = 3 /\ P!Rank["P1"] = 2 /\ P!Rank["P2"] = 1
  /\ DOMAIN P!Rank = {"P0", "P1", "P2"}
  BY DEF O!Quarter, O!PenaltyCap, O!ReplicaWeight, O!DefaultWindow, O!SeverityWeight, P!Rank

(* A worse or a younger observation counts no less. *)
LEMMA PenaltyIsMonotone ==
  ASSUME NEW o, NEW u, ObservedNotBetter(o, u), NEW window \in Nat, window > 0
  PROVE  /\ O!ObservationPenalty(o, window) \in Nat /\ O!ObservationPenalty(u, window) \in Nat
         /\ O!ObservationPenalty(o, window) <= O!ObservationPenalty(u, window)
<1> DEFINE a == O!Quarter * O!SeverityWeight[o.severity]
           b == O!Quarter * O!SeverityWeight[u.severity]
           i == o.age \div window
           j == u.age \div window
           d == O!PowerOfTwo[i]
           e == O!PowerOfTwo[j]
<1>1. {o.severity, u.severity} \subseteq {"P0", "P1", "P2"} /\ P!Rank[o.severity] <= P!Rank[u.severity]
  BY WeightsAre DEF ObservedNotBetter
<1>2. a \in Nat /\ b \in Nat /\ a <= b
  BY <1>1, WeightsAre
<1>3. i \in Nat /\ j \in Nat /\ j <= i
  <2>1. o.age \in Nat /\ u.age \in Nat /\ u.age <= o.age
    BY DEF ObservedNotBetter
  <2> DEFINE m == o.age
             n == u.age
  <2>2. m \in Nat /\ n \in Nat /\ n <= m
    BY <2>1
  <2> HIDE DEF m, n
  <2>3. n \div window <= m \div window
    BY <2>2, DivisionIsMonotone
  <2>4. m \div window \in Nat /\ n \div window \in Nat
    BY <2>2, DivisionIs
  <2> QED
    BY <2>3, <2>4 DEF m, n
<1> HIDE DEF i, j
<1>4. d \in Nat /\ e \in Nat /\ e > 0 /\ d > 0 /\ e <= d
  BY <1>3, PowersGrow
<1> HIDE DEF a, b, d, e
<1>5. a \div d <= b \div e
  BY <1>2, <1>4, DivisionIsMonotone
<1>6. a \div d \in Nat /\ b \div e \in Nat
  BY <1>2, <1>4, DivisionIs
<1> QED
  BY <1>5, <1>6 DEF O!ObservationPenalty, a, b, d, e, i, j

(* What the i-th observation adds. *)
Adds(observations, of, window, i) ==
  IF i \in of THEN O!ObservationPenalty(observations[i], window) ELSE 0

(* `s` gives the sums of the first n penalties. *)
Sums(s, observations, of, window, n) ==
  s = [i \in 0..n |-> IF i = 0 THEN 0
                      ELSE s[i - 1] + IF i \in of THEN O!ObservationPenalty(observations[i], window) ELSE 0]

LEMMA SumsAre ==
  ASSUME NEW observations, NEW of, NEW window, NEW n \in Nat, NEW s, Sums(s, observations, of, window, n)
  PROVE  s[0] = 0 /\ \A i \in 1..n : s[i] = s[i - 1] + Adds(observations, of, window, i)
<1> DEFINE next(i) == s[i - 1] + Adds(observations, of, window, i)
<1>1. s = [i \in 0..n |-> IF i = 0 THEN 0 ELSE next(i)]
  BY DEF Sums, Adds
<1> HIDE DEF next
<1>2. s[0] = 0
  BY <1>1
<1>3. \A i \in 1..n : s[i] = next(i)
  <2> TAKE i \in 1..n
  <2>1. i \in 0..n /\ i # 0
    OBVIOUS
  <2> QED
    BY <1>1, <2>1
<1> QED
  BY <1>2, <1>3 DEF next

LEMMA SumsExist ==
  ASSUME NEW observations, NEW of, NEW window, NEW n \in Nat
  PROVE  \E s : Sums(s, observations, of, window, n)
<1> DEFINE Open == {m \in Nat : ~\E s : Sums(s, observations, of, window, m)}
           adds(i) == Adds(observations, of, window, i)
<1>1. ASSUME Open # {} PROVE FALSE
  <2>1. PICK m \in Open : \A k \in Open : m <= k
    <3> HIDE DEF Open
    <3>1. Open \subseteq Nat
      BY DEF Open
    <3> QED
      BY <1>1, <3>1, LeastNat
  <2>2. CASE m = 0
    <3> DEFINE s == [i \in 0..0 |-> 0]
               next(i) == s[i - 1] + adds(i)
    <3>1. s = [i \in 0..0 |-> IF i = 0 THEN 0 ELSE next(i)]
      <4> HIDE DEF next
      <4> QED
        OBVIOUS
    <3>2. Sums(s, observations, of, window, 0)
      BY <3>1 DEF Sums, Adds
    <3> QED
      BY <2>1, <2>2, <3>2
  <2>3. CASE m # 0
    <3>1. m - 1 \in Nat /\ m - 1 \notin Open
      BY <2>1, <2>3
    <3>2. PICK s : Sums(s, observations, of, window, m - 1)
      BY <3>1
    <3> DEFINE last == s[m - 1] + adds(m)
               t == [i \in 0..m |-> IF i < m THEN s[i] ELSE last]
               next(i) == t[i - 1] + adds(i)
    <3>3. s[0] = 0 /\ \A i \in 1..m - 1 : s[i] = s[i - 1] + adds(i)
      <4> HIDE DEF last, t, next, Open
      <4>1. m - 1 \in Nat
        BY <3>1
      <4> QED
        BY <3>2, <4>1, SumsAre
    <3> HIDE DEF adds
    <3>4. ASSUME NEW i \in 0..m PROVE t[i] = IF i = 0 THEN 0 ELSE next(i)
      <4>1. CASE i = 0
        <5> HIDE DEF last
        <5> QED
          BY <3>1, <3>3, <4>1
      <4>2. CASE i \in 1..m - 1
        <5>1. t[i] = s[i] /\ t[i - 1] = s[i - 1] /\ i # 0
          <6> HIDE DEF last
          <6> QED
            BY <3>1, <4>2
        <5>2. s[i] = s[i - 1] + adds(i)
          BY <3>3, <4>2
        <5> HIDE DEF t
        <5> QED
          BY <5>1, <5>2
      <4>3. CASE i = m
        <5>1. t[i] = last /\ t[i - 1] = s[m - 1] /\ i # 0
          <6> HIDE DEF last
          <6> QED
            BY <3>1, <2>3, <4>3
        <5> HIDE DEF t
        <5> QED
          BY <5>1, <4>3
      <4> QED
        BY <3>1, <4>1, <4>2, <4>3
    <3>5. t = [i \in 0..m |-> IF i = 0 THEN 0 ELSE next(i)]
      <4>1. t = [i \in 0..m |-> t[i]]
        <5> HIDE DEF last
        <5> QED
          OBVIOUS
      <4> HIDE DEF t, next
      <4> QED
        BY <3>4, <4>1
    <3>6. Sums(t, observations, of, window, m)
      <4> HIDE DEF t
      <4> QED
        BY <3>5 DEF Sums, Adds, adds
    <3> QED
      BY <2>1, <3>6
  <2> QED
    BY <2>2, <2>3
<1> QED
  BY <1>1

LEMMA PenaltiesAre ==
  ASSUME NEW observations, NEW of, NEW window, Len(observations) \in Nat
  PROVE  \E s : /\ Sums(s, observations, of, window, Len(observations))
                /\ O!Penalties(observations, of, window) = s[Len(observations)]
<1> DEFINE sum == CHOOSE s : Sums(s, observations, of, window, Len(observations))
<1>1. O!Penalties(observations, of, window) = sum[Len(observations)]
  BY DEF O!Penalties, Sums
<1>2. Sums(sum, observations, of, window, Len(observations))
  BY SumsExist
<1> QED
  BY <1>1, <1>2

LEMMA PenaltiesAreMonotone ==
  ASSUME NEW o, NEW u, NEW f, NEW g, NEW window, Len(o) \in Nat, Len(u) = Len(o),
         \A i \in 1..Len(o) : /\ Adds(o, f, window, i) \in Nat /\ Adds(u, g, window, i) \in Nat
                              /\ Adds(o, f, window, i) <= Adds(u, g, window, i)
  PROVE  /\ O!Penalties(o, f, window) \in Nat /\ O!Penalties(u, g, window) \in Nat
         /\ O!Penalties(o, f, window) <= O!Penalties(u, g, window)
<1> DEFINE n == Len(o)
           less(i) == Adds(o, f, window, i)
           more(i) == Adds(u, g, window, i)
<1>1. n \in Nat /\ Len(u) = n
  OBVIOUS
<1>2. \A i \in 1..n : less(i) \in Nat /\ more(i) \in Nat /\ less(i) <= more(i)
  OBVIOUS
<1>3. PICK s : Sums(s, o, f, window, n) /\ O!Penalties(o, f, window) = s[n]
  BY PenaltiesAre
<1>4. PICK t : Sums(t, u, g, window, n) /\ O!Penalties(u, g, window) = t[n]
  BY PenaltiesAre
<1> HIDE DEF n
<1>5. s[0] = 0 /\ \A i \in 1..n : s[i] = s[i - 1] + less(i)
  BY <1>1, <1>3, SumsAre
<1>6. t[0] = 0 /\ \A i \in 1..n : t[i] = t[i - 1] + more(i)
  BY <1>1, <1>4, SumsAre
<1> HIDE DEF less, more
<1> DEFINE Good(i) == s[i] \in Nat /\ t[i] \in Nat /\ s[i] <= t[i]
           Bad == {i \in 0..n : ~Good(i)}
<1>7. ASSUME Bad # {} PROVE FALSE
  <2>1. PICK m \in Bad : \A k \in Bad : m <= k
    <3>1. Bad \subseteq Nat
      BY <1>1
    <3> HIDE DEF Bad
    <3> QED
      BY <1>7, <3>1, LeastNat
  <2>2. m # 0
    BY <1>5, <1>6, <2>1
  <2>3. m \in 1..n /\ m - 1 \in 0..n /\ m - 1 \notin Bad
    BY <1>1, <2>1, <2>2
  <2>4. Good(m - 1)
    BY <2>3
  <2>5. s[m] = s[m - 1] + less(m) /\ t[m] = t[m - 1] + more(m)
    BY <1>5, <1>6, <2>3
  <2>6. Good(m)
    BY <1>2, <2>3, <2>4, <2>5
  <2> QED
    BY <2>1, <2>6
<1>8. Good(n)
  BY <1>1, <1>7
<1> QED
  BY <1>3, <1>4, <1>8

(* What more replicas take off, or all that they took when nobody knows. *)
Forgiven(r, q) == IF q.running = -1 \/ q.desired = -1 THEN O!ReplicaPenalty(r) ELSE 0

LEMMA ReplicasAre ==
  ASSUME NEW r, r.desired \in Int, r.running \in Int
  PROVE  O!ReplicaPenalty(r) \in Nat
<1> DEFINE d == r.desired
           a == r.running
           all == O!Quarter * O!ReplicaWeight * (d - a)
<1>1. O!ReplicaPenalty(r) = IF d <= 0 \/ a = -1 \/ a >= d THEN 0 ELSE all \div d
  BY DEF O!ReplicaPenalty
<1>2. d > a => all \in Nat
  BY WeightsAre
<1> HIDE DEF all
<1>3. CASE d <= 0 \/ a = -1 \/ a >= d
  BY <1>1, <1>3
<1>4. CASE ~(d <= 0 \/ a = -1 \/ a >= d)
  <2>1. d \in Nat /\ d > 0 /\ all \in Nat
    BY <1>2, <1>4
  <2> QED
    BY <1>1, <1>4, <2>1, DivisionIs
<1> QED
  BY <1>3, <1>4

LEMMA ReplicasAreMonotone ==
  ASSUME NEW r, NEW q, r.desired \in Int, r.running \in Int,
         \/ q.running = -1 \/ q.desired = -1
         \/ Same(r.desired, q.desired) /\ AtMost(0, q.running) /\ AtMost(q.running, r.running)
  PROVE  /\ O!ReplicaPenalty(r) \in Nat /\ O!ReplicaPenalty(q) \in Nat /\ Forgiven(r, q) \in Nat
         /\ O!ReplicaPenalty(r) <= O!ReplicaPenalty(q) + Forgiven(r, q)
<1> DEFINE d == r.desired
           a == r.running
           b == q.running
           less == O!Quarter * O!ReplicaWeight * (d - a)
           more == O!Quarter * O!ReplicaWeight * (d - b)
<1>0. O!ReplicaPenalty(r) \in Nat
  BY ReplicasAre
<1>1. CASE q.running = -1 \/ q.desired = -1
  <2>1. O!ReplicaPenalty(q) = 0
    BY <1>1 DEF O!ReplicaPenalty
  <2> QED
    BY <1>0, <1>1, <2>1 DEF Forgiven
<1>2. CASE ~(q.running = -1 \/ q.desired = -1)
  <2>1. d \in Int /\ q.desired = d /\ a \in Int /\ b \in Int /\ 0 <= b /\ b <= a
    BY <1>2 DEF Same, AtMost
  <2>2. /\ O!ReplicaPenalty(r) = IF d <= 0 \/ a >= d THEN 0 ELSE less \div d
        /\ O!ReplicaPenalty(q) = IF d <= 0 \/ b >= d THEN 0 ELSE more \div d
        /\ Forgiven(r, q) = 0
    BY <1>2, <2>1 DEF O!ReplicaPenalty, Forgiven
  <2>3. d > a => less \in Nat /\ less <= more
    BY <2>1, WeightsAre
  <2>4. d > b => more \in Nat
    BY <2>1, WeightsAre
  <2> HIDE DEF d, a, b, less, more
  <2>5. CASE d <= 0 \/ b >= d
    BY <2>1, <2>2, <2>5
  <2>6. CASE ~(d <= 0 \/ b >= d)
    <3>1. d \in Nat /\ d > 0 /\ more \in Nat
      BY <2>1, <2>4, <2>6
    <3>2. more \div d \in Nat
      BY <3>1, DivisionIs
    <3>3. CASE a >= d
      BY <2>2, <2>6, <3>2, <3>3
    <3>4. CASE ~(a >= d)
      <4>1. less \in Nat /\ less <= more
        BY <2>1, <2>3, <3>4
      <4>2. d <= d
        BY <2>1
      <4>3. less \div d \in Nat /\ less \div d <= more \div d
        BY <3>1, <4>1, <4>2, DivisionIs, DivisionIsMonotone
      <4> QED
        BY <2>2, <2>6, <3>2, <3>4, <4>3
    <3> QED
      BY <3>3, <3>4
  <2> QED
    BY <2>5, <2>6
<1> QED
  BY <1>1, <1>2

LEMMA HealthIsMonotone ==
  ASSUME NEW status \in DOMAIN O!StatusPenalty, NEW worse \in DOMAIN O!StatusPenalty,
         O!StatusPenalty[status] <= O!StatusPenalty[worse],
         NEW r, NEW q, r.desired \in Int, r.running \in Int,
         \/ q.running = -1 \/ q.desired = -1
         \/ Same(r.desired, q.desired) /\ AtMost(0, q.running) /\ AtMost(q.running, r.running),
         NEW m \in Nat, NEW n \in Nat, m <= n
  PROVE  /\ O!computeHealthScore(status, r, m) \in Int /\ O!computeHealthScore(worse, q, n) \in Int
         /\ Forgiven(r, q) \in Nat
         /\ O!computeHealthScore(worse, q, n) <= O!computeHealthScore(status, r, m) + Forgiven(r, q)
<1> DEFINE a == O!StatusPenalty[status]
           b == O!StatusPenalty[worse]
           c == O!ReplicaPenalty(r)
           d == O!ReplicaPenalty(q)
           g == Forgiven(r, q)
<1>1. a \in Int /\ b \in Int /\ a <= b
  <2>1. \A s \in DOMAIN O!StatusPenalty : O!StatusPenalty[s] \in Int
    BY DEF O!StatusPenalty
  <2> QED
    BY <2>1
<1>2. c \in Nat /\ d \in Nat /\ g \in Nat /\ c <= d + g
  BY ReplicasAreMonotone
<1> HIDE DEF a, b, c, d, g
<1> DEFINE kept(x, y, z) == O!LargerOf(0, 4 * (100 - x) - y - O!SmallerOf(z, 280))
<1>3. /\ O!computeHealthScore(status, r, m) = kept(a, c, m)
      /\ O!computeHealthScore(worse, q, n) = kept(b, d, n)
  BY WeightsAre DEF O!computeHealthScore, a, b, c, d
<1>4. kept(a, c, m) \in Int /\ kept(b, d, n) \in Int /\ kept(b, d, n) <= kept(a, c, m) + g
  BY <1>1, <1>2 DEF O!LargerOf, O!SmallerOf
<1> QED
  BY <1>2, <1>3, <1>4 DEF g

(* The penalties of two readings, of which none is better observed. *)
LEMMA ObservedIsMonotone ==
  ASSUME NEW e, NEW f, f.id = e.id, f.kind = e.kind, f.name = e.name,
         NEW window \in Nat, window > 0,
         NEW o, NEW u, IsSequence(o), IsSequence(u), Len(o) = Len(u),
         \A i \in 1..Len(o) : ObservedNotBetter(o[i], u[i])
  PROVE  LET less == O!Penalties(o, O!ObservationsOf(e, o), window)
             more == O!Penalties(u, O!ObservationsOf(f, u), window)
         IN  less \in Nat /\ more \in Nat /\ less <= more
<1> DEFINE n == Len(o)
           F == O!ObservationsOf(e, o)
           G == O!ObservationsOf(f, u)
<1>1. n \in Nat /\ DOMAIN o = 1..n /\ DOMAIN u = 1..n /\ Len(u) = n
  <2> DEFINE S == {o[i] : i \in DOMAIN o}
             W == {u[i] : i \in DOMAIN u}
  <2>1. o \in Seq(S) /\ u \in Seq(W)
    BY DEF IsSequence
  <2> HIDE DEF S, W
  <2> QED
    BY <2>1
<1>2. ASSUME NEW i \in 1..n
      PROVE  /\ Adds(o, F, window, i) \in Nat /\ Adds(u, G, window, i) \in Nat
             /\ Adds(o, F, window, i) <= Adds(u, G, window, i)
  <2> DEFINE a == o[i]
             b == u[i]
  <2>1. ObservedNotBetter(a, b)
    OBVIOUS
  <2>2. i \in F => i \in G
    <3>1. /\ b.resource = a.resource /\ a.age \in Nat /\ b.age \in Nat /\ b.age <= a.age
      BY <2>1 DEF ObservedNotBetter
    <3>2. i \in F <=> a.resource \in {e.id, <<e.kind, e.name>>} /\ a.age <= 24
      BY <1>1, WeightsAre DEF O!ObservationsOf
    <3>3. i \in G <=> b.resource \in {f.id, <<f.kind, f.name>>} /\ b.age <= 24
      BY <1>1, WeightsAre DEF O!ObservationsOf
    <3> HIDE DEF a, b, F, G
    <3> QED
      BY <3>1, <3>2, <3>3
  <2> HIDE DEF a, b, F, G
  <2>3. /\ O!ObservationPenalty(a, window) \in Nat /\ O!ObservationPenalty(b, window) \in Nat
        /\ O!ObservationPenalty(a, window) <= O!ObservationPenalty(b, window)
    BY <2>1, PenaltyIsMonotone
  <2> QED
    BY <2>2, <2>3 DEF Adds, a, b
<1> HIDE DEF F, G
<1>3. /\ O!Penalties(o, F, window) \in Nat /\ O!Penalties(u, G, window) \in Nat
      /\ O!Penalties(o, F, window) <= O!Penalties(u, G, window)
  BY <1>1, <1>2, PenaltiesAreMonotone
<1> QED
  BY <1>3 DEF F, G

LEMMA ScoreLostIs ==
  ASSUME NEW x, "score" \in DOMAIN x.entity
  PROVE  ScoreLost(x) = 400 - O!ScoreOf(x.entity, x.observations)
<1> DEFINE e == x.entity
           score == O!ScoreOf(e, x.observations)
           grade == O!Grade(score)
           after == [e EXCEPT !.score = score, !.grade = grade]
           scored == O!scoreAll({e}, x.observations, {})
<1>1. scored = {after}
  BY DEF O!scoreAll
<1>2. (CHOOSE z \in scored : TRUE) = after
  <2> HIDE DEF after, scored
  <2> QED
    BY <1>1
<1>3. after.score = score
  <2> HIDE DEF score, grade
  <2> QED
    OBVIOUS
<1> DEFINE kept == CHOOSE z \in scored : TRUE
<1>4. ScoreLost(x) = O!Quarter * 100 - kept.score
  BY DEF ScoreLost
<1>5. kept.score = score
  <2> HIDE DEF after, score, scored
  <2> QED
    BY <1>2, <1>3
<1> HIDE DEF kept
<1>6. ScoreLost(x) = 400 - score
  <2> HIDE DEF score
  <2> QED
    BY <1>4, <1>5, WeightsAre
<1> QED
  BY <1>6

LEMMA ScoreIsMonotone ==
  ASSUME NEW x, NEW y, ScoreNotBetter(x, y),
         {"id", "kind", "name", "window", "score", "grade"} \subseteq DOMAIN x.entity
  PROVE  ScoreLost(x) <= ScoreLost(y) + IF ReplicasUnread(y) THEN O!ReplicaPenalty(x.entity.replicas) ELSE 0
<1> DEFINE e == x.entity
           f == y.entity
           window == IF e.window > 0 THEN e.window ELSE O!DefaultWindow
           less == O!Penalties(x.observations, O!ObservationsOf(e, x.observations), window)
           more == O!Penalties(y.observations, O!ObservationsOf(f, y.observations), window)
<1>1. /\ f.id = e.id /\ f.kind = e.kind /\ f.name = e.name /\ f.window = e.window
      /\ "score" \in DOMAIN e /\ "score" \in DOMAIN f
  <2>1. e = [f EXCEPT !.status = e.status, !.replicas = e.replicas]
    BY DEF ScoreNotBetter
  <2>2. {"id", "kind", "name", "window", "score"} \subseteq DOMAIN e
    OBVIOUS
  <2> DEFINE s == e.status
             r == e.replicas
  <2>3. e = [f EXCEPT !.status = s, !.replicas = r]
    BY <2>1
  <2> HIDE DEF e, f, s, r
  <2> QED
    BY <2>2, <2>3
<1>2. window \in Nat /\ window > 0
  BY WeightsAre DEF ScoreNotBetter
<1>3. less \in Nat /\ more \in Nat /\ less <= more
  <2> DEFINE o == x.observations
             u == y.observations
  <2>1. /\ IsSequence(o) /\ IsSequence(u) /\ Len(o) = Len(u)
        /\ \A i \in 1..Len(o) : ObservedNotBetter(o[i], u[i])
    BY DEF ScoreNotBetter
  <2> HIDE DEF e, f, window, o, u
  <2> QED
    BY <1>1, <1>2, <2>1, ObservedIsMonotone DEF o, u
<1>4. /\ O!ScoreOf(e, x.observations) = O!computeHealthScore(e.status, e.replicas, less)
      /\ O!ScoreOf(f, y.observations) = O!computeHealthScore(f.status, f.replicas, more)
  BY <1>1 DEF O!ScoreOf
<1> HIDE DEF less, more
<1> DEFINE g == Forgiven(e.replicas, f.replicas)
<1>5. /\ O!ScoreOf(e, x.observations) \in Int /\ O!ScoreOf(f, y.observations) \in Int /\ g \in Nat
      /\ O!ScoreOf(f, y.observations) <= O!ScoreOf(e, x.observations) + g
  <2> DEFINE s == e.status
             w == f.status
             r == e.replicas
             q == f.replicas
  <2>1. /\ s \in DOMAIN O!StatusPenalty /\ w \in DOMAIN O!StatusPenalty
        /\ O!StatusPenalty[s] <= O!StatusPenalty[w]
        /\ r.desired \in Int /\ r.running \in Int
        /\ \/ q.running = -1 \/ q.desired = -1
           \/ Same(r.desired, q.desired) /\ AtMost(0, q.running) /\ AtMost(q.running, r.running)
    BY DEF ScoreNotBetter, ReplicasUnread
  <2>2. g = Forgiven(r, q)
    OBVIOUS
  <2> HIDE DEF s, w, r, q, e, f, g
  <2>3. /\ O!computeHealthScore(s, r, less) \in Int /\ O!computeHealthScore(w, q, more) \in Int
        /\ Forgiven(r, q) \in Nat
        /\ O!computeHealthScore(w, q, more) <= O!computeHealthScore(s, r, less) + Forgiven(r, q)
    BY <1>3, <2>1, HealthIsMonotone
  <2>4. /\ O!ScoreOf(e, x.observations) = O!computeHealthScore(s, r, less)
        /\ O!ScoreOf(f, y.observations) = O!computeHealthScore(w, q, more)
    BY <1>4 DEF s, w, r, q
  <2> QED
    BY <2>2, <2>3, <2>4
<1>6. /\ ScoreLost(x) = 400 - O!ScoreOf(e, x.observations)
      /\ ScoreLost(y) = 400 - O!ScoreOf(f, y.observations)
  BY <1>1, ScoreLostIs
<1>7. g = IF ReplicasUnread(y) THEN O!ReplicaPenalty(x.entity.replicas) ELSE 0
  BY DEF Forgiven, ReplicasUnread
<1> DEFINE back == IF ReplicasUnread(y) THEN O!ReplicaPenalty(x.entity.replicas) ELSE 0
<1>8. g = back
  BY <1>7
<1> HIDE DEF e, f, g, back
<1>9. ScoreLost(x) <= ScoreLost(y) + back
  BY <1>5, <1>6, <1>8
<1> QED
  BY <1>9 DEF back

-------------------------------------------------------------------------------
(* The wiring of a service. *)

(* Something is merged when something was answered. *)
LEMMA MergedIsEmpty ==
  ASSUME NEW answers, AreEntries(UNION answers), NEW now \in Int,
         NEW limit \in Nat, limit > 0
  PROVE  O!Merged(answers, now, limit) = <<>> <=> UNION answers = {}
<1> DEFINE all == UNION answers
           merged == O!Merged(answers, now, limit)
<1>1. /\ Len(merged) = O!SmallerOf(limit, Cardinality(all))
      /\ DOMAIN merged = 1..Len(merged)
      /\ {merged[i] : i \in DOMAIN merged} = Newest(AheadOf(all, now), all, limit)
  BY MergedIsInOrder
<1>2. IsFiniteSet(all) /\ Cardinality(all) \in Nat /\ (Cardinality(all) = 0 <=> all = {})
  <2>1. IsFiniteSet(all)
    BY DEF AreEntries
  <2> HIDE DEF all
  <2> QED
    BY <2>1, FS_CardinalityType, FS_EmptySet
<1>3. ASSUME all # {} PROVE merged # <<>>
  <2>1. Len(merged) # 0
    <3> HIDE DEF merged, all
    <3> QED
      BY <1>1, <1>2, <1>3 DEF O!SmallerOf
  <2>2. Len(<<>>) = 0
    OBVIOUS
  <2> HIDE DEF merged
  <2> QED
    BY <2>1, <2>2
<1>4. ASSUME all = {} PROVE merged = <<>>
  <2>1. Len(merged) = 0
    <3> HIDE DEF merged, all
    <3> QED
      BY <1>1, <1>2, <1>4 DEF O!SmallerOf
  <2>2. merged \in [1..0 -> {}]
    <3>1. DOMAIN merged = 1..0
      BY <1>1, <2>1
    <3> DEFINE n == O!SmallerOf(limit, O!Cardinality(all))
               at(i) == CHOOSE e \in all : O!Cardinality({f \in all : O!Ahead(all, now, f, e)}) = i - 1
    <3>2. merged = [i \in 1..n |-> at(i)]
      BY DEF O!Merged
    <3>3. merged = [i \in DOMAIN merged |-> merged[i]]
      <4> HIDE DEF at, n
      <4> QED
        BY <3>2
    <3> HIDE DEF merged
    <3> QED
      BY <3>1, <3>3
  <2> DEFINE none == {}
  <2>3. merged \in Seq({})
    <3> HIDE DEF merged
    <3>1. 0 \in Nat
      OBVIOUS
    <3> QED
      BY <2>2, <3>1, SeqDef
  <2> HIDE DEF merged
  <2> QED
    BY <2>1, <2>3, EmptySeq
<1> QED
  BY <1>3, <1>4

(* A backend that has an entry in the window gives one. *)
LEMMA AskedGives ==
  ASSUME NEW backend, AreEntries(backend.entries), NEW q, NEW now, NEW limit \in Nat, limit > 0
  PROVE  /\ O!AskBackend(backend, q, now, limit) \subseteq backend.entries
         /\ O!AskBackend(backend, q, now, limit) # {}
              <=> /\ backend.status = "ok" /\ q.until.kind # "garbled"
                  /\ \E e \in backend.entries : O!Selects(q, e, now)
<1> DEFINE asked == {e \in backend.entries : O!Selects(q, e, now)}
           first == {e \in asked : O!Cardinality({f \in asked : O!Later(f, e)}) < limit}
<1>1. O!AskBackend(backend, q, now, limit)
        = IF backend.status # "ok" \/ q.until.kind = "garbled" THEN {} ELSE first
  BY DEF O!AskBackend
<1>2. first \subseteq backend.entries
  OBVIOUS
<1>3. ASSUME NEW e \in backend.entries, O!Selects(q, e, now) PROVE first # {}
  <2>1. e \in asked
    BY <1>3
  <2>2. AreEntries(asked)
    <3>1. asked \subseteq backend.entries
      OBVIOUS
    <3> HIDE DEF asked
    <3> QED
      BY <3>1, PartsAreEntries
  <2> DEFINE order == LaterOf(asked)
  <2>3. first = Newest(order, asked, limit)
    <3> HIDE DEF asked
    <3> QED
      BY BackendCutsLatest
  <2>7. Orders(order, asked)
    BY <2>2, LaterOrders
  <2> HIDE DEF asked, first, order
  <2>4. Cardinality(asked) \in Nat /\ RankIn(order, asked, e) \in 0..Cardinality(asked) - 1
    BY <2>1, <2>7, RankIsLess
  <2>5. 0 \in 0..Cardinality(asked) - 1
    BY <2>4
  <2>6. PICK f \in asked : RankIn(order, asked, f) = 0
    BY <2>5, <2>7, RanksArePlaces
  <2> QED
    BY <2>3, <2>6 DEF Newest
<1>4. first # {} => \E e \in backend.entries : O!Selects(q, e, now)
  OBVIOUS
<1> HIDE DEF first
<1> QED
  BY <1>1, <1>2, <1>3, <1>4

LEMMA LogsAreMonotone ==
  ASSUME NEW x, NEW y, IsService(x), IsService(y), WiringNotBetter(x, y), NEW q, q.limit = 1,
         O!checkLogsChannel(O!LogsQuery(q, y.world.logs, y.world.configured, y.services, y.world.now)) = "wired"
  PROVE  O!checkLogsChannel(O!LogsQuery(q, x.world.logs, x.world.configured, x.services, x.world.now)) = "wired"
<1> DEFINE names == DOMAIN x.world.logs
           now == x.world.now
           address == [b \in names |-> O!Resolved(x.world.configured[b], O!discoverLogsEndpoints(x.services)[b])]
           limit == O!clampLimit(q.limit)
           from(logs, b) == O!AskBackend(logs[b], q, now, limit)
           asked == {c \in names : address[c] # "none"}
           all(logs) == {from(logs, b) : b \in asked}
           status(logs, b) == O!BackendStatus(b, logs[b], q, address[b])
           result(logs) == [backends |-> [b \in names |-> status(logs, b)], entries |-> O!Merged(all(logs), now, limit)]
<1>1. /\ O!LogsQuery(q, x.world.logs, x.world.configured, x.services, x.world.now) = result(x.world.logs)
      /\ O!LogsQuery(q, y.world.logs, y.world.configured, y.services, y.world.now) = result(y.world.logs)
  <2>1. /\ x.services = y.services /\ x.world.configured = y.world.configured /\ x.world.now = y.world.now
        /\ DOMAIN y.world.logs = names
    BY DEF WiringNotBetter
  <2> QED
    BY <2>1 DEF O!LogsQuery
<1>2. limit = 1 /\ now \in Int
  BY DEF O!clampLimit, O!SmallerOf, O!MAX_LOG_LIMIT, IsService
<1>3. \A logs : O!checkLogsChannel(result(logs)) = "wired"
                  <=> /\ \E b \in names : status(logs, b) # "no_endpoint"
                      /\ O!Merged(all(logs), now, limit) # <<>>
  <2> HIDE DEF names, all, limit, status
  <2> QED
    BY DEF O!checkLogsChannel
<1>4. \A logs : \A b \in names : status(logs, b) = "no_endpoint" <=> address[b] = "none"
  <2> HIDE DEF names, address
  <2> QED
    BY DEF O!BackendStatus
<1>5. ASSUME NEW z, AreEntries(Held(z.world.logs)), DOMAIN z.world.logs = names
      PROVE  /\ AreEntries(UNION all(z.world.logs))
             /\ \A b \in names : AreEntries(z.world.logs[b].entries)
  <2> DEFINE logs == z.world.logs
             held == Held(logs)
  <2>1. \A b \in names : logs[b].entries \subseteq held
    BY <1>5 DEF Held
  <2>2. \A b \in names : AreEntries(logs[b].entries)
    <3> TAKE b \in names
    <3> DEFINE part == logs[b].entries
    <3>1. part \subseteq held
      BY <2>1
    <3> HIDE DEF held, part
    <3>2. AreEntries(held)
      BY <1>5 DEF held
    <3>3. AreEntries(part)
      BY <3>1, <3>2, PartsAreEntries
    <3> QED
      BY <3>3 DEF part
  <2>3. \A b \in names : from(logs, b) \subseteq logs[b].entries
    <3> TAKE b \in names
    <3> DEFINE backend == logs[b]
    <3>1. AreEntries(backend.entries)
      BY <2>2
    <3> HIDE DEF backend
    <3>2. O!AskBackend(backend, q, now, 1) \subseteq backend.entries
      BY <3>1, AskedGives
    <3> QED
      BY <1>2, <3>2 DEF backend
  <2>4. UNION all(logs) \subseteq held
    <3> HIDE DEF held, from
    <3> QED
      BY <2>1, <2>3
  <2>5. AreEntries(UNION all(logs))
    <3> DEFINE part == UNION all(logs)
    <3>1. part \subseteq held /\ AreEntries(held)
      BY <1>5, <2>4
    <3> HIDE DEF part, held
    <3>2. AreEntries(part)
      BY <3>1, PartsAreEntries
    <3> QED
      BY <3>2 DEF part
  <2> QED
    BY <2>2, <2>5
<1>6. /\ AreEntries(UNION all(x.world.logs)) /\ \A b \in names : AreEntries(x.world.logs[b].entries)
      /\ AreEntries(UNION all(y.world.logs)) /\ \A b \in names : AreEntries(y.world.logs[b].entries)
  <2>1. /\ AreEntries(Held(x.world.logs)) /\ AreEntries(Held(y.world.logs))
        /\ DOMAIN x.world.logs = names /\ DOMAIN y.world.logs = names
    BY DEF IsService, AreBackends, WiringNotBetter
  <2> HIDE DEF names, all
  <2> QED
    BY <1>5, <2>1
<1>7. /\ \E b \in names : status(y.world.logs, b) # "no_endpoint"
      /\ O!Merged(all(y.world.logs), now, limit) # <<>>
  BY <1>1, <1>3
<1>8. UNION all(y.world.logs) # {}
  <2> DEFINE answers == all(y.world.logs)
  <2>1. AreEntries(UNION answers)
    BY <1>6
  <2> HIDE DEF answers
  <2>2. O!Merged(answers, now, 1) = <<>> <=> UNION answers = {}
    BY <1>2, <2>1, MergedIsEmpty
  <2> QED
    BY <1>2, <1>7, <2>2 DEF answers
<1>9. PICK b \in asked : from(y.world.logs, b) # {}
  <2> HIDE DEF from, asked
  <2> QED
    BY <1>8
<1>10. from(x.world.logs, b) # {}
  <2> DEFINE v == x.world.logs[b]
             w == y.world.logs[b]
  <2>1. AreEntries(v.entries) /\ AreEntries(w.entries)
    BY <1>6
  <2>2. AnswerNotBetter(v, w, "entries")
    BY DEF WiringNotBetter
  <2>3. O!AskBackend(w, q, now, 1) # {}
    BY <1>2, <1>9
  <2> HIDE DEF v, w
  <2>4. w.status = "ok" /\ q.until.kind # "garbled" /\ \E e \in w.entries : O!Selects(q, e, now)
    BY <2>1, <2>3, AskedGives
  <2>5. v.status = "ok" /\ w.entries \subseteq v.entries
    BY <2>2, <2>4 DEF AnswerNotBetter
  <2>6. O!AskBackend(v, q, now, 1) # {}
    BY <2>1, <2>4, <2>5, AskedGives
  <2> QED
    BY <1>2, <2>6 DEF v
<1>11. UNION all(x.world.logs) # {}
  <2> HIDE DEF from, asked
  <2> QED
    BY <1>9, <1>10
<1>12. O!Merged(all(x.world.logs), now, limit) # <<>>
  <2> DEFINE answers == all(x.world.logs)
  <2>1. AreEntries(UNION answers) /\ UNION answers # {}
    BY <1>6, <1>11
  <2> HIDE DEF answers
  <2>2. O!Merged(answers, now, 1) # <<>>
    BY <1>2, <2>1, MergedIsEmpty
  <2> QED
    BY <1>2, <2>2 DEF answers
<1>13. \E c \in names : status(x.world.logs, c) # "no_endpoint"
  BY <1>4, <1>7
<1> HIDE DEF names, all, status, limit
<1> QED
  BY <1>1, <1>3, <1>12, <1>13

(* What each channel is found to be. *)
MetricsOf(x) ==
  O!checkMetricsChannel(x.service, O!discoverPrometheusEndpoint(x.services), x.world.prometheus)
LogsOf(x) ==
  O!checkLogsChannel(O!LogsQuery(O!LogsQuestion(x.service), x.world.logs, x.world.configured,
                                 x.services, x.world.now))
DashboardsOf(x) ==
  O!checkDashboardsChannel(x.service, O!discoverGrafanaEndpoint(x.services),
                           O!fetchDashboards(<<>>, O!discoverGrafanaEndpoint(x.services), x.world.grafana))

LEMMA MetricsAreMonotone ==
  ASSUME NEW x, NEW y, WiringNotBetter(x, y), MetricsOf(y) = "wired"
  PROVE  MetricsOf(x) = "wired"
<1> DEFINE base == O!discoverPrometheusEndpoint(x.services)
           e == x.service
           v == x.world.prometheus
           w == y.world.prometheus
<1>1. /\ MetricsOf(x) = O!checkMetricsChannel(e, base, v)
      /\ MetricsOf(y) = O!checkMetricsChannel(e, base, w)
  BY DEF MetricsOf, WiringNotBetter
<1>2. AnswerNotBetter(v, w, "targets")
  BY DEF WiringNotBetter
<1> HIDE DEF base, e, v, w
<1>3. base # "none" /\ w.status = "ok" /\ \E t \in w.targets : O!targetMatchesEntity(t, e)
  BY <1>1 DEF O!checkMetricsChannel, O!checkMetricsScraping
<1>4. v.status = "ok" /\ w.targets \subseteq v.targets
  BY <1>2, <1>3 DEF AnswerNotBetter
<1> QED
  BY <1>1, <1>3, <1>4 DEF O!checkMetricsChannel, O!checkMetricsScraping

LEMMA DashboardsAreMonotone ==
  ASSUME NEW x, NEW y, WiringNotBetter(x, y), DashboardsOf(y) = "wired"
  PROVE  DashboardsOf(x) = "wired"
<1> DEFINE base == O!discoverGrafanaEndpoint(x.services)
           e == x.service
           v == x.world.grafana
           w == y.world.grafana
           fetched(a) == O!fetchDashboards(<<>>, base, a)
           kind(d) == O!matchDashboard(O!entitySignals(e), d)
<1>1. /\ DashboardsOf(x) = O!checkDashboardsChannel(e, base, fetched(v))
      /\ DashboardsOf(y) = O!checkDashboardsChannel(e, base, fetched(w))
  BY DEF DashboardsOf, WiringNotBetter
<1>2. AnswerNotBetter(v, w, "dashboards")
  BY DEF WiringNotBetter
<1> HIDE DEF base, e, v, w
<1>3. \A a : fetched(a) = IF base = "none" \/ a.status # "ok" THEN {} ELSE a.dashboards
  BY DEF O!fetchDashboards
<1> HIDE DEF fetched
<1>4. \A ds : base # "none" =>
        (O!resolveDashboardsForEntity(base, ds, e) # {} <=> \E d \in ds : kind(d) # "none")
  <2> TAKE ds
  <2> HAVE base # "none"
  <2> DEFINE link(d) == [dashboard |-> d, kind |-> kind(d)]
             links == {l \in {link(d) : d \in ds} : l.kind # "none"}
  <2>1. O!resolveDashboardsForEntity(base, ds, e) = links
    BY DEF O!resolveDashboardsForEntity
  <2>2. \A d : link(d).kind = kind(d)
    OBVIOUS
  <2> HIDE DEF link, kind
  <2>3. links # {} <=> \E d \in ds : kind(d) # "none"
    BY <2>2
  <2> QED
    BY <2>1, <2>3
<1> HIDE DEF kind
<1>5. \A ds : O!checkDashboardsChannel(e, base, ds) = "wired"
                <=> base # "none" /\ \E d \in ds : kind(d) # "none"
  BY <1>4 DEF O!checkDashboardsChannel
<1>6. base # "none" /\ w.status = "ok" /\ \E d \in w.dashboards : kind(d) # "none"
  BY <1>1, <1>3, <1>5
<1>7. v.status = "ok" /\ w.dashboards \subseteq v.dashboards
  BY <1>2, <1>6 DEF AnswerNotBetter
<1>8. \E d \in fetched(v) : kind(d) # "none"
  BY <1>3, <1>6, <1>7
<1> QED
  BY <1>1, <1>5, <1>6, <1>8

(* The channels of the one report there is of the service. *)
LEMMA NotWiredIs ==
  ASSUME NEW x, IsService(x)
  PROVE  NotWired(x) = Cardinality({c \in {"metrics", "logs", "dashboards"} :
                                      \/ c = "metrics" /\ MetricsOf(x) # "wired"
                                      \/ c = "logs" /\ LogsOf(x) # "wired"
                                      \/ c = "dashboards" /\ DashboardsOf(x) # "wired"})
<1> DEFINE checked == {s \in {x.services[i] : i \in DOMAIN x.services} : s.role \notin O!INFRA_ROLES}
           metrics(e) == O!checkMetricsChannel(e, O!discoverPrometheusEndpoint(x.services), x.world.prometheus)
           logs(e) == O!checkLogsChannel(O!LogsQuery(O!LogsQuestion(e), x.world.logs, x.world.configured,
                                                     x.services, x.world.now))
           dashboards(e) == O!checkDashboardsChannel(e, O!discoverGrafanaEndpoint(x.services),
                              O!fetchDashboards(<<>>, O!discoverGrafanaEndpoint(x.services), x.world.grafana))
           of(e) == O!onboard(e, metrics(e), logs(e), dashboards(e))
           all == O!onboardAll(x.services, x.world)
           reports == {r \in all : r.entity = x.service.id}
           status == [metrics |-> MetricsOf(x), logs |-> LogsOf(x), dashboards |-> DashboardsOf(x)]
<1>1. all = {of(e) : e \in checked}
  BY DEF O!onboardAll
<1>2. metrics(x.service) = MetricsOf(x) /\ logs(x.service) = LogsOf(x) /\ dashboards(x.service) = DashboardsOf(x)
  BY DEF MetricsOf, LogsOf, DashboardsOf
<1> HIDE DEF metrics, logs, dashboards
<1>3. of(x.service).channels = status
  BY <1>2 DEF O!onboard
<1>4. \A e : of(e).entity = e.id
  BY DEF O!onboard
<1> HIDE DEF of, status
<1>5. x.service \in checked /\ \A e \in checked : e.id = x.service.id => e = x.service
  BY DEF IsService
<1> HIDE DEF checked, all
<1>6. reports = {of(x.service)}
  BY <1>1, <1>4, <1>5
<1> DEFINE kept == CHOOSE r \in reports : TRUE
           channels == kept.channels
<1>7. kept = of(x.service)
  <2> HIDE DEF reports
  <2> QED
    BY <1>6
<1>8. NotWired(x) = Cardinality({c \in DOMAIN channels : channels[c] # "wired"})
  BY DEF NotWired, all
<1> HIDE DEF kept
<1>9. channels = status
  BY <1>3, <1>7
<1> HIDE DEF channels
<1>10. /\ DOMAIN status = {"metrics", "logs", "dashboards"}
       /\ status["metrics"] = MetricsOf(x) /\ status["logs"] = LogsOf(x) /\ status["dashboards"] = DashboardsOf(x)
  BY DEF status
<1> DEFINE open == {c \in {"metrics", "logs", "dashboards"} :
                      \/ c = "metrics" /\ MetricsOf(x) # "wired"
                      \/ c = "logs" /\ LogsOf(x) # "wired"
                      \/ c = "dashboards" /\ DashboardsOf(x) # "wired"}
<1>11. {c \in DOMAIN channels : channels[c] # "wired"} = open
  BY <1>9, <1>10
<1> QED
  BY <1>8, <1>11

LEMMA WiringIsMonotone ==
  ASSUME NEW x, NEW y, IsService(x), IsService(y), WiringNotBetter(x, y)
  PROVE  NotWired(x) <= NotWired(y)
<1> DEFINE open(z) == {c \in {"metrics", "logs", "dashboards"} :
                         \/ c = "metrics" /\ MetricsOf(z) # "wired"
                         \/ c = "logs" /\ LogsOf(z) # "wired"
                         \/ c = "dashboards" /\ DashboardsOf(z) # "wired"}
<1>1. NotWired(x) = Cardinality(open(x)) /\ NotWired(y) = Cardinality(open(y))
  BY NotWiredIs
<1>2. MetricsOf(y) = "wired" => MetricsOf(x) = "wired"
  BY MetricsAreMonotone
<1>3. DashboardsOf(y) = "wired" => DashboardsOf(x) = "wired"
  BY DashboardsAreMonotone
<1>4. LogsOf(y) = "wired" => LogsOf(x) = "wired"
  <2> DEFINE q == O!LogsQuestion(x.service)
  <2>1. q.limit = 1
    BY DEF O!LogsQuestion
  <2>2. x.service = y.service
    BY DEF WiringNotBetter
  <2>3. /\ LogsOf(x) = O!checkLogsChannel(O!LogsQuery(q, x.world.logs, x.world.configured, x.services, x.world.now))
        /\ LogsOf(y) = O!checkLogsChannel(O!LogsQuery(q, y.world.logs, y.world.configured, y.services, y.world.now))
    BY <2>2 DEF LogsOf
  <2> HIDE DEF q
  <2> QED
    BY <2>1, <2>3, LogsAreMonotone
<1>5. open(x) \in SUBSET open(y)
  BY <1>2, <1>3, <1>4
<1>6. IsFiniteSet(open(y))
  <2>1. IsFiniteSet({"metrics"}) /\ IsFiniteSet({"logs"}) /\ IsFiniteSet({"dashboards"})
    BY FS_Singleton
  <2>2. IsFiniteSet({"metrics"} \cup {"logs"})
    BY <2>1, FS_Union
  <2>3. IsFiniteSet(({"metrics"} \cup {"logs"}) \cup {"dashboards"})
    BY <2>1, <2>2, FS_Union
  <2>4. open(y) \in SUBSET (({"metrics"} \cup {"logs"}) \cup {"dashboards"})
    OBVIOUS
  <2> HIDE DEF open
  <2> QED
    BY <2>3, <2>4, FS_Subset
<1> HIDE DEF open
<1>7. Cardinality(open(x)) <= Cardinality(open(y))
  BY <1>5, <1>6, FS_Subset
<1> QED
  BY <1>1, <1>7

LEMMA ReadingsAreNotMilder ==
  ASSUME NEW r, IsReading(r)
  PROVE  LET probe == r.probe
             x == r.milder
             y == r.worse
         IN  /\ probe \in HostProbes =>
                  \A o \in HostReport(probe, x) :
                    Told(probe, o, HostReport(probe, y)) \/ HostUnread(probe, y, o)
             /\ probe \in ServiceProbes =>
                  \A o \in ServiceReport(probe, x) :
                    Told(probe, o, ServiceReport(probe, y)) \/ ServiceUnread(probe, y, o)
             /\ probe = "score" =>
                  ScoreLost(x) <= ScoreLost(y)
                                  + IF ReplicasUnread(y) THEN O!ReplicaPenalty(x.entity.replicas) ELSE 0
             /\ probe = "wiring" => NotWired(x) <= NotWired(y)
<1> DEFINE probe == r.probe
           x == r.milder
           y == r.worse
<1>1. \/ probe \in HostProbes /\ HostNotBetter(probe, x, y)
      \/ probe \in ServiceProbes /\ ServiceNotBetter(probe, x, y)
      \/ /\ probe = "score" /\ ScoreNotBetter(x, y)
         /\ {"id", "kind", "name", "window", "score", "grade"} \subseteq DOMAIN x.entity
      \/ probe = "wiring" /\ IsService(x) /\ IsService(y) /\ WiringNotBetter(x, y)
  BY DEF IsReading
<1> HIDE DEF probe, x, y
<1>2. /\ HostProbes \cap ServiceProbes = {}
      /\ {"score", "wiring"} \cap (HostProbes \cup ServiceProbes) = {}
  BY DEF HostProbes, ServiceProbes
<1>3. ASSUME probe \in HostProbes, NEW o \in HostReport(probe, x)
      PROVE  Told(probe, o, HostReport(probe, y)) \/ HostUnread(probe, y, o)
  BY <1>1, <1>2, <1>3, HostProbesTell
<1>4. ASSUME probe \in ServiceProbes, NEW o \in ServiceReport(probe, x)
      PROVE  Told(probe, o, ServiceReport(probe, y)) \/ ServiceUnread(probe, y, o)
  BY <1>1, <1>2, <1>4, ServiceProbesTell
<1>5. ASSUME probe = "score"
      PROVE  ScoreLost(x) <= ScoreLost(y)
                             + IF ReplicasUnread(y) THEN O!ReplicaPenalty(x.entity.replicas) ELSE 0
  <2>1. /\ ScoreNotBetter(x, y)
        /\ {"id", "kind", "name", "window", "score", "grade"} \subseteq DOMAIN x.entity
    BY <1>1, <1>2, <1>5
  <2> QED
    BY <2>1, ScoreIsMonotone
<1>6. ASSUME probe = "wiring" PROVE NotWired(x) <= NotWired(y)
  <2>1. IsService(x) /\ IsService(y) /\ WiringNotBetter(x, y)
    BY <1>1, <1>2, <1>6
  <2> QED
    BY <2>1, WiringIsMonotone
<1> QED
  BY <1>3, <1>4, <1>5, <1>6 DEF probe, x, y

(* Whatever a probe reports of a reading, it reports of a worse one of the  *)
(* same thing as urgently, or that its host does not answer, unless what it *)
(* went by is missing; the points that the health score takes off and the   *)
(* channels that the onboarding finds open only grow.                       *)
THEOREM WorseReadingsAreNotMilder == Spec => []WorseIsNotMilder
<1>1. ASSUME Given PROVE WorseIsNotMilder
  <2>1. SUFFICES ASSUME case.kind = "reading" PROVE WorseIsNotMilder
    BY DEF WorseIsNotMilder
  <2> DEFINE r == case.input
  <2>2. IsReading(r)
    BY <1>1, <2>1 DEF Given
  <2> HIDE DEF r
  <2>3. LET probe == r.probe
            x == r.milder
            y == r.worse
        IN  /\ probe \in HostProbes =>
                 \A o \in HostReport(probe, x) :
                   Told(probe, o, HostReport(probe, y)) \/ HostUnread(probe, y, o)
            /\ probe \in ServiceProbes =>
                 \A o \in ServiceReport(probe, x) :
                   Told(probe, o, ServiceReport(probe, y)) \/ ServiceUnread(probe, y, o)
            /\ probe = "score" =>
                 ScoreLost(x) <= ScoreLost(y)
                                 + IF ReplicasUnread(y) THEN O!ReplicaPenalty(x.entity.replicas) ELSE 0
            /\ probe = "wiring" => NotWired(x) <= NotWired(y)
    BY <2>2, ReadingsAreNotMilder
  <2> QED
    BY <2>3 DEF WorseIsNotMilder, r
<1>2. Given => WorseIsNotMilder
  BY <1>1
<1> QED
  BY <1>2, InputsAreGiven, PTL
===============================================================================
