------------------------------- MODULE Topology -------------------------------
(***************************************************************************)
(* The enrichment of the inventory (src/discovery/topology): the routes of *)
(* the reverse proxy, the paths of the secret store and the dependencies   *)
(* read off the attributes, each written to the graph by a pass of its     *)
(* own.                                                                    *)
(*                                                                         *)
(* The graph is a set of entities and a set of edges.  A text is known by  *)
(* what it contains: `contains` are the names in it, `delimited` the       *)
(* numbers in it that stand alone.  Trimming, letter case and the times of *)
(* an entry are left out.                                                  *)
(***************************************************************************)
EXTENDS Integers, Sequences, FiniteSets

Edge(type, from, to, role) == [type |-> type, from |-> from, to |-> to, role |-> role]

Found(entities, edges) ==
  [entities |-> entities, edges |-> edges, count |-> Cardinality(entities), degraded |-> FALSE]

NothingFound == Found({}, {})
Degraded == [NothingFound EXCEPT !.degraded = TRUE]

OfKinds(entities, kinds) == SelectSeq(entities, LAMBDA e : e.kind \in kinds)

First(s, default) == IF s = <<>> THEN default ELSE Head(s)

-------------------------------------------------------------------------------
(* Routes of the reverse proxy. *)

(* api_url, else host and management port, else the mapping of port 81. *)
deriveNpmApiBase(e) ==
  IF e.api_url # "" THEN e.api_url
  ELSE IF e.host # "" THEN e.host
  ELSE IF e.maps81 THEN "localhost"
  ELSE ""

(* A service with that host and port, else one of that name, else one with that port. *)
matchForwardTarget(ph, services) ==
  LET hasPort(s) == ph.forward_port \in s.ports
      byHost == SelectSeq(services, LAMBDA s : s.host # "" /\ s.host = ph.forward_host /\ hasPort(s))
      byName == SelectSeq(services, LAMBDA s : ph.forward_host \in s.name_matches)
      byPort == SelectSeq(services, hasPort)
  IN  First(byHost \o byName \o byPort, [id |-> "none"]).id

RouteId(ph, domain) == <<"route", ph.id, domain>>

(* A proxy host without a domain still gets one route. *)
DomainsOf(ph) == IF ph.domains = {} THEN {"id"} ELSE ph.domains

RoutesOf(ph, proxy, services) ==
  LET target == matchForwardTarget(ph, services) IN
  [entities |-> {[id |-> RouteId(ph, d), kind |-> "route"] : d \in DomainsOf(ph)},
   edges |-> {Edge("routes-to", RouteId(ph, d), proxy.id, "served-by") : d \in DomainsOf(ph)}
             \cup {Edge("routes-to", RouteId(ph, d), target, "") :
                     d \in {c \in DomainsOf(ph) : target # "none"}}]

(* The first of them is asked. *)
ProxiesIn(entities) ==
  SelectSeq(OfKinds(entities, {"service"}), LAMBDA e : e.role = "reverse-proxy")

(* fetchProxyHosts fails on a lost or late answer, an error and a body that is no list. *)
NpmDiscover(entities, token, answer) ==
  LET proxies == ProxiesIn(entities)
      services == OfKinds(entities, {"service"}) \o OfKinds(entities, {"container"})
      found == {RoutesOf(ph, Head(proxies), services) : ph \in answer.hosts}
  IN  IF proxies = <<>> THEN NothingFound
      ELSE IF deriveNpmApiBase(Head(proxies)) = "" \/ ~token \/ answer.failed THEN Degraded
      ELSE Found(UNION {r.entities : r \in found}, UNION {r.edges : r \in found})

-------------------------------------------------------------------------------
(* Paths of the secret store. *)

deriveVaultAddress(e, envAddress) ==
  IF e.vault_addr # "" THEN e.vault_addr
  ELSE IF envAddress # "" THEN envAddress
  ELSE e.host

extractKvMounts(e) == IF e.kv_mounts = {} THEN {"secret"} ELSE e.kv_mounts

(* `tree` gives each folder, a sequence of names, the answer to its LIST:   *)
(* "ok" with its keys and folders, "missing" (404) or "error".  The listing *)
(* of a folder fails when that of one of its folders fails.                 *)
listPathsRecursive(tree, maxDepth) ==
  LET list[p \in DOMAIN tree] ==
        IF Len(p) > maxDepth \/ tree[p].status = "missing" THEN [ok |-> TRUE, keys |-> {}]
        ELSE IF tree[p].status = "error" THEN [ok |-> FALSE, keys |-> {}]
        ELSE [ok |-> \A f \in tree[p].folders : list[Append(p, f)].ok,
              keys |-> {Append(p, k) : k \in tree[p].keys}
                       \cup UNION {list[Append(p, f)].keys : f \in tree[p].folders}]
  IN  list[<<>>]

SecretRef(mount, path) == <<"secret-ref", mount, path>>

(* A mount that cannot be listed is passed over. *)
VaultMount(tree, mount, maxDepth) ==
  LET listed == listPathsRecursive(tree, maxDepth)
  IN  IF listed.ok THEN {SecretRef(mount, p) : p \in listed.keys} ELSE {}

(* The first of them is asked. *)
VaultsIn(entities) == SelectSeq(OfKinds(entities, {"service"}), LAMBDA e : e.role = "secrets")

VaultDiscover(entities, envAddress, token, trees, maxDepth) ==
  LET vaults == VaultsIn(entities)
      refs == UNION {VaultMount(trees[m], m, maxDepth) : m \in extractKvMounts(Head(vaults))}
  IN  IF vaults = <<>> THEN NothingFound
      ELSE IF deriveVaultAddress(Head(vaults), envAddress) = "" \/ ~token THEN Degraded
      ELSE Found({[id |-> r, kind |-> "secret-ref"] : r \in refs},
                 {Edge("member-of", r, Head(vaults).id, "") : r \in refs})

-------------------------------------------------------------------------------
(* Dependencies: an attribute of one names another. *)

(* The strings, numbers and Booleans anywhere below the attributes. *)
collectAttributeStrings(e) == e.texts

(* Name, host and each number of each port mapping. *)
entityIdentifiers(e) ==
  {[text |-> t, numeric |-> FALSE] : t \in {e.name, e.host} \ {""}}
  \cup {[text |-> p, numeric |-> TRUE] : p \in e.ports}

(* Identifiers of fewer than 4 characters match nothing. *)
candidateMatches(text, ident, long) ==
  /\ ident.text \in long
  /\ ident.text \in (IF ident.numeric THEN text.delimited ELSE text.contains)

DependsOn(source, target, long) ==
  \E text \in collectAttributeStrings(source) :
    \E ident \in entityIdentifiers(target) : candidateMatches(text, ident, long)

derive(entities, long) ==
  LET sources == {e \in entities : e.kind \in {"service", "container"}}
      targets == {e \in entities : e.kind \in {"service", "container", "datastore"}}
  IN  {Edge("depends-on", pair[1].id, pair[2].id, "") :
         pair \in {p \in sources \X targets : p[1].id # p[2].id /\ DependsOn(p[1], p[2], long)}}

-------------------------------------------------------------------------------
(* The enricher runs the three passes one after another; a pass writes what  *)
(* it found item by item, and passes over an item the store refuses.         *)

Upserted(graph, found, refused) ==
  [entities |-> graph.entities \cup {e \in found.entities : e.id \notin refused.entities},
   edges |-> graph.edges \cup (found.edges \ refused.edges)]

\* Bug: the failure of a pass undoes the passes before it.
RunPassOrNone(graph, thrown, found, refused) ==
  IF thrown THEN [entities |-> {}, edges |-> {}] ELSE Upserted(graph, found, refused)

(* A pass whose adapter throws writes nothing. *)
RunPass(graph, thrown, found, refused) ==
  IF thrown THEN graph ELSE Upserted(graph, found, refused)

enrich(graph, listed, env, answers, refused) ==
  LET npm == RunPass(graph, answers.npm_thrown,
                     NpmDiscover(listed, env.npm_token, answers.npm), refused)
      vault == RunPass(npm, answers.vault_thrown,
                       VaultDiscover(listed, env.vault_addr, env.vault_token, answers.trees, answers.max_depth),
                       refused)
  IN  RunPass(vault, answers.deps_thrown,
              [entities |-> {}, edges |-> derive({listed[i] : i \in DOMAIN listed}, env.long)], refused)
===============================================================================
