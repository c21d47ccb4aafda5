----------------------------- MODULE Algorithms -----------------------------
(***************************************************************************)
(* The pure parts of the program and what each of them owes to those who   *)
(* rely on it: probes, placement policy, enumerators and datastore probe,  *)
(* enrichment, log query, the hosts a command reaches, connections.        *)
(*                                                                         *)
(* An action takes the inputs of one of them from a set that is a          *)
(* parameter; the invariants compare what the code computes for them with  *)
(* what it has to be.  What inputs may be is stated before each action,    *)
(* and assumed of the parameters.                                          *)
(***************************************************************************)
EXTENDS Integers, Sequences, FiniteSets

P == INSTANCE Probes
R == INSTANCE Policy
T == INSTANCE Topology
E == INSTANCE Enumerators
O == INSTANCE Observability
A == INSTANCE Access

CONSTANTS Readings,    \* two readings of one probe, the second worse
          Inventories, \* graphs, for the scan for policy drift
          Sweeps,      \* platforms, some of whose commands fail
          Databases,   \* candidates, for the datastore probe
          Enrichments, \* graphs and the answers of the adapters
          Questions,   \* log queries
          Setups,      \* configuration and secret store of `connect test`
          Connections  \* entries of the pool

VARIABLE case

vars == <<case>>

Init == case = [kind |-> "start"]

IsSequence(s) == s \in Seq({s[i] : i \in DOMAIN s})

Take(kind, inputs) ==
  /\ case.kind = "start"
  /\ \E input \in inputs : case' = [kind |-> kind, input |-> input]

-------------------------------------------------------------------------------
(* Placement drift. *)

IsInventory(i) ==
  /\ IsFiniteSet(i.graph.entities)
  /\ \A e, f \in i.graph.entities : e.id = f.id => e = f
  /\ i.ids \in Seq({e.id : e \in i.graph.entities})
  /\ \A j, k \in DOMAIN i.ids : i.ids[j] = i.ids[k] => j = k
  /\ \A e \in i.graph.entities : \E k \in DOMAIN i.ids : i.ids[k] = e.id

Denied(graph, ids) == {v \in R!PolicyDriftScan(graph, ids) : v.severity = "P0"}

(* The placements that are left when each denied service is taken off the   *)
(* node it is denied on.                                                    *)
Relieved(graph, ids) ==
  [graph EXCEPT !.edges =
     {e \in @ : ~\E v \in Denied(graph, ids) : e \in {<<v.service, v.node>>, <<v.node, v.service>>}}]

(* Nothing runs on a manager, media services only beside a GPU, and one     *)
(* service at most of each role that is to be spread.                       *)
Tolerated(graph) ==
  \A n \in {e \in graph.entities : e.kind \in R!NodeKinds} :
    LET neighbors == R!NeighborsOf(graph, n)
        placed == {s \in neighbors : s.kind \in R!ServiceKinds}
    IN  /\ R!IsManager(n) => placed = {}
        /\ (\E s \in placed : s.role = "media") => R!HasGpu(n, neighbors)
        /\ \A s, t \in placed : s.role = t.role /\ s.role \in {"media", "arr-stack"} => s = t

(* Whoever takes each service that the scan denies off the node it is       *)
(* denied on has a placement that the rules tolerate and the scan has       *)
(* nothing against; a placement that they tolerate is not denied at all.    *)
DriftIsRepaired ==
  case.kind = "drift" =>
    LET graph == case.input.graph
        ids == case.input.ids
    IN  /\ Tolerated(Relieved(graph, ids))
        /\ Denied(Relieved(graph, ids), ids) = {}
        /\ Tolerated(graph) => Denied(graph, ids) = {}

-------------------------------------------------------------------------------
(* Failing commands of an Unraid host or a swarm, whose enumeration falls   *)
(* back from mdcmd to disks.ini and from shares.ini to the files of the     *)
(* shares: where both answer they name the same.                            *)

Readable(files) == {f \in files : f.readable}

UnraidAgrees(host) ==
  /\ host.mdcmd.ok /\ host.ini.ok /\ host.shares_ini.ok /\ host.gpus.ok
  /\ E!diskEntriesFromMdcmd(host.mdcmd.slots) # {}
  /\ {d.slot : d \in E!diskEntriesFromMdcmd(host.mdcmd.slots)}
       = {d.slot : d \in E!diskEntriesFromDisksIni(host.ini.slots)}
  /\ {s.name : s \in host.shares_ini.shares} = {f.name : f \in Readable(host.share_files)}

(* `now` answers like `host` but for the commands that fail. *)
UnraidFails(now, host, failed) ==
  /\ now.mdcmd.slots = host.mdcmd.slots /\ (now.mdcmd.ok <=> "mdcmd" \notin failed)
  /\ now.ini.slots = host.ini.slots /\ (now.ini.ok <=> "ini" \notin failed)
  /\ now.shares_ini.shares = host.shares_ini.shares /\ (now.shares_ini.ok <=> "shares" \notin failed)
  /\ now.gpus.lines = host.gpus.lines /\ (now.gpus.ok <=> "gpus" \notin failed)
  /\ Readable(now.share_files) \subseteq Readable(host.share_files)
  /\ "files" \notin failed => Readable(now.share_files) = Readable(host.share_files)
  /\ Readable(now.cron_files) \subseteq Readable(host.cron_files)
  /\ "cron" \notin failed => Readable(now.cron_files) = Readable(host.cron_files)

SwarmFails(now, host, failed) ==
  \A c \in {"nodes", "services", "tasks", "networks"} :
    host[c].ok /\ now[c].rows = host[c].rows /\ (now[c].ok <=> c \notin failed)

IsSweep(s) ==
  \A p \in s.platforms :
    /\ p.refused = {}
    /\ E!getEnumerator(p.kind) = "unraid" =>
         UnraidAgrees(s.healthy[p.id]) /\ UnraidFails(s.hosts[p.id], s.healthy[p.id], s.failed)
    /\ E!getEnumerator(p.kind) = "swarm" => SwarmFails(s.hosts[p.id], s.healthy[p.id], s.failed)

(* What a failing command may cost, by the kind of entity. *)
CostOf ==
  [nodes |-> {"node"}, services |-> {"service", "container"}, tasks |-> {"container"},
   networks |-> {"network"}, gpus |-> {"gpu"}, cron |-> {"job"}]

(* What two failing sources for one thing may cost besides. *)
Cost(failed) ==
  (UNION {CostOf[f] : f \in failed \cap DOMAIN CostOf})
  \cup {k \in {"storage-array", "storage-disk"} : {"mdcmd", "ini"} \subseteq failed}
  \cup {k \in {"share"} : {"shares", "files"} \subseteq failed}

(* An edge joins entities of its platform, or ends in the platform. *)
EdgesAreClosed(found) ==
  \A p \in DOMAIN found : \A e \in found[p].edges :
    /\ e.from \in found[p].entities
    /\ e.to \in found[p].entities \cup {E!PlatformEntity(p.id)}

SweepIsContained(s) ==
  LET found == E!DeepEnumerate(s.platforms, s.filter, s.hosts, s.head)
      healthy == E!DeepEnumerate(s.platforms, s.filter, s.healthy, s.head)
  IN  /\ EdgesAreClosed(found)
      /\ \A p \in DOMAIN found :
           /\ found[p].ok = healthy[p].ok
           /\ found[p].entities \subseteq healthy[p].entities
           /\ \A i \in healthy[p].entities \ found[p].entities : i[1] \in Cost(s.failed)

ProbeIsClosed(d) ==
  LET found == E!DatastoreProbe(d.candidates, d.asked) IN
  \A e \in found.edges : {e.from, e.to} \subseteq found.entities

-------------------------------------------------------------------------------
(* Enrichment: passes that throw, a proxy that fails, folders of the secret *)
(* store that cannot be listed.                                             *)

Names(tree) == UNION {tree[p].folders : p \in DOMAIN tree}

IsTree(tree) ==
  /\ <<>> \in DOMAIN tree /\ DOMAIN tree \subseteq Seq(Names(tree))
  /\ \A p \in DOMAIN tree : \A f \in tree[p].folders : Append(p, f) \in DOMAIN tree
  /\ \A p \in DOMAIN tree : tree[p].status \in {"ok", "missing", "error"}

(* `now` answers like `tree` but for the folders that it does not list. *)
TreeFails(now, tree) ==
  /\ IsTree(now) /\ DOMAIN now = DOMAIN tree
  /\ \A p \in DOMAIN tree : /\ tree[p].status = "ok"
                            /\ now[p].keys = tree[p].keys /\ now[p].folders = tree[p].folders

(* The mounts of the secret store that the graph names. *)
MountsOf(e) == T!extractKvMounts(Head(T!VaultsIn(e.listed)))

IsEnrichment(e) ==
  /\ T!VaultsIn(e.listed) # <<>>
  /\ T!deriveVaultAddress(Head(T!VaultsIn(e.listed)), e.env.vault_addr) # "" /\ e.env.vault_token
  /\ e.answers.max_depth \in Nat /\ e.answers.max_depth = e.healthy.max_depth
  /\ \A m \in MountsOf(e) : TreeFails(e.answers.trees[m], e.healthy.trees[m])
  /\ ~(e.healthy.npm_thrown \/ e.healthy.vault_thrown \/ e.healthy.deps_thrown \/ e.healthy.npm.failed)
  /\ e.answers.npm.hosts = e.healthy.npm.hosts

(* The folders the listing comes to: those to which each folder on the way  *)
(* leads and answers.                                                       *)
Reached(tree, depth) ==
  {q \in DOMAIN tree :
     /\ Len(q) <= depth
     /\ \A i \in 1..Len(q) : LET p == SubSeq(q, 1, i - 1)
                             IN  tree[p].status = "ok" /\ q[i] \in tree[p].folders}

(* The secrets of a mount: those of each folder the listing comes to, but   *)
(* none at all if one of these cannot be listed.                            *)
SecretsOf(tree, mount, depth) ==
  IF \E q \in Reached(tree, depth) : tree[q].status = "error" THEN {}
  ELSE UNION {{T!SecretRef(mount, Append(q, k)) : k \in tree[q].keys} :
                q \in {p \in Reached(tree, depth) : tree[p].status = "ok"}}

OfKind(graph, kind) == {e \in graph.entities : e.kind = kind}
OfType(graph, type) == {e \in graph.edges : e.type = type}

EnrichmentIsContained(e) ==
  LET now == T!enrich(e.graph, e.listed, e.env, e.answers, e.refused)
      healthy == T!enrich(e.graph, e.listed, e.env, e.healthy, e.refused)
      secrets == UNION {SecretsOf(e.answers.trees[m], m, e.answers.max_depth) : m \in MountsOf(e)}
  IN  /\ e.graph.entities \subseteq now.entities /\ now.entities \subseteq healthy.entities
      /\ e.graph.edges \subseteq now.edges /\ now.edges \subseteq healthy.edges
      /\ ~(e.answers.npm_thrown \/ e.answers.npm.failed) =>
           OfType(now, "routes-to") = OfType(healthy, "routes-to")
      /\ ~e.answers.deps_thrown => OfType(now, "depends-on") = OfType(healthy, "depends-on")
      /\ ~e.answers.vault_thrown =>
           OfKind(now, "secret-ref") =
             OfKind(e.graph, "secret-ref")
             \cup {[id |-> r, kind |-> "secret-ref"] : r \in secrets \ e.refused.entities}

(* A failing command, folder or pass costs what it would have found and     *)
(* nothing else: the commands, folders and passes beside it give all they   *)
(* have, nothing is found that is not there, and an edge that an enumerator *)
(* or the datastore probe returns joins entities it returns or ends in      *)
(* their platform.                                                          *)
FailureIsContained ==
  /\ case.kind = "sweep" => SweepIsContained(case.input)
  /\ case.kind = "databases" => ProbeIsClosed(case.input)
  /\ case.kind = "enrichment" => EnrichmentIsContained(case.input)

-------------------------------------------------------------------------------
(* Log queries. *)

IsTime(t) ==
  CASE t.kind = "duration" -> t.hours \in Int [] t.kind = "date" -> t.at \in Int [] OTHER -> TRUE

Held(backends) == UNION {backends[b].entries : b \in DOMAIN backends}

(* An entry is known by its place. *)
AreEntries(entries) ==
  /\ IsFiniteSet(entries)
  /\ \A e \in entries : {e.at, e.place, e.lands} \subseteq Int
  /\ \A e, f \in entries : e.place = f.place => e = f

(* Loki gives each line the time under which it is kept, and is asked first. *)
AreBackends(backends) ==
  /\ DOMAIN backends \subseteq {"loki", "opensearch"} /\ AreEntries(Held(backends))
  /\ "loki" \in DOMAIN backends => \A e \in backends["loki"].entries : e.stamp = "own"
  /\ DOMAIN backends = {"loki", "opensearch"} =>
       \A e \in backends["loki"].entries, f \in backends["opensearch"].entries : e.place < f.place

IsQuestion(q) ==
  /\ AreBackends(q.backends)
  /\ q.now \in Int /\ q.query.limit \in Int
  /\ q.query.since.kind \in {"duration", "date", "garbled", "absent"} /\ IsTime(q.query.since)
  /\ q.query.until.kind \in {"date", "garbled", "absent"} /\ IsTime(q.query.until)

Asked(query, e, now) ==
  /\ query.service \in {"", e.service}
  /\ e.at >= now - 168
  /\ query.since.kind = "duration" => e.at >= now - query.since.hours
  /\ query.since.kind = "date" => e.at >= query.since.at
  /\ query.since.kind = "absent" => e.at >= now - 1
  /\ e.at <= IF query.until.kind = "date" THEN query.until.at ELSE now

(* The log query returns as many of the entries that the backends with an   *)
(* address and an answer hold in the window asked for as were asked for, if   *)
(* there are that many, each once.  If each has a time that is a date, they   *)
(* are in the order of the times that were read, the latest first, and none    *)
(* whose own time was read is left out for an older one whose own was.  (One   *)
(* without a text for its time is taken for the newest, and may well displace  *)
(* newer ones; one that is no date leaves the order of all undefined.)         *)
NewestLogs ==
  case.kind = "question" =>
    LET q == case.input
        entries == O!LogsQuery(q.query, q.backends, q.configured, q.services, q.now).entries
        answering == {b \in DOMAIN q.backends :
                        /\ q.backends[b].status = "ok"
                        /\ O!Resolved(q.configured[b], O!discoverLogsEndpoints(q.services)[b]) # "none"}
        matching == {e \in UNION {q.backends[b].entries : b \in answering} :
                       q.query.until.kind # "garbled" /\ Asked(q.query, e, q.now)}
        returned == {entries[i] : i \in DOMAIN entries}
    IN  /\ returned \subseteq matching
        /\ \A i, j \in DOMAIN entries : i < j => entries[i] # entries[j]
        /\ Len(entries) = O!SmallerOf(O!clampLimit(q.query.limit), Cardinality(matching))
        /\ (\A e \in matching : e.stamp # "garbled") =>
             /\ \A i, j \in DOMAIN entries :
                  i < j => O!TimeRead(entries[i], q.now) >= O!TimeRead(entries[j], q.now)
             /\ \A e \in matching \ returned, f \in returned :
                  e.stamp = "own" /\ f.stamp = "own" => f.at >= O!SmallerOf(e.at, q.now)

-------------------------------------------------------------------------------
(* The hosts that `connect test` reaches, and the transports of an entry. *)

Lease(vault) == IF vault.login.lease = -1 THEN A!DefaultLease ELSE vault.login.lease

ConfigOf(s) == A!loadHomelabConfig(s.files, s.explicit, s.fromEnv)

(* A token that the store gave out for a lease is known to it for nine      *)
(* tenths of that lease at least.                                           *)
IsSetup(s) ==
  /\ s.vault.method \in {"approle", "token"} /\ {s.vault.env, s.vault.login.token} \subseteq BOOLEAN
  /\ s.vault.took \in Nat /\ s.vault.life \in Nat /\ s.vault.login.lease \in Nat \cup {-1}
  /\ s.vault.method = "approle" => s.vault.life > 0 /\ s.vault.life >= 9 * Lease(s.vault)
  /\ ConfigOf(s).ok =>
       /\ IsSequence(ConfigOf(s).hosts)
       /\ \A i \in DOMAIN ConfigOf(s).hosts : ConfigOf(s).hosts[i].mcp_endpoint \in BOOLEAN

(* The store gives the i-th host's key: whoever asks for it is known there  *)
(* when it is asked, and it has the key.                                    *)
KeyIsGiven(vault, hosts, i) ==
  LET secret == vault.secrets[hosts[i].key_ref.vault_path] IN
  /\ vault.env
  /\ vault.method = "approle" => A!Success(vault.login.status) /\ vault.login.token
  /\ vault.method = "token" => (i - 1) * vault.took < vault.life
  /\ A!Success(secret.status) /\ hosts[i].key_ref.vault_field \in secret.fields

(* The last entry of the host whose key is given can be used as it is       *)
(* pinned: there is no client for MCP, and Unraid knows no transport but    *)
(* ssh.                                                                     *)
CanBeReached(s, hosts, i) ==
  LET given == {j \in DOMAIN hosts : hosts[j].hostname = hosts[i].hostname /\ KeyIsGiven(s.vault, hosts, j)} IN
  \E j \in given :
    /\ \A k \in given : k <= j
    /\ "ssh" \in s.up[hosts[i].hostname]
    /\ hosts[j].mcp_endpoint => hosts[j].platform = "unraid"

SetupReaches(s) ==
  LET runtime == A!assembleRuntime(s.files, s.explicit, s.fromEnv, s.vault)
      hosts == ConfigOf(s).hosts
      test == A!runConnectTest(runtime, s.filter, s.up)
      tested == {i \in DOMAIN hosts : s.filter \in {"none", hosts[i].hostname}}
  IN  /\ runtime.ok <=> ConfigOf(s).ok /\ A!ping(s.vault.health)
      /\ runtime.ok =>
           /\ DOMAIN test.results = tested
           /\ \A i \in tested : test.results[i].outcome = "ok" <=> CanBeReached(s, hosts, i)
           /\ test.exit = "ok" <=> tested # {} /\ \A i \in tested : CanBeReached(s, hosts, i)

IsConnection(c) ==
  /\ c.entry.type \in A!McpOrSsh \cup {"unifi", "truenas", "unraid"}
  /\ c.entry.key \in BOOLEAN /\ c.client \in BOOLEAN

(* The transports that an entry may be reached by, and those it has the     *)
(* means for.                                                               *)
Permitted(entry) ==
  LET own == CASE entry.type \in A!McpOrSsh -> {"mcp", "ssh"}
               [] entry.type = "unifi" -> {"https"}
               [] entry.type = "truenas" -> {"https", "ssh"}
               [] entry.type = "unraid" -> {"ssh"}
  IN  own \ {t \in {"mcp", "ssh"} : entry.type \in A!McpOrSsh /\ entry.prefer \in {"mcp", "ssh"} \ {t}}

Equipped(c) == {"https"} \cup {t \in {"mcp"} : c.client} \cup {t \in {"ssh"} : c.entry.key}

ConnectionOpens(c) ==
  LET opened == A!connect(A!createConnection(c.entry, c.client), c.up)
      usable == Permitted(c.entry) \cap Equipped(c) \cap c.up
  IN  /\ opened.ok <=> usable # {}
      /\ opened.ok => opened.transport \in usable

(* The command reaches each host whose key the store gives, by the          *)
(* transport that it is pinned to, and reports success only if it reached   *)
(* all: a slow store, an expired token or a missing key costs no host but   *)
(* the one it is about, and a host pinned to MCP is not reached by ssh.     *)
HostsAreReached ==
  /\ case.kind = "setup" => SetupReaches(case.input)
  /\ case.kind = "connection" => ConnectionOpens(case.input)

-------------------------------------------------------------------------------
(* What a probe makes of a reading, and which readings are not better than  *)
(* others: no quantity is better, but some may be missing, which -1, "" or  *)
(* an item that is not listed stand for.  `...Unread(y, o)`: what of the    *)
(* reading y the observation o would rest on is missing, and nobody says so. *)

AtMost(m, n) == m \in Int /\ n \in Int /\ m <= n
Same(m, n) == m \in Int /\ m = n

NoLess(m, n) == n = -1 \/ AtMost(m, n)
Kept(m, n) == n = -1 \/ Same(m, n)

(* What is listed under a key is listed under it again and not better, or   *)
(* nothing is listed under it any more.                                     *)
Carried(found, other, Key(_), NotBetter(_, _)) ==
  \A s \in found : \/ \E t \in other : Key(t) = Key(s) /\ NotBetter(s, t)
                   \/ \A t \in other : Key(t) # Key(s)

SetNotBetter(x, y, Key(_), NotBetter(_, _)) ==
  ~y.read \/ (x.read /\ Carried(x.set, y.set, Key, NotBetter))

PostgresNotBetter(x, y) ==
  \/ y.ping # "1"
  \/ /\ x.ping = "1" /\ y.in_recovery \in {FALSE, x.in_recovery} /\ NoLess(x.lag, y.lag)
     /\ Kept(x.max_connections, y.max_connections) /\ NoLess(x.connections, y.connections)

(* A replica that does not say that it is one is taken for the primary. *)
PostgresUnread(y, o) ==
  \/ o.pattern = "replication_lag" /\ (~y.in_recovery \/ y.lag = -1)
  \/ o.pattern = "datastore_near_capacity" /\ -1 \in {y.connections, y.max_connections}

RedisNotBetter(x, y) ==
  \/ y.ping # "PONG"
  \/ /\ x.ping = "PONG" /\ y.role \in {"standalone", x.role} /\ NoLess(x.lag, y.lag)
     /\ Kept(x.max_connections, y.max_connections) /\ NoLess(x.connections, y.connections)
     /\ Kept(x.memory_limit, y.memory_limit) /\ NoLess(x.memory_used, y.memory_used)

RedisUnread(y, o) ==
  \/ o.pattern = "replication_lag" /\ (y.role = "standalone" \/ y.lag = -1)
  \/ /\ o.pattern = "datastore_near_capacity"
     /\ -1 \in {y.connections, y.max_connections, y.memory_used, y.memory_limit}

OpensearchNotBetter(x, y) ==
  \/ y.status \notin {"green", "yellow"}
  \/ /\ x.status \in {"green", "yellow"}
     /\ Kept(x.disk_limit, y.disk_limit) /\ NoLess(x.disk_used, y.disk_used)

OpensearchUnread(y, o) == o.pattern = "datastore_disk_pressure" /\ -1 \in {y.disk_used, y.disk_limit}

Neo4jNotBetter(x, y) == y.status = "lost" \/ x.status # "lost"

DatastoreNotBetter(x, y) ==
  /\ x.entity = y.entity
  /\ P!findHealthProbe(x.entity) \in {"postgres", "redis", "opensearch", "neo4j", "none"}
  /\ CASE P!findHealthProbe(x.entity) = "postgres" -> PostgresNotBetter(x.asked, y.asked)
       [] P!findHealthProbe(x.entity) = "redis" -> RedisNotBetter(x.asked, y.asked)
       [] P!findHealthProbe(x.entity) = "opensearch" -> OpensearchNotBetter(x.asked, y.asked)
       [] P!findHealthProbe(x.entity) = "neo4j" -> Neo4jNotBetter(x.asked, y.asked)
       [] OTHER -> TRUE

DatastoreUnread(y, o) ==
  CASE P!findHealthProbe(y.entity) = "postgres" -> PostgresUnread(y.asked, o)
    [] P!findHealthProbe(y.entity) = "redis" -> RedisUnread(y.asked, o)
    [] P!findHealthProbe(y.entity) = "opensearch" -> OpensearchUnread(y.asked, o)
    [] OTHER -> FALSE

(* A host whose answer is lost gives way to what the inventory says. *)
Unmeasured(x) ==
  /\ P!dfMountPath(x.entity) # <<>> \/ x.entity.kind = "pool"
  /\ P!HostSample(x.entity, x.host) = P!NoSample

(* More is used, of as much, and more came in since. *)
CapacityNotBetter(x, y) ==
  /\ x.entity = y.entity /\ x.pairs = y.pairs /\ Same(x.days, y.days)
  /\ \/ Unmeasured(y)
     \/ /\ x.host.read /\ y.host.read /\ x.host.line.columns = y.host.line.columns
        /\ Same(x.host.line.total, y.host.line.total)
        /\ AtMost(0, x.host.line.used) /\ AtMost(x.host.line.used, y.host.line.used)
  /\ \/ ~P!Measured(y.prev)
     \/ Same(x.prev.total, y.prev.total) /\ AtMost(0, y.prev.used) /\ AtMost(y.prev.used, x.prev.used)
  /\ x.pairs \in Seq([used : Int, total : Int])

CapacityUnread(y, o) ==
  \/ Unmeasured(y)
  \/ o.pattern = "capacity_growth" /\ ~P!Measured(y.prev)

HeartbeatNotBetter(x, y) == y.status # "read" \/ (x.status = "read" /\ AtMost(x.age, y.age))

ArrayNotBetter(x, y) ==
  ~y.read \/ (x.read /\ (x.mdState \in {"STARTED", "", y.mdState} \/ y.mdState \notin {"STARTED", "STOPPED"}))

ArrayUnread(y, o) == y.mdState = ""

PoolNotBetter(x, y) ==
  \/ ~y.read
  \/ /\ x.read
     /\ \A p \in DOMAIN x.pools \cap DOMAIN y.pools :
          \/ x.pools[p] \in {"ONLINE", y.pools[p]}
          \/ y.pools[p] \in {"FAULTED", "UNAVAIL", ""}

(* A pool without a state is reported, if less urgently than a faulted one. *)
PoolUnread(y, o) ==
  \/ o.resource \notin DOMAIN y.pools
  \/ o.severity = "P0" /\ y.pools[o.resource] = ""

ZfsNotBetter(x, y) ==
  \/ ~y.read
  \/ /\ x.read
     /\ \A p \in DOMAIN x.blocks \cap DOMAIN y.blocks : x.blocks[p] = "ONLINE" \/ y.blocks[p] # "ONLINE"

ZfsUnread(y, o) == o.resource \notin DOMAIN y.blocks

DiskNotBetter(d, e) ==
  \/ ~e.read
  \/ /\ NoLess(d.reallocated, e.reallocated) /\ NoLess(d.pending, e.pending)
     /\ d.health \in {"PASSED", "UNKNOWN"} \/ e.health # "PASSED"

SmartNotBetter(x, y) ==
  \/ ~y.read
  \/ x.read /\ \A d \in DOMAIN x.disks \cap DOMAIN y.disks : DiskNotBetter(x.disks[d], y.disks[d])

SmartUnread(y, o) ==
  \/ o.resource \notin DOMAIN y.disks
  \/ LET disk == y.disks[o.resource]
     IN  ~disk.read \/ -1 \in {disk.reallocated, disk.pending} \/ disk.health = "UNKNOWN"

EntryName(e) == e.name
EntryNotBetter(e, f) == e.type = f.type /\ (e.up \/ ~f.up)
ProxmoxUnread(y, o) == \A f \in y.set : f.name # o.resource

SwarmNotBetter(x, y) ==
  \/ ~y.read
  \/ /\ x.read
     /\ \A s \in DOMAIN x.services \cap DOMAIN y.services :
          \/ -1 \in {y.services[s].running, y.services[s].desired}
          \/ /\ Same(x.services[s].desired, y.services[s].desired)
             /\ AtMost(0, y.services[s].running) /\ AtMost(y.services[s].running, x.services[s].running)

SwarmUnread(y, o) ==
  \/ o.resource \notin DOMAIN y.services
  \/ -1 \in {y.services[o.resource].running, y.services[o.resource].desired}

DockerName(e) == IF e.parsed THEN e.name ELSE ""
DockerNotBetter(e, f) == e.parsed => f.parsed
DockerUnread(y, o) == \A f \in y.set : DockerName(f) # o.resource

K8sObject(e) == e.object
K8sNotBetter(e, f) == e.reason \notin {"BackOff", "OOMKilled"} \/ f.reason \in {"BackOff", "OOMKilled"}
K8sUnread(y, o) == \A f \in y.set : f.object # o.resource

UnifiAp(e) == e.ap
UnifiNotBetter(e, f) == e.key # "EVT_AP_LOST_CONTACT" \/ f.key = "EVT_AP_LOST_CONTACT"
UnifiUnread(y, o) == \A f \in y.set : f.ap # o.resource

CertNotBetter(x, y) ==
  /\ DOMAIN x = DOMAIN y
  /\ \A e \in DOMAIN x : ~y[e].read \/ (x[e].read /\ (~y[e].dated \/ AtMost(y[e].days, x[e].days)))

CertUnread(y, o) == ~y[o.resource].dated

OverdueTarget(e) == IF e.dated THEN e.target ELSE ""
OverdueNotBetter(e, f) == (e.dated => f.dated) /\ Same(e.max_age, f.max_age) /\ AtMost(e.age, f.age)
OverdueUnread(y, o) == \A f \in y.set : OverdueTarget(f) # o.resource

AlertResource(a) == P!alertResource(a.labels)

AlertNotBetter(a, b) ==
  /\ a.state \in {b.state, "inactive", "pending"}
  /\ P!Rank[P!alertSeverity(a.severity)] <= P!Rank[P!alertSeverity(b.severity)]

AlertsLost(x) == x.endpoint = "none" \/ x.answer.failed \/ x.answer.shape # x.api

AlertsNotBetter(x, y) ==
  /\ x.api = y.api /\ x.api \in DOMAIN P!FiringState
  /\ AlertsLost(y) \/ Carried(x.answer.alerts, y.answer.alerts, AlertResource, AlertNotBetter)

(* Whoever keeps the alerts is not missed when it does not answer. *)
AlertsUnread(y, o) == AlertsLost(y) \/ \A b \in y.answer.alerts : AlertResource(b) # o.resource

(* Of an entity: its status, its replicas and what was observed of it. *)
ObservedNotBetter(o, u) ==
  /\ o.resource = u.resource /\ {o.severity, u.severity} \subseteq DOMAIN P!Rank
  /\ P!Rank[o.severity] <= P!Rank[u.severity]
  /\ {o.age, u.age} \subseteq Nat /\ u.age <= o.age

ReplicasUnread(y) == y.entity.replicas.running = -1 \/ y.entity.replicas.desired = -1

ScoreNotBetter(x, y) ==
  /\ x.entity = [y.entity EXCEPT !.status = x.entity.status, !.replicas = x.entity.replicas]
  /\ x.entity.window \in Nat
  /\ {x.entity.status, y.entity.status} \subseteq DOMAIN O!StatusPenalty
  /\ O!StatusPenalty[x.entity.status] <= O!StatusPenalty[y.entity.status]
  /\ {x.entity.replicas.desired, x.entity.replicas.running} \subseteq Int
  /\ \/ ReplicasUnread(y)
     \/ /\ Same(x.entity.replicas.desired, y.entity.replicas.desired)
        /\ AtMost(0, y.entity.replicas.running)
        /\ AtMost(y.entity.replicas.running, x.entity.replicas.running)
  /\ IsSequence(x.observations) /\ IsSequence(y.observations)
  /\ Len(x.observations) = Len(y.observations)
  /\ \A i \in 1..Len(x.observations) : ObservedNotBetter(x.observations[i], y.observations[i])

(* Of a service: what answers about its metrics, logs and dashboards. *)
AnswerNotBetter(x, y, f) == y.status # "ok" \/ (x.status = "ok" /\ y[f] \subseteq x[f])

WiringNotBetter(x, y) ==
  /\ x.services = y.services /\ x.service = y.service
  /\ x.world.configured = y.world.configured /\ x.world.now = y.world.now
  /\ AnswerNotBetter(x.world.prometheus, y.world.prometheus, "targets")
  /\ AnswerNotBetter(x.world.grafana, y.world.grafana, "dashboards")
  /\ DOMAIN x.world.logs = DOMAIN y.world.logs
  /\ \A b \in DOMAIN x.world.logs : AnswerNotBetter(x.world.logs[b], y.world.logs[b], "entries")

IsService(x) ==
  /\ \E i \in DOMAIN x.services : x.services[i] = x.service
  /\ \A i \in DOMAIN x.services : x.services[i].id = x.service.id => x.services[i] = x.service
  /\ x.service.role \notin O!INFRA_ROLES
  /\ x.world.now \in Int
  /\ AreBackends(x.world.logs)

HostReport(probe, x) ==
  CASE probe = "datastore" -> P!DatastoreProbeEntity(x.entity, x.asked)
    [] probe = "capacity" -> P!CapacityProbeEntity(x.entity, x.host, x.pairs, x.prev, x.days)
    [] probe = "heartbeat" -> P!HeartbeatScan(x)
    [] probe = "array" -> P!UnraidArrayScan(x.read, x.mdState)
    [] probe = "pool" -> P!UnraidPoolScan(x.read, x.pools)
    [] probe = "zfs" -> P!ZfsScan(x.read, x.blocks)
    [] probe = "smart" -> P!SmartScan(x.read, x.disks)
    [] probe = "proxmox" -> P!ProxmoxScan(x.read, x.set)

ServiceReport(probe, x) ==
  CASE probe = "swarm" -> P!SwarmScan(x.read, x.services)
    [] probe = "docker" -> P!DockerScan(x.read, x.set)
    [] probe = "k8s" -> P!K8sScan(x.read, x.set)
    [] probe = "unifi" -> P!UnifiScan(x.read, x.set)
    [] probe = "cert" -> P!CertScan(x)
    [] probe = "overdue" -> P!BackupOverdueScan(x.read, x.set)
    [] probe = "alert" -> P!AlertScan(x.api, x.endpoint, x.answer)

HostProbes == {"datastore", "capacity", "heartbeat", "array", "pool", "zfs", "smart", "proxmox"}

ServiceProbes == {"swarm", "docker", "k8s", "unifi", "cert", "overdue", "alert"}

ScoreLost(x) ==
  LET scored == O!scoreAll({x.entity}, x.observations, {})
  IN  O!Quarter * 100 - (CHOOSE e \in scored : TRUE).score

NotWired(x) ==
  LET reports == {r \in O!onboardAll(x.services, x.world) : r.entity = x.service.id}
      channels == (CHOOSE r \in reports : TRUE).channels
  IN  Cardinality({c \in DOMAIN channels : channels[c] # "wired"})

HostNotBetter(probe, x, y) ==
  CASE probe = "datastore" -> DatastoreNotBetter(x, y)
    [] probe = "capacity" -> CapacityNotBetter(x, y)
    [] probe = "heartbeat" -> HeartbeatNotBetter(x, y)
    [] probe = "array" -> ArrayNotBetter(x, y)
    [] probe = "pool" -> PoolNotBetter(x, y)
    [] probe = "zfs" -> ZfsNotBetter(x, y)
    [] probe = "smart" -> SmartNotBetter(x, y)
    [] probe = "proxmox" -> SetNotBetter(x, y, EntryName, EntryNotBetter)

ServiceNotBetter(probe, x, y) ==
  CASE probe = "swarm" -> SwarmNotBetter(x, y)
    [] probe = "docker" -> SetNotBetter(x, y, DockerName, DockerNotBetter)
    [] probe = "k8s" -> SetNotBetter(x, y, K8sObject, K8sNotBetter)
    [] probe = "unifi" -> SetNotBetter(x, y, UnifiAp, UnifiNotBetter)
    [] probe = "cert" -> CertNotBetter(x, y)
    [] probe = "overdue" -> SetNotBetter(x, y, OverdueTarget, OverdueNotBetter)
    [] probe = "alert" -> AlertsNotBetter(x, y)

HostUnread(probe, y, o) ==
  CASE probe = "datastore" -> DatastoreUnread(y, o)
    [] probe = "capacity" -> CapacityUnread(y, o)
    [] probe = "heartbeat" -> FALSE
    [] probe = "array" -> ArrayUnread(y, o)
    [] probe = "pool" -> PoolUnread(y, o)
    [] probe = "zfs" -> ZfsUnread(y, o)
    [] probe = "smart" -> SmartUnread(y, o)
    [] probe = "proxmox" -> ProxmoxUnread(y, o)

ServiceUnread(probe, y, o) ==
  CASE probe = "swarm" -> SwarmUnread(y, o)
    [] probe = "docker" -> DockerUnread(y, o)
    [] probe = "k8s" -> K8sUnread(y, o)
    [] probe = "unifi" -> UnifiUnread(y, o)
    [] probe = "cert" -> CertUnread(y, o)
    [] probe = "overdue" -> OverdueUnread(y, o)
    [] probe = "alert" -> AlertsUnread(y, o)

(* `worse` is not better than `milder`. *)
IsReading(r) ==
  \/ r.probe \in HostProbes /\ HostNotBetter(r.probe, r.milder, r.worse)
  \/ r.probe \in ServiceProbes /\ ServiceNotBetter(r.probe, r.milder, r.worse)
  \/ /\ r.probe = "score"
     /\ {"id", "kind", "name", "window", "score", "grade"} \subseteq DOMAIN r.milder.entity
     /\ ScoreNotBetter(r.milder, r.worse)
  \/ /\ r.probe = "wiring" /\ IsService(r.milder) /\ IsService(r.worse)
     /\ WiringNotBetter(r.milder, r.worse)

(* The name under which a probe reports that its host does not answer. *)
HostOf ==
  [array |-> "array", pool |-> "pool", zfs |-> "zfs", smart |-> "smart", proxmox |-> "proxmox",
   swarm |-> "swarm", docker |-> "dockerd", k8s |-> "cluster", unifi |-> "unifi",
   overdue |-> "backup-manifest"]

(* Something as urgent is said of the same thing or of its whole host. *)
Told(probe, o, found) ==
  \E p \in found : /\ \/ p.resource = o.resource
                      \/ probe \in DOMAIN HostOf /\ p.resource = HostOf[probe]
                   /\ P!Rank[o.severity] <= P!Rank[p.severity]

(* What a probe reports of a reading is not dropped or taken less seriously *)
(* when the reading becomes worse in some of its quantities and better in   *)
(* none: of the same disk, pool, service or database it reports something   *)
(* as urgent, or that its host does not answer, a database that stops       *)
(* answering or a pool without a state included.  It stays silent about     *)
(* those things alone on which the quantity or line that it went by is      *)
(* itself missing, and about which the probes are silent: `...Unread` names *)
(* them, and what is missing of one thing silences none of the others.  The *)
(* score takes off no less, but for the replicas when they are not known,   *)
(* and the onboarding finds no fewer channels open.                         *)
WorseIsNotMilder ==
  case.kind = "reading" =>
    LET probe == case.input.probe
        x == case.input.milder
        y == case.input.worse
    IN  /\ probe \in HostProbes =>
             \A o \in HostReport(probe, x) : Told(probe, o, HostReport(probe, y)) \/ HostUnread(probe, y, o)
        /\ probe \in ServiceProbes =>
             \A o \in ServiceReport(probe, x) :
               Told(probe, o, ServiceReport(probe, y)) \/ ServiceUnread(probe, y, o)
        /\ probe = "score" =>
             ScoreLost(x) <= ScoreLost(y)
                             + IF ReplicasUnread(y) THEN O!ReplicaPenalty(x.entity.replicas) ELSE 0
        /\ probe = "wiring" => NotWired(x) <= NotWired(y)

-------------------------------------------------------------------------------
(* The inputs that each part may be given. *)
ASSUME InputAssumption ==
  /\ \A r \in Readings : IsReading(r)
  /\ \A i \in Inventories : IsInventory(i)
  /\ \A s \in Sweeps : IsSweep(s)
  /\ \A e \in Enrichments : IsEnrichment(e)
  /\ \A q \in Questions : IsQuestion(q)
  /\ \A s \in Setups : IsSetup(s)
  /\ \A c \in Connections : IsConnection(c)

Next ==
  \/ Take("reading", Readings)
  \/ Take("drift", Inventories)
  \/ Take("sweep", Sweeps)
  \/ Take("databases", Databases)
  \/ Take("enrichment", Enrichments)
  \/ Take("question", Questions)
  \/ Take("setup", Setups)
  \/ Take("connection", Connections)

Spec == Init /\ [][Next]_vars
===============================================================================
