------------------------------ MODULE Enumerators -----------------------------
(***************************************************************************)
(* What the enumerators of src/discovery/enumerators and the datastore     *)
(* probe make of the answers of one platform: entities and edges for the   *)
(* inventory graph.                                                        *)
(*                                                                         *)
(* `host` gives the answer to each command: FALSE in `ok` when the command *)
(* failed or printed nothing, which the enumerators treat alike.  An id is *)
(* a tuple of a kind and what makes it unique; the attributes that nothing *)
(* reads here and the times of an entry are left out.                      *)
(***************************************************************************)
EXTENDS Integers, Sequences, FiniteSets

PlatformEntity(pid) == <<"platform", pid>>

Edge(type, from, to) == [type |-> type, from |-> from, to |-> to]

MemberOfPlatform(ids, pid) == {Edge("member-of", i, PlatformEntity(pid)) : i \in ids}

-------------------------------------------------------------------------------
(* Unraid. *)

(* The slots of mdcmd that have a disk, the sections of disks.ini that have a device. *)
diskEntriesFromMdcmd(slots) ==
  {[slot |-> s.slot, device |-> s.device, spunDown |-> s.status \in {"DISK_NP", "DISK_NP_DSBL"}] :
     s \in {t \in slots : t.slot # ""}}

diskEntriesFromDisksIni(sections) ==
  {[slot |-> s.slot, device |-> s.device, spunDown |-> s.spun] : s \in {t \in sections : t.device # ""}}

(* mdcmd unless it names no disk, else disks.ini, which is taken for a running array. *)
fetchArrayAndDisks(host) ==
  IF host.mdcmd.ok /\ diskEntriesFromMdcmd(host.mdcmd.slots) # {}
  THEN [found |-> TRUE, mdState |-> host.mdcmd.mdState, disks |-> diskEntriesFromMdcmd(host.mdcmd.slots)]
  ELSE IF host.ini.ok
  THEN [found |-> TRUE, mdState |-> "STARTED", disks |-> diskEntriesFromDisksIni(host.ini.slots)]
  ELSE [found |-> FALSE, mdState |-> "", disks |-> {}]

(* shares.ini unless it is empty, else each file of the share configuration that can be read. *)
fetchShares(host) ==
  IF host.shares_ini.ok /\ host.shares_ini.shares # {} THEN host.shares_ini.shares
  ELSE {f \in host.share_files : f.readable}

(* A line of nvidia-smi has six columns. *)
parseNvidiaSmi(lines) == {l.index : l \in {k \in lines : k.columns >= 6}}

fetchGpus(host) == IF host.gpus.ok THEN parseNvidiaSmi(host.gpus.lines) ELSE {}

(* Comments, blank lines and assignments are no jobs. *)
parseCrontab(file) == {[source |-> file.path, line |-> l.text] : l \in {k \in file.lines : k.kind \in {"@", "five"}}}

fetchJobs(host) == UNION {parseCrontab(f) : f \in {g \in host.cron_files : g.readable}}

(* 24 characters of base64 stand for the first 18 of "source:schedule:command". *)
(* The path of a plugin's file is longer; of a file in /etc/cron.d they hold    *)
(* six characters of its name.                                                 *)
JobKey(job, head) == head[job.source]

DiskId(pid, disk) == <<"storage-disk", pid, disk.slot>>

(* The disk of that slot, else the one of that device. *)
DiskNamed(name, disks) ==
  LET bySlot == {d \in disks : d.slot = name}
      byDevice == {d \in disks : d.device # "" /\ d.device = name}
  IN  IF bySlot # {} THEN bySlot ELSE byDevice

GpuIds(pid, host) == {<<"gpu", pid, g>> : g \in fetchGpus(host)}

JobIds(pid, host, head) == {<<"job", pid, JobKey(j, head)>> : j \in fetchJobs(host)}

UnraidEnumerate(pid, host, head) ==
  LET storage == fetchArrayAndDisks(host)
      array == <<"storage-array", pid>>
      arrays == IF storage.found THEN {array} ELSE {}
      disks == {DiskId(pid, d) : d \in storage.disks}
      share(s) == <<"share", pid, s.name>>
      shares == {share(s) : s \in fetchShares(host)}
      gpus == GpuIds(pid, host)
      entities == arrays \cup disks \cup shares \cup gpus \cup JobIds(pid, host, head)
  IN  [entities |-> entities,
       edges |-> MemberOfPlatform(entities, pid)
                 \cup {Edge("member-of", d, array) : d \in disks}
                 \cup {Edge("runs-on", g, PlatformEntity(pid)) : g \in gpus}
                 \cup UNION {{Edge("backed-by", share(s), DiskId(pid, d)) :
                                d \in UNION {DiskNamed(n, storage.disks) : n \in s.included}} :
                               s \in fetchShares(host)}]

-------------------------------------------------------------------------------
(* Docker Swarm. *)

Answer(command) == IF command.ok THEN command.rows ELSE {}

(* The tasks are asked for only when there is a service; those that are to stop are left out. *)
RunningTasks(host) ==
  {t \in Answer(host.tasks) : Answer(host.services) # {} /\ t.desired = "Running"}

(* Networks without a label count when they span the swarm. *)
OwnNetworks(host) == {n \in Answer(host.networks) : n.driver = "overlay" \/ n.labelled}

SwarmEnumerate(pid, host) ==
  LET node(n) == <<"node", pid, n.id>>
      service(s) == <<"service", pid, s.name>>
      container(t) == <<"container", pid, t.id>>
      nodes == Answer(host.nodes)
      services == Answer(host.services)
      tasks == RunningTasks(host)
      networks == {<<"network", pid, n.name>> : n \in OwnNetworks(host)}
      members == {node(n) : n \in nodes} \cup {service(s) : s \in services} \cup networks
  IN  [entities |-> members \cup {container(t) : t \in tasks},
       edges |->
         MemberOfPlatform(members, pid)
         \cup {Edge("exposes", service(s), PlatformEntity(pid)) : s \in {r \in services : r.ports # {}}}
         \cup (UNION {{Edge("runs-on", container(t), node(n)) :
                         n \in {m \in nodes : t.node \in {m.id, m.hostname}}} : t \in tasks})
         \cup UNION {{Edge("member-of", container(t), service(s)) :
                        s \in {r \in services : t.service \in {r.name, r.id}}} : t \in tasks}]

(* The enumerators of Proxmox and Kubernetes find nothing yet. *)
StubEnumerate == [entities |-> {}, edges |-> {}]

-------------------------------------------------------------------------------
(* DeepEnumerator: the platforms one after another. *)

getEnumerator(kind) ==
  CASE kind \in {"docker-swarm", "docker", "portainer"} -> "swarm"
    [] kind \in {"proxmox-ve", "kubernetes"} -> "stub"
    [] kind = "unraid" -> "unraid"
    [] OTHER -> "none"

Enumerated(platform, host, head) ==
  CASE getEnumerator(platform.kind) = "unraid" -> UnraidEnumerate(platform.id, host, head)
    [] getEnumerator(platform.kind) = "swarm" -> SwarmEnumerate(platform.id, host)
    [] OTHER -> StubEnumerate

(* A platform without an enumerator or a connection counts for nothing,    *)
(* nor does one whose rows its enumerator cannot read and throws; an       *)
(* entity the store refuses is passed over, its edges are not.              *)
EnumeratePlatform(platform, host, head) ==
  IF getEnumerator(platform.kind) = "none" \/ ~platform.connects \/ ~platform.readable
  THEN [ok |-> FALSE, entities |-> {}, edges |-> {}]
  ELSE [ok |-> TRUE, entities |-> Enumerated(platform, host, head).entities \ platform.refused,
        edges |-> Enumerated(platform, host, head).edges]

DeepEnumerate(platforms, filter, hosts, head) ==
  [p \in {q \in platforms : filter = {} \/ q.id \in filter} |-> EnumeratePlatform(p, hosts[p.id], head)]

-------------------------------------------------------------------------------
(* Databases: what the container of a database says of itself. *)

Unknown == [health |-> "unknown", children |-> {}, role |-> ""]
Down == [Unknown EXCEPT !.health = "down"]

IntrospectPostgres(asked) ==
  IF ~asked.alive THEN Unknown
  ELSE [health |-> "ok", children |-> asked.databases,
        role |-> IF asked.in_recovery THEN "replica" ELSE "primary"]

IntrospectRedis(asked) ==
  IF ~asked.alive THEN Down
  ELSE [health |-> "ok", children |-> asked.databases,
        role |-> IF asked.role = "" THEN "standalone" ELSE asked.role]

HealthOf(status) ==
  CASE status = "green" -> "ok" [] status = "yellow" -> "degraded" [] status = "red" -> "down"
    [] OTHER -> "unknown"

(* Indices whose name starts with "." are the system's. *)
IntrospectOpensearch(asked) ==
  IF ~asked.alive THEN Unknown
  ELSE IF asked.garbled THEN Down
  ELSE [health |-> HealthOf(asked.status), children |-> asked.databases \ asked.system, role |-> ""]

IntrospectNeo4j(asked) ==
  IF ~asked.alive THEN Unknown
  ELSE [health |-> IF asked.offline = {} THEN "ok" ELSE "degraded",
        children |-> asked.databases \ asked.system, role |-> ""]

Introspect(engine, asked) ==
  CASE engine = "postgres" -> IntrospectPostgres(asked)
    [] engine = "redis" -> IntrospectRedis(asked)
    [] engine = "opensearch" -> IntrospectOpensearch(asked)
    [] engine = "neo4j" -> IntrospectNeo4j(asked)

(* Services known for a database or a cache, and those whose image an engine knows. *)
findCandidates(entities) == {e \in entities : e.role \in {"database", "cache"} \/ e.engine # "none"}

Introspection(entity, asked) ==
  IF entity.engine = "none" \/ ~entity.connects THEN Unknown ELSE Introspect(entity.engine, asked)

DatastoreId(entity) == <<"datastore", entity.name>>

DatastoreProbe(entities, asked) ==
  LET found == findCandidates(entities)
      children(e) == {<<"database", e.name, c>> : c \in Introspection(e, asked[e.name]).children}
  IN  [discovered |-> Cardinality(found),
       skipped |-> Cardinality({e \in found : Introspection(e, asked[e.name]).health = "unknown"}),
       entities |-> {DatastoreId(e) : e \in found} \cup UNION {children(e) : e \in found},
       edges |-> UNION {{Edge("member-of", c, DatastoreId(e)) : c \in children(e)} : e \in found}]
===============================================================================
