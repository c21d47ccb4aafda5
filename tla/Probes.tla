-------------------------------- MODULE Probes --------------------------------
(***************************************************************************)
(* What each probe of src/observation/probes reports for what it reads.    *)
(*                                                                         *)
(* A scan is an operator from the answers of the host to the set of        *)
(* observations it returns.  Numbers are whole percentages, seconds or     *)
(* days; -1 is a number the host did not give; `read` is FALSE when the    *)
(* host cannot be asked or its answer does not parse.  The details of an   *)
(* observation are left out: two observations of one scan that differ in   *)
(* their details alone are one (they share their dedup key, so the         *)
(* pipeline keeps one of them anyway).                                     *)
(***************************************************************************)
EXTENDS Integers, Sequences, FiniteSets

Obs(pattern, resource, severity) ==
  [pattern |-> pattern, resource |-> resource, severity |-> severity]

\* Bug: a host that cannot be asked is no reason to worry.
unreachableMild(resource) == Obs("daemon_heartbeat_stale", resource, "P2")

unreachable(resource) == Obs("daemon_heartbeat_stale", resource, "P0")

Rank == [P0 |-> 3, P1 |-> 2, P2 |-> 1]

Scan(read, resource, found) == IF read THEN found ELSE {unreachable(resource)}

AtLeast(part, whole, percent) == whole > 0 /\ part >= 0 /\ part * 100 >= percent * whole

-------------------------------------------------------------------------------
(* Databases.  `asked` gives the answer of each command the engine's probe  *)
(* sends, "lost" when docker exec fails or returns another exit code.       *)

DefaultSignals ==
  [alive |-> FALSE, connections |-> -1, max_connections |-> -1, role |-> "unknown", lag |-> -1,
   disk_used |-> -1, disk_limit |-> -1, memory_used |-> -1, memory_limit |-> -1]

ImagesOf ==
  [postgres |-> {"postgres", "postgresql", "timescaledb", "pgvector"},
   redis |-> {"redis", "valkey", "dragonfly", "keydb"},
   opensearch |-> {"opensearch", "elasticsearch"},
   neo4j |-> {"neo4j"}]

EngineOrder == <<"postgres", "redis", "opensearch", "neo4j">>

ProbeMatches(engine, entity) == entity.engine = engine \/ entity.image \in ImagesOf[engine]

(* The first registered probe that matches, "none" when there is none. *)
findHealthProbe(entity) ==
  LET found == SelectSeq(EngineOrder, LAMBDA engine : ProbeMatches(engine, entity))
  IN  IF found = <<>> THEN "none" ELSE Head(found)

PostgresSignals(asked) ==
  IF asked.ping # "1" THEN DefaultSignals
  ELSE [DefaultSignals EXCEPT
          !.alive = TRUE,
          !.connections = asked.connections,
          !.max_connections = asked.max_connections,
          !.role = IF asked.in_recovery THEN "replica" ELSE "primary",
          !.lag = IF asked.in_recovery THEN asked.lag ELSE -1,
          !.disk_used = asked.disk_used]

(* maxmemory 0 means that there is no limit; "slave" is the old name of a replica. *)
RedisSignals(asked) ==
  IF asked.ping # "PONG" THEN DefaultSignals
  ELSE [DefaultSignals EXCEPT
          !.alive = TRUE,
          !.connections = asked.connections,
          !.max_connections = asked.max_connections,
          !.role = IF asked.role = "slave" THEN "replica" ELSE asked.role,
          !.lag = asked.lag,
          !.memory_used = asked.memory_used,
          !.memory_limit = IF asked.memory_limit > 0 THEN asked.memory_limit ELSE -1]

(* A red cluster is down.  The disks of all nodes are summed up. *)
OpensearchSignals(asked) ==
  IF asked.status \in {"lost", "garbled"} THEN DefaultSignals
  ELSE [DefaultSignals EXCEPT
          !.alive = asked.status \in {"green", "yellow"},
          !.role = "standalone",
          !.disk_used = IF asked.disk_limit > 0 THEN asked.disk_used ELSE -1,
          !.disk_limit = IF asked.disk_limit > 0 THEN asked.disk_limit ELSE -1]

Neo4jSignals(asked) ==
  IF asked.status = "lost" THEN DefaultSignals
  ELSE [DefaultSignals EXCEPT !.alive = TRUE, !.role = "standalone"]

CollectSignals(engine, asked) ==
  CASE engine = "postgres" -> PostgresSignals(asked)
    [] engine = "redis" -> RedisSignals(asked)
    [] engine = "opensearch" -> OpensearchSignals(asked)
    [] engine = "neo4j" -> Neo4jSignals(asked)

SaturationPercent == 85
ReplicationLagSeconds == 30

(* A database that is down is reported as down and as nothing else. *)
DatastoreReport(name, s) ==
  IF ~s.alive THEN {Obs("datastore_unhealthy", name, "P0")}
  ELSE {o \in {Obs("replication_lag", name, "P1")} :
          s.role = "replica" /\ s.lag > ReplicationLagSeconds}
       \cup {o \in {Obs("datastore_near_capacity", name, "P1")} :
               \/ AtLeast(s.connections, s.max_connections, SaturationPercent)
               \/ AtLeast(s.memory_used, s.memory_limit, SaturationPercent)}
       \cup {o \in {Obs("datastore_disk_pressure", name, "P0")} :
               AtLeast(s.disk_used, s.disk_limit, SaturationPercent)}

DatastoreProbeEntity(entity, asked) ==
  IF findHealthProbe(entity) = "none" THEN {}
  ELSE DatastoreReport(entity.name, CollectSignals(findHealthProbe(entity), asked))

-------------------------------------------------------------------------------
(* Capacity.  An entity is measured with df or zpool list where there is a *)
(* host to ask, else from the attributes of its inventory entry.           *)

CapacityKinds == {"storage-array", "storage-disk", "share", "datastore", "pool"}

NoSample == [used |-> -1, total |-> -1]

Measured(sample) == sample.total > 0 /\ sample.used >= 0

(* A line of df has 5 columns at least, a line of zpool list 3. *)
ParseLine(line, columns) ==
  IF line.columns >= columns /\ line.total > 0 /\ line.used >= 0
  THEN [used |-> line.used, total |-> line.total] ELSE NoSample

dfMountPath(entity) ==
  CASE entity.kind = "share" -> <<"/mnt", entity.name>>
    [] entity.kind = "storage-array" -> <<"/mnt", "user">>
    [] entity.kind = "storage-disk" -> <<"/mnt", IF entity.slot # "" THEN entity.slot ELSE entity.name>>
    [] OTHER -> <<>>

(* The first pair of attributes that is a measurement. *)
readCapacityFromAttributes(pairs) ==
  LET measured == {i \in DOMAIN pairs : Measured(pairs[i])}
  IN  IF measured = {} THEN NoSample
      ELSE pairs[CHOOSE i \in measured : \A j \in measured : i <= j]

HostSample(entity, host) ==
  IF ~host.read THEN NoSample
  ELSE IF dfMountPath(entity) # <<>> THEN ParseLine(host.line, 5)
  ELSE IF entity.kind = "pool" THEN ParseLine(host.line, 3)
  ELSE NoSample

collectSample(entity, host, pairs) ==
  IF HostSample(entity, host) # NoSample THEN HostSample(entity, host)
  ELSE readCapacityFromAttributes(pairs)

WarnPercent == 80
CriticalPercent == 90
GrowthWindow == 7    \* days

(* The time to full is what is free divided by what came in per day. *)
FullWithin(window, prev, sample, days) ==
  /\ Measured(prev) /\ days > 0
  /\ sample.used > prev.used
  /\ sample.total > sample.used
  /\ (sample.total - sample.used) * days <= window * (sample.used - prev.used)

CapacityReport(resource, prev, sample, days) ==
  IF sample = NoSample THEN {}
  ELSE IF AtLeast(sample.used, sample.total, CriticalPercent)
  THEN {Obs("capacity_critical", resource, "P0")}
  ELSE IF AtLeast(sample.used, sample.total, WarnPercent)
  THEN {Obs("capacity_warning", resource, "P1")}
  ELSE IF FullWithin(GrowthWindow, prev, sample, days)
  THEN {Obs("capacity_growth", resource, "P1")}
  ELSE {}

CapacityProbeEntity(entity, host, pairs, prev, days) ==
  IF entity.kind \notin CapacityKinds THEN {}
  ELSE CapacityReport(<<entity.kind, entity.name>>, prev, collectSample(entity, host, pairs), days)

-------------------------------------------------------------------------------
(* Alerts of Alertmanager or Prometheus. *)

alertSeverity(label) ==
  CASE label = "critical" -> "P0" [] label = "warning" -> "P1" [] OTHER -> "P2"

ResourceLabelPriority == <<"instance", "pod", "service", "job", "alertname">>

alertResource(labels) ==
  LET named == SelectSeq(ResourceLabelPriority, LAMBDA key : labels[key] # "")
  IN  IF named = <<>> THEN <<"alert", "unknown">> ELSE <<Head(named), labels[Head(named)]>>

FiringState == [alertmanager |-> "active", prometheus |-> "firing"]

(* An alert without a state is reported. *)
MapAlerts(api, alerts) ==
  {Obs("prometheus_alert", alertResource(a.labels), alertSeverity(a.severity)) :
     a \in {b \in alerts : b.state \in {"", FiringState[api]}}}

entityBaseUrl(entity) ==
  IF entity.url # "" THEN entity.url
  ELSE IF entity.host # "" THEN entity.host
  ELSE "none"

(* The first monitoring service that runs Alertmanager, else the first that runs Prometheus. *)
discoverEndpoint(services) ==
  LET running(image) == SelectSeq(services, LAMBDA e : e.role = "monitoring" /\ image \in e.images)
      preferred == running("alertmanager") \o running("prometheus")
  IN  IF preferred = <<>> THEN "none" ELSE entityBaseUrl(Head(preferred))

resolveEndpoint(configured, services) ==
  IF configured # "" THEN configured ELSE discoverEndpoint(services)

(* The answer counts when it came, is ok, parses and has the shape of the   *)
(* API that is configured, which is Alertmanager's unless one says otherwise. *)
AlertScan(api, endpoint, answer) ==
  IF endpoint = "none" \/ answer.failed \/ answer.shape # api THEN {}
  ELSE MapAlerts(api, answer.alerts)

-------------------------------------------------------------------------------
(* Hosts and disks. *)

StaleAfter == 5    \* minutes

HeartbeatScan(file) ==
  IF file.status = "read" /\ file.age <= StaleAfter THEN {}
  ELSE {Obs("daemon_heartbeat_stale", "daemon/autonomous-dev", "P0")}

(* An Unraid array that says nothing is taken for one that runs. *)
UnraidArrayScan(read, mdState) ==
  Scan(read, "array",
       {o \in {Obs("disk_io_error", "array", IF mdState = "STOPPED" THEN "P1" ELSE "P0")} :
          mdState \notin {"STARTED", ""}})

(* A pool for which there is no state left is "UNKNOWN".  States are given  *)
(* to pools in the order of the lines, so that it is the last of them.      *)
UnraidPoolScan(read, pools) ==
  Scan(read, "pool",
       {Obs("zfs_pool_degraded", pool, IF pools[pool] \in {"FAULTED", "UNAVAIL"} THEN "P0" ELSE "P1") :
            pool \in {p \in DOMAIN pools : pools[p] # "ONLINE"}})

(* A pool whose block has no state line is "UNKNOWN". *)
parseZpoolStatus(blocks) ==
  [pool \in DOMAIN blocks |-> IF blocks[pool] = "" THEN "UNKNOWN" ELSE blocks[pool]]

ZfsScan(read, blocks) ==
  Scan(read, "zfs",
       {Obs("zfs_pool_degraded", pool, "P0") :
            pool \in {p \in DOMAIN blocks : parseZpoolStatus(blocks)[p] # "ONLINE"}})

SmartBad(disk) ==
  disk.reallocated > 0 \/ disk.pending > 0 \/ disk.health \notin {"PASSED", "UNKNOWN"}

(* A disk smartctl cannot read is passed over.  An attribute that is not in *)
(* its answer, -1, counts as 0.                                             *)
SmartScan(read, disks) ==
  Scan(read, "smart",
       {Obs("disk_io_error", dev, "P0") :
            dev \in {d \in DOMAIN disks : disks[d].read /\ SmartBad(disks[d])}})

ProxmoxScan(read, entries) ==
  Scan(read, "proxmox",
       {Obs(IF e.type = "node" THEN "daemon_heartbeat_stale" ELSE "disk_io_error", e.name, "P0") :
            e \in {d \in entries : \/ d.type = "node" /\ ~d.up
                                   \/ d.type = "storage" /\ ~d.up}})

-------------------------------------------------------------------------------
(* Containers, certificates, backups and access points. *)

(* docker service ls gives "running/desired"; -1 is no number. *)
SwarmScan(read, services) ==
  Scan(read, "swarm",
       {Obs("crash_loop", s, IF services[s].running = 0 THEN "P0" ELSE "P1") :
            s \in {t \in DOMAIN services : /\ services[t].running >= 0
                                           /\ services[t].running < services[t].desired}})

DockerScan(read, events) ==
  Scan(read, "dockerd",
       {Obs("oom_kill", e.name, "P1") : e \in {f \in events : f.parsed /\ f.name # ""}})

K8sScan(read, events) ==
  Scan(read, "cluster",
       {Obs(IF e.reason = "OOMKilled" THEN "oom_kill" ELSE "crash_loop", e.object, "P1") :
            e \in {f \in events : f.reason \in {"BackOff", "OOMKilled"}}})

UnifiScan(read, events) ==
  Scan(read, "unifi",
       {Obs("unifi_ap_offline", e.ap, "P1") : e \in {f \in events : f.key = "EVT_AP_LOST_CONTACT"}})

WarnDays == 7

(* A certificate whose date is no date is not near its end. *)
CertScan(endpoints) ==
  UNION {Scan(endpoints[e].read, e,
              {o \in {Obs("cert_expiry_imminent", e, "P2")} :
                 endpoints[e].dated /\ endpoints[e].days <= WarnDays}) :
           e \in DOMAIN endpoints}

DayHours == 24    \* max_age_seconds when the manifest has none

(* Each entry is looked at, but for those whose date is no date. *)
BackupOverdueScan(read, entries) ==
  Scan(read, "backup-manifest",
       {Obs("backup_overdue", e.target, "P1") :
            e \in {f \in entries : f.dated /\ f.age > (IF f.max_age = -1 THEN DayHours ELSE f.max_age)}})
===============================================================================
