---------------------------- MODULE MCAlgorithms ----------------------------
(***************************************************************************)
(* Algorithms for TLC: small sets of inputs at which each part of the      *)
(* program decides one way or the other.                                   *)
(***************************************************************************)
EXTENDS Algorithms, TLC

C == INSTANCE Catalog

-------------------------------------------------------------------------------
(* A reading has two quantities, each at one of three levels of harm or, at *)
(* the last level, missing.                                                 *)

Levels == 0..3

At(level, values) == values[level + 1]

DatastoreReading(image, a, b) ==
  [entity |-> [name |-> "db", engine |-> "none", image |-> image],
   asked |->
     CASE image = "pgvector" ->
            [ping |-> At(a, <<"1", "1", "lost", "1">>), in_recovery |-> b < 3, lag |-> At(a, <<30, 31, 99, -1>>),
             connections |-> At(b, <<84, 85, 100, -1>>), max_connections |-> 100, disk_used |-> 0]
       [] image = "valkey" ->
            [ping |-> At(a, <<"PONG", "PONG", "lost", "PONG">>), role |-> IF a = 3 THEN "standalone" ELSE "slave",
             lag |-> At(a, <<0, 31, 31, -1>>), connections |-> 1, max_connections |-> 100,
             memory_used |-> At(b, <<84, 85, 100, -1>>), memory_limit |-> At(b, <<100, 100, 100, -1>>)]
       [] image = "elasticsearch" ->
            [status |-> At(a, <<"green", "yellow", "red", "lost">>), disk_used |-> At(b, <<84, 85, 100, -1>>),
             disk_limit |-> At(b, <<100, 100, 100, -1>>)]
       [] image = "neo4j" -> [status |-> At(a, <<"ok", "ok", "lost", "lost">>)]]

Images == {"pgvector", "valkey", "elasticsearch", "neo4j"}

CapacityReading(a, b) ==
  [entity |-> [kind |-> "share", name |-> "media", slot |-> ""],
   host |-> [read |-> a < 3, line |-> [columns |-> At(b, <<6, 6, 6, 4>>), used |-> At(a, <<79, 80, 90, 79>>),
                                       total |-> 100]],
   pairs |-> <<[used |-> 1, total |-> 100]>>,
   prev |-> At(b, <<[used |-> 70, total |-> 100], [used |-> 50, total |-> 100], P!NoSample,
                    [used |-> 50, total |-> 100]>>),
   days |-> 7]

HostReading(probe, a, b) ==
  CASE probe = "heartbeat" -> [status |-> At(b, <<"read", "read", "missing", "garbled">>), age |-> a + 4]
    [] probe = "array" -> [read |-> b < 2, mdState |-> At(a, <<"STARTED", "STOPPED", "ERROR", "">>)]
    [] probe = "pool" ->
         [read |-> b # 2,
          pools |-> [p \in {"p1"} \cup {q \in {"p2"} : b < 3} |->
                       IF p = "p1" THEN At(a, <<"ONLINE", "DEGRADED", "FAULTED", "">>)
                       ELSE At(b, <<"ONLINE", "UNAVAIL", "UNAVAIL">>)]]
    [] probe = "zfs" ->
         [read |-> b # 2,
          blocks |-> [p \in {"p1"} \cup {q \in {"p2"} : b < 3} |->
                        IF p = "p1" THEN At(a, <<"ONLINE", "DEGRADED", "", "">>)
                        ELSE At(b, <<"ONLINE", "DEGRADED", "DEGRADED">>)]]
    [] probe = "smart" ->
         [read |-> ~(a = 2 /\ b = 2),
          disks |-> [d \in {"sda", "sdb"} \ {e \in {"sdb"} : b = 2} |->
                       IF d = "sda"
                       THEN [read |-> a < 3, reallocated |-> At(b, <<0, 1, 1, -1>>), pending |-> At(a, <<0, 1, 2, 2>>),
                             health |-> At(b, <<"PASSED", "FAILED", "FAILED", "UNKNOWN">>)]
                       ELSE [read |-> TRUE, reallocated |-> 0, pending |-> At(b, <<0, 1, 1, -1>>),
                             health |-> "PASSED"]]]
    [] probe = "proxmox" ->
         [read |-> ~(a = 2 /\ b = 2),
          set |-> {e \in {[type |-> "node", name |-> "pve", up |-> a < 1],
                          [type |-> "storage", name |-> "zfs", up |-> b < 1]} :
                     (e.type = "node" => a < 3) /\ (e.type = "storage" => b < 3)}]

Alert(name, severity, state) ==
  [labels |-> [instance |-> "", pod |-> "", service |-> "", job |-> "", alertname |-> name],
   severity |-> severity, state |-> state]

(* At level 3 of the first quantity nothing is listed. *)
Seen(a, item) == {i \in {item} : a < 3}

ServiceReading(probe, a, b) ==
  CASE probe = "swarm" ->
         [read |-> ~(a = 2 /\ b = 2),
          services |-> [s \in {"web", "db"} \ {t \in {"db"} : b = 3} |->
                          [running |-> IF s = "web" THEN At(a, <<2, 1, 0, -1>>) ELSE 2 - b, desired |-> 2]]]
    [] probe = "docker" -> [read |-> b < 2, set |-> {[parsed |-> a \in {1, 2}, name |-> "web"]}]
    [] probe = "k8s" ->
         [read |-> b < 2, set |-> Seen(a, [reason |-> At(a, <<"Pulled", "BackOff", "OOMKilled", "">>),
                                             object |-> "web"])]
    [] probe = "unifi" ->
         [read |-> b < 2, set |-> Seen(a, [key |-> IF a = 0 THEN "EVT_AP_CONNECTED" ELSE "EVT_AP_LOST_CONTACT",
                                             ap |-> "ap"])]
    [] probe = "cert" -> [nas |-> [read |-> b < 2, dated |-> a < 3, days |-> 9 - a]]
    [] probe = "overdue" ->
         [read |-> b < 2, set |-> {[target |-> "db", dated |-> a < 3, age |-> 23 + a, max_age |-> -1]}]
    [] probe = "alert" ->
         [api |-> "prometheus",
          endpoint |-> P!resolveEndpoint("", <<[role |-> "monitoring", images |-> {"prometheus"},
                                                url |-> "", host |-> "mon"]>>),
          answer |-> [failed |-> b = 3, shape |-> "prometheus",
                      alerts |-> Seen(a, Alert("Disk", At(a, <<"info", "warning", "critical", "">>), "firing"))
                                 \cup {Alert("Down", "critical", At(b, <<"inactive", "pending", "firing", "firing">>))}]]

(* The score of an entity by its state, and by what was observed of it. *)
Scored(status, running, observations, window) ==
  [entity |-> [id |-> "e1", kind |-> "service", name |-> "web", status |-> status,
               replicas |-> [running |-> running, desired |-> 2], window |-> window,
               score |-> 0, grade |-> "none"],
   observations |-> observations]

Observed(severity, age) == [resource |-> "e1", severity |-> severity, age |-> age]

StateReading(a, b) == Scored(At(a, <<"known", "stale", "gone", "gone">>), At(b, <<2, 1, 0, -1>>), <<>>, 0)

ObservedReading(a, b) ==
  Scored("known", 2, <<Observed(At(a, <<"P2", "P1", "P0", "P0">>), At(b, <<24, 12, 0, 0>>)),
                       Observed("P0", At(b, <<12, 12, 6, 0>>))>>, 6)

Image(name) == [words |-> {name}, registryPort |-> FALSE]

Roles(image) == C!classifyRole([image |-> Image(image), ports |-> {}, labels |-> {}])

Service(name) ==
  [id |-> name, name |-> name, image |-> name, url |-> "", host |-> name, labels |-> <<>>,
   contains |-> {"web"}, role |-> Roles(name)]

Watched == <<Service("prometheus"), Service("loki"), Service("grafana"), Service("web")>>

Dashboard(kind) ==
  [title |-> kind, folder |-> "", tags |-> {"web"} \ {t \in {"web"} : kind # "exact"},
   contains |-> {"web"} \ {t \in {"web"} : kind = "other"}]

LogEntry(place, at, service, stamp, lands) ==
  [place |-> place, at |-> at, service |-> service, stamp |-> stamp, lands |-> lands]

WiringReading(a, b) ==
  [services |-> Watched, service |-> Service("web"),
   world |->
     [prometheus |-> [status |-> At(a, <<"ok", "lost", "lost", "lost">>),
                      targets |-> {[labels |-> {"web"}, contains |-> {"web"}]}],
      logs |-> [loki |-> [status |-> At(a, <<"ok", "ok", "lost", "lost">>),
                          entries |-> {LogEntry(1, 10, "web", "own", 0)}],
                opensearch |-> [status |-> "lost", entries |-> {}]],
      configured |-> [loki |-> "", opensearch |-> ""], now |-> 10,
      grafana |-> [status |-> "ok",
                   dashboards |-> {Dashboard(k) : k \in At(b, <<{"exact", "fuzzy", "other"},
                                                                {"fuzzy", "other"}, {"other"}, {"other"}>>)}]]]

(* What is read: a probe, and which of its readings there are several. *)
Read ==
  {<<p, "">> : p \in (HostProbes \cup ServiceProbes \cup {"wiring"}) \ {"datastore"}}
  \cup {<<"datastore", i>> : i \in Images} \cup {<<"score", "state">>, <<"score", "observed">>}

ReadingOf(what, a, b) ==
  CASE what[1] = "datastore" -> DatastoreReading(what[2], a, b)
    [] what[1] = "capacity" -> CapacityReading(a, b)
    [] what[1] \in HostProbes \ {"datastore", "capacity"} -> HostReading(what[1], a, b)
    [] what[1] \in ServiceProbes -> ServiceReading(what[1], a, b)
    [] what = <<"score", "state">> -> StateReading(a, b)
    [] what = <<"score", "observed">> -> ObservedReading(a, b)
    [] what[1] = "wiring" -> WiringReading(a, b)

(* All two readings of which the second is not better. *)
MCReadings ==
  LET of == [what \in Read, m \in Levels \X Levels |-> ReadingOf(what, m[1], m[2])]
      pair(what, m, w) == [probe |-> what[1], milder |-> of[what, m], worse |-> of[what, w]]
  IN  {pair(p[1], p[2], p[3]) :
         p \in {q \in Read \X (Levels \X Levels) \X (Levels \X Levels) : IsReading(pair(q[1], q[2], q[3]))}}

-------------------------------------------------------------------------------
(* Two nodes, three services and a GPU that may stand in the first. *)

Blank ==
  [role |-> "", manager_status |-> "", node_role |-> "", platform_type |-> "", gpu_count |-> 0,
   array_state |-> "", env |-> ""]

Entity(id, kind, fields) == [id |-> id, kind |-> kind] @@ fields @@ Blank

Nodes == {"n1", "n2"}

Services == {"s1", "s2", "s3"}

Graph(manager, gpu, image, on) ==
  [entities |-> {Entity(n, "node", [manager_status |-> IF n \in manager THEN "leader" ELSE ""]) : n \in Nodes}
                \cup {Entity(s, "service", [role |-> Roles(image[s])]) : s \in Services}
                \cup {Entity("gpu", "gpu", Blank)},
   edges |-> {<<s, n>> \in Services \X Nodes : n \in on[s]} \cup {<<"gpu", n>> : n \in gpu}]

MCInventories ==
  {[graph |-> Graph(manager, gpu, image, on), ids |-> <<"gpu", "n1", "n2", "s1", "s2", "s3">>] :
     manager \in SUBSET Nodes, gpu \in {{}, {"n1"}}, image \in [Services -> {"plex", "sonarr", "redis"}],
     on \in [Services -> {{}, {"n1"}, {"n1", "n2"}}]}

-------------------------------------------------------------------------------
(* An Unraid host and a swarm, any of whose commands may fail. *)

UnraidCommands == {"mdcmd", "ini", "shares", "files", "gpus", "cron"}
SwarmCommands == {"nodes", "services", "tasks", "networks"}

UnraidHost(failed) ==
  [mdcmd |-> [ok |-> "mdcmd" \notin failed, mdState |-> "STARTED",
              slots |-> {[slot |-> s, device |-> "", status |-> "DISK_OK"] : s \in {"disk1", "disk2", ""}}],
   ini |-> [ok |-> "ini" \notin failed,
            slots |-> {[slot |-> s, device |-> "sda", spun |-> FALSE] : s \in {"disk1", "disk2"}}],
   shares_ini |-> [ok |-> "shares" \notin failed, shares |-> {[name |-> "media", included |-> {"disk1", "disk9"}]}],
   share_files |-> {[name |-> "media", included |-> {"sda"}, readable |-> "files" \notin failed]},
   gpus |-> [ok |-> "gpus" \notin failed, lines |-> {[index |-> 0, columns |-> 6], [index |-> 1, columns |-> 2]}],
   cron_files |-> {[path |-> "root", readable |-> "cron" \notin failed,
                    lines |-> {[text |-> "backup", kind |-> "five"], [text |-> "#", kind |-> "none"]}]}]

SwarmHost(failed) ==
  [nodes |-> [ok |-> "nodes" \notin failed, rows |-> {[id |-> "n1", hostname |-> "alpha"]}],
   services |-> [ok |-> "services" \notin failed,
                 rows |-> {[name |-> "web", id |-> "x1", ports |-> {80}], [name |-> "db", id |-> "x2", ports |-> {}]}],
   tasks |-> [ok |-> "tasks" \notin failed,
              rows |-> {[id |-> "t1", desired |-> "Running", node |-> "alpha", service |-> "web"],
                        [id |-> "t2", desired |-> "Running", node |-> "gone", service |-> "gone"],
                        [id |-> "t3", desired |-> "Shutdown", node |-> "alpha", service |-> "db"]}],
   networks |-> [ok |-> "networks" \notin failed,
                 rows |-> {[name |-> "ingress", driver |-> "overlay", labelled |-> FALSE],
                           [name |-> "bridge", driver |-> "bridge", labelled |-> FALSE]}]]

Types == {fp.platformType : fp \in C!PlatformFingerprints}

Hosts(failed) == [t \in Types |-> IF t = "unraid" THEN UnraidHost(failed) ELSE SwarmHost(failed)]

MCSweeps ==
  {[platforms |-> {[id |-> t, kind |-> t, connects |-> t \notin lost, readable |-> lost = {} \/ t # "portainer",
                    refused |-> {}] : t \in Types},
    filter |-> {}, failed |-> failed, hosts |-> Hosts(failed), healthy |-> Hosts({}),
    head |-> [root |-> "root:backup"]] :
     failed \in SUBSET (UnraidCommands \cup SwarmCommands), lost \in {{}, {"docker"}}}

-------------------------------------------------------------------------------
(* Databases that answer, do not answer, or cannot be reached. *)

Candidate(name, engine, reach) ==
  [name |-> name, engine |-> engine, role |-> IF engine = "none" THEN "cache" ELSE "", connects |-> reach]

Asking(alive) ==
  [alive |-> alive, garbled |-> FALSE, status |-> "yellow", role |-> "", in_recovery |-> TRUE,
   databases |-> {"app", "sys"}, system |-> {"sys"}, offline |-> {}]

MCDatabases ==
  {[candidates |-> {Candidate(d, engine[d], reach[d]) : d \in DOMAIN engine},
    asked |-> [d \in DOMAIN engine |-> Asking(alive[d])]] :
     engine \in [{"d1", "d2"} -> {"postgres", "redis", "opensearch", "neo4j", "none"}],
     alive \in [{"d1", "d2"} -> BOOLEAN], reach \in [{"d1", "d2"} -> BOOLEAN]}

-------------------------------------------------------------------------------
(* A proxy, a secret store with two mounts and a service that names a       *)
(* database; each source may fail.                                          *)

Plain ==
  [role |-> "", host |-> "", api_url |-> "", maps81 |-> FALSE, ports |-> {}, name_matches |-> {},
   vault_addr |-> "", kv_mounts |-> {}, texts |-> {}]

Listed ==
  <<[id |-> "npm", kind |-> "service", name |-> "proxy", role |-> "reverse-proxy", host |-> "edge"] @@ Plain,
    [id |-> "vault", kind |-> "service", name |-> "vault", role |-> "secrets", host |-> "safe",
     kv_mounts |-> {"m1", "m2"}] @@ Plain,
    [id |-> "web", kind |-> "service", name |-> "frontend", ports |-> {"8080"},
     texts |-> {[contains |-> {"ledger"}, delimited |-> {"5432"}]}] @@ Plain,
    [id |-> "db", kind |-> "datastore", name |-> "ledger", ports |-> {"5432"}] @@ Plain>>

(* Secrets at depths 0, 1 and 2, of which the listing may go to 1. *)
Tree(status) ==
  <<>> :> [status |-> "ok", keys |-> {"k"}, folders |-> {"a"}]
  @@ <<"a">> :> [status |-> status, keys |-> {"k"}, folders |-> {"b"}]
  @@ <<"a", "b">> :> [status |-> "ok", keys |-> {"k"}, folders |-> {}]

Answers(npm, vault_thrown, deps_thrown, mounts, depth) ==
  [npm |-> [failed |-> npm = "fails",
            hosts |-> {[id |-> 1, domains |-> {"a.lan", "b.lan"}, forward_host |-> "frontend", forward_port |-> "8080"],
                       [id |-> 2, domains |-> {}, forward_host |-> "gone", forward_port |-> "1"]}],
   npm_thrown |-> npm = "throws", vault_thrown |-> vault_thrown, deps_thrown |-> deps_thrown,
   trees |-> [m \in {"m1", "m2"} |-> Tree(mounts[m])], max_depth |-> depth]

Healthy(depth) == Answers("ok", FALSE, FALSE, [m \in {"m1", "m2"} |-> "ok"], depth)

MCEnrichments ==
  {[graph |-> [entities |-> {}, edges |-> {}], listed |-> Listed,
    env |-> [npm_token |-> TRUE, vault_token |-> TRUE, vault_addr |-> "", long |-> {"ledger", "5432", "8080"}],
    answers |-> Answers(npm, vault_thrown, deps_thrown, mounts, depth), healthy |-> Healthy(depth),
    refused |-> [entities |-> refused, edges |-> {}]] :
     npm \in {"ok", "fails", "throws"}, vault_thrown \in BOOLEAN, deps_thrown \in BOOLEAN,
     mounts \in [{"m1", "m2"} -> {"ok", "missing", "error"}], depth \in 0..2,
     refused \in {{}, {T!SecretRef("m1", <<"k">>)}}}

-------------------------------------------------------------------------------
(* Four log entries, each kept by one of the backends: Loki has the first. *)

LogsHeld(times, loki, stamps, lands) ==
  LET at(i) == LogEntry(i, times[i], IF i = 3 THEN "db" ELSE "web",
                        IF i <= 2 THEN "own" ELSE stamps[i - 2], lands * i)
  IN  [loki |-> {at(i) : i \in 1..loki}, opensearch |-> {at(i) : i \in loki + 1..4}]

Duration(hours) == [kind |-> "duration", hours |-> hours]
Date(at) == [kind |-> "date", at |-> at]
Garbled == [kind |-> "garbled"]
Unset == [kind |-> "absent"]

Windows == {<<Duration(8), Unset>>, <<Duration(999), Date(204)>>, <<Date(196), Unset>>,
            <<Garbled, Date(198)>>, <<Unset, Unset>>, <<Duration(999), Garbled>>}

MCQuestions ==
  {[query |-> [service |-> service, since |-> window[1], until |-> window[2], limit |-> limit],
    backends |-> [b \in {"loki", "opensearch"} |->
                    [status |-> status[b], entries |-> LogsHeld(times, loki, stamps, lands)[b]]],
    configured |-> [loki |-> "", opensearch |-> configured], services |-> Watched, now |-> 200] :
     times \in {<<20, 190, 195, 199>>, <<199, 195, 195, 190>>, <<203, 199, 202, 198>>}, loki \in {0, 2},
     stamps \in [1..2 -> {"own", "absent", "garbled"}], lands \in {-1, 1}, window \in Windows,
     status \in {s \in [{"loki", "opensearch"} -> {"ok", "lost", "breaks"}] : \E b \in DOMAIN s : s[b] = "ok"},
     limit \in 0..3, service \in {"", "web"}, configured \in {"", "url"}}

-------------------------------------------------------------------------------
(* Two hosts or one that is listed twice, the secret store that has their   *)
(* keys and the transports that answer.                                     *)

AppRole(env, status, lease, took) ==
  [method |-> "approle", env |-> env, login |-> [status |-> status, lease |-> lease, token |-> TRUE],
   took |-> took, life |-> IF lease = -1 THEN 36000 ELSE 10 * lease]

EnvToken(env, life, took) ==
  [method |-> "token", env |-> env, login |-> [status |-> 0, lease |-> 0, token |-> FALSE],
   took |-> took, life |-> life]

Stores ==
  {AppRole(TRUE, 200, lease, took) : lease \in {-1, 1, 10}, took \in {0, 5, 9, 12}}
  \cup {AppRole(FALSE, 200, 1, 5), AppRole(TRUE, 403, 1, 5)}
  \cup {EnvToken(env, life, took) : env \in BOOLEAN, life \in {10, 1000}, took \in {0, 12}}

Secret(present) ==
  IF present THEN [status |-> 200, fields |-> {"key"}] ELSE [status |-> 404, fields |-> {}]

KeyOf(path) == [vault_path |-> path, vault_field |-> "key"]

ConfiguredHosts(platform, pinned, second) ==
  <<[hostname |-> "nas", platform |-> platform, mcp_endpoint |-> pinned, key_ref |-> KeyOf("first")],
    [hostname |-> second, platform |-> "docker-swarm-worker", mcp_endpoint |-> FALSE,
     key_ref |-> KeyOf("second")]>>

File(file, platform, pinned, second) ==
  [parses |-> file # "garbled", valid |-> file # "invalid",
   keys |-> {[name |-> "vault_ref", string |-> TRUE],
             [name |-> IF file = "inline" THEN "token" ELSE "hosts", string |-> file = "inline"]},
   hosts |-> ConfiguredHosts(platform, pinned, second)]

Setup(file, health, store, kept, ssh, platform, pinned, second, filter) ==
  [files |-> [home |-> File(file, platform, pinned, second)], explicit |-> "none", fromEnv |-> "",
   vault |-> store @@ [health |-> health, secrets |-> [p \in {"first", "second"} |-> Secret(p \in kept)]],
   filter |-> filter,
   up |-> [h \in {"nas", "swarm1"} |-> {"ssh", "mcp"} \ {t \in {"ssh"} : h \notin ssh}]]

MCSetups ==
  {Setup("good", health, store, kept, ssh, platform, pinned, "swarm1", filter) :
     health \in {200, 503, 500}, store \in Stores, kept \in SUBSET {"first", "second"},
     ssh \in SUBSET {"nas", "swarm1"}, platform \in {"unraid", "docker-swarm-manager"},
     pinned \in BOOLEAN, filter \in {"none", "nas"}}
  \cup {Setup("good", 200, store, kept, ssh, platform, pinned, "nas", filter) :
          store \in Stores, kept \in SUBSET {"first", "second"}, ssh \in SUBSET {"nas"},
          platform \in {"unraid", "docker-swarm-manager"}, pinned \in BOOLEAN, filter \in {"none", "gone"}}
  \cup {Setup(file, 200, AppRole(TRUE, 200, 10, 5), {"first", "second"}, {"nas", "swarm1"}, "unraid",
              FALSE, "swarm1", "none") : file \in {"garbled", "inline", "invalid"}}

MCConnections ==
  {[entry |-> [type |-> type, prefer |-> prefer, key |-> key], client |-> client, up |-> up] :
     type \in A!McpOrSsh \cup {"unifi", "truenas", "unraid"}, prefer \in {"mcp", "ssh", ""},
     key \in BOOLEAN, client \in BOOLEAN, up \in SUBSET {"mcp", "ssh", "https"}}
===============================================================================
