-------------------------------- MODULE Catalog -------------------------------
(***************************************************************************)
(* What tells one kind of platform or service from another: the            *)
(* fingerprints of the prober and the role catalog of the inventory        *)
(* (src/discovery/fingerprints.ts and role-catalog.ts).                    *)
(*                                                                         *)
(* An image is known by the words of the catalog its name contains         *)
(* (`words`) and by whether a registry port stands before the name         *)
(* (`registryPort`), a port mapping by the ports whose digits it contains. *)
(* A pattern is a word like the others: "mcp", "sqlite", "vector".         *)
(***************************************************************************)
EXTENDS Integers, Sequences

PlatformFingerprints ==
  {[platformType |-> "unraid", port |-> 443, answer |-> "regex"],
   [platformType |-> "proxmox-ve", port |-> 8006, answer |-> "jsonPath"],
   [platformType |-> "docker", port |-> 2375, answer |-> "regex"],
   [platformType |-> "kubernetes", port |-> 6443, answer |-> "jsonPath"],
   [platformType |-> "docker-swarm", port |-> 2377, answer |-> "jsonPath"],
   [platformType |-> "unifi", port |-> 8443, answer |-> "regex"],
   [platformType |-> "truenas", port |-> 443, answer |-> "jsonPath"],
   [platformType |-> "portainer", port |-> 9443, answer |-> "jsonPath"]}

-------------------------------------------------------------------------------
Pattern(role, words, ports, labels) ==
  [role |-> role, words |-> words, ports |-> ports, labels |-> labels]

InfrastructureRoles ==
  <<Pattern("reverse-proxy", {"nginx-proxy-manager", "traefik", "caddy", "haproxy", "envoy"}, {},
            {"traefik.enable"}),
    Pattern("sso", {"authentik", "keycloak", "authelia", "kanidm", "dex"}, {}, {}),
    Pattern("database", {"postgres", "mysql", "mariadb", "mongodb", "mongo", "cockroachdb",
                         "timescaledb", "sqlite", "clickhouse", "cassandra", "couchdb"},
            {5432, 3306, 27017}, {}),
    Pattern("cache", {"redis", "valkey", "memcached", "dragonfly"}, {6379, 11211}, {}),
    Pattern("mcp-server", {"mcp", "mcp-server"}, {}, {"com.anthropic.mcp", "mcp.server"}),
    Pattern("media", {"plex", "jellyfin", "emby", "sonarr", "radarr", "lidarr", "readarr", "prowlarr",
                      "bazarr", "whisparr", "overseerr", "requestrr", "tautulli", "transmission",
                      "qbittorrent", "sabnzbd", "nzbget"}, {32400}, {})>>

OperationsRoles ==
  <<Pattern("monitoring", {"grafana", "prometheus", "alertmanager", "thanos", "uptime-kuma",
                           "netdata", "zabbix", "influxdb", "victoria-metrics", "mimir"}, {}, {}),
    Pattern("observability", {"loki", "fluent-bit", "fluentd", "logstash", "elasticsearch",
                              "opensearch", "kibana", "tempo", "jaeger", "zipkin", "otelcol",
                              "opentelemetry-collector", "vector"}, {}, {}),
    Pattern("secrets", {"vault", "infisical", "doppler", "bitwarden", "vaultwarden", "passbolt"},
            {8200}, {}),
    Pattern("dns", {"adguardhome", "adguard-home", "pihole", "pi-hole", "coredns", "bind9",
                    "unbound", "technitium-dns"}, {53}, {}),
    Pattern("orchestration", {"portainer", "rancher", "yacht", "dockge", "watchtower", "ouroboros"},
            {9000, 9443}, {}),
    Pattern("queue", {"rabbitmq", "nats", "kafka", "activemq", "pulsar", "mosquitto", "emqx",
                      "hivemq"}, {5672, 4222, 9092, 1883}, {}),
    Pattern("vcs", {"gitea", "forgejo", "gitlab", "gogs"}, {}, {}),
    Pattern("code-quality", {"sonarqube", "sonar-community"}, {}, {"sonarqube.version"})>>

ServiceRoleCatalog == InfrastructureRoles \o OperationsRoles

(* The name is cut at its first ":", which may be that of a registry's port. *)
normalizeImageName(image) == IF image.registryPort THEN {} ELSE image.words

PatternFires(pattern, entity) ==
  \/ normalizeImageName(entity.image) \cap pattern.words # {}
  \/ entity.ports \cap pattern.ports # {}
  \/ entity.labels \cap pattern.labels # {}

(* The role of the first pattern of the catalog with a signal that fires. *)
classifyRole(entity) ==
  LET fires == SelectSeq(ServiceRoleCatalog, LAMBDA p : PatternFires(p, entity))
  IN  IF fires = <<>> THEN "none" ELSE Head(fires).role
===============================================================================
