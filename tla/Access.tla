-------------------------------- MODULE Access --------------------------------
(***************************************************************************)
(* How a command gets to the hosts of the configuration: the file is       *)
(* loaded, the secret store asked for each host's key, the pool seeded     *)
(* with the hosts whose key was found, and each of them connected to by    *)
(* the transport it is pinned to.  Time is in tenths of a second.          *)
(***************************************************************************)
EXTENDS Integers, Sequences

-------------------------------------------------------------------------------
(* The configuration file: `keys` are the keys of its tree at any depth,    *)
(* with whether their value is a string; `config` is what it parses to.     *)

DISALLOWED_LEAF_KEYS ==
  {"value", "password", "secret", "token", "private_key", "privateKey", "passphrase"}

InlineSecrets(keys) == {k \in keys : k.name \in DISALLOWED_LEAF_KEYS /\ k.string}

resolveConfigPath(explicit, fromEnv) ==
  CASE explicit # "none" -> explicit
    [] explicit = "none" /\ fromEnv \notin {"none", ""} -> fromEnv
    [] OTHER -> "home"

Failed == [ok |-> FALSE]

(* The empty sequence of hosts is refused by the schema. *)
loadHomelabConfig(files, explicit, fromEnv) ==
  LET path == resolveConfigPath(explicit, fromEnv) IN
  IF /\ path \in DOMAIN files
     /\ files[path].parses
     /\ InlineSecrets(files[path].keys) = {}
     /\ files[path].valid /\ files[path].hosts # <<>>
  THEN [ok |-> TRUE, hosts |-> files[path].hosts]
  ELSE Failed

-------------------------------------------------------------------------------
(* The secret store.  A request that is lost, or answered after the time    *)
(* allowed, has status 0.                                                   *)

Success(status) == status \in 200..299

ping(status) == status \in {200, 429, 473, 501, 503}

NoToken == [issued |-> -1, expiresAt |-> 0]

TokenMethodLife == 24 * 60 * 60 * 10
DefaultLease == 3600

(* A token is kept for nine tenths of the lease that the store says. *)
loginApprole(vault, now) ==
  IF vault.env /\ Success(vault.login.status) /\ vault.login.token
  THEN [issued |-> now,
        expiresAt |-> now + 9 * (IF vault.login.lease = -1 THEN DefaultLease ELSE vault.login.lease)]
  ELSE NoToken

login(vault, now) ==
  CASE vault.method = "approle" -> loginApprole(vault, now)
    [] vault.method = "token" /\ vault.env -> [issued |-> 0, expiresAt |-> now + TokenMethodLife]
    [] OTHER -> NoToken

\* Bug: a token once obtained is used for good.
getTokenForGood(cache, vault, now) == IF cache # NoToken THEN cache ELSE login(vault, now)

getToken(cache, vault, now) == IF now < cache.expiresAt THEN cache ELSE login(vault, now)

(* The store: it knows a token for `vault.life` after it was issued. *)
Answer(vault, path, token, now) ==
  IF now < token.issued + vault.life THEN vault.secrets[path] ELSE [status |-> 403, fields |-> {}]

(* A failed login leaves the cache as it was; no answer of the store does   *)
(* anything to it either.                                                   *)
resolve(cache, vault, ref, now) ==
  LET token == getToken(cache, vault, now)
      answer == Answer(vault, ref.vault_path, token, now)
  IN  IF token = NoToken THEN [ok |-> FALSE, cache |-> cache]
      ELSE [ok |-> Success(answer.status) /\ ref.vault_field \in answer.fields, cache |-> token]

-------------------------------------------------------------------------------
(* The connection of an entry, and what it takes to open it.  `up` are the  *)
(* transports that answer in time; without a client for it MCP never does.  *)

McpOrSsh == {"proxmox-ve", "docker", "kubernetes", "docker-swarm", "portainer"}

createConnection(entry, client) ==
  [type |-> entry.type, key |-> entry.key, client |-> client,
   prefer |-> IF entry.prefer \in {"mcp", "ssh"} THEN entry.prefer ELSE "none"]

Opened(transport) == [ok |-> TRUE, transport |-> transport]

tryMCP(connection, up) == connection.client /\ "mcp" \in up

(* The preflight of ssh, with the key file of the entry. *)
fallbackSSH(connection, up) ==
  IF "ssh" \in up /\ connection.key THEN Opened("ssh") ELSE Failed

ConnectMcpOrSsh(connection, up) ==
  CASE connection.prefer # "ssh" /\ tryMCP(connection, up) -> Opened("mcp")
    [] connection.prefer = "mcp" /\ ~tryMCP(connection, up) -> Failed
    [] OTHER -> fallbackSSH(connection, up)

ConnectHttps(up) == IF "https" \in up THEN Opened("https") ELSE Failed

connect(connection, up) ==
  CASE connection.type \in McpOrSsh -> ConnectMcpOrSsh(connection, up)
    [] connection.type = "unifi" -> ConnectHttps(up)
    [] connection.type = "truenas" ->
         IF ConnectHttps(up).ok THEN ConnectHttps(up) ELSE fallbackSSH(connection, up)
    [] connection.type = "unraid" -> fallbackSSH(connection, up)

pickTransport(host, answers) ==
  CASE ~host.mcp_endpoint -> [transport |-> "ssh", reason |-> "mcp-not-configured"]
    [] host.mcp_endpoint /\ answers -> [transport |-> "mcp", reason |-> "mcp-live"]
    [] OTHER -> [transport |-> "ssh", reason |-> "mcp-unreachable"]

-------------------------------------------------------------------------------
configPlatformToType(platform) == IF platform = "unraid" THEN "unraid" ELSE "docker-swarm"

SeededEntry(host) ==
  [type |-> configPlatformToType(host.platform), key |-> TRUE,
   prefer |-> IF host.mcp_endpoint THEN "mcp" ELSE "ssh"]

(* The keys are asked for one after the other, each request taking          *)
(* `vault.took`: the answer for the host at `i`, and the cache it leaves.   *)
Resolved(hosts, vault) ==
  LET resolved[i \in 0..Len(hosts)] ==
        IF i = 0 THEN [ok |-> FALSE, cache |-> NoToken]
        ELSE resolve(resolved[i - 1].cache, vault, hosts[i].key_ref, (i - 1) * vault.took)
  IN  resolved

(* A host whose key is not found is left out; of two entries with one name  *)
(* the later counts.                                                        *)
Preloaded(hosts, vault) ==
  LET keyed == {i \in DOMAIN hosts : Resolved(hosts, vault)[i].ok}
      Named(name) == {i \in keyed : hosts[i].hostname = name}
  IN  [name \in {hosts[i].hostname : i \in keyed} |->
         SeededEntry(hosts[CHOOSE i \in Named(name) : \A j \in Named(name) : j <= i])]

assembleRuntime(files, explicit, fromEnv, vault) ==
  LET config == loadHomelabConfig(files, explicit, fromEnv) IN
  IF ~config.ok \/ ~ping(vault.health) THEN Failed
  ELSE [ok |-> TRUE, hosts |-> config.hosts, preloaded |-> Preloaded(config.hosts, vault)]

(* The pool's factory, which hands the connection no client of its own. *)
getConnection(runtime, host, up) ==
  IF host.hostname \in DOMAIN runtime.preloaded
  THEN connect(createConnection(runtime.preloaded[host.hostname], FALSE), up[host.hostname])
  ELSE Failed

(* What `connect test` says of a host: the transport it reports is picked   *)
(* with a probe that never answers, the outcome is the pool's.              *)
HostResult(runtime, host, up) ==
  [host |-> host.hostname, transport |-> pickTransport(host, FALSE).transport,
   outcome |-> IF getConnection(runtime, host, up).ok THEN "ok" ELSE "fail"]

runConnectTest(runtime, filter, up) ==
  LET tested == {i \in DOMAIN runtime.hosts : filter \in {"none", runtime.hosts[i].hostname}}
      results == [i \in tested |-> HostResult(runtime, runtime.hosts[i], up)]
  IN  [results |-> results,
       exit |-> IF (tested = {} /\ filter # "none") \/ \E i \in tested : results[i].outcome = "fail"
                THEN "fail" ELSE "ok"]
===============================================================================
