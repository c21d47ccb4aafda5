---------------------------- MODULE Observability ----------------------------
(***************************************************************************)
(* The observability adapters of src/observability: the log query over     *)
(* Loki and OpenSearch, the health score of an entity, the dashboards that *)
(* Grafana has for it, and the check of a service's three channels.        *)
(*                                                                         *)
(* Times are hours before now is 0 and grow towards now; a penalty is in   *)
(* quarters of a point.  "none" stands for null.  An answer of a server    *)
(* has a status: "lost" (no answer, an error, no JSON), "odd" (JSON of     *)
(* another shape) or "ok".                                                 *)
(***************************************************************************)
EXTENDS Integers, Sequences, FiniteSets

First(s, default) == IF s = <<>> THEN default ELSE Head(s)

SmallerOf(a, b) == IF a < b THEN a ELSE b
LargerOf(a, b) == IF a > b THEN a ELSE b

entityBaseUrl(entity) ==
  IF entity.url # "" THEN entity.url
  ELSE IF entity.host # "" THEN entity.host
  ELSE "none"

(* The address of the first service with one of the roles and the image that has an address. *)
FirstAddress(services, roles, image) ==
  LET having == SelectSeq(services, LAMBDA e : /\ e.role \in roles /\ e.image = image
                                               /\ entityBaseUrl(e) # "none")
  IN  IF having = <<>> THEN "none" ELSE entityBaseUrl(Head(having))

(* What is configured, else what the graph names. *)
Resolved(configured, discovered) == IF configured # "" THEN configured ELSE discovered

-------------------------------------------------------------------------------
(* Log query. *)

MAX_LOG_LIMIT == 1000
MAX_LOOKBACK == 168    \* hours

LOGGING_ROLES == {"observability", "monitoring", "logging"}

(* A duration, a date, or a text that is neither: then the longest time. *)
parseSince(since, now) ==
  CASE since.kind = "duration" -> LargerOf(now - since.hours, now - MAX_LOOKBACK)
    [] since.kind = "date" -> LargerOf(since.at, now - MAX_LOOKBACK)
    [] since.kind = "garbled" -> now - MAX_LOOKBACK
    [] since.kind = "absent" -> now - 1

untilOf(until, now) == CASE until.kind = "date" -> until.at [] until.kind = "absent" -> now

(* A limit that is absent is 0. *)
clampLimit(limit) == IF limit <= 0 THEN 100 ELSE SmallerOf(limit, MAX_LOG_LIMIT)

(* Whether the query of the backend asks for the entry. *)
Selects(q, entry, now) ==
  /\ q.service \in {"", entry.service}
  /\ parseSince(q.since, now) <= entry.at
  /\ entry.at <= untilOf(q.until, now)

(* An entry is kept under the time `at`, by which its backend selects and   *)
(* cuts; `place` is where it stands in the answers, Loki's before            *)
(* OpenSearch's.  What the adapter reads for its time, `stamp`, is its own,   *)
(* "absent" when OpenSearch's document has no text under the dotted name (a   *)
(* number, a flattened key), or "garbled", a text that is no date.            *)
Later(e, f) == e.at > f.at \/ (e.at = f.at /\ e.place < f.place)

(* The backend gives the newest `limit` of what is asked for, Loki stream by *)
(* stream.  A date that is none gets no answer from Loki.                     *)
AskBackend(backend, q, now, limit) ==
  LET asked == {e \in backend.entries : Selects(q, e, now)}
  IN  IF backend.status # "ok" \/ q.until.kind = "garbled" THEN {}
      ELSE {e \in asked : Cardinality({f \in asked : Later(f, e)}) < limit}

(* An entry whose time is absent is given the present one. *)
TimeRead(e, now) == IF e.stamp = "absent" THEN now ELSE e.at

(* The order in which the sort leaves what was answered: the latest time    *)
(* first, equals as they stood.  A time that is none compares as equal to    *)
(* every other, and where the sort then leaves an entry is not defined:      *)
(* `lands` is any number.                                                     *)
Ahead(all, now, e, f) ==
  IF \E g \in all : g.stamp = "garbled"
  THEN e.lands < f.lands \/ (e.lands = f.lands /\ e.place < f.place)
  ELSE \/ TimeRead(e, now) > TimeRead(f, now)
       \/ TimeRead(e, now) = TimeRead(f, now) /\ e.place < f.place

discoverLogsEndpoints(services) ==
  [b \in {"loki", "opensearch"} |-> FirstAddress(services, LOGGING_ROLES, b)]

(* Whatever goes wrong with the request the backend is called ok; only an *)
(* adapter that throws, OpenSearch's over a date that is none or one over   *)
(* an answer it cannot take apart, makes it unreachable.                    *)
BackendStatus(name, backend, q, address) ==
  IF address = "none" THEN "no_endpoint"
  ELSE IF backend.status = "breaks" \/ (name = "opensearch" /\ q.until.kind = "garbled") THEN "unreachable"
  ELSE "ok"

\* Bug: the oldest first.
MergedAscending(answers, now, limit) ==
  LET all == UNION answers
  IN  [i \in 1..SmallerOf(limit, Cardinality(all)) |->
         CHOOSE e \in all : Cardinality({f \in all : Ahead(all, now, e, f)}) = i - 1]

(* The entries of all backends, the newest first, cut at the limit. *)
Merged(answers, now, limit) ==
  LET all == UNION answers
  IN  [i \in 1..SmallerOf(limit, Cardinality(all)) |->
         CHOOSE e \in all : Cardinality({f \in all : Ahead(all, now, f, e)}) = i - 1]

LogsQuery(q, backends, configured, services, now) ==
  LET limit == clampLimit(q.limit)
      address == [b \in DOMAIN backends |->
                    Resolved(configured[b], discoverLogsEndpoints(services)[b])]
  IN  [backends |-> [b \in DOMAIN backends |-> BackendStatus(b, backends[b], q, address[b])],
       entries |-> Merged({AskBackend(backends[b], q, now, limit) :
                             b \in {c \in DOMAIN backends : address[c] # "none"}}, now, limit)]

-------------------------------------------------------------------------------
(* Health score. *)

Quarter == 4

PenaltyCap == 70
SeverityWeight == [P0 |-> 40, P1 |-> 20, P2 |-> 10]
StatusPenalty == [known |-> 0, stale |-> 20, gone |-> 60]
ReplicaWeight == 40

DefaultWindow == 24    \* hours

PowerOfTwo[n \in Nat] == IF n = 0 THEN 1 ELSE 2 * PowerOfTwo[n - 1]

(* An observation counts half as much for each window that it is old. *)
ObservationPenalty(observation, window) ==
  (Quarter * SeverityWeight[observation.severity]) \div PowerOfTwo[observation.age \div window]

(* Of the observations at the indices `of`. *)
Penalties(observations, of, window) ==
  LET sum[i \in 0..Len(observations)] ==
        IF i = 0 THEN 0
        ELSE sum[i - 1] + IF i \in of THEN ObservationPenalty(observations[i], window) ELSE 0
  IN  sum[Len(observations)]

(* Replicas that are not known, -1, take nothing off. *)
ReplicaPenalty(replicas) ==
  IF replicas.desired <= 0 \/ replicas.running = -1 \/ replicas.running >= replicas.desired THEN 0
  ELSE (Quarter * ReplicaWeight * (replicas.desired - replicas.running)) \div replicas.desired

computeHealthScore(status, replicas, penalties) ==
  LargerOf(0, Quarter * (100 - StatusPenalty[status])
              - ReplicaPenalty(replicas)
              - SmallerOf(penalties, Quarter * PenaltyCap))

Grade(score) ==
  IF score >= Quarter * 80 THEN "healthy"
  ELSE IF score >= Quarter * 50 THEN "degraded"
  ELSE "unhealthy"

(* Observations name an entity by its id or by kind and name; those older  *)
(* than the window that holds for all are not looked up.                    *)
ObservationsOf(entity, observations) ==
  {i \in DOMAIN observations : /\ observations[i].resource \in {entity.id, <<entity.kind, entity.name>>}
                               /\ observations[i].age <= DefaultWindow}

(* The window of an entity is that of its objective, if it has one (not 0). *)
ScoreOf(entity, observations) ==
  computeHealthScore(entity.status, entity.replicas,
                     Penalties(observations, ObservationsOf(entity, observations),
                               IF entity.window > 0 THEN entity.window ELSE DefaultWindow))

(* Observations that cannot be read count as none.  What is written is the  *)
(* entity as it was listed; one that the store refuses keeps its score.     *)
scoreAll(entities, observations, refused) ==
  {IF e.id \in refused THEN e
   ELSE [e EXCEPT !.score = ScoreOf(e, observations), !.grade = Grade(ScoreOf(e, observations))] :
     e \in entities}

-------------------------------------------------------------------------------
(* Dashboards. *)

GRAFANA_ROLES == {"monitoring", "observability"}

discoverGrafanaEndpoint(services) == FirstAddress(services, GRAFANA_ROLES, "grafana")

(* Name, role and labels, in this order. *)
entitySignals(entity) == <<entity.name, entity.role>> \o entity.labels

(* The first signal that matches decides: a dashboard whose title contains *)
(* the name is a fuzzy match even if its tag is the role.                   *)
MatchKind(signal, d) ==
  IF signal \in d.tags \cup {d.title, d.folder} THEN "exact"
  ELSE IF signal \in d.contains THEN "fuzzy"
  ELSE "none"

matchDashboard(signals, d) ==
  LET kinds == SelectSeq([i \in DOMAIN signals |-> MatchKind(signals[i], d)],
                         LAMBDA kind : kind # "none")
  IN  First(kinds, "none")

(* The catalogue is asked for once, and whatever goes wrong it is empty     *)
(* until invalidate.  `cached` holds it, or nothing.                         *)
fetchDashboards(cached, base, answer) ==
  IF cached # <<>> THEN Head(cached)
  ELSE IF base = "none" \/ answer.status # "ok" THEN {}
  ELSE answer.dashboards

(* The exact matches are listed before the fuzzy ones. *)
resolveDashboardsForEntity(base, dashboards, entity) ==
  LET Link(d) == [dashboard |-> d, kind |-> matchDashboard(entitySignals(entity), d)]
  IN  IF base = "none" THEN {} ELSE {l \in {Link(d) : d \in dashboards} : l.kind # "none"}

-------------------------------------------------------------------------------
(* Onboarding: is the service scraped, logged and shown? *)

MONITORING_ROLES == {"monitoring", "observability"}
INFRA_ROLES == {"monitoring", "observability", "logging"}

discoverPrometheusEndpoint(services) == FirstAddress(services, MONITORING_ROLES, "prometheus")

(* A target is the service's when one of their names contains the other. *)
targetMatchesEntity(target, entity) ==
  \E v \in target.labels : v \in entity.contains \/ entity.name \in target.contains

checkMetricsScraping(entity, answer) ==
  IF answer.status # "ok" THEN "unknown"
  ELSE IF \E t \in answer.targets : targetMatchesEntity(t, entity) THEN "wired"
  ELSE "gap"

checkMetricsChannel(entity, base, answer) ==
  IF base = "none" THEN "unknown" ELSE checkMetricsScraping(entity, answer)

LogsQuestion(entity) ==
  [service |-> entity.name, since |-> [kind |-> "duration", hours |-> 1],
   until |-> [kind |-> "absent"], limit |-> 1]

checkLogsChannel(result) ==
  IF \A b \in DOMAIN result.backends : result.backends[b] = "no_endpoint" THEN "unknown"
  ELSE IF result.entries # <<>> THEN "wired"
  ELSE "gap"

checkDashboardsChannel(entity, base, dashboards) ==
  IF base = "none" THEN "unknown"
  ELSE IF resolveDashboardsForEntity(base, dashboards, entity) # {} THEN "wired"
  ELSE "gap"

GapObservation(entity, channel) ==
  [pattern |-> "observability_gap", resource |-> <<"entity", entity.id, channel>>, severity |-> "P2"]

onboard(entity, metrics, logs, dashboards) ==
  LET status == [metrics |-> metrics, logs |-> logs, dashboards |-> dashboards]
  IN  [entity |-> entity.id, channels |-> status,
       observations |-> {GapObservation(entity, c) : c \in {d \in DOMAIN status : status[d] = "gap"}}]

(* The services that watch the others are not checked. *)
onboardAll(services, world) ==
  {onboard(e,
           checkMetricsChannel(e, discoverPrometheusEndpoint(services), world.prometheus),
           checkLogsChannel(LogsQuery(LogsQuestion(e), world.logs, world.configured, services,
                                      world.now)),
           checkDashboardsChannel(e, discoverGrafanaEndpoint(services),
                                  fetchDashboards(<<>>, discoverGrafanaEndpoint(services), world.grafana))) :
     e \in {s \in {services[i] : i \in DOMAIN services} : s.role \notin INFRA_ROLES}}
===============================================================================
