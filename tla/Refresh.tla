------------------------------- MODULE Refresh -------------------------------
(***************************************************************************)
(* The inventory graph kept in step with the homelab: `inventory refresh`  *)
(* (RefreshEngine.sweep over DeepEnumerator.enumerate) and, in a process   *)
(* of its own, `inventory classify` (RoleClassifier.classify).             *)
(*                                                                         *)
(* Both go through GraphStore.upsertEntity, which reads the whole          *)
(* document, replaces one entity and writes the document back.  Its mutex  *)
(* belongs to one process, so the two commands interleave between the read *)
(* and the write.                                                          *)
(*                                                                         *)
(* Abstractions: an entity is its platform, image, status and last_seen;   *)
(* edges are reconciled by the same rule and left out; time is counted in  *)
(* units of the staleness threshold; a replica mismatch is a level,        *)
(* reported again by every sweep, and left out.  An outage in the middle   *)
(* of the listings loses some of them (List).                              *)
(***************************************************************************)
EXTENDS Naturals, FiniteSets, Functions

CONSTANTS
  Entities, Platforms,   \* what may run in the homelab, and where
  PlatformOf,            \* the platform of each entity
  Images, FirstImage,    \* the images an entity may run; the one it has first
  Recognised,            \* the services whose role the catalogue knows
  StaleAfter, GoneAfter, \* RefreshThresholds
  DedupWindow,           \* windowMs of the DedupCache
  MaxClock,              \* bound: the last instant of the clock
  MaxChanges,            \* bound: changes of the homelab
  MaxFaults              \* bound: failed writes, killed sweeps and runs of
                         \* `inventory classify`, together

ASSUME RefreshAssumption ==
  /\ PlatformOf \in [Entities -> Platforms]
  /\ FirstImage \in Images /\ Recognised \subseteq Entities
  /\ {StaleAfter, GoneAfter, DedupWindow, MaxClock, MaxChanges, MaxFaults} \subseteq Nat
  /\ 0 < StaleAfter /\ StaleAfter <= GoneAfter /\ 0 < DedupWindow

VARIABLES
  clock,     \* the clock
  world,     \* the image each entity runs, or Absent
  up,        \* the platforms that answer
  graph,     \* inventory-graph.yaml
  pc, at, stamp, todo, ok, here, prior, writes, base, events,  \* the sweep
  dedup,     \* the cache of the engine: until when each kind of drift counts as seen
  cls,       \* the run of `inventory classify`
  budget,    \* changes and faults left
  \* history
  seen,      \* when an enumeration last stored each entity
  dark,      \* the platforms of this sweep that stopped answering unnoticed
  owed,      \* the drift this sweep caused in the graph and has not saved
  excused,   \* another writer disturbed this sweep
  clobbered  \* the entities `inventory classify` set back

sweepVars      == <<pc, at, stamp, todo, ok, here, prior, writes, base, events>>
refreshHistory == <<seen, dark, owed, excused, clobbered>>
refreshVars    == <<clock, world, up, graph, sweepVars, dedup, cls, budget, refreshHistory>>

Absent  == [image |-> "absent"]
Unknown == [status |-> "unknown"]
NoBase  == [entity |-> "none"]
NoWrite == [e \in {} |-> Unknown]

Runs(i) == [image |-> i]
Entry(s, i, t) == [status |-> s, image |-> i, last_seen |-> t]
Entries == {Entry(s, i, t) : s \in {"active", "stale", "gone"}, i \in Images, t \in 0 .. MaxClock}
Documents == [Entities -> Entries \cup {Unknown}]
GoneEvent(e)  == [entity |-> e, kind |-> "entity_gone"]
ImageEvent(e) == [entity |-> e, kind |-> "image_changed"]
EventSet == {GoneEvent(e) : e \in Entities} \cup {ImageEvent(e) : e \in Entities}
NoKeys == [ev \in EventSet |-> 0]
Known(doc) == {e \in Entities : doc[e] # Unknown}

\* upsertEntity: the entity merged over the document that was read.
Merge(b, entry) == [b.doc EXCEPT ![b.entity] = entry]

\* The variables of sweep() and enumerate() go with the call.
NoSweep ==
  /\ pc = "idle" /\ at = 0 /\ stamp = 0 /\ todo = {} /\ ok = {} /\ here = {}
  /\ prior = [e \in Entities |-> Unknown] /\ writes = NoWrite /\ base = NoBase /\ events = {}
  /\ dark = {} /\ owed = {} /\ excused = FALSE

EndSweep ==
  /\ pc' = "idle" /\ at' = 0 /\ stamp' = 0 /\ todo' = {} /\ ok' = {} /\ here' = {}
  /\ prior' = [e \in Entities |-> Unknown] /\ writes' = NoWrite /\ base' = NoBase /\ events' = {}
  /\ dark' = {} /\ owed' = {} /\ excused' = FALSE

Idle == [pc |-> "idle", writes |-> NoWrite, base |-> NoBase]

RefreshInit ==
  /\ clock = 0
  /\ world = [e \in Entities |-> Runs(FirstImage)]
  /\ up = Platforms
  /\ graph = [e \in Entities |-> Unknown]
  /\ NoSweep /\ dedup = NoKeys
  /\ cls = Idle
  /\ budget = [changes |-> MaxChanges, faults |-> MaxFaults]
  /\ seen = [e \in Entities |-> 0] /\ clobbered = {}

-----------------------------------------------------------------------------
(* The homelab and the clock. *)

Advance ==
  /\ clock < MaxClock
  /\ clock' = clock + 1
  /\ UNCHANGED <<world, up, graph, sweepVars, dedup, cls, budget, refreshHistory>>

SpendBudget(what) ==
  /\ budget[what] > 0
  /\ budget' = [budget EXCEPT ![what] = @ - 1]

Change(e) ==
  /\ SpendBudget("changes")
  /\ \E x \in {Absent} \cup {Runs(i) : i \in Images} :
       x # world[e] /\ world' = [world EXCEPT ![e] = x]
  /\ UNCHANGED <<clock, up, graph, sweepVars, dedup, cls, refreshHistory>>

Outage(p) ==
  /\ SpendBudget("changes")
  /\ up' = IF p \in up THEN up \ {p} ELSE up \cup {p}
  /\ UNCHANGED <<clock, world, graph, sweepVars, dedup, cls, refreshHistory>>

-----------------------------------------------------------------------------
(* The sweep: enumeration. *)

\* The clock and the snapshot the diff is taken against.
Snapshot == graph

\* The engine of the last sweep once more, or that of a new process.
Sweep(filter) ==
  /\ pc = "idle" /\ dedup' \in {dedup, NoKeys}
  /\ pc' = "enumerate" /\ at' = clock /\ prior' = Snapshot
  /\ todo' = filter
  /\ UNCHANGED <<clock, world, up, graph, stamp, ok, here, writes, base, events, cls, budget,
                 refreshHistory>>

\* enumerate reads the clock again: this instant becomes last_seen.
Enumerate ==
  /\ pc = "enumerate"
  /\ pc' = "platforms" /\ stamp' = clock
  /\ UNCHANGED <<clock, world, up, graph, at, todo, ok, here, prior, writes, base, events, dedup, cls,
                 budget, refreshHistory>>

Connect(p) ==
  /\ pc = "platforms" /\ p \in todo /\ p \in up
  /\ pc' = "list" /\ here' = {p}
  /\ UNCHANGED <<clock, world, up, graph, at, stamp, todo, ok, prior, writes, base, events, dedup, cls,
                 budget, refreshHistory>>

ConnectFails(p) ==
  /\ pc = "platforms" /\ p \in todo /\ p \notin up
  /\ todo' = todo \ {p}
  /\ UNCHANGED <<clock, world, up, graph, pc, at, stamp, ok, here, prior, writes, base, events,
                 dedup, cls, budget, refreshHistory>>

Present(p) == {e \in Entities : PlatformOf[e] = p /\ world[e] # Absent}

Sighting(e) == Entry("active", world[e].image, stamp)

\* The enumerator's listings.  One that exits non-zero or throws counts as
\* empty, so a platform that stops answering after the connection was made
\* is summarised as ok with whatever was listed before.
List(p) ==
  /\ pc = "list" /\ here = {p}
  /\ \E lost \in SUBSET Present(p) :
       /\ lost # {} => p \notin up
       /\ writes' = [e \in Present(p) \ lost |-> Sighting(e)]
       /\ dark' = IF p \in up THEN dark ELSE dark \cup {p}
  /\ todo' = todo \ {p} /\ ok' = ok \cup {p} /\ here' = {} /\ pc' = "upsert"
  /\ UNCHANGED <<clock, world, up, graph, at, stamp, prior, base, events, dedup, cls, budget,
                 seen, owed, excused, clobbered>>

UpsertRead(e) ==
  /\ pc \in {"upsert", "mark"} /\ base = NoBase /\ e \in DOMAIN writes
  /\ base' = [entity |-> e, doc |-> graph]
  /\ UNCHANGED <<clock, world, up, graph, pc, at, stamp, todo, ok, here, prior, writes, events,
                 dedup, cls, budget, refreshHistory>>

Rest(e) == Restrict(writes, DOMAIN writes \ {e})

\* What the sweep did to the entity it wrote, as drift it owes a report of.
Drift(e) ==
  LET old == graph[e]  new == writes[e]
  IN  IF old = Unknown THEN {}
      ELSE {ev \in {GoneEvent(e), ImageEvent(e)} :
              \/ ev = GoneEvent(e) /\ new.status = "gone" /\ old.status # "gone"
              \/ ev = ImageEvent(e) /\ new.image # old.image}

UpsertWrite(e) ==
  /\ base # NoBase /\ base.entity = e
  /\ graph' = Merge(base, writes[e])
  /\ writes' = Rest(e) /\ base' = NoBase
  /\ seen' = IF pc = "upsert" THEN [seen EXCEPT ![e] = stamp] ELSE seen
  /\ clobbered' = IF pc = "upsert" THEN clobbered \ {e} ELSE clobbered
  /\ owed' = owed \cup Drift(e)
  /\ UNCHANGED <<clock, world, up, pc, at, stamp, todo, ok, here, prior, events, dedup, cls, budget,
                 dark, excused>>

\* enumeratePlatform collects the error of an upsert and goes on.
UpsertFails(e) ==
  /\ pc = "upsert" /\ base # NoBase /\ base.entity = e
  /\ SpendBudget("faults")
  /\ writes' = Rest(e) /\ base' = NoBase
  /\ UNCHANGED <<clock, world, up, graph, pc, at, stamp, todo, ok, here, prior, events, dedup, cls,
                 refreshHistory>>

PlatformDone ==
  /\ pc = "upsert" /\ DOMAIN writes = {}
  /\ pc' = "platforms"
  /\ UNCHANGED <<clock, world, up, graph, at, stamp, todo, ok, here, prior, writes, base, events,
                 dedup, cls, budget, refreshHistory>>

-----------------------------------------------------------------------------
(* The sweep: reconciliation, diff, reports. *)

Age(entry) == IF at > entry.last_seen THEN at - entry.last_seen ELSE 0

\* The status an entity that was not seen should have.
StatusAfter(entry) ==
  IF entry.status # "gone" /\ Age(entry) >= GoneAfter THEN "gone"
  ELSE IF entry.status = "active" /\ Age(entry) >= StaleAfter THEN "stale"
  ELSE entry.status

\* Bug: every platform is reconciled.
ReconciledAll == Known(graph)

Reconciled == {e \in Known(graph) : PlatformOf[e] \in ok}

Overdue == {e \in Reconciled : StatusAfter(graph[e]) # graph[e].status}

Reconcile ==
  /\ pc = "platforms" /\ todo = {}
  /\ writes' = [e \in Overdue |-> [graph[e] EXCEPT !.status = StatusAfter(graph[e])]]
  /\ pc' = "mark"
  /\ UNCHANGED <<clock, world, up, graph, at, stamp, todo, ok, here, prior, base, events, dedup, cls,
                 budget, refreshHistory>>

\* A failed write leaves sweep() by an exception.
MarkFails(e) ==
  /\ pc = "mark" /\ base # NoBase /\ base.entity = e
  /\ SpendBudget("faults")
  /\ EndSweep
  /\ UNCHANGED <<clock, world, up, graph, dedup, cls, seen, clobbered>>

\* Bug: only an entity that was stale before can be gone now.
EventsOfStale(e, post) ==
  IF prior[e] = Unknown THEN {}
  ELSE {ev \in {GoneEvent(e), ImageEvent(e)} :
          \/ ev = GoneEvent(e) /\ post[e].status = "gone" /\ prior[e].status = "stale"
          \/ ev = ImageEvent(e) /\ post[e].image # prior[e].image}

\* computeDiff on one entity; `added` is informational and never reported.
EventsOf(e, post) ==
  IF prior[e] = Unknown THEN {}
  ELSE {ev \in {GoneEvent(e), ImageEvent(e)} :
          \/ ev = GoneEvent(e) /\ post[e].status = "gone" /\ prior[e].status # "gone"
          \/ ev = ImageEvent(e) /\ post[e].image # prior[e].image}

Compared(post) == {e \in Known(post) : PlatformOf[e] \in ok}

Diff ==
  /\ pc = "mark" /\ DOMAIN writes = {}
  /\ events' = UNION {EventsOf(e, graph) : e \in Compared(graph)}
  /\ pc' = "save"
  /\ UNCHANGED <<clock, world, up, graph, at, stamp, todo, ok, here, prior, writes, base, dedup, cls,
                 budget, refreshHistory>>

\* isDuplicate: this kind of drift of this entity was seen within the window.
Repeated(ev) == at < dedup[ev]

SkipDuplicate(ev) ==
  /\ pc = "save" /\ ev \in events /\ Repeated(ev)
  /\ events' = events \ {ev}
  /\ UNCHANGED <<clock, world, up, graph, pc, at, stamp, todo, ok, here, prior, writes, base, dedup,
                 cls, budget, refreshHistory>>

\* Seen from now on, and saved.
SaveObservation(ev) ==
  /\ pc = "save" /\ ev \in events /\ ~Repeated(ev)
  /\ events' = events \ {ev} /\ owed' = owed \ {ev}
  /\ dedup' = [dedup EXCEPT ![ev] = at + DedupWindow]
  /\ UNCHANGED <<clock, world, up, graph, pc, at, stamp, todo, ok, here, prior, writes, base, cls,
                 budget, seen, dark, excused, clobbered>>

\* A failed save is logged; the drift counts as seen all the same.
SaveFails(ev) ==
  /\ pc = "save" /\ ev \in events /\ ~Repeated(ev)
  /\ SpendBudget("faults")
  /\ events' = events \ {ev}
  /\ dedup' = [dedup EXCEPT ![ev] = at + DedupWindow]
  /\ UNCHANGED <<clock, world, up, graph, pc, at, stamp, todo, ok, here, prior, writes, base, cls,
                 refreshHistory>>

SweepDone ==
  /\ pc = "save" /\ events = {}
  /\ EndSweep
  /\ UNCHANGED <<clock, world, up, graph, dedup, cls, budget, seen, clobbered>>

\* What this sweep marked and has not saved is never reported: the next one
\* compares with a graph that says so already.
KillSweep ==
  /\ pc # "idle"
  /\ SpendBudget("faults")
  /\ EndSweep /\ dedup' = NoKeys
  /\ UNCHANGED <<clock, world, up, graph, cls, seen, clobbered>>

-----------------------------------------------------------------------------
(* `inventory classify`: every service of a recognised role is written     *)
(* back from one snapshot, whatever its status, with last_seen set to now. *)

Classify ==
  /\ cls = Idle
  /\ SpendBudget("faults")
  /\ cls' = [pc |-> "write", base |-> NoBase,
             writes |-> [e \in Recognised \cap Known(graph) |-> [graph[e] EXCEPT !.last_seen = clock]]]
  /\ UNCHANGED <<clock, world, up, graph, sweepVars, dedup, refreshHistory>>

ClassifyRead(e) ==
  /\ cls.pc = "write" /\ cls.base = NoBase /\ e \in DOMAIN cls.writes
  /\ cls' = [cls EXCEPT !.base = [entity |-> e, doc |-> graph]]
  /\ UNCHANGED <<clock, world, up, graph, sweepVars, dedup, budget, refreshHistory>>

\* Set back: anything but a later last_seen.
SetBack(doc, e) ==
  /\ graph[e] # Unknown
  /\ \/ doc[e] = Unknown
     \/ doc[e] # Unknown /\ doc[e].status # graph[e].status
     \/ doc[e] # Unknown /\ doc[e].image # graph[e].image
     \/ doc[e] # Unknown /\ doc[e].last_seen < graph[e].last_seen

ClassifyWrite(e) ==
  /\ cls.base # NoBase /\ cls.base.entity = e
  /\ LET doc == Merge(cls.base, cls.writes[e])
     IN  /\ graph' = doc
         /\ clobbered' = clobbered \cup {x \in Entities : SetBack(doc, x)}
  /\ cls' = [cls EXCEPT !.base = NoBase, !.writes = Restrict(@, DOMAIN @ \ {e})]
  /\ excused' = (excused \/ pc # "idle")
  /\ UNCHANGED <<clock, world, up, sweepVars, dedup, budget, seen, dark, owed>>

ClassifyDone ==
  /\ cls.pc = "write" /\ DOMAIN cls.writes = {}
  /\ cls' = Idle
  /\ UNCHANGED <<clock, world, up, graph, sweepVars, dedup, budget, refreshHistory>>

-----------------------------------------------------------------------------

Filters == {Platforms} \cup {{p} : p \in Platforms}

SweepStep ==
  \/ Enumerate \/ PlatformDone \/ Reconcile \/ Diff \/ SweepDone
  \/ \E p \in Platforms : Connect(p) \/ ConnectFails(p) \/ List(p)
  \/ \E e \in Entities : UpsertRead(e) \/ UpsertWrite(e)
  \/ \E ev \in events : SaveObservation(ev) \/ SkipDuplicate(ev)

ClassifyStep ==
  ClassifyDone \/ \E e \in Entities : ClassifyRead(e) \/ ClassifyWrite(e)

Environment ==
  \/ Advance \/ KillSweep
  \/ \E e \in Entities : Change(e) \/ UpsertFails(e) \/ MarkFails(e)
  \/ \E p \in Platforms : Outage(p)
  \/ \E ev \in events : SaveFails(ev)

RefreshNext ==
  \/ \E f \in Filters : Sweep(f)
  \/ SweepStep \/ Classify \/ ClassifyStep \/ Environment

\* The callers invoke the full sweep again and again, both commands run to
\* their end, and time passes.
Fairness ==
  /\ WF_refreshVars(Advance) /\ SF_refreshVars(Sweep(Platforms))
  /\ WF_refreshVars(SweepStep) /\ WF_refreshVars(ClassifyStep)

RefreshSpec == RefreshInit /\ [][RefreshNext]_refreshVars

RefreshFairSpec == RefreshSpec /\ Fairness

-----------------------------------------------------------------------------

WritesOf(f) == DOMAIN f \subseteq Entities /\ \A e \in DOMAIN f : f[e] \in Entries
BaseOf(b) == b = NoBase \/ (b.entity \in Entities /\ b.doc \in Documents)

\* Documents, snapshots and pending writes stay well-formed, and no write is
\* in flight outside the two phases that write.
TypeOK ==
  /\ clock \in 0 .. MaxClock
  /\ world \in [Entities -> {Absent} \cup {Runs(i) : i \in Images}]
  /\ up \subseteq Platforms
  /\ graph \in Documents /\ prior \in Documents
  /\ pc \in {"idle", "enumerate", "platforms", "list", "upsert", "mark", "save"}
  /\ {at, stamp} \subseteq 0 .. MaxClock
  /\ todo \subseteq Platforms /\ ok \subseteq Platforms /\ here \subseteq Platforms
  /\ WritesOf(writes) /\ BaseOf(base) /\ WritesOf(cls.writes) /\ BaseOf(cls.base)
  /\ pc \notin {"upsert", "mark"} => DOMAIN writes = {} /\ base = NoBase
  /\ dedup \in [EventSet -> 0 .. MaxClock + DedupWindow]
  /\ events \subseteq EventSet /\ owed \subseteq EventSet
  /\ seen \in [Entities -> 0 .. MaxClock]
  /\ dark \subseteq Platforms /\ excused \in BOOLEAN /\ clobbered \subseteq Entities

\* An entity is marked gone only GoneAfter after an enumeration last stored
\* it, whatever was reconciled, filtered, killed or failed in between, unless
\* `inventory classify` wrote an old copy of it back (refresh.ts 275-280).
GoneMeansUnseen ==
  \A e \in Entities \ clobbered :
    graph[e] # Unknown /\ graph[e].status = "gone" => seen[e] + GoneAfter <= clock

\* A sweep that comes to its end without another writer has saved an
\* observation of every entity it marked gone and of every image it saw change,
\* except where its engine has handed one of that entity and kind to the store
\* less than DedupWindow before, or just now in vain.  The diff is taken against
\* the graph of before the enumeration (refresh.ts 229-233, 325-352).
DriftIsSaved ==
  pc = "save" /\ events = {} /\ ~excused => \A ev \in owed : Repeated(ev)

\* After any number of sweeps, filters, faults and classifications: the graph
\* is well-formed, what it calls gone is, and a sweep that ends has swallowed
\* no drift but what it took for a repetition.
GraphIsTrue == TypeOK /\ GoneMeansUnseen /\ DriftIsSaved

\* A sweep that nobody disturbs changes no entity of a platform it could not
\* connect to or was not asked about (refresh.ts 270-272).
OthersUntouched ==
  [][pc # "idle" /\ ~excused /\ cls' = cls =>
       \A e \in Entities : graph'[e] # graph[e] => PlatformOf[e] \in ok]_refreshVars

\* An entity that was removed for good, on a platform that answers, is gone in
\* the graph from some sweep on (refresh.ts 10-14).
RemovedEntityGoes ==
  \A e \in Entities :
    <>[](/\ world[e] = Absent /\ PlatformOf[e] \in up
         /\ graph[e] # Unknown /\ graph[e].last_seen + GoneAfter <= MaxClock)
      => <>[](graph[e] # Unknown /\ graph[e].status = "gone")

\* Sweeps touch only what they were asked about, and clean it up.
OnlyTheGoneGo == OthersUntouched /\ RemovedEntityGoes

\* "Unreachable platforms produce a platformsFailed count increment; they do
\* NOT trigger a mass-gone transition" (refresh.ts 215-217).  It is violated by
\* a platform that stops answering after the connection was made: the exec of
\* the enumerator returns an empty list (docker-swarm.ts 185).
UnreachableIsNoOp ==
  [][\A e \in Entities :
       /\ graph[e] # Unknown /\ graph[e].status # "gone"
       /\ graph'[e] # Unknown /\ graph'[e].status = "gone"
       => PlatformOf[e] \notin dark]_refreshVars

=============================================================================
