---------------------------- MODULE Observation ----------------------------
(***************************************************************************)
(* The observation pipeline: the collector runs probes, DedupCache         *)
(* suppresses what was seen within the window, ObservationStore persists   *)
(* the rest, ObservationPromoter submits it to the intake, and ClockStore  *)
(* starts its MTTR clock.  The daemon's scans overlap and share a cache;   *)
(* each `observe scan` is a process with an empty cache of its own, and    *)
(* `observe promote` submits what it loads from the store.                 *)
(*                                                                         *)
(* Probes are abstracted to the faults they may find, and a fault to its   *)
(* dedup key.  An observation is the pair of the scan and the fault.  The  *)
(* faults a scan found are examined in any order.                          *)
(***************************************************************************)
EXTENDS Naturals, FiniteSets

CONSTANTS Faults, Keys, KeyOf,   \* faults and their dedup keys
          DaemonScans, CliScans, \* runs of a probe, each used once
          Obs,                   \* which run may find which fault
          Manuals,               \* runs of `observe promote`
          Window, Retention,     \* of the cache and of the store
          MaxTime, MaxCrashes    \* bounds

ASSUME ObservationAssumption ==
    /\ KeyOf \in [Faults -> Keys]
    /\ Obs \subseteq (DaemonScans \cup CliScans) \X Faults
    /\ DaemonScans \cap CliScans = {} /\ "daemon" \notin CliScans /\ Manuals \cap (DaemonScans \cup CliScans) = {}
    /\ Window \in Nat \ {0} /\ Retention \in Nat /\ Retention >= Window
    /\ MaxTime \in Nat /\ MaxCrashes \in Nat /\ IsFiniteSet(Manuals)

Scans     == DaemonScans \cup CliScans
Processes == Scans \cup Manuals
NoObs     == <<>>
Key(o)    == KeyOf[o[2]]
Never     == MaxTime + 1
Daemon    == "daemon"
Owner(s)  == IF s \in CliScans THEN s ELSE Daemon

VARIABLES now,
          up,       \* the daemon's collector has been started
          cache,    \* process -> key -> when it was last seen
          pc,       \* scan or manual promotion -> where it stands
          todo,     \* scan -> faults found and not examined yet
          cur,      \* scan or manual promotion -> the observation at hand
          files,    \* observations in the store
          at,       \* observation -> discovered_at
          submits,  \* observation -> accepted intake submissions
          clocks,   \* observations with an MTTR clock
          marked,   \* history: observation -> when it was examined and fresh
          failed,   \* history: observations some step of which failed
          crashes

memory  == <<up, cache>>
store   == <<files, at>>
history == <<marked, failed>>
vars    == <<now, memory, pc, todo, cur, store, submits, clocks, history, crashes>>

TypeOK ==
    /\ now \in 0..MaxTime
    /\ up \in BOOLEAN
    /\ cache \in [CliScans \cup {Daemon} -> [Keys -> 0..Never]]
    /\ pc \in [Processes -> {"new", "loop", "suppress", "save", "created", "submit",
                             "clock", "done"}]
    /\ todo \in [Scans -> SUBSET Faults]
    /\ cur \in [Processes -> Obs \cup {NoObs}]
    /\ files \subseteq Obs
    /\ at \in [Obs -> 0..Never]
    /\ submits \in [Obs -> 0..Cardinality(Manuals) + 1]
    /\ clocks \subseteq Obs
    /\ marked \in [Obs -> 0..Never]
    /\ failed \subseteq Obs
    /\ crashes \in 0..MaxCrashes

Init ==
    /\ now = 0
    /\ up = FALSE
    /\ cache = [p \in CliScans \cup {Daemon} |-> [k \in Keys |-> Never]]
    /\ pc = [p \in Processes |-> "new"]
    /\ todo = [s \in Scans |-> {}]
    /\ cur = [p \in Processes |-> NoObs]
    /\ files = {} /\ at = [o \in Obs |-> Never]
    /\ submits = [o \in Obs |-> 0] /\ clocks = {}
    /\ marked = [o \in Obs |-> Never] /\ failed = {}
    /\ crashes = 0

Goto(p, l) == pc' = [pc EXCEPT ![p] = l]
Fail(p) == failed' = failed \cup {cur[p]}

\* Where a step that ends the work on an observation leads.
After(p) == IF p \in Manuals THEN "done" ELSE "loop"

-----------------------------------------------------------------------------
(***************************************************************************)
(* start(): hydrate the cache from the recent files.  list() returns them  *)
(* newest first, so of several with one key the oldest stays.              *)
(***************************************************************************)
Recent(k) == {o \in files : Key(o) = k /\ now - at[o] < Window}

HydratedNot(k) == Never             \* a bug: a restart forgets
Hydrated(k) == IF Recent(k) = {} THEN Never
               ELSE CHOOSE t \in {at[o] : o \in Recent(k)} : \A o \in Recent(k) : t <= at[o]

Start ==
    /\ ~up
    /\ up' = TRUE
    /\ cache' = [cache EXCEPT ![Daemon] = [k \in Keys |-> Hydrated(k)]]
    /\ UNCHANGED <<now, pc, todo, cur, store, submits, clocks, history, crashes>>

(***************************************************************************)
(* runProbe: probe.scan() returns, with observations stamped now.  A scan  *)
(* that throws is one that found nothing.                                  *)
(***************************************************************************)
Scan(s) ==
    /\ pc[s] = "new"
    /\ s \in DaemonScans => up
    /\ \E found \in SUBSET {f \in Faults : <<s, f>> \in Obs} :
         /\ todo' = [todo EXCEPT ![s] = found]
         /\ at' = [o \in Obs |-> IF o[1] = s /\ o[2] \in found THEN now ELSE at[o]]
    /\ Goto(s, "loop")
    /\ UNCHANGED <<now, memory, cur, files, submits, clocks, history, crashes>>

(***************************************************************************)
(* isDuplicate: marks the key before anything is saved.                    *)
(***************************************************************************)
Within(last) == last # Never /\ now - last < Window

Examine(s) ==
    /\ pc[s] = "loop"
    /\ \E f \in todo[s] :
         LET o == <<s, f>>
             seen == Within(cache[Owner(s)][Key(o)]) IN
         /\ todo' = [todo EXCEPT ![s] = @ \ {f}]
         /\ cur' = [cur EXCEPT ![s] = o]
         /\ Goto(s, IF seen THEN "suppress" ELSE "save")
         /\ cache' = IF seen THEN cache ELSE [cache EXCEPT ![Owner(s)][Key(o)] = now]
         /\ marked' = IF seen THEN marked ELSE [marked EXCEPT ![o] = now]
    /\ UNCHANGED <<now, up, store, submits, clocks, failed, crashes>>

SuppressAgain(s) ==         \* a bug: does not go on to the next observation
    /\ pc[s] = "suppress"
    /\ todo' = [todo EXCEPT ![s] = @ \cup {cur[s][2]}]
    /\ Goto(s, "loop")
    /\ UNCHANGED <<now, memory, cur, store, submits, clocks, history, crashes>>

\* The audit entry of a suppression is not caught: if it fails, the scan ends.
Suppress(s) ==
    /\ pc[s] = "suppress"
    /\ Goto(s, "loop") \/ Goto(s, "done")
    /\ UNCHANGED <<now, memory, todo, cur, store, submits, clocks, history, crashes>>

Save(s) ==
    /\ pc[s] = "save"
    /\ \/ files' = files \cup {cur[s]} /\ Goto(s, "created") /\ UNCHANGED failed
       \/ Fail(s) /\ Goto(s, "loop") /\ UNCHANGED files
    /\ UNCHANGED <<now, memory, todo, cur, at, submits, clocks, marked, crashes>>

\* observation_created; its failure counts as one of the save.
Created(s) ==
    /\ pc[s] = "created"
    /\ \/ Goto(s, "submit") /\ UNCHANGED failed
       \/ Fail(s) /\ Goto(s, "loop")
    /\ UNCHANGED <<now, memory, todo, cur, store, submits, clocks, marked, crashes>>

ScanEnds(s) ==
    /\ pc[s] = "loop" /\ todo[s] = {}
    /\ Goto(s, "done")
    /\ UNCHANGED <<now, memory, todo, cur, store, submits, clocks, history, crashes>>

-----------------------------------------------------------------------------
(***************************************************************************)
(* promote(), by a scan or by `observe promote`: the intake, then the      *)
(* clock, whose failures are ignored, then the audit entry, whose failure  *)
(* changes nothing.  Nothing in the source stops a clock.                  *)
(***************************************************************************)
Load(m) ==
    /\ pc[m] = "new"
    /\ \E o \in files : cur' = [cur EXCEPT ![m] = o]
    /\ Goto(m, "submit")
    /\ UNCHANGED <<now, memory, todo, store, submits, clocks, history, crashes>>

\* The commands have no clock store.
SubmitClockFirst(p) ==      \* a bug: the clock does not wait for the intake
    /\ pc[p] = "submit"
    /\ clocks' = IF p \in DaemonScans THEN clocks \cup {cur[p]} ELSE clocks
    /\ \/ submits' = [submits EXCEPT ![cur[p]] = @ + 1] /\ UNCHANGED failed
       \/ Fail(p) /\ UNCHANGED submits
    /\ Goto(p, After(p))
    /\ UNCHANGED <<now, memory, todo, cur, store, marked, crashes>>

Submit(p) ==
    /\ pc[p] = "submit"
    /\ \/ /\ submits' = [submits EXCEPT ![cur[p]] = @ + 1]
          /\ Goto(p, IF p \in DaemonScans THEN "clock" ELSE After(p))
          /\ UNCHANGED failed
       \/ Fail(p) /\ Goto(p, After(p)) /\ UNCHANGED submits
    /\ UNCHANGED <<now, memory, todo, cur, store, clocks, marked, crashes>>

\* ClockStore.start finds no clock of a new observation and writes one.
StartClock(p) ==
    /\ pc[p] = "clock"
    /\ clocks' \in {clocks, clocks \cup {cur[p]}}
    /\ Goto(p, After(p))
    /\ UNCHANGED <<now, memory, todo, cur, store, submits, history, crashes>>

-----------------------------------------------------------------------------
Expired == {o \in files : now - at[o] > Retention}

Cleanup ==
    /\ up /\ Expired # {}
    /\ files' = files \ Expired
    /\ UNCHANGED <<now, memory, pc, todo, cur, at, submits, clocks, history, crashes>>

\* The daemon ends; what its scans held is gone.
Crash ==
    /\ up /\ crashes < MaxCrashes
    /\ crashes' = crashes + 1
    /\ up' = FALSE
    /\ cache' = [cache EXCEPT ![Daemon] = [k \in Keys |-> Never]]
    /\ pc' = [p \in Processes |-> IF p \in DaemonScans /\ pc[p] # "new" THEN "done" ELSE pc[p]]
    /\ todo' = [s \in Scans |-> IF s \in DaemonScans THEN {} ELSE todo[s]]
    /\ failed' = failed \cup {cur[s] : s \in {t \in DaemonScans : pc[t] \in
                                {"save", "created", "submit", "clock"}}}
    /\ UNCHANGED <<now, cur, store, submits, clocks, marked>>

Tick ==
    /\ now < MaxTime
    /\ now' = now + 1
    /\ UNCHANGED <<memory, pc, todo, cur, store, submits, clocks, history, crashes>>

ScanStep(s) == Examine(s) \/ Suppress(s) \/ Save(s) \/ Created(s) \/ ScanEnds(s)
PromoteStep(p) == Submit(p) \/ StartClock(p)

Next ==
    \/ \E s \in Scans : Scan(s) \/ ScanStep(s)
    \/ \E p \in Processes : PromoteStep(p)
    \/ \E m \in Manuals : Load(m)
    \/ Start \/ Cleanup \/ Crash \/ Tick

Spec == Init /\ [][Next]_vars

\* Files, the audit log and the intake answer, one way or the other.
FairSpec == Spec /\ \A s \in Scans : WF_vars(ScanStep(s) \/ PromoteStep(s))

-----------------------------------------------------------------------------
(***************************************************************************)
(* One fault does not storm the intake: of two observations of a key that  *)
(* the daemon submits, across its restarts, one was examined no sooner     *)
(* than a window after the other was discovered.  Not so if `observe scan` *)
(* reported the key as well, see DedupSurvivesRestarts.                    *)
(***************************************************************************)
ByDaemon(o) == o[1] \in DaemonScans /\ submits[o] > 0
Apart(o, p) == marked[p] >= at[o] + Window \/ marked[o] >= at[p] + Window

\* `observe scan` has found nothing new of this key.
DaemonOnly(k) == \A o \in Obs : o[1] \in CliScans /\ Key(o) = k => marked[o] = Never

Spaced ==
    \A o, p \in Obs :
        (o # p /\ Key(o) = Key(p) /\ ByDaemon(o) /\ ByDaemon(p) /\ DaemonOnly(Key(o)))
          => Apart(o, p)

(***************************************************************************)
(* "hydrate() is called by the collector at startup so dedup survives      *)
(* process restarts" (dedup.ts lines 5-6).  Violated when the command      *)
(* reported the key first: its file is the oldest recent one, from which   *)
(* the cache is hydrated, and the window of the daemon's own observation   *)
(* ends too early.                                                         *)
(***************************************************************************)
DedupSurvivesRestarts ==
    \A o, p \in Obs :
        (o # p /\ Key(o) = Key(p) /\ ByDaemon(o) /\ ByDaemon(p)) => Apart(o, p)

(***************************************************************************)
(* What a finished scan found new was submitted by it, once, unless some   *)
(* step failed; only `observe promote` submits it again.                   *)
(***************************************************************************)
FreshIsSubmitted ==
    \A o \in Obs :
        /\ (pc[o[1]] = "done" /\ marked[o] # Never) => submits[o] > 0 \/ o \in failed
        /\ submits[o] <= 1 + Cardinality({m \in Manuals : cur[m] = o /\ pc[m] # "new"})

(***************************************************************************)
(* promoter.ts lines 135-136: no orphans.  What has a clock was submitted, *)
(* what was submitted had been saved (and may have expired since), and     *)
(* nothing new was forgotten or submitted twice.                           *)
(***************************************************************************)
NoOrphans ==
    /\ TypeOK
    /\ \A o \in Obs : /\ o \in clocks => submits[o] > 0
                      /\ submits[o] > 0 => o \in files \/ now - at[o] > Retention
    /\ FreshIsSubmitted

(***************************************************************************)
(* Every scan ends.                                                        *)
(***************************************************************************)
ScansEnd == \A s \in Scans : pc[s] # "new" ~> pc[s] = "done"
=============================================================================
