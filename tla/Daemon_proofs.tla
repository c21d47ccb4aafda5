---------------------------- MODULE Daemon_proofs ----------------------------
(***************************************************************************)
(* Theorems about the audit log, the connection pool and the observation   *)
(* pipeline, for every set of calls, callers, sweeps, scans, faults and    *)
(* manual promotions and any number of crashes. The three share no name,   *)
(* and each theorem is about one of them.                                  *)
(***************************************************************************)
EXTENDS Observation, AuditLog, ConnectionPool, FiniteSetTheorems, WellFoundedInduction, TLAPS

-----------------------------------------------------------------------------
(***************************************************************************)
(* The observation pipeline.                                               *)
(***************************************************************************)

\* Where a scan stands while it has an observation at hand, and once it has
\* found it fresh.
Busy    == {"suppress", "save", "created", "submit", "clock"}
Holding == {"save", "created", "submit", "clock"}

\* On file, or rightly cleaned up.
Filed(o) == o \in files \/ now - at[o] > Retention

\* What a scan has at hand is its own and has left its list.
ScanAt(s) ==
    /\ pc[s] = "new" => todo[s] = {}
    /\ pc[s] \in Busy => cur[s] \in Obs /\ cur[s][1] = s /\ cur[s][2] \notin todo[s]
    /\ pc[s] \in {"created", "submit"} => Filed(cur[s])
    /\ pc[s] = "clock" => submits[cur[s]] > 0
    /\ \A f \in todo[s] : <<s, f>> \in Obs

ManualAt(m) ==
    /\ pc[m] \in {"new", "submit", "done"}
    /\ pc[m] # "new" => cur[m] \in Obs /\ marked[cur[m]] # Never /\ Filed(cur[m])

\* The scan of an observation has it at hand.
Held(o, places) == cur[o[1]] = o /\ pc[o[1]] \in places

\* An observation is untouched until its scan examines it; then it is
\* saved, submitted and given a clock in this order.
ObsAt(o) ==
    /\ pc[o[1]] = "new" \/ o[2] \in todo[o[1]] => marked[o] = Never
    /\ o[2] \in todo[o[1]] => at[o] <= now
    /\ marked[o] # Never => at[o] <= marked[o] /\ marked[o] <= now
    /\ o \in files \/ submits[o] > 0 \/ Held(o, Holding) => marked[o] # Never
    /\ o \in clocks => submits[o] > 0
    /\ submits[o] > 0 => Filed(o)
    /\ marked[o] # Never =>
         submits[o] > 0 \/ o \in failed \/ Held(o, {"save", "created", "submit"})

\* The scan of an observation may still submit it.
Untried(o) ==
    \/ pc[o[1]] = "new"
    \/ o[2] \in todo[o[1]]
    \/ Held(o, {"suppress", "save", "created", "submit"})

\* The runs of `observe promote` that have submitted an observation, and so
\* the bound on its submissions.
Promoted(o) == {m \in Manuals : cur[m] = o /\ pc[m] = "done"}

Counted(o) == submits[o] <= Cardinality(Promoted(o)) + (IF Untried(o) THEN 0 ELSE 1)

\* The types, with no bound on the submissions: Counted gives it.
Shape ==
    /\ now \in 0..MaxTime
    /\ up \in BOOLEAN
    /\ cache \in [CliScans \cup {Daemon} -> [Keys -> 0..Never]]
    /\ pc \in [Processes -> {"new", "loop", "suppress", "save", "created", "submit",
                             "clock", "done"}]
    /\ todo \in [Scans -> SUBSET Faults]
    /\ cur \in [Processes -> Obs \cup {NoObs}]
    /\ files \subseteq Obs
    /\ at \in [Obs -> 0..Never]
    /\ submits \in [Obs -> Nat]
    /\ clocks \subseteq Obs
    /\ marked \in [Obs -> 0..Never]
    /\ failed \subseteq Obs
    /\ crashes \in 0..MaxCrashes

(***************************************************************************)
(* What holds of every scan, manual promotion and observation, whatever    *)
(* the interleaving.                                                       *)
(***************************************************************************)
PipeInv ==
    /\ Shape
    /\ \A s \in Scans : ScanAt(s)
    /\ \A m \in Manuals : ManualAt(m)
    /\ \A o \in Obs : ObsAt(o)

\* An observation of the daemon's that is on file, was submitted, or is
\* about to be.
Kept(o) ==
    /\ o[1] \in DaemonScans
    /\ \/ o \in files \/ submits[o] > 0 \/ Held(o, Holding)
       \/ \E m \in Manuals : cur[m] = o /\ pc[m] = "submit"

\* While the daemon runs, its cache covers what it keeps.
Covered(o) ==
    up /\ Kept(o) /\ DaemonOnly(Key(o)) /\ now - at[o] < Window =>
        /\ cache[Daemon][Key(o)] # Never
        /\ cache[Daemon][Key(o)] >= at[o]

SpacedInv ==
    /\ ~up => \A s \in DaemonScans : pc[s] \in {"new", "done"}
    /\ \A o \in Obs : Covered(o)
    /\ \A o, p \in Obs :
         o # p /\ Key(o) = Key(p) /\ Kept(o) /\ Kept(p) /\ DaemonOnly(Key(o)) => Apart(o, p)


LEMMA LeastNat ==
  ASSUME NEW T, T \subseteq Nat, T # {}
  PROVE  \E m \in T : \A n \in T : m <= n
<1> DEFINE Less == {p \in Nat \X Nat : p[1] < p[2]}
<1>1. IsWellFoundedOn(Less, Nat)
  BY NatLessThanWellFounded DEF OpToRel
<1>2. PICK m \in T : \A n \in T : <<n, m>> \notin Less
  BY <1>1, WFMin
<1>3. ASSUME NEW n \in T PROVE m <= n
  <2>1. <<n, m>> \notin Less
    BY <1>2
  <2>2. ~(n < m)
    BY <2>1
  <2> QED
    BY <2>2
<1> QED
  BY <1>3

LEMMA HydratedTyped ==
  ASSUME Shape, NEW k \in Keys
  PROVE  Hydrated(k) \in 0..Never
<1>1. CASE Recent(k) = {}
  BY <1>1, ObservationAssumption DEF Hydrated, Never
<1>2. CASE Recent(k) # {}
  <2> DEFINE T == {at[o] : o \in Recent(k)}
  <2>1. T \subseteq 0..Never /\ T # {} /\ T \subseteq Nat
    <3>1. \A o \in Recent(k) : at[o] \in 0..Never
      BY DEF Recent, Shape
    <3>2. 0..Never \subseteq Nat
      BY ObservationAssumption DEF Never
    <3> QED  BY <1>2, <3>1, <3>2
  <2>2. \E t \in T : \A u \in T : t <= u
    BY <2>1, LeastNat
  <2>3. \E t \in T : \A o \in Recent(k) : t <= at[o]
    BY <2>2
  <2>4. Hydrated(k) = CHOOSE t \in T : \A o \in Recent(k) : t <= at[o]
    BY <1>2 DEF Hydrated
  <2>5. Hydrated(k) \in T
    BY <2>3, <2>4
  <2> QED  BY <2>1, <2>5
<1> QED  BY <1>1, <1>2


\* examine() of an observation its process has seen, and of one it has not.
ExamineSeen(s, f) ==
    /\ pc[s] = "loop" /\ f \in todo[s] /\ s \in Scans
    /\ Within(cache[Owner(s)][Key(<<s, f>>)])
    /\ todo' = [todo EXCEPT ![s] = @ \ {f}]
    /\ cur' = [cur EXCEPT ![s] = <<s, f>>]
    /\ pc' = [pc EXCEPT ![s] = "suppress"]
    /\ UNCHANGED <<now, memory, store, submits, clocks, history, crashes>>

ExamineFresh(s, f) ==
    /\ pc[s] = "loop" /\ f \in todo[s] /\ s \in Scans
    /\ ~Within(cache[Owner(s)][Key(<<s, f>>)])
    /\ todo' = [todo EXCEPT ![s] = @ \ {f}]
    /\ cur' = [cur EXCEPT ![s] = <<s, f>>]
    /\ pc' = [pc EXCEPT ![s] = "save"]
    /\ cache' = [cache EXCEPT ![Owner(s)][Key(<<s, f>>)] = now]
    /\ marked' = [marked EXCEPT ![<<s, f>>] = now]
    /\ UNCHANGED <<now, up, store, submits, clocks, failed, crashes>>

LEMMA Examines ==
  ASSUME NEW s \in Scans, Examine(s)
  PROVE  \E f \in todo[s] : ExamineSeen(s, f) \/ ExamineFresh(s, f)
<1>1. PICK f \in todo[s] : Examine(s)!2!(f)
  BY DEF Examine
<1>2. CASE Within(cache[Owner(s)][Key(<<s, f>>)])
  BY <1>1, <1>2 DEF Examine, ExamineSeen, memory, history, Goto
<1>3. CASE ~Within(cache[Owner(s)][Key(<<s, f>>)])
  BY <1>1, <1>3 DEF Examine, ExamineFresh, Goto
<1> QED  BY <1>2, <1>3

(***************************************************************************)
(* Each step keeps the pipeline invariant.                                 *)
(***************************************************************************)
LEMMA StartKeeps ==
  ASSUME PipeInv, Start
  PROVE  PipeInv'
<1>0. ASSUME NEW k \in Keys PROVE Hydrated(k) \in 0..Never
  BY HydratedTyped DEF PipeInv
<1>1. Shape /\ Shape'
  BY <1>0, ObservationAssumption
  DEF PipeInv, Shape, Never, Scans, Processes, memory, store, history, Start
<1>2. ASSUME NEW x \in Scans PROVE ScanAt(x)'
  BY <1>1, ObservationAssumption
  DEF PipeInv, ScanAt, ManualAt, ObsAt, Busy, Holding, Filed, Held, Shape, Never, Scans,
      Processes, memory, store, history, Start
<1>3. ASSUME NEW x \in Manuals PROVE ManualAt(x)'
  BY <1>1, ObservationAssumption
  DEF PipeInv, ScanAt, ManualAt, ObsAt, Busy, Holding, Filed, Held, Shape, Never, Scans,
      Processes, memory, store, history, Start
<1>4. ASSUME NEW o \in Obs PROVE ObsAt(o)'
  BY <1>1, ObservationAssumption
  DEF PipeInv, ScanAt, ManualAt, ObsAt, Busy, Holding, Filed, Held, Shape, Never, Scans,
      Processes, memory, store, history, Start
<1> QED  BY <1>1, <1>2, <1>3, <1>4 DEF PipeInv

LEMMA ScanKeeps ==
  ASSUME PipeInv, NEW s \in Scans, Scan(s)
  PROVE  PipeInv'
<1>0. PICK found \in SUBSET {f \in Faults : <<s, f>> \in Obs} : Scan(s)!3!(found)
  BY DEF Scan
<1>01. todo' \in [Scans -> SUBSET Faults]
  BY <1>0 DEF PipeInv, Shape
<1>02. at' \in [Obs -> 0..Never]
  BY <1>0, ObservationAssumption DEF PipeInv, Shape, Never
<1>1. Shape /\ Shape'
  BY <1>01, <1>02, ObservationAssumption
  DEF PipeInv, Shape, Never, Scans, Processes, memory, store, history, Scan, Goto
<1>2. ASSUME NEW x \in Scans PROVE ScanAt(x)'
  BY <1>1, ObservationAssumption
  DEF PipeInv, ScanAt, ManualAt, ObsAt, Busy, Holding, Filed, Held, Shape, Never, Scans,
      Processes, memory, store, history, Scan, Goto
<1>3. ASSUME NEW x \in Manuals PROVE ManualAt(x)'
  BY <1>1, ObservationAssumption
  DEF PipeInv, ScanAt, ManualAt, ObsAt, Busy, Holding, Filed, Held, Shape, Never, Scans,
      Processes, memory, store, history, Scan, Goto
<1>4. ASSUME NEW o \in Obs PROVE ObsAt(o)'
  BY <1>1, ObservationAssumption
  DEF PipeInv, ScanAt, ManualAt, ObsAt, Busy, Holding, Filed, Held, Shape, Never, Scans,
      Processes, memory, store, history, Scan, Goto
<1> QED  BY <1>1, <1>2, <1>3, <1>4 DEF PipeInv

LEMMA SeenKeeps ==
  ASSUME PipeInv, NEW s \in Scans, NEW f \in todo[s], ExamineSeen(s, f)
  PROVE  PipeInv'
<1>0. /\ <<s, f>> \in Obs /\ s \in Processes
      /\ Key(<<s, f>>) \in Keys /\ Owner(s) \in CliScans \cup {Daemon}
  BY ObservationAssumption DEF PipeInv, ScanAt, Shape, Scans, Processes, Key, Owner
<1>1. Shape /\ Shape'
  BY <1>0, ObservationAssumption
  DEF PipeInv, Shape, Never, Scans, Processes, memory, store, history, ExamineSeen
<1>2. ASSUME NEW x \in Scans PROVE ScanAt(x)'
  BY <1>1, ObservationAssumption
  DEF PipeInv, ScanAt, ManualAt, ObsAt, Busy, Holding, Filed, Held, Shape, Never, Scans,
      Processes, memory, store, history, ExamineSeen
<1>3. ASSUME NEW x \in Manuals PROVE ManualAt(x)'
  BY <1>1, ObservationAssumption
  DEF PipeInv, ScanAt, ManualAt, ObsAt, Busy, Holding, Filed, Held, Shape, Never, Scans,
      Processes, memory, store, history, ExamineSeen
<1>4. ASSUME NEW o \in Obs PROVE ObsAt(o)'
  BY <1>1, ObservationAssumption
  DEF PipeInv, ScanAt, ManualAt, ObsAt, Busy, Holding, Filed, Held, Shape, Never, Scans,
      Processes, memory, store, history, ExamineSeen
<1> QED  BY <1>1, <1>2, <1>3, <1>4 DEF PipeInv

LEMMA FreshKeeps ==
  ASSUME PipeInv, NEW s \in Scans, NEW f \in todo[s], ExamineFresh(s, f)
  PROVE  PipeInv'
<1>0. /\ <<s, f>> \in Obs /\ s \in Processes
      /\ Key(<<s, f>>) \in Keys /\ Owner(s) \in CliScans \cup {Daemon}
  BY ObservationAssumption DEF PipeInv, ScanAt, Shape, Scans, Processes, Key, Owner
<1>1. Shape /\ Shape'
  BY <1>0, ObservationAssumption
  DEF PipeInv, Shape, Never, Scans, Processes, memory, store, history, ExamineFresh
<1>2. ASSUME NEW x \in Scans PROVE ScanAt(x)'
  BY <1>1, ObservationAssumption
  DEF PipeInv, ScanAt, ManualAt, ObsAt, Busy, Holding, Filed, Held, Shape, Never, Scans,
      Processes, memory, store, history, ExamineFresh
<1>3. ASSUME NEW x \in Manuals PROVE ManualAt(x)'
  BY <1>1, ObservationAssumption
  DEF PipeInv, ScanAt, ManualAt, ObsAt, Busy, Holding, Filed, Held, Shape, Never, Scans,
      Processes, memory, store, history, ExamineFresh
<1>4. ASSUME NEW o \in Obs PROVE ObsAt(o)'
  BY <1>1, ObservationAssumption
  DEF PipeInv, ScanAt, ManualAt, ObsAt, Busy, Holding, Filed, Held, Shape, Never, Scans,
      Processes, memory, store, history, ExamineFresh
<1> QED  BY <1>1, <1>2, <1>3, <1>4 DEF PipeInv

LEMMA SuppressKeeps ==
  ASSUME PipeInv, NEW s \in Scans, Suppress(s)
  PROVE  PipeInv'
<1>1. Shape /\ Shape'
  BY ObservationAssumption
  DEF PipeInv, Shape, Never, Scans, Processes, memory, store, history, Suppress, Goto
<1>2. ASSUME NEW x \in Scans PROVE ScanAt(x)'
  BY <1>1, ObservationAssumption
  DEF PipeInv, ScanAt, ManualAt, ObsAt, Busy, Holding, Filed, Held, Shape, Never, Scans,
      Processes, memory, store, history, Suppress, Goto
<1>3. ASSUME NEW x \in Manuals PROVE ManualAt(x)'
  BY <1>1, ObservationAssumption
  DEF PipeInv, ScanAt, ManualAt, ObsAt, Busy, Holding, Filed, Held, Shape, Never, Scans,
      Processes, memory, store, history, Suppress, Goto
<1>4. ASSUME NEW o \in Obs PROVE ObsAt(o)'
  BY <1>1, ObservationAssumption
  DEF PipeInv, ScanAt, ManualAt, ObsAt, Busy, Holding, Filed, Held, Shape, Never, Scans,
      Processes, memory, store, history, Suppress, Goto
<1> QED  BY <1>1, <1>2, <1>3, <1>4 DEF PipeInv

LEMMA SaveKeeps ==
  ASSUME PipeInv, NEW s \in Scans, Save(s)
  PROVE  PipeInv'
<1>0. cur[s] \in Obs
  BY DEF PipeInv, ScanAt, Busy, Save, Goto, Fail
<1>1. Shape /\ Shape'
  BY <1>0, ObservationAssumption
  DEF PipeInv, Shape, Never, Scans, Processes, memory, store, history, Save, Goto, Fail
<1>2. ASSUME NEW x \in Scans PROVE ScanAt(x)'
  BY <1>1, ObservationAssumption
  DEF PipeInv, ScanAt, ManualAt, ObsAt, Busy, Holding, Filed, Held, Shape, Never, Scans,
      Processes, memory, store, history, Save, Goto, Fail
<1>3. ASSUME NEW x \in Manuals PROVE ManualAt(x)'
  BY <1>1, ObservationAssumption
  DEF PipeInv, ScanAt, ManualAt, ObsAt, Busy, Holding, Filed, Held, Shape, Never, Scans,
      Processes, memory, store, history, Save, Goto, Fail
<1>4. ASSUME NEW o \in Obs PROVE ObsAt(o)'
  BY <1>1, ObservationAssumption
  DEF PipeInv, ScanAt, ManualAt, ObsAt, Busy, Holding, Filed, Held, Shape, Never, Scans,
      Processes, memory, store, history, Save, Goto, Fail
<1> QED  BY <1>1, <1>2, <1>3, <1>4 DEF PipeInv

LEMMA CreatedKeeps ==
  ASSUME PipeInv, NEW s \in Scans, Created(s)
  PROVE  PipeInv'
<1>0. cur[s] \in Obs
  BY DEF PipeInv, ScanAt, Busy, Created, Goto, Fail
<1>1. Shape /\ Shape'
  BY <1>0, ObservationAssumption
  DEF PipeInv, Shape, Never, Scans, Processes, memory, store, history, Created, Goto, Fail
<1>2. ASSUME NEW x \in Scans PROVE ScanAt(x)'
  BY <1>1, ObservationAssumption
  DEF PipeInv, ScanAt, ManualAt, ObsAt, Busy, Holding, Filed, Held, Shape, Never, Scans,
      Processes, memory, store, history, Created, Goto, Fail
<1>3. ASSUME NEW x \in Manuals PROVE ManualAt(x)'
  BY <1>1, ObservationAssumption
  DEF PipeInv, ScanAt, ManualAt, ObsAt, Busy, Holding, Filed, Held, Shape, Never, Scans,
      Processes, memory, store, history, Created, Goto, Fail
<1>4. ASSUME NEW o \in Obs PROVE ObsAt(o)'
  BY <1>1, ObservationAssumption
  DEF PipeInv, ScanAt, ManualAt, ObsAt, Busy, Holding, Filed, Held, Shape, Never, Scans,
      Processes, memory, store, history, Created, Goto, Fail
<1> QED  BY <1>1, <1>2, <1>3, <1>4 DEF PipeInv

LEMMA ScanEndsKeeps ==
  ASSUME PipeInv, NEW s \in Scans, ScanEnds(s)
  PROVE  PipeInv'
<1>1. Shape /\ Shape'
  BY ObservationAssumption
  DEF PipeInv, Shape, Never, Scans, Processes, memory, store, history, ScanEnds, Goto
<1>2. ASSUME NEW x \in Scans PROVE ScanAt(x)'
  BY <1>1, ObservationAssumption
  DEF PipeInv, ScanAt, ManualAt, ObsAt, Busy, Holding, Filed, Held, Shape, Never, Scans,
      Processes, memory, store, history, ScanEnds, Goto
<1>3. ASSUME NEW x \in Manuals PROVE ManualAt(x)'
  BY <1>1, ObservationAssumption
  DEF PipeInv, ScanAt, ManualAt, ObsAt, Busy, Holding, Filed, Held, Shape, Never, Scans,
      Processes, memory, store, history, ScanEnds, Goto
<1>4. ASSUME NEW o \in Obs PROVE ObsAt(o)'
  BY <1>1, ObservationAssumption
  DEF PipeInv, ScanAt, ManualAt, ObsAt, Busy, Holding, Filed, Held, Shape, Never, Scans,
      Processes, memory, store, history, ScanEnds, Goto
<1> QED  BY <1>1, <1>2, <1>3, <1>4 DEF PipeInv

LEMMA SubmitKeeps ==
  ASSUME PipeInv, NEW p \in Processes, Submit(p)
  PROVE  PipeInv'
<1>0. cur[p] \in Obs
  BY DEF PipeInv, ScanAt, ManualAt, Busy, Processes, Submit, Goto, Fail, After
<1>1. Shape /\ Shape'
  <2>1. pc' \in [Processes -> {"new", "loop", "suppress", "save", "created", "submit", "clock", "done"}]
    <3>1. PICK l \in {"clock", "done", "loop"} : Goto(p, l)
      BY DEF Submit, After
    <3> QED
      BY <3>1 DEF PipeInv, Shape, Goto
  <2>2. submits' \in [Obs -> Nat]
    BY <1>0 DEF PipeInv, Shape, Submit
  <2>3. failed' \subseteq Obs
    BY <1>0 DEF PipeInv, Shape, Submit, Fail
  <2> QED
    BY <2>1, <2>2, <2>3 DEF PipeInv, Shape, Submit, memory, store
<1>2. ASSUME NEW x \in Scans PROVE ScanAt(x)'
  BY <1>1, ObservationAssumption
  DEF PipeInv, ScanAt, ManualAt, ObsAt, Busy, Holding, Filed, Held, Shape, Never, Scans,
      Processes, memory, store, history, Submit, Goto, Fail, After
<1>3. ASSUME NEW x \in Manuals PROVE ManualAt(x)'
  BY <1>1, ObservationAssumption
  DEF PipeInv, ScanAt, ManualAt, ObsAt, Busy, Holding, Filed, Held, Shape, Never, Scans,
      Processes, memory, store, history, Submit, Goto, Fail, After
<1>4. ASSUME NEW o \in Obs PROVE ObsAt(o)'
  BY <1>1, ObservationAssumption
  DEF PipeInv, ScanAt, ManualAt, ObsAt, Busy, Holding, Filed, Held, Shape, Never, Scans,
      Processes, memory, store, history, Submit, Goto, Fail, After
<1> QED  BY <1>1, <1>2, <1>3, <1>4 DEF PipeInv

LEMMA StartClockKeeps ==
  ASSUME PipeInv, NEW p \in Processes, StartClock(p)
  PROVE  PipeInv'
<1>0. cur[p] \in Obs
  BY DEF PipeInv, ScanAt, ManualAt, Busy, Processes, StartClock, Goto, After
<1>1. Shape /\ Shape'
  BY <1>0, ObservationAssumption
  DEF PipeInv, Shape, Never, Scans, Processes, memory, store, history, StartClock, Goto, After
<1>2. ASSUME NEW x \in Scans PROVE ScanAt(x)'
  BY <1>1, ObservationAssumption
  DEF PipeInv, ScanAt, ManualAt, ObsAt, Busy, Holding, Filed, Held, Shape, Never, Scans,
      Processes, memory, store, history, StartClock, Goto, After
<1>3. ASSUME NEW x \in Manuals PROVE ManualAt(x)'
  BY <1>1, ObservationAssumption
  DEF PipeInv, ScanAt, ManualAt, ObsAt, Busy, Holding, Filed, Held, Shape, Never, Scans,
      Processes, memory, store, history, StartClock, Goto, After
<1>4. ASSUME NEW o \in Obs PROVE ObsAt(o)'
  BY <1>1, ObservationAssumption
  DEF PipeInv, ScanAt, ManualAt, ObsAt, Busy, Holding, Filed, Held, Shape, Never, Scans,
      Processes, memory, store, history, StartClock, Goto, After
<1> QED  BY <1>1, <1>2, <1>3, <1>4 DEF PipeInv

LEMMA LoadKeeps ==
  ASSUME PipeInv, NEW m \in Manuals, Load(m)
  PROVE  PipeInv'
<1>1. Shape /\ Shape'
  BY ObservationAssumption
  DEF PipeInv, Shape, Never, Scans, Processes, memory, store, history, Load, Goto
<1>2. ASSUME NEW x \in Scans PROVE ScanAt(x)'
  BY <1>1, ObservationAssumption
  DEF PipeInv, ScanAt, ManualAt, ObsAt, Busy, Holding, Filed, Held, Shape, Never, Scans,
      Processes, memory, store, history, Load, Goto
<1>3. ASSUME NEW x \in Manuals PROVE ManualAt(x)'
  BY <1>1, ObservationAssumption
  DEF PipeInv, ScanAt, ManualAt, ObsAt, Busy, Holding, Filed, Held, Shape, Never, Scans,
      Processes, memory, store, history, Load, Goto
<1>4. ASSUME NEW o \in Obs PROVE ObsAt(o)'
  BY <1>1, ObservationAssumption
  DEF PipeInv, ScanAt, ManualAt, ObsAt, Busy, Holding, Filed, Held, Shape, Never, Scans,
      Processes, memory, store, history, Load, Goto
<1> QED  BY <1>1, <1>2, <1>3, <1>4 DEF PipeInv

LEMMA CleanupKeeps ==
  ASSUME PipeInv, Cleanup
  PROVE  PipeInv'
<1>1. Shape /\ Shape'
  BY ObservationAssumption
  DEF PipeInv, Shape, Never, Scans, Processes, memory, store, history, Cleanup, Expired
<1>2. ASSUME NEW x \in Scans PROVE ScanAt(x)'
  BY <1>1, ObservationAssumption
  DEF PipeInv, ScanAt, ManualAt, ObsAt, Busy, Holding, Filed, Held, Shape, Never, Scans,
      Processes, memory, store, history, Cleanup, Expired
<1>3. ASSUME NEW x \in Manuals PROVE ManualAt(x)'
  BY <1>1, ObservationAssumption
  DEF PipeInv, ScanAt, ManualAt, ObsAt, Busy, Holding, Filed, Held, Shape, Never, Scans,
      Processes, memory, store, history, Cleanup, Expired
<1>4. ASSUME NEW o \in Obs PROVE ObsAt(o)'
  BY <1>1, ObservationAssumption
  DEF PipeInv, ScanAt, ManualAt, ObsAt, Busy, Holding, Filed, Held, Shape, Never, Scans,
      Processes, memory, store, history, Cleanup, Expired
<1> QED  BY <1>1, <1>2, <1>3, <1>4 DEF PipeInv

LEMMA CrashKeeps ==
  ASSUME PipeInv, Crash
  PROVE  PipeInv'
<1>0. \A s \in DaemonScans : pc[s] \in Busy => cur[s] \in Obs
  BY DEF PipeInv, ScanAt, Scans
<1>01. failed' \subseteq Obs
  BY <1>0 DEF PipeInv, Shape, Busy, Crash
<1>02. cache' \in [CliScans \cup {Daemon} -> [Keys -> 0..Never]]
  <2>1. [k \in Keys |-> Never] \in [Keys -> 0..Never]
    BY ObservationAssumption DEF Never
  <2> QED  BY <2>1 DEF PipeInv, Shape, Crash
<1>03. pc' \in [Processes -> {"new", "loop", "suppress", "save", "created", "submit",
                             "clock", "done"}]
  BY DEF PipeInv, Shape, Crash
<1>04. todo' \in [Scans -> SUBSET Faults]
  BY DEF PipeInv, Shape, Crash
<1>05. /\ Shape /\ up' \in BOOLEAN /\ crashes' \in 0..MaxCrashes
       /\ UNCHANGED <<now, cur, files, at, submits, clocks, marked>>
  <2>1. Shape /\ crashes \in Nat /\ crashes + 1 \in 0..MaxCrashes
    BY ObservationAssumption DEF PipeInv, Shape, Crash
  <2>2. UNCHANGED <<now, cur, files, at, submits, clocks, marked>>
    BY DEF Crash, store
  <2> QED  BY <2>1, <2>2 DEF Crash
<1>1. Shape /\ Shape'
  BY <1>01, <1>02, <1>03, <1>04, <1>05 DEF Shape, Never, Scans, Processes
<1>2. ASSUME NEW x \in Scans PROVE ScanAt(x)'
  BY <1>1, ObservationAssumption
  DEF PipeInv, ScanAt, ManualAt, ObsAt, Busy, Holding, Filed, Held, Shape, Never, Scans,
      Processes, memory, store, history, Crash
<1>3. ASSUME NEW x \in Manuals PROVE ManualAt(x)'
  BY <1>1, ObservationAssumption
  DEF PipeInv, ScanAt, ManualAt, ObsAt, Busy, Holding, Filed, Held, Shape, Never, Scans,
      Processes, memory, store, history, Crash
<1>4. ASSUME NEW o \in Obs PROVE ObsAt(o)'
  BY <1>1, ObservationAssumption
  DEF PipeInv, ScanAt, ManualAt, ObsAt, Busy, Holding, Filed, Held, Shape, Never, Scans,
      Processes, memory, store, history, Crash
<1> QED  BY <1>1, <1>2, <1>3, <1>4 DEF PipeInv

LEMMA TickKeeps ==
  ASSUME PipeInv, Tick
  PROVE  PipeInv'
<1>1. Shape /\ Shape'
  BY ObservationAssumption
  DEF PipeInv, Shape, Never, Scans, Processes, memory, store, history, Tick
<1>2. ASSUME NEW x \in Scans PROVE ScanAt(x)'
  BY <1>1, ObservationAssumption
  DEF PipeInv, ScanAt, ManualAt, ObsAt, Busy, Holding, Filed, Held, Shape, Never, Scans,
      Processes, memory, store, history, Tick
<1>3. ASSUME NEW x \in Manuals PROVE ManualAt(x)'
  BY <1>1, ObservationAssumption
  DEF PipeInv, ScanAt, ManualAt, ObsAt, Busy, Holding, Filed, Held, Shape, Never, Scans,
      Processes, memory, store, history, Tick
<1>4. ASSUME NEW o \in Obs PROVE ObsAt(o)'
  BY <1>1, ObservationAssumption
  DEF PipeInv, ScanAt, ManualAt, ObsAt, Busy, Holding, Filed, Held, Shape, Never, Scans,
      Processes, memory, store, history, Tick
<1> QED  BY <1>1, <1>2, <1>3, <1>4 DEF PipeInv

LEMMA Steps ==
  ASSUME Next
  PROVE  \/ \E s \in Scans : \/ Scan(s) \/ Suppress(s) \/ Save(s) \/ Created(s) \/ ScanEnds(s)
                             \/ \E f \in todo[s] : ExamineSeen(s, f) \/ ExamineFresh(s, f)
         \/ \E p \in Processes : Submit(p) \/ StartClock(p)
         \/ \E m \in Manuals : Load(m)
         \/ Start \/ Cleanup \/ Crash \/ Tick
BY Examines DEF Next, ScanStep, PromoteStep

LEMMA PipeStep ==
  ASSUME PipeInv, Next
  PROVE  PipeInv'
BY Steps, StartKeeps, ScanKeeps, SeenKeeps, FreshKeeps, SuppressKeeps, SaveKeeps, CreatedKeeps,
   ScanEndsKeeps, SubmitKeeps, StartClockKeeps, LoadKeeps, CleanupKeeps, CrashKeeps, TickKeeps

LEMMA PipeInvariant == Spec => []PipeInv
<1>1. Init => PipeInv
  <2> SUFFICES ASSUME Init PROVE PipeInv
    OBVIOUS
  <2>1. Shape
    <3>1. 0 \in 0..MaxTime /\ Never \in 0..Never /\ 0 \in 0..MaxCrashes
      BY ObservationAssumption DEF Never
    <3> QED  BY <3>1 DEF Init, Shape
  <2> QED
    BY <2>1, ObservationAssumption
    DEF Init, PipeInv, ScanAt, ManualAt, ObsAt, Busy, Holding, Held, Scans, Processes, Shape
<1>2. PipeInv /\ UNCHANGED vars => PipeInv'
  BY DEF PipeInv, Shape, ScanAt, ManualAt, ObsAt, Held, Filed, vars, memory, store, history
<1>3. PipeInv /\ [Next]_vars => PipeInv'
  BY <1>2, PipeStep
<1> QED  BY <1>1, <1>3, PTL DEF Spec

-----------------------------------------------------------------------------

(***************************************************************************)
(* Submissions are counted: one of the scan, once it has left the          *)
(* submission behind, and one of each manual promotion that is done.       *)
(***************************************************************************)
LEMMA PromotedFinite ==
  ASSUME NEW o
  PROVE  IsFiniteSet(Promoted(o)) /\ Cardinality(Promoted(o)) \in Nat
BY ObservationAssumption, FS_Subset, FS_CardinalityType DEF Promoted

LEMMA CountKept ==
  ASSUME PipeInv, PipeInv', NEW o \in Obs, Counted(o), submits'[o] = submits[o],
         Promoted(o) \subseteq Promoted(o)', Untried(o)' => Untried(o)
  PROVE  Counted(o)'
<1> DEFINE P == Promoted(o)
           Q == Promoted(o)'
<1>1. IsFiniteSet(Q) /\ Cardinality(Q) \in Nat
  BY ObservationAssumption, FS_Subset, FS_CardinalityType DEF Promoted
<1>2. Cardinality(P) <= Cardinality(Q)
  BY <1>1, FS_Subset
<1>3. submits[o] \in Nat /\ Cardinality(P) \in Nat
  BY PromotedFinite DEF PipeInv, Shape
<1>4. submits[o] <= Cardinality(P) + (IF Untried(o) THEN 0 ELSE 1)
  BY DEF Counted
<1>5. submits'[o] <= Cardinality(Q) + (IF Untried(o)' THEN 0 ELSE 1)
  <2> HIDE DEF P, Q
  <2> QED  BY <1>1, <1>2, <1>3, <1>4
<1> QED  BY <1>5 DEF Counted

LEMMA CountBySubmit ==
  ASSUME PipeInv, PipeInv', NEW p \in Processes, Submit(p), NEW o \in Obs, Counted(o)
  PROVE  Counted(o)'
<1>1. cur[p] \in Obs
  BY DEF PipeInv, ScanAt, ManualAt, Busy, Processes, Submit
<1>2. Promoted(o) \subseteq Promoted(o)' /\ (Untried(o)' => Untried(o))
  BY ObservationAssumption
  DEF PipeInv, Shape, Submit, Goto, After, Promoted, Untried, Held, Processes, Scans
<1>3. CASE submits'[o] = submits[o]
  BY <1>2, <1>3, CountKept
<1>4. CASE submits'[o] # submits[o]
  <2>1. o = cur[p] /\ submits'[o] = submits[o] + 1 /\ submits[o] \in Nat
    BY <1>1, <1>4 DEF Submit, PipeInv, Shape
  <2>2. CASE p \in Scans
    <3>1. Untried(o) /\ ~Untried(o)'
      BY <2>1, <2>2, ObservationAssumption
      DEF PipeInv, Shape, ScanAt, Busy, Submit, Goto, After, Untried, Held, Processes, Scans
    <3> DEFINE P == Promoted(o)
               Q == Promoted(o)'
    <3>2. IsFiniteSet(Q) /\ Cardinality(Q) \in Nat
      BY ObservationAssumption, FS_Subset, FS_CardinalityType DEF Promoted
    <3>3. Cardinality(P) <= Cardinality(Q) /\ Cardinality(P) \in Nat
      BY <1>2, <3>2, FS_Subset, PromotedFinite
    <3>4. submits[o] <= Cardinality(P) + 0
      BY <3>1 DEF Counted
    <3>5. submits'[o] <= Cardinality(Q) + 1
      <4> HIDE DEF P, Q
      <4> QED  BY <2>1, <3>2, <3>3, <3>4
    <3> QED  BY <3>1, <3>5 DEF Counted
  <2>3. CASE p \in Manuals
    <3>1. Promoted(o)' = Promoted(o) \cup {p} /\ p \notin Promoted(o)
      BY <2>1, <2>3, ObservationAssumption
      DEF PipeInv, Shape, Submit, Goto, After, Promoted, Processes, Scans
    <3> DEFINE P == Promoted(o)
               Q == Promoted(o)'
    <3>2. Cardinality(Q) = Cardinality(P) + 1 /\ Cardinality(P) \in Nat
      BY <3>1, FS_AddElement, PromotedFinite
    <3>3. submits[o] <= Cardinality(P) + (IF Untried(o) THEN 0 ELSE 1)
      BY DEF Counted
    <3>4. submits'[o] <= Cardinality(Q) + (IF Untried(o)' THEN 0 ELSE 1)
      <4> HIDE DEF P, Q
      <4> QED  BY <1>2, <2>1, <3>2, <3>3
    <3> QED  BY <3>4 DEF Counted
  <2> QED  BY <2>2, <2>3 DEF Processes
<1> QED  BY <1>3, <1>4

LEMMA CountStep ==
  ASSUME PipeInv, PipeInv', [Next]_vars, NEW o \in Obs, Counted(o)
  PROVE  Counted(o)'
<1> USE DEF Promoted, Untried, Held, Processes, Scans
<1>1. CASE \E p \in Processes : Submit(p)
  BY <1>1, CountBySubmit
<1>2. ASSUME NEW s \in Scans, Scan(s) PROVE Counted(o)'
  <2>1. submits'[o] = submits[o] /\ Promoted(o) \subseteq Promoted(o)'
    BY <1>2, ObservationAssumption DEF PipeInv, Shape, Scan, Goto
  <2>2. Untried(o)' => Untried(o)
    <3>1. CASE o[1] = s
      BY <1>2, <3>1 DEF Scan
    <3>2. CASE o[1] # s
      <4>1. o[1] \in Scans
        BY ObservationAssumption
      <4>2. pc'[o[1]] = pc[o[1]] /\ todo'[o[1]] = todo[o[1]] /\ cur' = cur
        BY <1>2, <3>2, <4>1 DEF PipeInv, Shape, Scan, Goto
      <4> QED  BY <4>2
    <3> QED  BY <3>1, <3>2
  <2> QED  BY <2>1, <2>2, CountKept
<1>3. ASSUME NEW s \in Scans, NEW f \in todo[s], ExamineSeen(s, f) \/ ExamineFresh(s, f)
      PROVE  Counted(o)'
  <2>1. <<s, f>> \in Obs /\ s \notin Manuals /\ Shape
    BY ObservationAssumption DEF PipeInv, ScanAt
  <2>2. submits'[o] = submits[o] /\ Promoted(o) \subseteq Promoted(o)'
    BY <1>3, <2>1 DEF Shape, ExamineSeen, ExamineFresh
  <2>3. Untried(o)' => Untried(o)
    <3>1. CASE o[1] = s
      <4>1. todo'[s] = todo[s] \ {f} /\ cur'[s] = <<s, f>> /\ pc'[s] \in {"suppress", "save"}
        BY <1>3, <2>1 DEF Shape, ExamineSeen, ExamineFresh
      <4>2. Untried(o)' => o[2] \in todo[s] \/ o = <<s, f>>
        BY <3>1, <4>1
      <4> QED  BY <3>1, <4>2
    <3>2. CASE o[1] # s
      <4>1. o[1] \in Scans
        BY ObservationAssumption
      <4>2. pc'[o[1]] = pc[o[1]] /\ todo'[o[1]] = todo[o[1]] /\ cur'[o[1]] = cur[o[1]]
        BY <1>3, <2>1, <3>2, <4>1 DEF Shape, ExamineSeen, ExamineFresh
      <4> QED  BY <4>2
    <3> QED  BY <3>1, <3>2
  <2> QED  BY <2>2, <2>3, CountKept
<1>4. ASSUME NEW s \in Scans, Suppress(s) \/ Save(s) \/ Created(s) \/ ScanEnds(s)
      PROVE  Counted(o)'
  <2>1. submits'[o] = submits[o] /\ Promoted(o) \subseteq Promoted(o)'
    BY <1>4, ObservationAssumption
    DEF PipeInv, Shape, Suppress, Save, Created, ScanEnds, Goto
  <2>2. Untried(o)' => Untried(o)
    BY <1>4, ObservationAssumption
    DEF PipeInv, Shape, Suppress, Save, Created, ScanEnds, Goto
  <2> QED  BY <2>1, <2>2, CountKept
<1>5. ASSUME NEW p \in Processes, StartClock(p) PROVE Counted(o)'
  <2>1. submits'[o] = submits[o] /\ Promoted(o) \subseteq Promoted(o)'
    BY <1>5, ObservationAssumption DEF PipeInv, Shape, ManualAt, StartClock, Goto, After
  <2>2. Untried(o)' => Untried(o)
    BY <1>5, ObservationAssumption DEF PipeInv, Shape, StartClock, Goto, After
  <2> QED  BY <2>1, <2>2, CountKept
<1>6. ASSUME NEW m \in Manuals, Load(m) PROVE Counted(o)'
  BY <1>6, CountKept, ObservationAssumption DEF PipeInv, Shape, ManualAt, Load, Goto
<1>7. CASE Start \/ Cleanup \/ Tick
  BY <1>7, CountKept DEF Start, Cleanup, Tick
<1>8. CASE Crash
  BY <1>8, CountKept, ObservationAssumption DEF PipeInv, Shape, ManualAt, Crash
<1>9. CASE UNCHANGED vars
  BY <1>9, CountKept DEF vars
<1> QED
  BY <1>1, <1>2, <1>3, <1>4, <1>5, <1>6, <1>7, <1>8, <1>9, Steps

LEMMA CountInvariant == Spec => [](\A o \in Obs : Counted(o))
<1> DEFINE I == \A o \in Obs : Counted(o)
<1>1. Init => I
  <2> SUFFICES ASSUME Init, NEW o \in Obs PROVE Counted(o)
    OBVIOUS
  <2>1. submits[o] = 0 /\ Cardinality(Promoted(o)) \in Nat
    BY PromotedFinite DEF Init
  <2> QED  BY <2>1 DEF Counted
<1>2. I /\ PipeInv /\ PipeInv' /\ [Next]_vars => I'
  BY CountStep
<1> QED  BY <1>1, <1>2, PipeInvariant, PTL DEF Spec

(***************************************************************************)
(* Promotion is orderly, whatever scans, `observe promote` runs, crashes   *)
(* and cleanups of the store do meanwhile: only a fresh observation is     *)
(* submitted to the intake, once by its scan and once by each manual       *)
(* promotion, only a submitted one gets an MTTR clock, and what was        *)
(* submitted is on file or past its retention.                             *)
(***************************************************************************)
THEOREM NothingIsOrphaned == Spec => []NoOrphans
<1> DEFINE I == \A o \in Obs : Counted(o)
<1>1. PipeInv /\ I => NoOrphans
  <2> SUFFICES ASSUME PipeInv, I PROVE NoOrphans
    OBVIOUS
  <2>1. ASSUME NEW o \in Obs
        PROVE  /\ submits[o] <= 1 + Cardinality({m \in Manuals : cur[m] = o /\ pc[m] # "new"})
               /\ submits[o] \in 0..Cardinality(Manuals) + 1
    <3> DEFINE P == Promoted(o)
               L == {m \in Manuals : cur[m] = o /\ pc[m] # "new"}
    <3>1. IsFiniteSet(L) /\ IsFiniteSet(Manuals) /\ Cardinality(L) \in Nat
          /\ Cardinality(Manuals) \in Nat
      BY ObservationAssumption, FS_Subset, FS_CardinalityType
    <3>2. Cardinality(P) <= Cardinality(L) /\ Cardinality(L) <= Cardinality(Manuals)
      BY <3>1, FS_Subset DEF Promoted
    <3>3. submits[o] <= Cardinality(P) + (IF Untried(o) THEN 0 ELSE 1) /\ submits[o] \in Nat
      BY DEF Counted, PipeInv, Shape
    <3>4. Cardinality(P) \in Nat
      BY PromotedFinite
    <3> HIDE DEF P, L
    <3>5. submits[o] <= 1 + Cardinality(L) /\ submits[o] \in 0..Cardinality(Manuals) + 1
      BY <3>1, <3>2, <3>3, <3>4
    <3> QED  BY <3>5 DEF L
  <2>2. TypeOK
    BY <2>1 DEF PipeInv, Shape, TypeOK
  <2>3. FreshIsSubmitted
    BY <2>1 DEF FreshIsSubmitted, PipeInv, ObsAt, Held
  <2> QED  BY <2>2, <2>3 DEF NoOrphans, PipeInv, ObsAt, Filed
<1> QED  BY <1>1, CountInvariant, PipeInvariant, PTL

-----------------------------------------------------------------------------

(***************************************************************************)
(* Observations of a fault that only the daemon finds keep a window apart: *)
(* its cache covers what is on file, and the store holds at most one       *)
(* observation of the key younger than a window, so what a start hydrates  *)
(* is exact.                                                               *)
(***************************************************************************)
LEMMA KeptIsMarked ==
  ASSUME PipeInv, NEW o \in Obs, Kept(o)
  PROVE  marked[o] # Never /\ at[o] <= marked[o] /\ marked[o] <= now
BY DEF PipeInv, Kept, ObsAt, ManualAt

\* Steps that keep no more and mark nothing else.
LEMMA SpacedFrame ==
  ASSUME PipeInv, PipeInv', SpacedInv,
         up' => up /\ cache'[Daemon] = cache[Daemon],
         ~up' => \A s \in DaemonScans : pc'[s] \in {"new", "done"},
         now' >= now,
         \A o \in Obs : /\ Kept(o)' => Kept(o) /\ marked'[o] = marked[o] /\ at'[o] = at[o]
                        /\ marked'[o] = Never => marked[o] = Never
  PROVE  SpacedInv'
<1>1. \A k : DaemonOnly(k)' => DaemonOnly(k)
  BY DEF DaemonOnly, Key
<1>2. ASSUME NEW o \in Obs PROVE Covered(o)'
  <2> SUFFICES ASSUME up', Kept(o)', DaemonOnly(Key(o))', now' - at'[o] < Window
               PROVE  /\ cache'[Daemon][Key(o)] # Never
                      /\ cache'[Daemon][Key(o)] >= at'[o]
    BY DEF Covered, Key
  <2>1. Kept(o) /\ at'[o] = at[o] /\ DaemonOnly(Key(o)) /\ up
    BY <1>1
  <2>2. now - at[o] < Window
    BY <2>1, ObservationAssumption DEF PipeInv, Shape, Never
  <2> QED  BY <2>1, <2>2 DEF SpacedInv, Covered
<1>3. ASSUME NEW o \in Obs, NEW p \in Obs, o # p, Key(o) = Key(p), Kept(o)', Kept(p)',
             DaemonOnly(Key(o))'
      PROVE  Apart(o, p)'
  BY <1>1, <1>3 DEF SpacedInv, Apart
<1> QED  BY <1>2, <1>3 DEF SpacedInv, Key

\* What a start hydrates from is at most one observation of a key.
LEMMA HydratedCovers ==
  ASSUME PipeInv, SpacedInv, ~up, NEW o \in Obs, Kept(o), DaemonOnly(Key(o)),
         now - at[o] < Window
  PROVE  Hydrated(Key(o)) = at[o]
<1>1. ~Held(o, Holding)
  BY DEF SpacedInv, Kept, Held, Holding
<1>2. o \in files
  <2>1. Filed(o)
    BY <1>1 DEF PipeInv, Kept, ObsAt, ManualAt, Filed
  <2>2. ~(now - at[o] > Retention)
    BY ObservationAssumption DEF PipeInv, Shape, Never
  <2> QED  BY <2>1, <2>2 DEF Filed
<1>3. o \in Recent(Key(o))
  BY <1>2 DEF Recent
<1>4. ASSUME NEW p \in Recent(Key(o)), p # o PROVE FALSE
  <2>1. p \in Obs /\ p \in files /\ Key(p) = Key(o) /\ now - at[p] < Window
    BY <1>4 DEF Recent, PipeInv, Shape
  <2>2. marked[p] # Never
    BY <2>1 DEF PipeInv, ObsAt
  <2>3. p[1] \in DaemonScans
    BY <2>1, <2>2, ObservationAssumption DEF DaemonOnly
  <2>4. Kept(p)
    BY <2>1, <2>3 DEF Kept
  <2>5. Apart(o, p)
    BY <1>4, <2>1, <2>4 DEF SpacedInv
  <2>6. marked[o] <= now /\ marked[p] <= now
    BY <2>1, <2>4, KeptIsMarked
  <2> QED
    BY <2>1, <2>5, <2>6, ObservationAssumption DEF Apart, PipeInv, Shape, Never
<1>5. Recent(Key(o)) = {o}
  BY <1>3, <1>4
<1>6. Hydrated(Key(o)) = CHOOSE t \in {at[o]} : t <= at[o]
  BY <1>5 DEF Hydrated
<1>7. at[o] <= at[o]
  BY ObservationAssumption DEF PipeInv, Shape, Never
<1> QED  BY <1>6, <1>7

LEMMA SpacedStart ==
  ASSUME PipeInv, PipeInv', SpacedInv, Start
  PROVE  SpacedInv'
<1>1. ASSUME NEW o \in Obs PROVE (Kept(o)' <=> Kept(o))
  BY DEF Start, Kept, Held, store
<1>2. \A k : DaemonOnly(k)' <=> DaemonOnly(k)
  BY DEF Start, DaemonOnly, Key, history
<1>3. ASSUME NEW o \in Obs PROVE Covered(o)'
  <2> SUFFICES ASSUME Kept(o)', DaemonOnly(Key(o))', now' - at'[o] < Window
               PROVE  /\ cache'[Daemon][Key(o)] # Never
                      /\ cache'[Daemon][Key(o)] >= at'[o]
    BY DEF Covered, Key
  <2>1. Kept(o) /\ at'[o] = at[o] /\ DaemonOnly(Key(o)) /\ now - at[o] < Window /\ ~up
    BY <1>1, <1>2 DEF Start, store
  <2>2. Key(o) \in Keys
    BY ObservationAssumption DEF Key
  <2>3. cache'[Daemon][Key(o)] = Hydrated(Key(o))
    BY <2>2 DEF Start, PipeInv, Shape
  <2>4. Hydrated(Key(o)) = at[o]
    BY <2>1, HydratedCovers
  <2>5. at[o] <= now /\ now <= MaxTime /\ at[o] \in Nat
    BY <2>1, KeptIsMarked, ObservationAssumption DEF PipeInv, Shape, Never
  <2>6. at[o] # Never /\ at[o] >= at[o]
    BY <2>1, <2>5, ObservationAssumption DEF PipeInv, Shape, Never
  <2> QED  BY <2>1, <2>3, <2>4, <2>6 DEF Never
<1>4. ASSUME NEW o \in Obs, NEW p \in Obs, o # p, Key(o) = Key(p), Kept(o)', Kept(p)',
             DaemonOnly(Key(o))'
      PROVE  Apart(o, p)'
  BY <1>1, <1>2, <1>4 DEF SpacedInv, Apart, Start, store, history
<1> QED  BY <1>3, <1>4 DEF SpacedInv, Start, Key

\* A daemon's scan marks an observation only when those it keeps of the key
\* are a window away.
LEMMA SpacedFresh ==
  ASSUME PipeInv, PipeInv', SpacedInv,
         NEW s \in DaemonScans, NEW f \in todo[s], ExamineFresh(s, f)
  PROVE  SpacedInv'
<1> DEFINE n == <<s, f>>
<1>1. /\ n \in Obs /\ n[1] = s /\ n[2] = f /\ marked[n] = Never /\ at[n] <= now
      /\ Key(n) \in Keys /\ Owner(s) = Daemon /\ s \in Scans /\ s \in Processes
      /\ s \notin Manuals
  BY ObservationAssumption DEF PipeInv, ScanAt, ObsAt, Key, Owner, Scans, Processes
<1>2. /\ marked' = [marked EXCEPT ![n] = now]
      /\ cache' = [cache EXCEPT ![Daemon][Key(n)] = now]
      /\ UNCHANGED <<now, up, files, at, submits>>
  BY <1>1 DEF ExamineFresh, store
<1>3. up
  BY DEF SpacedInv, ExamineFresh
<1>4. now \in Nat /\ now <= MaxTime /\ marked \in [Obs -> 0..Never]
      /\ cache \in [CliScans \cup {Daemon} -> [Keys -> 0..Never]]
  BY ObservationAssumption DEF PipeInv, Shape
<1>5. ASSUME NEW o \in Obs, o # n, Kept(o)' PROVE Kept(o) /\ marked'[o] = marked[o]
  <2>1. marked'[o] = marked[o]
    BY <1>2, <1>4, <1>5
  <2>2. Held(o, Holding)' => Held(o, Holding)
    BY <1>1, <1>5, ObservationAssumption
    DEF Held, Holding, ExamineFresh, PipeInv, Shape, Scans, Processes
  <2>3. ASSUME NEW m \in Manuals PROVE cur'[m] = cur[m] /\ pc'[m] = pc[m]
    BY <1>1 DEF ExamineFresh, PipeInv, Shape, Processes
  <2> QED  BY <1>2, <1>5, <2>1, <2>2, <2>3 DEF Kept
<1>6. \A k : DaemonOnly(k)' => DaemonOnly(k)
  <2>1. \A o \in Obs : marked'[o] = Never => marked[o] = Never
    BY <1>1, <1>2, <1>4
  <2> QED  BY <2>1 DEF DaemonOnly, Key
<1>7. ASSUME NEW o \in Obs, o # n, Key(o) = Key(n), Kept(o), DaemonOnly(Key(o))
      PROVE  now >= at[o] + Window
  <2>1. ~Within(cache[Daemon][Key(n)])
    BY <1>1 DEF ExamineFresh
  <2>2. ~(now - at[o] < Window)
    <3> SUFFICES ASSUME now - at[o] < Window PROVE FALSE
      OBVIOUS
    <3>1. cache[Daemon][Key(n)] # Never /\ cache[Daemon][Key(n)] >= at[o]
      BY <1>3, <1>7 DEF SpacedInv, Covered
    <3>2. cache[Daemon][Key(n)] \in 0..Never
      BY <1>1, <1>4
    <3> QED
      BY <1>4, <2>1, <3>1, <3>2, ObservationAssumption DEF Within, PipeInv, Shape, Never
  <2> QED  BY <1>4, <2>2, ObservationAssumption DEF PipeInv, Shape, Never
<1>8. ASSUME NEW o \in Obs PROVE Covered(o)'
  <2> SUFFICES ASSUME Kept(o)', DaemonOnly(Key(o))', now - at[o] < Window
               PROVE  /\ cache'[Daemon][Key(o)] # Never
                      /\ cache'[Daemon][Key(o)] >= at[o]
    BY <1>2 DEF Covered, Key
  <2>1. at[o] <= now /\ at[o] \in Nat /\ Key(o) \in Keys
    <3>0. at[o] \in 0..Never /\ marked[o] \in 0..Never /\ Never \in Nat
      BY ObservationAssumption DEF PipeInv, Shape, Never
    <3>1. at[o] <= now
      <4>1. CASE o = n
        BY <1>1, <4>1
      <4>2. CASE o # n
        <5>1. at[o] <= marked[o] /\ marked[o] <= now
          BY <1>5, <4>2, KeptIsMarked
        <5> QED  BY <1>4, <3>0, <5>1
      <4> QED  BY <4>1, <4>2
    <3> QED  BY <3>1, ObservationAssumption DEF PipeInv, Shape, Never, Key
  <2>2. CASE Key(o) = Key(n)
    <3>1. cache'[Daemon][Key(o)] = now
      BY <1>1, <1>2, <1>4, <2>2
    <3> QED  BY <1>4, <2>1, <3>1, ObservationAssumption DEF Never
  <2>3. CASE Key(o) # Key(n)
    <3>1. cache'[Daemon][Key(o)] = cache[Daemon][Key(o)]
      BY <1>1, <1>2, <1>4, <2>1, <2>3
    <3>2. Kept(o)
      BY <1>5, <2>3
    <3> QED  BY <1>3, <1>6, <3>1, <3>2 DEF SpacedInv, Covered
  <2> QED  BY <2>2, <2>3
<1>9. ASSUME NEW o \in Obs, NEW p \in Obs, o # p, Key(o) = Key(p), Kept(o)', Kept(p)',
             DaemonOnly(Key(o))'
      PROVE  Apart(o, p)'
  <2>1. CASE o = n
    <3>1. now >= at[p] + Window
      BY <1>5, <1>6, <1>7, <1>9, <2>1
    <3> QED  BY <1>1, <1>2, <1>4, <2>1, <3>1 DEF Apart
  <2>2. CASE p = n
    <3>1. now >= at[o] + Window
      BY <1>5, <1>6, <1>7, <1>9, <2>2
    <3> QED  BY <1>1, <1>2, <1>4, <2>2, <3>1 DEF Apart
  <2>3. CASE o # n /\ p # n
    BY <1>2, <1>5, <1>6, <1>9, <2>3 DEF SpacedInv, Apart
  <2> QED  BY <2>1, <2>2, <2>3
<1>10. ~up' => \A t \in DaemonScans : pc'[t] \in {"new", "done"}
  BY <1>2, <1>3
<1> QED  BY <1>8, <1>9, <1>10 DEF SpacedInv, Key

LEMMA SpacedStep ==
  ASSUME PipeInv, PipeInv', SpacedInv, [Next]_vars
  PROVE  SpacedInv'
<1>0. /\ now \in Nat
      /\ \A s \in Scans : s \notin Manuals /\ s \in Processes
      /\ \A o \in Obs : o[1] \in Scans
  BY ObservationAssumption DEF PipeInv, Shape, Scans, Processes
<1> USE DEF Kept, Held, Holding
<1>1. CASE Start
  BY <1>1, SpacedStart
<1>2. ASSUME NEW s \in Scans, Scan(s) PROVE SpacedInv'
  <2>1. ASSUME NEW o \in Obs, Kept(o)' PROVE Kept(o) /\ marked'[o] = marked[o] /\ at'[o] = at[o]
    <3>1. Kept(o) /\ marked' = marked
      BY <1>0, <1>2, <2>1 DEF Scan, Goto, PipeInv, Shape, history, Processes
    <3>2. o[1] # s
      BY <1>2, <3>1 DEF Scan, PipeInv, ObsAt, ManualAt
    <3> QED  BY <1>2, <3>1, <3>2 DEF Scan
  <2>2. /\ up' = up /\ cache' = cache /\ now' = now /\ marked' = marked
        /\ ~up => \A t \in DaemonScans : pc'[t] \in {"new", "done"}
    BY <1>2 DEF Scan, Goto, SpacedInv, memory, history, PipeInv, Shape
  <2> QED  BY <1>0, <2>1, <2>2, SpacedFrame
<1>3. ASSUME NEW s \in Scans, NEW f \in todo[s], ExamineSeen(s, f) PROVE SpacedInv'
  <2>1. ASSUME NEW o \in Obs, Kept(o)' PROVE Kept(o)
    BY <1>0, <1>3, <2>1 DEF ExamineSeen, PipeInv, Shape, store, Processes
  <2>2. /\ up' = up /\ cache' = cache /\ now' = now /\ marked' = marked /\ at' = at
        /\ ~up => \A t \in DaemonScans : pc'[t] \in {"new", "done"}
    BY <1>0, <1>3 DEF ExamineSeen, SpacedInv, memory, history, store, PipeInv, Shape
  <2> QED  BY <1>0, <2>1, <2>2, SpacedFrame
<1>4. ASSUME NEW s \in Scans, NEW f \in todo[s], ExamineFresh(s, f) PROVE SpacedInv'
  <2>1. CASE s \in DaemonScans
    BY <1>4, <2>1, SpacedFresh
  <2>2. CASE s \in CliScans
    <3>1. s \notin DaemonScans /\ Owner(s) = s /\ s # Daemon /\ <<s, f>> \in Obs
      BY <1>4, <2>2, ObservationAssumption DEF Owner, Daemon, PipeInv, ScanAt
    <3>2. ASSUME NEW o \in Obs, Kept(o)' PROVE Kept(o) /\ marked'[o] = marked[o]
      BY <1>0, <1>4, <3>1, <3>2 DEF ExamineFresh, PipeInv, Shape, store, Processes
    <3>3. /\ up' = up /\ cache'[Daemon] = cache[Daemon] /\ now' = now /\ at' = at
          /\ ~up => \A t \in DaemonScans : pc'[t] \in {"new", "done"}
      BY <1>0, <1>4, <3>1 DEF ExamineFresh, SpacedInv, store, PipeInv, Shape
    <3>4. \A o \in Obs : marked'[o] = Never => marked[o] = Never
      BY <1>4, <3>1, ObservationAssumption DEF ExamineFresh, PipeInv, Shape, Never
    <3> QED  BY <1>0, <3>2, <3>3, <3>4, SpacedFrame
  <2> QED  BY <2>1, <2>2 DEF Scans
<1>5. ASSUME NEW s \in Scans, Suppress(s) \/ Save(s) \/ Created(s) \/ ScanEnds(s)
      PROVE  SpacedInv'
  <2>0. pc[s] \in Busy => cur[s] \in Obs /\ cur[s][1] = s
    BY DEF PipeInv, ScanAt
  <2>1. ASSUME NEW o \in Obs, Kept(o)' PROVE Kept(o)
    BY <1>0, <1>5, <2>0, <2>1
    DEF Suppress, Save, Created, ScanEnds, Goto, PipeInv, Shape, store, Processes, Busy
  <2>2. /\ up' = up /\ cache' = cache /\ now' = now /\ marked' = marked /\ at' = at
        /\ ~up => \A t \in DaemonScans : pc'[t] \in {"new", "done"}
    <3>1. /\ up' = up /\ cache' = cache /\ now' = now /\ marked' = marked /\ at' = at
      BY <1>5 DEF Suppress, Save, Created, ScanEnds, memory, history, store
    <3>2. /\ pc[s] \notin {"new", "done"}
          /\ \A t \in DaemonScans : t # s => pc'[t] = pc[t]
      BY <1>0, <1>5 DEF Suppress, Save, Created, ScanEnds, Goto, PipeInv, Shape, Scans
    <3>3. ~up => \A t \in DaemonScans : t # s /\ pc[t] \in {"new", "done"}
      BY <3>2 DEF SpacedInv
    <3> QED  BY <3>1, <3>2, <3>3
  <2> QED  BY <1>0, <2>1, <2>2, SpacedFrame
<1>6. ASSUME NEW p \in Processes, Submit(p) PROVE SpacedInv'
  <2>0. cur[p] \in Obs /\ (p \in Scans => cur[p][1] = p)
    BY <1>6 DEF PipeInv, ScanAt, ManualAt, Busy, Processes, Submit
  <2>1. ASSUME NEW o \in Obs, Kept(o)' PROVE Kept(o)
    BY <1>0, <1>6, <2>0, <2>1 DEF Submit, Goto, After, PipeInv, Shape, store, Processes
  <2>2. /\ up' = up /\ cache' = cache /\ now' = now /\ marked' = marked /\ at' = at
        /\ ~up => \A t \in DaemonScans : pc'[t] \in {"new", "done"}
    <3>1. /\ up' = up /\ cache' = cache /\ now' = now /\ marked' = marked /\ at' = at
      BY <1>6 DEF Submit, memory, store
    <3>2. /\ pc[p] \notin {"new", "done"}
          /\ \A t \in DaemonScans : t # p => pc'[t] = pc[t]
      BY <1>0, <1>6 DEF Submit, Goto, After, PipeInv, Shape, Scans
    <3>3. ~up => \A t \in DaemonScans : t # p /\ pc[t] \in {"new", "done"}
      BY <3>2 DEF SpacedInv
    <3> QED  BY <3>1, <3>2, <3>3
  <2> QED  BY <1>0, <2>1, <2>2, SpacedFrame
<1>7. ASSUME NEW p \in Processes, StartClock(p) PROVE SpacedInv'
  <2>1. ASSUME NEW o \in Obs, Kept(o)' PROVE Kept(o)
    BY <1>0, <1>7, <2>1 DEF StartClock, Goto, After, PipeInv, Shape, store, Processes
  <2>2. /\ up' = up /\ cache' = cache /\ now' = now /\ marked' = marked /\ at' = at
        /\ ~up => \A t \in DaemonScans : pc'[t] \in {"new", "done"}
    BY <1>0, <1>7 DEF StartClock, Goto, After, SpacedInv, memory, history, store, PipeInv, Shape
  <2> QED  BY <1>0, <2>1, <2>2, SpacedFrame
<1>8. ASSUME NEW m \in Manuals, Load(m) PROVE SpacedInv'
  <2>1. ASSUME NEW o \in Obs, Kept(o)' PROVE Kept(o)
    BY <1>0, <1>8, <2>1 DEF Load, Goto, PipeInv, Shape, store, Processes
  <2>2. /\ up' = up /\ cache' = cache /\ now' = now /\ marked' = marked /\ at' = at
        /\ ~up => \A t \in DaemonScans : pc'[t] \in {"new", "done"}
    BY <1>0, <1>8, ObservationAssumption
    DEF Load, Goto, SpacedInv, memory, history, store, PipeInv, Shape
  <2> QED  BY <1>0, <2>1, <2>2, SpacedFrame
<1>9. CASE Cleanup
  <2>1. ASSUME NEW o \in Obs, Kept(o)' PROVE Kept(o)
    BY <1>9, <2>1 DEF Cleanup
  <2>2. /\ up' = up /\ cache' = cache /\ now' = now /\ marked' = marked /\ at' = at
        /\ ~up => \A t \in DaemonScans : pc'[t] \in {"new", "done"}
    BY <1>9 DEF Cleanup, SpacedInv, memory, history
  <2> QED  BY <1>0, <2>1, <2>2, SpacedFrame
<1>10. CASE Crash
  <2>1. ASSUME NEW o \in Obs, Kept(o)' PROVE Kept(o)
    BY <1>0, <1>10, <2>1, ObservationAssumption DEF Crash, PipeInv, Shape, store, Processes
  <2>2. /\ ~up' /\ now' = now /\ marked' = marked /\ at' = at
        /\ \A t \in DaemonScans : pc'[t] \in {"new", "done"}
    BY <1>10 DEF Crash, Processes, Scans, store
  <2> QED  BY <1>0, <2>1, <2>2, SpacedFrame
<1>11. CASE Tick
  <2>1. ASSUME NEW o \in Obs, Kept(o)' PROVE Kept(o)
    BY <1>11, <2>1 DEF Tick, store
  <2>2. /\ up' = up /\ cache' = cache /\ now' = now + 1 /\ marked' = marked /\ at' = at
        /\ ~up => \A t \in DaemonScans : pc'[t] \in {"new", "done"}
    BY <1>11 DEF Tick, SpacedInv, memory, history, store
  <2>3. now' >= now
    BY <1>0, <2>2
  <2> QED  BY <2>1, <2>2, <2>3, SpacedFrame
<1>12. CASE UNCHANGED vars
  <2>1. ASSUME NEW o \in Obs, Kept(o)' PROVE Kept(o)
    BY <1>12, <2>1 DEF vars, store
  <2>2. /\ up' = up /\ cache' = cache /\ now' = now /\ marked' = marked /\ at' = at
        /\ ~up => \A t \in DaemonScans : pc'[t] \in {"new", "done"}
    BY <1>12 DEF vars, SpacedInv, memory, history, store
  <2> QED  BY <1>0, <2>1, <2>2, SpacedFrame
<1> QED
  BY <1>1, <1>2, <1>3, <1>4, <1>5, <1>6, <1>7, <1>8, <1>9, <1>10, <1>11, <1>12, Steps

LEMMA SpacedInvariant == Spec => []SpacedInv
<1>1. Init => SpacedInv
  BY ObservationAssumption DEF Init, SpacedInv, Covered, Kept, Held, Holding, Scans, Processes
<1>2. SpacedInv /\ PipeInv /\ PipeInv' /\ [Next]_vars => SpacedInv'
  BY SpacedStep
<1> QED  BY <1>1, <1>2, PipeInvariant, PTL DEF Spec

(***************************************************************************)
(* The duplicate window survives restarts: of a dedup key of which no      *)
(* `observe scan` has found anything new, the daemon submits two           *)
(* observations only when one was examined no sooner than the window after *)
(* the other was discovered, through any crashes and starts in between.    *)
(***************************************************************************)
THEOREM FaultsAreSpaced == Spec => []Spaced
<1>1. SpacedInv => Spaced
  BY DEF SpacedInv, Spaced, ByDaemon, Kept
<1> QED  BY <1>1, SpacedInvariant, PTL

-----------------------------------------------------------------------------
(***************************************************************************)
(* The audit log.                                                          *)
(***************************************************************************)

(***************************************************************************)
(* What each stage of the active append has established, and what          *)
(* getLastHmac and a torn tail may coexist with.                           *)
(***************************************************************************)
KeyInv ==
    /\ keyFile = keys /\ keys \in 0..1 /\ keyCache \in {0, keyFile}
    /\ log # <<>> => keyFile # 0
    /\ stage \in {"write", "written"} => keyCache # 0

StageInv ==
    /\ stage # "wait" => queue # <<>> /\ cachedPrev # NoTail /\ claim \in Tails
    /\ stage = "written" => log # <<>>
    /\ peek.on => peek.size <= Len(log)
    /\ peek.on /\ stage = "written" => peek.size < Len(log)
    /\ torn /\ ~halved => cachedPrev = NoTail /\ (peek.on => peek.torn)

(***************************************************************************)
(* The chain verifies, and the cached tail is the tail of the file, but    *)
(* for the moment between the write and the update of the cache.           *)
(***************************************************************************)
LogSound ==
    /\ Verifies
    /\ cachedPrev # NoTail /\ stage # "written" => cachedPrev = Recovered(Len(log))
    /\ stage \in {"key", "write"} => claim = cachedPrev
    /\ stage = "written" => log[Len(log)] = Line

LogInv == LogTypeOK /\ KeyInv /\ StageInv /\ (~spliced /\ ~overtaken => LogSound)

-----------------------------------------------------------------------------
LEMMA RecordTypes ==
  /\ NoTail \notin Tails
  /\ GarbageLine \notin Lines
  /\ Off \in [on : BOOLEAN, size : Nat, torn : BOOLEAN]
  /\ ~Off.on
BY AuditAssumption DEF NoTail, Tails, GarbageLine, Lines, Off

\* What recovery finds in a readable prefix of the log is a tail.
LEMMA RecoveredType ==
    ASSUME LogTypeOK, NEW n \in 0..Len(log), NEW t, Recoverable(n, t)
    PROVE  Recovered(n) \in Tails
<1>1. CASE n = 0
  BY <1>1 DEF Recovered, Tails
<1>2. CASE n # 0
  <2>1. log[n] \in Lines
    BY <1>2 DEF LogTypeOK, Recoverable
  <2> QED
    BY <1>2, <2>1 DEF Recovered, Tails, Lines
<1> QED
  BY <1>1, <1>2

\* The tail of a chain that verifies carries the number of its lines.
LEMMA TailOfChain ==
    ASSUME LogTypeOK, Verifies
    PROVE  /\ Recovered(Len(log)) \in Tails
           /\ Recovered(Len(log)).seq = Len(log)
           /\ Recovered(Len(log)).hmac = IF Len(log) = 0 THEN Genesis ELSE log[Len(log)].call
<1>1. Len(log) \in Nat
  BY DEF LogTypeOK
<1>2. CASE Len(log) = 0
  BY <1>2 DEF Recovered, Tails
<1>3. CASE Len(log) # 0
  <2>1. log[Len(log)] \in Lines /\ log[Len(log)].seq = Len(log)
    BY <1>1, <1>3 DEF Verifies, Follows, LogTypeOK
  <2> QED
    BY <1>3, <2>1 DEF Recovered, Tails, Lines
<1> QED
  BY <1>2, <1>3

\* A step that leaves the log and the key file alone leaves the chain alone.
LEMMA ChainFrame ==
    ASSUME log' = log, keyFile' = keyFile
    PROVE  Verifies' = Verifies /\ \A n : Recovered(n)' = Recovered(n)
BY DEF Verifies, Follows, Recovered

\* Leaving the mutex is well typed and resets what the call held.
LEMMA LeaveType ==
    ASSUME LogTypeOK, queue # <<>>, NEW r \in {"done", "failed"}, Leave(r)
    PROVE  /\ outcome' \in [Calls -> {"new", "queued", "done", "failed", "lost"}]
           /\ queue' \in Seq(Calls)
           /\ stage' = "wait"
           /\ claim' = NoTail
BY DEF Leave, LogTypeOK

-----------------------------------------------------------------------------
LEMMA LogInitially == LogInit => LogInv
<1> SUFFICES ASSUME LogInit PROVE LogInv
  OBVIOUS
<1> USE AuditAssumption, RecordTypes DEF LogInit
<1>1. LogTypeOK
  <2>1. /\ 0 \in 0..MaxEnds + 1 /\ 0 \in 0..MaxEnds /\ 0 \in 0..MaxPeeks
        /\ [c \in Calls |-> "new"] \in [Calls -> {"new", "queued", "done", "failed", "lost"}]
    OBVIOUS
  <2>2. log \in Seq(Lines \cup {GarbageLine}) /\ queue \in Seq(Calls) /\ order \in Seq(Calls)
    OBVIOUS
  <2> QED
    BY <2>1, <2>2 DEF LogTypeOK
<1>2. KeyInv /\ StageInv
  BY DEF KeyInv, StageInv
<1>3. LogSound
  BY DEF LogSound, Verifies
<1> QED
  BY <1>1, <1>2, <1>3 DEF LogInv

LEMMA CallKeeps == ASSUME LogInv, NEW c \in Calls, Call(c) PROVE LogInv'
<1> USE DEF Call, fileVars, bounds
<1>1. LogTypeOK'
  BY DEF LogInv, LogTypeOK
<1>2. KeyInv'
  BY DEF LogInv, KeyInv
<1>3. StageInv'
  <2>1. queue' # <<>>
    BY DEF LogInv, LogTypeOK
  <2> QED
    BY <2>1 DEF LogInv, StageInv
<1>4. stage = "written" => Head(queue') = Head(queue)
  BY DEF LogInv, StageInv, LogTypeOK
<1>5. LogSound => LogSound'
  BY <1>4, ChainFrame DEF LogSound, Line, NextSeq
<1> QED
  BY <1>1, <1>2, <1>3, <1>5 DEF LogInv

LEMMA BeginKeeps == ASSUME LogInv, Begin PROVE LogInv'
<1> USE DEF Begin, fileVars, logHistory, bounds
<1>1. Len(log) \in 0..Len(log)
  BY DEF LogInv, LogTypeOK
<1>2. cachedPrev' \in Tails /\ claim' = cachedPrev'
  BY <1>1, RecoveredType DEF LogInv, LogTypeOK
<1>3. LogTypeOK'
  BY <1>2 DEF LogInv, LogTypeOK
<1>4. KeyInv'
  BY DEF LogInv, KeyInv
<1>5. torn => halved
  BY DEF LogInv, StageInv, Recoverable, LogTypeOK
<1>6. StageInv'
  BY <1>2, <1>5, RecordTypes DEF LogInv, StageInv
<1>7. LogSound => LogSound'
  BY <1>2, ChainFrame DEF LogSound
<1> QED
  BY <1>3, <1>4, <1>6, <1>7 DEF LogInv

\* A failed call leaves nothing but, perhaps, torn bytes.
LEMMA FailKeeps ==
    ASSUME LogInv, queue # <<>>, stage # "written", FailCall,
           log' = log, keyFile' = keyFile, keyCache' = keyCache, cachedPrev' = cachedPrev,
           peek' = peek, order' = order, spliced' = spliced, overtaken' = overtaken,
           bounds' = bounds, torn' \in BOOLEAN, halved' \in BOOLEAN,
           halved' \/ (torn' = torn /\ halved' = halved)
    PROVE  LogInv'
<1> USE DEF FailCall, bounds
<1>1. /\ outcome' \in [Calls -> {"new", "queued", "done", "failed", "lost"}]
      /\ queue' \in Seq(Calls)
      /\ stage' = "wait"
      /\ claim' = NoTail
  BY LeaveType DEF LogInv
<1>2. LogTypeOK'
  BY <1>1 DEF LogInv, LogTypeOK
<1>3. KeyInv'
  BY <1>1 DEF LogInv, KeyInv
<1>4. StageInv'
  BY <1>1 DEF LogInv, StageInv
<1>5. LogSound => LogSound'
  BY <1>1, ChainFrame DEF LogSound
<1> QED
  BY <1>1, <1>2, <1>3, <1>4, <1>5 DEF LogInv

LEMMA GetKeyKeeps == ASSUME LogInv, GetKey PROVE LogInv'
<1> USE DEF GetKey, Saved, logHistory
<1>1. keyFile' = keys' /\ keys' \in 0..1 /\ keyCache' = keyFile' /\ keyCache' # 0
  BY DEF LogInv, KeyInv
<1>2. LogTypeOK'
  BY <1>1, AuditAssumption DEF LogInv, LogTypeOK
<1>3. KeyInv' /\ StageInv'
  BY <1>1 DEF LogInv, KeyInv, StageInv
<1>4. LogSound => LogSound'
  <2>1. CASE keyFile' = keyFile
    BY <2>1, ChainFrame DEF LogSound
  <2>2. CASE keyFile' # keyFile
    <3>1. log = <<>>
      BY <2>2 DEF LogInv, KeyInv
    <3> QED
      BY <3>1 DEF LogSound, Verifies, Recovered
  <2> QED
    BY <2>1, <2>2
<1> QED
  BY <1>2, <1>3, <1>4 DEF LogInv

LEMMA WriteKeeps == ASSUME LogInv, Write PROVE LogInv'
<1> USE DEF Write, bounds
<1> DEFINE n == Len(log)
<1>1. /\ stage = "write" /\ queue # <<>> /\ Head(queue) \in Calls
      /\ claim \in Tails /\ cachedPrev # NoTail /\ keyCache \in Nat
      /\ keyCache = keyFile /\ keyFile # 0
  BY DEF LogInv, LogTypeOK, StageInv, KeyInv
<1>2. Line \in Lines
  BY <1>1 DEF Line, NextSeq, Tails, Lines
<1>3. /\ log' \in Seq(Lines \cup {GarbageLine})
      /\ Len(log') = n + 1 /\ n \in Nat
      /\ log'[n + 1] = IF torn THEN GarbageLine ELSE Line
      /\ \A i \in 1..n : log'[i] = log[i]
  BY <1>2 DEF LogInv, LogTypeOK
<1>4. LogTypeOK'
  BY <1>3 DEF LogInv, LogTypeOK
<1>5. KeyInv'
  BY <1>1 DEF LogInv, KeyInv
<1>6. StageInv'
  <2>1. peek.on => peek.size < Len(log') /\ peek.size <= Len(log')
    BY <1>3 DEF LogInv, StageInv, LogTypeOK
  <2>2. log' # <<>>
    BY <1>3
  <2> QED
    BY <1>1, <2>1, <2>2 DEF LogInv, StageInv
<1>7. ~spliced' => ~spliced /\ ~torn
  BY <1>1 DEF LogInv, StageInv
<1>8. LogSound /\ ~torn => LogSound'
  <2> SUFFICES ASSUME LogSound, ~torn PROVE LogSound'
    OBVIOUS
  <2>1. /\ claim.seq = n
        /\ claim.hmac = IF n = 0 THEN Genesis ELSE log[n].call
    BY <1>1, TailOfChain DEF LogSound, LogInv
  <2>2. log'[n + 1] = Line /\ Line' = Line
    BY <1>3 DEF Line, NextSeq
  <2>3. /\ Line.seq = n + 1 /\ Line.prev = claim.hmac /\ Line.key = keyFile
        /\ Line # GarbageLine
    BY <1>1, <1>2, <2>1, RecordTypes DEF Line, NextSeq
  <2>4. Verifies'
    <3> SUFFICES ASSUME NEW i \in 1..n + 1 PROVE Follows(i)'
      BY <1>3 DEF Verifies
    <3>1. CASE i = n + 1
      BY <1>3, <2>1, <2>2, <2>3, <3>1 DEF Follows
    <3>2. CASE i # n + 1
      <4>1. i \in 1..n /\ log'[i] = log[i] /\ (i # 1 => log'[i - 1] = log[i - 1])
        BY <1>3, <3>2
      <4>2. Follows(i)
        BY <4>1 DEF LogSound, Verifies
      <4> QED
        BY <4>1, <4>2 DEF Follows
    <3> QED
      BY <3>1, <3>2
  <2> QED
    BY <1>3, <2>2, <2>4 DEF LogSound
<1> QED
  BY <1>4, <1>5, <1>6, <1>7, <1>8 DEF LogInv

LEMMA ReturnKeeps == ASSUME LogInv, Return PROVE LogInv'
<1> USE DEF Return, fileVars, logHistory, bounds
<1>1. /\ stage = "written" /\ queue # <<>> /\ Head(queue) \in Calls
      /\ claim \in Tails /\ log # <<>>
  BY DEF LogInv, LogTypeOK, StageInv
<1>2. cachedPrev' \in Tails
  BY <1>1 DEF NextSeq, Tails
<1>3. /\ outcome' \in [Calls -> {"new", "queued", "done", "failed", "lost"}]
      /\ queue' \in Seq(Calls)
      /\ stage' = "wait"
      /\ claim' = NoTail
  BY <1>1, LeaveType DEF LogInv
<1>4. LogTypeOK'
  BY <1>2, <1>3 DEF LogInv, LogTypeOK
<1>5. KeyInv'
  BY <1>3 DEF LogInv, KeyInv
<1>6. torn => halved
  BY <1>1 DEF LogInv, StageInv
<1>7. StageInv'
  BY <1>2, <1>3, <1>6 DEF LogInv, StageInv
<1>8. LogSound => LogSound'
  <2> SUFFICES ASSUME LogSound PROVE LogSound'
    OBVIOUS
  <2>1. Len(log) # 0
    BY <1>1 DEF LogInv, LogTypeOK
  <2>2. Recovered(Len(log)) = cachedPrev'
    BY <1>1, <2>1 DEF LogSound, Recovered, Line
  <2> QED
    BY <1>3, <2>2, ChainFrame DEF LogSound
<1> QED
  BY <1>4, <1>5, <1>7, <1>8 DEF LogInv

LEMMA PeekSizeKeeps == ASSUME LogInv, PeekSize PROVE LogInv'
<1> USE DEF PeekSize, fileVars, logHistory
<1>1. LogTypeOK'
  <2>1. peeks' \in 0..MaxPeeks
    BY AuditAssumption DEF LogInv, LogTypeOK
  <2>2. peek' \in [on : BOOLEAN, size : Nat, torn : BOOLEAN]
    BY DEF LogInv, LogTypeOK
  <2> QED
    BY <2>1, <2>2 DEF LogInv, LogTypeOK
<1>2. peek'.size = Len(log) /\ peek'.torn = torn /\ Len(log) <= Len(log) /\ stage = "wait"
  BY DEF LogInv, StageInv, LogTypeOK
<1>3. KeyInv' /\ StageInv'
  BY <1>2 DEF LogInv, KeyInv, StageInv
<1>4. LogSound => LogSound'
  BY ChainFrame DEF LogSound, Line, NextSeq
<1> QED
  BY <1>1, <1>3, <1>4 DEF LogInv

LEMMA PeekTailKeeps == ASSUME LogInv, PeekTail PROVE LogInv'
<1> USE DEF PeekTail, fileVars, bounds
<1> DEFINE r == Recoverable(peek.size, peek.torn)
<1>1. peek.size \in 0..Len(log)
  BY DEF LogInv, StageInv, LogTypeOK
<1>2. r => cachedPrev' \in Tails
  BY <1>1, RecoveredType DEF LogInv
<1>3. LogTypeOK'
  BY <1>2, RecordTypes DEF LogInv, LogTypeOK
<1>4. KeyInv'
  BY DEF LogInv, KeyInv
<1>5. r => ~peek.torn
  BY DEF Recoverable
<1>6. StageInv'
  BY <1>2, <1>5, RecordTypes DEF LogInv, StageInv
<1>7. ~overtaken' /\ r => ~overtaken /\ cachedPrev' = Recovered(Len(log)) /\ stage # "written"
  BY DEF LogInv, StageInv, LogTypeOK
<1>8. ~overtaken' => ~overtaken
  BY DEF LogInv, LogTypeOK
<1>9. LogSound /\ ~overtaken' => LogSound'
  <2>1. CASE r /\ ~overtaken'
    BY <1>2, <1>7, <2>1, ChainFrame, RecordTypes DEF LogSound, LogInv, StageInv
  <2>2. CASE ~r
    BY <2>2, ChainFrame DEF LogSound, Line, NextSeq
  <2> QED
    BY <2>1, <2>2
<1> QED
  BY <1>3, <1>4, <1>6, <1>8, <1>9 DEF LogInv

LEMMA LogCrashKeeps == ASSUME LogInv, EndProcess PROVE LogInv'
<1> USE DEF EndProcess
<1>1. ends' \in 0..MaxEnds
  BY AuditAssumption DEF LogInv, LogTypeOK
<1>2. outcome' \in [Calls -> {"new", "queued", "done", "failed", "lost"}]
  BY DEF LogInv, LogTypeOK
<1>3. 0 \in 0..MaxEnds + 1 /\ queue' \in Seq(Calls) /\ torn' \in BOOLEAN
  <2>1. 0 \in 0..MaxEnds + 1
    BY AuditAssumption
  <2>2. queue' \in Seq(Calls)
    OBVIOUS
  <2>3. torn \in BOOLEAN /\ (torn' = torn \/ torn' = TRUE)
    BY DEF LogInv, LogTypeOK
  <2> QED
    BY <2>1, <2>2, <2>3
<1>4. LogTypeOK'
  BY <1>1, <1>2, <1>3, RecordTypes DEF LogInv, LogTypeOK
<1>5. KeyInv'
  BY DEF LogInv, KeyInv
<1>6. StageInv'
  BY RecordTypes DEF StageInv
<1>7. LogSound => LogSound'
  BY ChainFrame DEF LogSound
<1> QED
  BY <1>4, <1>5, <1>6, <1>7 DEF LogInv

-----------------------------------------------------------------------------
LEMMA LogNextKeeps == ASSUME LogInv, [LogNext]_(logVars) PROVE LogInv'
<1>1. CASE UNCHANGED logVars
  <2> USE <1>1 DEF logVars, fileVars, memVars, logHistory, bounds
  <2>1. LogTypeOK' /\ KeyInv' /\ StageInv'
    BY DEF LogInv, LogTypeOK, KeyInv, StageInv
  <2>2. LogSound => LogSound'
    BY ChainFrame DEF LogSound, Line, NextSeq
  <2> QED
    BY <2>1, <2>2 DEF LogInv
<1>2. CASE BeginFails
  <2>1. queue # <<>> /\ stage # "written" /\ FailCall
    BY <1>2 DEF BeginFails
  <2> QED
    BY <1>2, <2>1, FailKeeps DEF BeginFails, fileVars, logHistory, LogInv, LogTypeOK
<1>3. CASE KeyFails
  <2>1. queue # <<>> /\ stage # "written" /\ FailCall
    BY <1>3 DEF KeyFails, LogInv, StageInv
  <2> QED
    BY <1>3, <2>1, FailKeeps DEF KeyFails, fileVars, logHistory, LogInv, LogTypeOK
<1>4. CASE WriteFails
  <2>1. queue # <<>> /\ stage # "written" /\ FailCall
    BY <1>4 DEF WriteFails, LogInv, StageInv
  <2>2. /\ torn' \in BOOLEAN /\ halved' \in BOOLEAN
        /\ halved' \/ (torn' = torn /\ halved' = halved)
    BY <1>4 DEF WriteFails, LogInv, LogTypeOK
  <2> QED
    BY <1>4, <2>1, <2>2, FailKeeps DEF WriteFails, bounds
<1>5. CASE Begin
  BY <1>5, BeginKeeps
<1>6. CASE GetKey
  BY <1>6, GetKeyKeeps
<1>7. CASE Write
  BY <1>7, WriteKeeps
<1>8. CASE Return
  BY <1>8, ReturnKeeps
<1>9. CASE PeekTail
  BY <1>9, PeekTailKeeps
<1>10. CASE PeekSize
  BY <1>10, PeekSizeKeeps
<1>11. CASE EndProcess
  BY <1>11, LogCrashKeeps
<1>12. CASE \E c \in Calls : Call(c)
  BY <1>12, CallKeeps
<1> QED
  BY <1>1, <1>2, <1>3, <1>4, <1>5, <1>6, <1>7, <1>8, <1>9, <1>10, <1>11, <1>12
  DEF LogNext, Step

LEMMA LogInvariant == LogSpec => []LogInv
<1>1. LogInit => LogInv
  BY LogInitially
<1>2. LogInv /\ [LogNext]_(logVars) => LogInv'
  BY LogNextKeeps
<1> QED
  BY <1>1, <1>2, PTL DEF LogSpec

(***************************************************************************)
(* The log, the caches and the mutex queue of writer.ts stay well formed.  *)
(***************************************************************************)
THEOREM LogIsTyped == LogSpec => []LogTypeOK
<1>1. LogInv => LogTypeOK
  BY DEF LogInv
<1> QED
  BY <1>1, LogInvariant, PTL

(***************************************************************************)
(* Through any failures and ends of the process, `audit verify` accepts    *)
(* the complete lines, unless a process wrote on behind its own torn bytes *)
(* or getLastHmac overlapped an append.                                    *)
(***************************************************************************)
THEOREM ChainStaysIntact == LogSpec => []ChainIntact
<1>1. LogInv => ChainIntact
  BY DEF LogInv, LogSound, ChainIntact
<1> QED
  BY <1>1, LogInvariant, PTL

-----------------------------------------------------------------------------
(***************************************************************************)
(* The order of the lines.  Occurs and Precedes speak of positions in the  *)
(* history of calls, so that they only grow as calls are made.             *)
(***************************************************************************)
Occurs(s, c) == \E k \in 1..Len(s) : s[k] = c
Precedes(s, c, d) == \E j, k \in 1..Len(s) : s[j] = c /\ s[k] = d /\ j < k
Distinct(s) == \A j, k \in 1..Len(s) : s[j] = s[k] => j = k

\* Each call is made once.
CalledOnce ==
    /\ Distinct(order)
    /\ \A k \in 1..Len(order) : outcome[order[k]] # "new"

\* The mutex chain holds pending calls, in the order they were made.
QueueInOrder ==
    /\ \A i \in 1..Len(queue) : outcome[queue[i]] = "queued" /\ Occurs(order, queue[i])
    /\ \A i, j \in 1..Len(queue) : i < j => Precedes(order, queue[i], queue[j])

\* The lines are in that order, and every call still in the chain comes
\* after them, but for the active one when its line is the last.
LogInOrder ==
    /\ \A i \in 1..Len(log) : log[i] # GarbageLine => Occurs(order, log[i].call)
    /\ \A i, j \in 1..Len(log) :
         (i < j /\ log[i] # GarbageLine /\ log[j] # GarbageLine)
           => Precedes(order, log[i].call, log[j].call)
    /\ \A i \in 1..Len(log), m \in 1..Len(queue) :
         log[i] # GarbageLine
           => \/ Precedes(order, log[i].call, queue[m])
              \/ stage = "written" /\ m = 1 /\ i = Len(log)

\* What has been written for the active call, and for the finished ones.
LineOfCall ==
    /\ stage = "written" /\ log[Len(log)] # GarbageLine => log[Len(log)].call = Head(queue)
    /\ stage = "written" /\ ~spliced => log[Len(log)] # GarbageLine
    /\ \A c \in Calls : outcome[c] = "done" /\ ~spliced => Written(c)

OrderInv == CalledOnce /\ QueueInOrder /\ LogInOrder /\ LineOfCall

-----------------------------------------------------------------------------
LEMMA AppendGrows ==
    ASSUME NEW S, NEW s \in Seq(S), NEW c \in S
    PROVE  /\ \A a : Occurs(s, a) => Occurs(Append(s, c), a) /\ Precedes(Append(s, c), a, c)
           /\ \A a, b : Precedes(s, a, b) => Precedes(Append(s, c), a, b)
           /\ Occurs(Append(s, c), c)
<1> DEFINE t == Append(s, c)
<1>1. /\ Len(t) = Len(s) + 1 /\ Len(s) \in Nat
      /\ t[Len(s) + 1] = c /\ \A k \in 1..Len(s) : t[k] = s[k]
  OBVIOUS
<1>2. \A k \in 1..Len(s) : k \in 1..Len(t) /\ k < Len(s) + 1
  BY <1>1
<1>3. Len(s) + 1 \in 1..Len(t)
  BY <1>1
<1> HIDE DEF t
<1>4. \A a : Occurs(s, a) => Occurs(t, a) /\ Precedes(t, a, c)
  BY <1>1, <1>2, <1>3 DEF Occurs, Precedes
<1>5. \A a, b : Precedes(s, a, b) => Precedes(t, a, b)
  BY <1>1, <1>2 DEF Precedes
<1>6. Occurs(t, c)
  BY <1>1, <1>3 DEF Occurs
<1> QED
  BY <1>4, <1>5, <1>6 DEF t

\* In a sequence without repetitions nothing precedes itself.
LEMMA PrecedesDiffer ==
    ASSUME NEW s, Len(s) \in Nat, Distinct(s), NEW c, NEW d, Precedes(s, c, d)
    PROVE  c # d
BY DEF Distinct, Precedes

\* A call that has a place differs from one that is not yet made.
LEMMA OrderedIsCalled ==
    ASSUME CalledOnce, NEW c, Occurs(order, c)
    PROVE  outcome[c] # "new"
BY DEF CalledOnce, Occurs

LEMMA InitOrder == LogInit => OrderInv
BY DEF LogInit, OrderInv, CalledOnce, QueueInOrder, LogInOrder, LineOfCall, Distinct

LEMMA CallKeepsOrder == ASSUME LogInv, OrderInv, NEW c \in Calls, Call(c) PROVE OrderInv'
<1> USE DEF Call, fileVars
<1>1. /\ order \in Seq(Calls) /\ queue \in Seq(Calls) /\ outcome \in [Calls -> {"new", "queued", "done", "failed", "lost"}]
      /\ order' = Append(order, c) /\ queue' = Append(queue, c)
      /\ outcome[c] = "new" /\ outcome' = [outcome EXCEPT ![c] = "queued"]
      /\ log' = log /\ stage' = stage /\ spliced' = spliced
  BY DEF LogInv, LogTypeOK
<1>2. /\ \A a : Occurs(order, a) => Occurs(order', a) /\ Precedes(order', a, c)
      /\ \A a, b : Precedes(order, a, b) => Precedes(order', a, b)
      /\ Occurs(order', c)
  BY <1>1, AppendGrows
<1>3. /\ Len(order') = Len(order) + 1 /\ Len(order) \in Nat
      /\ order'[Len(order) + 1] = c /\ \A k \in 1..Len(order) : order'[k] = order[k] /\ order[k] \in Calls
      /\ Len(queue') = Len(queue) + 1 /\ Len(queue) \in Nat
      /\ queue'[Len(queue) + 1] = c /\ \A k \in 1..Len(queue) : queue'[k] = queue[k] /\ queue[k] \in Calls
  BY <1>1
<1>4. \A k \in 1..Len(order) : order[k] # c
  BY <1>1 DEF OrderInv, CalledOnce
<1>5. CalledOnce'
  <2>1. Distinct(order')
    <3> SUFFICES ASSUME NEW j \in 1..Len(order) + 1, NEW k \in 1..Len(order) + 1,
                        order'[j] = order'[k]
                 PROVE  j = k
      BY <1>3 DEF Distinct
    <3>1. CASE j \in 1..Len(order) /\ k \in 1..Len(order)
      BY <1>3, <3>1 DEF OrderInv, CalledOnce, Distinct
    <3>2. CASE j = Len(order) + 1 \/ k = Len(order) + 1
      BY <1>3, <1>4, <3>2
    <3> QED
      BY <1>3, <3>1, <3>2
  <2>2. \A k \in 1..Len(order) : order'[k] # c /\ outcome'[order'[k]] # "new"
    BY <1>1, <1>3, <1>4 DEF OrderInv, CalledOnce
  <2>3. outcome'[order'[Len(order) + 1]] # "new"
    BY <1>1, <1>3
  <2>4. \A k \in 1..Len(order') : k \in 1..Len(order) \/ k = Len(order) + 1
    BY <1>3
  <2> QED
    BY <2>1, <2>2, <2>3, <2>4 DEF CalledOnce
<1>6. \A k \in 1..Len(queue') : k \in 1..Len(queue) \/ k = Len(queue) + 1
  BY <1>3
<1>7. \A k \in 1..Len(queue) : queue[k] # c /\ Occurs(order, queue[k]) /\ outcome'[queue[k]] = "queued"
  BY <1>1, <1>3 DEF OrderInv, QueueInOrder
<1>8. QueueInOrder'
  <2>1. \A i \in 1..Len(queue') : outcome'[queue'[i]] = "queued" /\ Occurs(order', queue'[i])
    BY <1>1, <1>2, <1>3, <1>6, <1>7
  <2>2. ASSUME NEW i \in 1..Len(queue'), NEW j \in 1..Len(queue'), i < j
        PROVE  Precedes(order', queue'[i], queue'[j])
    <3>1. i \in 1..Len(queue)
      BY <1>3, <2>2
    <3>2. CASE j \in 1..Len(queue)
      BY <1>2, <1>3, <2>2, <3>1, <3>2 DEF OrderInv, QueueInOrder
    <3>3. CASE j = Len(queue) + 1
      BY <1>2, <1>3, <1>7, <3>1, <3>3
    <3> QED
      BY <1>6, <3>2, <3>3
  <2> QED
    BY <2>1, <2>2 DEF QueueInOrder
<1>9. LogInOrder'
  <2>1. ASSUME NEW i \in 1..Len(log), NEW m \in 1..Len(queue'), log[i] # GarbageLine
        PROVE  \/ Precedes(order', log[i].call, queue'[m])
               \/ stage = "written" /\ m = 1 /\ i = Len(log)
    <3>1. CASE m \in 1..Len(queue)
      BY <1>2, <1>3, <2>1, <3>1 DEF OrderInv, LogInOrder
    <3>2. CASE m = Len(queue) + 1
      BY <1>1, <1>2, <1>3, <2>1, <3>2 DEF OrderInv, LogInOrder
    <3> QED
      BY <1>6, <3>1, <3>2
  <2> QED
    BY <1>1, <1>2, <2>1 DEF OrderInv, LogInOrder
<1>10. LineOfCall'
  <2>1. stage = "written" => Head(queue') = Head(queue)
    BY DEF LogInv, StageInv, LogTypeOK
  <2>2. \A d \in Calls : outcome'[d] = "done" => outcome[d] = "done"
    BY <1>1
  <2> QED
    BY <1>1, <2>1, <2>2 DEF OrderInv, LineOfCall, Written
<1> QED
  BY <1>5, <1>8, <1>9, <1>10 DEF OrderInv

\* The next call takes the mutex: the rest of the chain stands as it did.
LEMMA LeaveKeepsOrder ==
    ASSUME LogInv, OrderInv, queue # <<>>, NEW r \in {"done", "failed"}, Leave(r),
           order' = order, log' = log, spliced' = spliced,
           r = "done" <=> stage = "written"
    PROVE  OrderInv'
<1> DEFINE h == Head(queue)
<1>1. /\ outcome \in [Calls -> {"new", "queued", "done", "failed", "lost"}]
      /\ outcome' = [outcome EXCEPT ![h] = r] /\ stage' = "wait"
      /\ h \in Calls /\ h = queue[1] /\ 1 \in 1..Len(queue)
      /\ queue \in Seq(Calls) /\ queue' = Tail(queue)
      /\ \A i \in 1..Len(queue) : queue[i] \in Calls
  BY DEF LogInv, LogTypeOK, Leave
<1>2. /\ Len(queue') = Len(queue) - 1 /\ Len(queue) \in Nat
      /\ \A i \in 1..Len(queue') : queue'[i] = queue[i + 1] /\ i + 1 \in 1..Len(queue) /\ 1 < i + 1
  BY <1>1
<1>3. \A i \in 1..Len(queue) : 1 < i => queue[i] # h
  <2>1. Len(order) \in Nat /\ Distinct(order)
    BY DEF LogInv, LogTypeOK, OrderInv, CalledOnce
  <2> QED
    BY <1>1, <2>1, PrecedesDiffer DEF OrderInv, QueueInOrder
<1> HIDE DEF h
<1>4. CalledOnce'
  BY <1>1 DEF OrderInv, CalledOnce, LogInv, LogTypeOK
<1>5. QueueInOrder'
  <2>1. \A i \in 1..Len(queue') : outcome'[queue'[i]] = "queued" /\ Occurs(order, queue'[i])
    BY <1>1, <1>2, <1>3 DEF OrderInv, QueueInOrder
  <2>2. \A i, j \in 1..Len(queue') : i < j => Precedes(order, queue'[i], queue'[j])
    <3>1. \A i, j \in 1..Len(queue') : i < j => i + 1 < j + 1
      BY <1>2
    <3> QED
      BY <1>2, <3>1 DEF OrderInv, QueueInOrder
  <2> QED
    BY <2>1, <2>2 DEF QueueInOrder
<1>6. LogInOrder'
  <2>1. \A i \in 1..Len(queue') : i + 1 # 1
    BY <1>2
  <2> QED
    BY <1>1, <1>2, <2>1 DEF OrderInv, LogInOrder
<1>7. LineOfCall'
  <2>1. ASSUME NEW d \in Calls, outcome'[d] = "done", ~spliced
        PROVE  Written(d)
    <3>1. CASE d = h /\ r = "done"
      <4>1. stage = "written" /\ log # <<>> /\ Len(log) \in 1..Len(log)
        BY <3>1 DEF LogInv, StageInv, LogTypeOK
      <4>2. log[Len(log)].call = d
        BY <2>1, <3>1, <4>1 DEF OrderInv, LineOfCall, h
      <4> QED
        BY <4>1, <4>2 DEF Written
    <3>2. CASE ~(d = h /\ r = "done")
      <4>1. outcome[d] = "done"
        BY <1>1, <2>1, <3>2
      <4> QED
        BY <2>1, <4>1 DEF OrderInv, LineOfCall
    <3> QED
      BY <3>1, <3>2
  <2>2. \A d : Written(d)' = Written(d)
    BY DEF Written
  <2> QED
    BY <1>1, <2>1, <2>2 DEF LineOfCall, Written
<1> QED
  BY <1>4, <1>5, <1>6, <1>7 DEF OrderInv

\* A line is appended behind those of the calls made before its own.
LEMMA WriteKeepsOrder == ASSUME LogInv, OrderInv, Write PROVE OrderInv'
<1> DEFINE n == Len(log)
           h == Head(queue)
<1>1. /\ stage = "write" /\ queue # <<>> /\ queue \in Seq(Calls) /\ h = queue[1]
      /\ 1 \in 1..Len(queue) /\ Len(queue) \in Nat
      /\ stage' = "written" /\ queue' = queue /\ order' = order /\ outcome' = outcome
  BY DEF Write, LogInv, StageInv, LogTypeOK
<1>2. /\ log' = Append(log, IF torn THEN GarbageLine ELSE Line)
      /\ Len(log') = n + 1 /\ n \in Nat
      /\ log'[n + 1] = IF torn THEN GarbageLine ELSE Line
      /\ \A i \in 1..n : log'[i] = log[i]
  BY DEF Write, LogInv, LogTypeOK
<1>3. Line.call = h /\ (log'[n + 1] # GarbageLine => log'[n + 1].call = h)
  BY <1>2 DEF Line
<1>4. \A i \in 1..Len(log') : i \in 1..n \/ i = n + 1
  BY <1>2
<1>5. CalledOnce' /\ QueueInOrder'
  BY <1>1 DEF OrderInv, CalledOnce, QueueInOrder
<1>6. LogInOrder'
  <2>1. \A i \in 1..Len(log') : log'[i] # GarbageLine => Occurs(order, log'[i].call)
    BY <1>1, <1>2, <1>3, <1>4 DEF OrderInv, LogInOrder, QueueInOrder
  <2>2. \A i \in 1..n, m \in 1..Len(queue) : log[i] # GarbageLine => Precedes(order, log[i].call, queue[m])
    BY <1>1 DEF OrderInv, LogInOrder
  <2>3. ASSUME NEW i \in 1..Len(log'), NEW j \in 1..Len(log'),
               i < j, log'[i] # GarbageLine, log'[j] # GarbageLine
        PROVE  Precedes(order, log'[i].call, log'[j].call)
    <3>1. i \in 1..n /\ log'[i] = log[i]
      BY <1>2, <2>3
    <3>2. CASE j \in 1..n
      BY <1>2, <2>3, <3>1, <3>2 DEF OrderInv, LogInOrder
    <3>3. CASE j = n + 1
      BY <1>1, <1>3, <2>2, <2>3, <3>1, <3>3
    <3> QED
      BY <1>4, <3>2, <3>3
  <2>4. ASSUME NEW i \in 1..Len(log'), NEW m \in 1..Len(queue), log'[i] # GarbageLine
        PROVE  Precedes(order, log'[i].call, queue[m]) \/ (m = 1 /\ i = Len(log'))
    <3>1. CASE i \in 1..n
      BY <1>2, <2>2, <2>4, <3>1
    <3>2. CASE i = n + 1 /\ m # 1
      <4>1. 1 < m /\ Precedes(order, queue[1], queue[m])
        BY <1>1, <3>2 DEF OrderInv, QueueInOrder
      <4> QED
        BY <1>1, <1>3, <2>4, <3>2, <4>1
    <3> QED
      BY <1>2, <1>4, <3>1, <3>2
  <2> QED
    BY <1>1, <2>1, <2>3, <2>4 DEF LogInOrder
<1>7. LineOfCall'
  <2>1. ~spliced' => ~torn /\ ~spliced
    BY <1>1 DEF Write, LogInv, StageInv
  <2>2. ~torn => log'[n + 1] # GarbageLine
    BY <1>1, <1>2, <1>3, AuditAssumption DEF GarbageLine, LogInv, LogTypeOK
  <2>3. \A d : Written(d) => Written(d)'
    BY <1>2 DEF Written
  <2>4. \A d \in Calls : outcome'[d] = "done" /\ ~spliced' => Written(d)'
    BY <1>1, <2>1, <2>3 DEF OrderInv, LineOfCall
  <2> QED
    BY <1>1, <1>2, <1>3, <2>1, <2>2, <2>4 DEF LineOfCall
<1> QED
  BY <1>5, <1>6, <1>7 DEF OrderInv

\* What is still in the chain is lost with the process.
LEMMA CrashKeepsOrder == ASSUME LogInv, OrderInv, EndProcess PROVE OrderInv'
<1>1. /\ queue' = <<>> /\ Len(queue') = 0 /\ stage' = "wait" /\ log' = log /\ order' = order /\ spliced' = spliced
      /\ outcome \in [Calls -> {"new", "queued", "done", "failed", "lost"}]
      /\ outcome' = [c \in Calls |-> IF outcome[c] = "queued" THEN "lost" ELSE outcome[c]]
      /\ order \in Seq(Calls)
  BY DEF EndProcess, LogInv, LogTypeOK
<1>2. \A k \in 1..Len(order) : order[k] \in Calls
  BY <1>1
<1>3. CalledOnce'
  BY <1>1, <1>2 DEF OrderInv, CalledOnce
<1>4. QueueInOrder' /\ LogInOrder'
  BY <1>1 DEF OrderInv, QueueInOrder, LogInOrder
<1>5. LineOfCall'
  BY <1>1 DEF OrderInv, LineOfCall, Written
<1> QED
  BY <1>3, <1>4, <1>5 DEF OrderInv

\* The steps that neither queue, write nor finish a call.
LEMMA FrameOrder ==
    ASSUME OrderInv, queue' = queue, log' = log, order' = order, outcome' = outcome,
           spliced' = spliced, stage' = "written" <=> stage = "written"
    PROVE  OrderInv'
BY DEF OrderInv, CalledOnce, QueueInOrder, LogInOrder, LineOfCall, Written

LEMMA NextKeepsOrder ==
  ASSUME LogInv, OrderInv, [LogNext]_(logVars)
  PROVE  OrderInv'
<1> USE DEF fileVars, logHistory
<1>1. CASE UNCHANGED logVars
  BY <1>1, FrameOrder DEF logVars, memVars
<1>2. CASE BeginFails \/ KeyFails \/ WriteFails
  <2>1. /\ queue # <<>> /\ Leave("failed") /\ stage # "written"
        /\ log' = log /\ order' = order /\ spliced' = spliced
    BY <1>2 DEF BeginFails, KeyFails, WriteFails, FailCall, LogInv, StageInv
  <2> QED
    BY <2>1, LeaveKeepsOrder
<1>3. CASE Return
  <2>1. /\ queue # <<>> /\ Leave("done") /\ stage = "written"
        /\ log' = log /\ order' = order /\ spliced' = spliced
    BY <1>3 DEF Return, LogInv, StageInv
  <2> QED
    BY <2>1, LeaveKeepsOrder
<1>4. CASE Begin \/ GetKey
  BY <1>4, FrameOrder DEF Begin, GetKey
<1>5. CASE PeekSize \/ PeekTail
  BY <1>5, FrameOrder DEF PeekSize, PeekTail
<1>6. CASE Write
  BY <1>6, WriteKeepsOrder
<1>7. CASE EndProcess
  BY <1>7, CrashKeepsOrder
<1>8. CASE \E c \in Calls : Call(c)
  BY <1>8, CallKeepsOrder
<1> QED
  BY <1>1, <1>2, <1>3, <1>4, <1>5, <1>6, <1>7, <1>8 DEF LogNext, Step

\* The place of a call in a history without repetitions is where it stands.
LEMMA PlaceIsFound ==
    ASSUME Distinct(order), Len(order) \in Nat, NEW c, NEW d, Precedes(order, c, d)
    PROVE  PlaceOf(c) < PlaceOf(d)
<1>1. PICK j, k \in 1..Len(order) : order[j] = c /\ order[k] = d /\ j < k
  BY DEF Precedes
<1>2. PlaceOf(c) = j
  BY <1>1 DEF PlaceOf, Distinct
<1>3. PlaceOf(d) = k
  BY <1>1 DEF PlaceOf, Distinct
<1> QED
  BY <1>1, <1>2, <1>3

(***************************************************************************)
(* The promise mutex serves the calls of append() in the order they were   *)
(* made, through failed writes and ends of the process: the lines stand in *)
(* that order, no call has two, and a call that returned has its line,     *)
(* unless it was written behind torn bytes.                                *)
(***************************************************************************)
THEOREM LinesInCallOrder == LogSpec => []InCallOrder
<1>1. LogInit => OrderInv
  BY InitOrder
<1>2. LogInv /\ OrderInv /\ [LogNext]_(logVars) => OrderInv'
  BY NextKeepsOrder
<1>3. LogInv /\ OrderInv => InCallOrder
  <2> SUFFICES ASSUME LogInv, OrderInv PROVE InCallOrder
    OBVIOUS
  <2>1. Distinct(order) /\ Len(order) \in Nat
    BY DEF LogInv, LogTypeOK, OrderInv, CalledOnce
  <2> QED
    BY <2>1, PlaceIsFound DEF OrderInv, LogInOrder, LineOfCall, InCallOrder
<1> QED
  BY <1>1, <1>2, <1>3, LogInvariant, PTL DEF LogSpec

-----------------------------------------------------------------------------
(***************************************************************************)
(* The connection pool.                                                    *)
(***************************************************************************)

\* Where a call stands while its connect is pending, and once it has settled.
Trying == {"evictLRU", "connecting", "audit"}
Tried  == {"audit", "done", "failed"}

\* What is known of a call by where it stands.
CallAt(c) ==
    /\ place[c] # "idle" => want[c] \in Ids
    /\ place[c] = "idle" => closing[c] = None
    /\ place[c] \notin Tried => conn[c] = "none"
    /\ place[c] = "waiting" => got[c] \in Callers
    /\ place[c] \in Trying => inflight[want[c]] = c

\* An entry is an open connection of the call that made it, for this id.
EntryAt(id) ==
    entries[id] # None =>
        /\ want[entries[id]] = id
        /\ place[entries[id]] \in Tried
        /\ conn[entries[id]] = "open"

\* What is being disconnected is no longer pooled and will not be again.
ClosingAt(p) ==
    closing[p] # None =>
        /\ place[closing[p]] \in Tried
        /\ entries[want[closing[p]]] # closing[p]

\* A call that is to connect will find no entry in its place.
PlaceFree == raced \/ \A c \in Creators : entries[want[c]] = None

\* While one call is to connect there is room for its entry.
RoomLeft ==
    overlapped \/ /\ \A c, d \in Creators : c = d
                  /\ Cardinality(Pooled) <= MaxConnections
                  /\ Creators # {} => Cardinality(Pooled) < MaxConnections

(***************************************************************************)
(* What holds of every call, entry and disconnect, whatever the            *)
(* interleaving.                                                           *)
(***************************************************************************)
KeptInv ==
    /\ PoolTypeOK
    /\ \A c \in Callers : CallAt(c)
    /\ \A id \in Ids : EntryAt(id)
    /\ \A p \in Callers \cup Sweeps : ClosingAt(p)
    /\ PlaceFree
    /\ NoLeak

\* A call that has found no entry: at its start, or after its stale one.
BeginConnect(c, id) ==
    /\ c \in Callers /\ id \in Ids
    /\ place[c] \in {"idle", "stale"} /\ closing[c] = None
    /\ place[c] = "stale" => want[c] = id
    /\ want' = [want EXCEPT ![c] = id]
    /\ raced' \in BOOLEAN /\ (raced => raced')
    /\ raced' \/ inflight[id] # None \/ entries[id] = None
    /\ UNCHANGED <<clock, lastUsedAt, sweepVars>>
    /\ Join(c, id)

\* It joins the connect in flight, starts its own, or evicts first.
BeginJoins(c, id)  == BeginConnect(c, id) /\ inflight[id] # None
BeginStarts(c, id) == BeginConnect(c, id) /\ inflight[id] = None /\ ~(Full /\ Pooled # {})
BeginEvicts(c, id) == BeginConnect(c, id) /\ inflight[id] = None /\ Full /\ Pooled # {}

\* A call that finds a live entry, and one that finds a stale one.
GetHit(c, id) == 
    /\ place[c] = "idle" /\ c \in Callers /\ id \in Ids
    /\ want' = [want EXCEPT ![c] = id]
    /\ Hit(c, id)
    /\ UNCHANGED <<clock, sweepVars, raced>>

GetStale(c, id) == 
    /\ place[c] = "idle" /\ c \in Callers /\ id \in Ids
    /\ want' = [want EXCEPT ![c] = id]
    /\ EvictStale(c, id)
    /\ UNCHANGED <<clock, sweepVars, raced>>

(***************************************************************************)
(* Every step is one of these.                                             *)
(***************************************************************************)
LEMMA PoolSteps ==
  ASSUME PoolTypeOK, \A c \in Callers : CallAt(c), PoolNext
  PROVE  \/ \E c \in Callers : \/ CloseStale(c) \/ AfterLRU(c) \/ Connected(c)
                               \/ ConnectFails(c) \/ Audited(c) \/ Joined(c) \/ Release(c)
         \/ \E c \in Callers, id \in Ids : \/ GetHit(c, id) \/ GetStale(c, id)
                                           \/ BeginJoins(c, id) \/ BeginStarts(c, id)
                                           \/ BeginEvicts(c, id)
         \/ \E s \in Sweeps : \/ AfterVisit(s)
                              \/ \E id \in Ids : Visit(s, id)
                              \/ \E k \in {"reapIdle", "closeAll"} : StartSweep(s, k)
         \/ Advance
<1>1. \A c \in Callers, id \in Ids : BeginConnect(c, id) =>
         BeginJoins(c, id) \/ BeginStarts(c, id) \/ BeginEvicts(c, id)
  BY DEF BeginJoins, BeginStarts, BeginEvicts
<1>2. ASSUME NEW c \in Callers, AfterStale(c)
      PROVE  \E id \in Ids : BeginConnect(c, id)
  <2>1. want[c] \in Ids
    BY <1>2 DEF AfterStale, CallAt
  <2>2. want' = [want EXCEPT ![c] = want[c]]
    BY <1>2 DEF AfterStale, PoolTypeOK
  <2>3. BeginConnect(c, want[c])
    BY <1>2, <2>1, <2>2 DEF AfterStale, BeginConnect, PoolTypeOK
  <2> QED  BY <2>1, <2>3
<1>3. ASSUME NEW c \in Callers, NEW id \in Ids, GetConnection(c, id)
      PROVE  GetHit(c, id) \/ GetStale(c, id) \/ BeginConnect(c, id)
  <2>1. closing[c] = None
    BY <1>3 DEF GetConnection, CallAt
  <2> QED  BY <1>3, <2>1 DEF GetConnection, GetHit, GetStale, Miss, BeginConnect, PoolTypeOK
<1> QED
  BY <1>1, <1>2, <1>3 DEF PoolNext, CallStep, SweepStep

(***************************************************************************)
(* Each step keeps that invariant.                                         *)
(***************************************************************************)
LEMMA CloseStaleKeeps ==
  ASSUME KeptInv, NEW c \in Callers, CloseStale(c)
  PROVE  KeptInv'
<1>1. PoolTypeOK /\ PoolTypeOK'
  BY PoolAssumption
  DEF KeptInv, PoolTypeOK, poolVars, callVars, sweepVars, poolHistory,
      CloseStale, Close
<1>2. ASSUME NEW x \in Callers PROVE CallAt(x)'
  BY <1>1, PoolAssumption
  DEF KeptInv, CallAt, EntryAt, ClosingAt, Trying, Tried, PoolTypeOK, poolVars,
      callVars, sweepVars, poolHistory, CloseStale, Close
<1>3. ASSUME NEW x \in Ids PROVE EntryAt(x)'
  BY <1>1, PoolAssumption
  DEF KeptInv, CallAt, EntryAt, ClosingAt, Trying, Tried, PoolTypeOK, poolVars,
      callVars, sweepVars, poolHistory, CloseStale, Close
<1>4. ASSUME NEW p \in Callers \cup Sweeps PROVE ClosingAt(p)'
  BY <1>1, PoolAssumption
  DEF KeptInv, CallAt, EntryAt, ClosingAt, Trying, Tried, PoolTypeOK, poolVars,
      callVars, sweepVars, poolHistory, CloseStale, Close
<1>5. PlaceFree'
  BY <1>1, PoolAssumption
  DEF KeptInv, CallAt, Creators, PlaceFree, Trying, PoolTypeOK, poolVars,
      callVars, sweepVars, poolHistory, CloseStale, Close
<1>6. NoLeak'
  BY <1>1, PoolAssumption
  DEF KeptInv, CallAt, EntryAt, ClosingAt, NoLeak, PlaceFree, Creators, Tried,
      PoolTypeOK, poolVars, callVars, sweepVars, poolHistory, CloseStale,
      Close
<1> QED  BY <1>1, <1>2, <1>3, <1>4, <1>5, <1>6 DEF KeptInv

LEMMA AfterLRUKeeps ==
  ASSUME KeptInv, NEW c \in Callers, AfterLRU(c)
  PROVE  KeptInv'
<1>1. PoolTypeOK /\ PoolTypeOK'
  BY PoolAssumption
  DEF KeptInv, PoolTypeOK, poolVars, callVars, sweepVars, poolHistory,
      AfterLRU, Close
<1>2. ASSUME NEW x \in Callers PROVE CallAt(x)'
  BY <1>1, PoolAssumption
  DEF KeptInv, CallAt, EntryAt, ClosingAt, Trying, Tried, PoolTypeOK, poolVars,
      callVars, sweepVars, poolHistory, AfterLRU, Close
<1>3. ASSUME NEW x \in Ids PROVE EntryAt(x)'
  BY <1>1, PoolAssumption
  DEF KeptInv, CallAt, EntryAt, ClosingAt, Trying, Tried, PoolTypeOK, poolVars,
      callVars, sweepVars, poolHistory, AfterLRU, Close
<1>4. ASSUME NEW p \in Callers \cup Sweeps PROVE ClosingAt(p)'
  BY <1>1, PoolAssumption
  DEF KeptInv, CallAt, EntryAt, ClosingAt, Trying, Tried, PoolTypeOK, poolVars,
      callVars, sweepVars, poolHistory, AfterLRU, Close
<1>5. PlaceFree'
  BY <1>1, PoolAssumption
  DEF KeptInv, CallAt, Creators, PlaceFree, Trying, PoolTypeOK, poolVars,
      callVars, sweepVars, poolHistory, AfterLRU, Close
<1>6. NoLeak'
  BY <1>1, PoolAssumption
  DEF KeptInv, CallAt, EntryAt, ClosingAt, NoLeak, PlaceFree, Creators, Tried,
      PoolTypeOK, poolVars, callVars, sweepVars, poolHistory, AfterLRU,
      Close
<1> QED  BY <1>1, <1>2, <1>3, <1>4, <1>5, <1>6 DEF KeptInv

LEMMA ConnectedKeeps ==
  ASSUME KeptInv, NEW c \in Callers, Connected(c)
  PROVE  KeptInv'
<1>1. PoolTypeOK /\ PoolTypeOK'
  BY PoolAssumption
  DEF KeptInv, PoolTypeOK, poolVars, callVars, sweepVars, poolHistory,
      Connected
<1>2. ASSUME NEW x \in Callers PROVE CallAt(x)'
  BY <1>1, PoolAssumption
  DEF KeptInv, CallAt, EntryAt, ClosingAt, Trying, Tried, PoolTypeOK, poolVars,
      callVars, sweepVars, poolHistory, Connected
<1>3. ASSUME NEW x \in Ids PROVE EntryAt(x)'
  BY <1>1, PoolAssumption
  DEF KeptInv, CallAt, EntryAt, ClosingAt, Trying, Tried, PoolTypeOK, poolVars,
      callVars, sweepVars, poolHistory, Connected
<1>4. ASSUME NEW p \in Callers \cup Sweeps PROVE ClosingAt(p)'
  BY <1>1, PoolAssumption
  DEF KeptInv, CallAt, EntryAt, ClosingAt, Trying, Tried, PoolTypeOK, poolVars,
      callVars, sweepVars, poolHistory, Connected
<1>5. PlaceFree'
  BY <1>1, PoolAssumption
  DEF KeptInv, CallAt, Creators, PlaceFree, Trying, PoolTypeOK, poolVars,
      callVars, sweepVars, poolHistory, Connected
<1>6. NoLeak'
  BY <1>1, PoolAssumption
  DEF KeptInv, CallAt, EntryAt, ClosingAt, NoLeak, PlaceFree, Creators, Tried,
      PoolTypeOK, poolVars, callVars, sweepVars, poolHistory, Connected
<1> QED  BY <1>1, <1>2, <1>3, <1>4, <1>5, <1>6 DEF KeptInv

LEMMA ConnectFailsKeeps ==
  ASSUME KeptInv, NEW c \in Callers, ConnectFails(c)
  PROVE  KeptInv'
<1>1. PoolTypeOK /\ PoolTypeOK'
  BY PoolAssumption
  DEF KeptInv, PoolTypeOK, poolVars, callVars, sweepVars, poolHistory,
      ConnectFails, Settle
<1>2. ASSUME NEW x \in Callers PROVE CallAt(x)'
  BY <1>1, PoolAssumption
  DEF KeptInv, CallAt, EntryAt, ClosingAt, Trying, Tried, PoolTypeOK, poolVars,
      callVars, sweepVars, poolHistory, ConnectFails, Settle
<1>3. ASSUME NEW x \in Ids PROVE EntryAt(x)'
  BY <1>1, PoolAssumption
  DEF KeptInv, CallAt, EntryAt, ClosingAt, Trying, Tried, PoolTypeOK, poolVars,
      callVars, sweepVars, poolHistory, ConnectFails, Settle
<1>4. ASSUME NEW p \in Callers \cup Sweeps PROVE ClosingAt(p)'
  BY <1>1, PoolAssumption
  DEF KeptInv, CallAt, EntryAt, ClosingAt, Trying, Tried, PoolTypeOK, poolVars,
      callVars, sweepVars, poolHistory, ConnectFails, Settle
<1>5. PlaceFree'
  BY <1>1, PoolAssumption
  DEF KeptInv, CallAt, Creators, PlaceFree, Trying, PoolTypeOK, poolVars,
      callVars, sweepVars, poolHistory, ConnectFails, Settle
<1>6. NoLeak'
  BY <1>1, PoolAssumption
  DEF KeptInv, CallAt, EntryAt, ClosingAt, NoLeak, PlaceFree, Creators, Tried,
      PoolTypeOK, poolVars, callVars, sweepVars, poolHistory,
      ConnectFails, Settle
<1> QED  BY <1>1, <1>2, <1>3, <1>4, <1>5, <1>6 DEF KeptInv

LEMMA AuditedKeeps ==
  ASSUME KeptInv, NEW c \in Callers, Audited(c)
  PROVE  KeptInv'
<1>0. PICK result \in {"done", "failed"} : Settle(c, result)
  BY DEF Audited
<1>1. PoolTypeOK /\ PoolTypeOK'
  BY <1>0, PoolAssumption
  DEF KeptInv, PoolTypeOK, poolVars, callVars, sweepVars, poolHistory,
      Audited, Settle
<1>2. ASSUME NEW x \in Callers PROVE CallAt(x)'
  BY <1>1, PoolAssumption
  DEF KeptInv, CallAt, EntryAt, ClosingAt, Trying, Tried, PoolTypeOK, poolVars,
      callVars, sweepVars, poolHistory, Audited, Settle
<1>3. ASSUME NEW x \in Ids PROVE EntryAt(x)'
  BY <1>1, PoolAssumption
  DEF KeptInv, CallAt, EntryAt, ClosingAt, Trying, Tried, PoolTypeOK, poolVars,
      callVars, sweepVars, poolHistory, Audited, Settle
<1>4. ASSUME NEW p \in Callers \cup Sweeps PROVE ClosingAt(p)'
  BY <1>1, PoolAssumption
  DEF KeptInv, CallAt, EntryAt, ClosingAt, Trying, Tried, PoolTypeOK, poolVars,
      callVars, sweepVars, poolHistory, Audited, Settle
<1>5. PlaceFree'
  BY <1>1, PoolAssumption
  DEF KeptInv, CallAt, Creators, PlaceFree, Trying, PoolTypeOK, poolVars,
      callVars, sweepVars, poolHistory, Audited, Settle
<1>6. NoLeak'
  BY <1>1, PoolAssumption
  DEF KeptInv, CallAt, EntryAt, ClosingAt, NoLeak, PlaceFree, Creators, Tried,
      PoolTypeOK, poolVars, callVars, sweepVars, poolHistory, Audited,
      Settle
<1> QED  BY <1>1, <1>2, <1>3, <1>4, <1>5, <1>6 DEF KeptInv

LEMMA JoinedKeeps ==
  ASSUME KeptInv, NEW c \in Callers, Joined(c)
  PROVE  KeptInv'
<1>1. PoolTypeOK /\ PoolTypeOK'
  BY PoolAssumption
  DEF KeptInv, PoolTypeOK, poolVars, callVars, sweepVars, poolHistory,
      Joined
<1>2. ASSUME NEW x \in Callers PROVE CallAt(x)'
  BY <1>1, PoolAssumption
  DEF KeptInv, CallAt, EntryAt, ClosingAt, Trying, Tried, PoolTypeOK, poolVars,
      callVars, sweepVars, poolHistory, Joined
<1>3. ASSUME NEW x \in Ids PROVE EntryAt(x)'
  BY <1>1, PoolAssumption
  DEF KeptInv, CallAt, EntryAt, ClosingAt, Trying, Tried, PoolTypeOK, poolVars,
      callVars, sweepVars, poolHistory, Joined
<1>4. ASSUME NEW p \in Callers \cup Sweeps PROVE ClosingAt(p)'
  BY <1>1, PoolAssumption
  DEF KeptInv, CallAt, EntryAt, ClosingAt, Trying, Tried, PoolTypeOK, poolVars,
      callVars, sweepVars, poolHistory, Joined
<1>5. PlaceFree'
  BY <1>1, PoolAssumption
  DEF KeptInv, CallAt, Creators, PlaceFree, Trying, PoolTypeOK, poolVars,
      callVars, sweepVars, poolHistory, Joined
<1>6. NoLeak'
  BY <1>1, PoolAssumption
  DEF KeptInv, CallAt, EntryAt, ClosingAt, NoLeak, PlaceFree, Creators, Tried,
      PoolTypeOK, poolVars, callVars, sweepVars, poolHistory, Joined
<1> QED  BY <1>1, <1>2, <1>3, <1>4, <1>5, <1>6 DEF KeptInv

LEMMA ReleaseKeeps ==
  ASSUME KeptInv, NEW c \in Callers, Release(c)
  PROVE  KeptInv'
<1>1. PoolTypeOK /\ PoolTypeOK'
  BY PoolAssumption
  DEF KeptInv, PoolTypeOK, poolVars, callVars, sweepVars, poolHistory,
      Release
<1>2. ASSUME NEW x \in Callers PROVE CallAt(x)'
  BY <1>1, PoolAssumption
  DEF KeptInv, CallAt, EntryAt, ClosingAt, Trying, Tried, PoolTypeOK, poolVars,
      callVars, sweepVars, poolHistory, Release
<1>3. ASSUME NEW x \in Ids PROVE EntryAt(x)'
  BY <1>1, PoolAssumption
  DEF KeptInv, CallAt, EntryAt, ClosingAt, Trying, Tried, PoolTypeOK, poolVars,
      callVars, sweepVars, poolHistory, Release
<1>4. ASSUME NEW p \in Callers \cup Sweeps PROVE ClosingAt(p)'
  BY <1>1, PoolAssumption
  DEF KeptInv, CallAt, EntryAt, ClosingAt, Trying, Tried, PoolTypeOK, poolVars,
      callVars, sweepVars, poolHistory, Release
<1>5. PlaceFree'
  BY <1>1, PoolAssumption
  DEF KeptInv, CallAt, Creators, PlaceFree, Trying, PoolTypeOK, poolVars,
      callVars, sweepVars, poolHistory, Release
<1>6. NoLeak'
  BY <1>1, PoolAssumption
  DEF KeptInv, CallAt, EntryAt, ClosingAt, NoLeak, PlaceFree, Creators, Tried,
      PoolTypeOK, poolVars, callVars, sweepVars, poolHistory, Release
<1> QED  BY <1>1, <1>2, <1>3, <1>4, <1>5, <1>6 DEF KeptInv

LEMMA HitKeeps ==
  ASSUME KeptInv, NEW c \in Callers, NEW id \in Ids, GetHit(c, id)
  PROVE  KeptInv'
<1>1. PoolTypeOK /\ PoolTypeOK'
  BY PoolAssumption
  DEF KeptInv, PoolTypeOK, poolVars, callVars, sweepVars, poolHistory, GetHit,
      Hit
<1>2. ASSUME NEW x \in Callers PROVE CallAt(x)'
  BY <1>1, PoolAssumption
  DEF KeptInv, CallAt, EntryAt, ClosingAt, Trying, Tried, PoolTypeOK, poolVars,
      callVars, sweepVars, poolHistory, GetHit, Hit
<1>3. ASSUME NEW x \in Ids PROVE EntryAt(x)'
  BY <1>1, PoolAssumption
  DEF KeptInv, CallAt, EntryAt, ClosingAt, Trying, Tried, PoolTypeOK, poolVars,
      callVars, sweepVars, poolHistory, GetHit, Hit
<1>4. ASSUME NEW p \in Callers \cup Sweeps PROVE ClosingAt(p)'
  BY <1>1, PoolAssumption
  DEF KeptInv, CallAt, EntryAt, ClosingAt, Trying, Tried, PoolTypeOK, poolVars,
      callVars, sweepVars, poolHistory, GetHit, Hit
<1>5. PlaceFree'
  BY <1>1, PoolAssumption
  DEF KeptInv, CallAt, Creators, PlaceFree, Trying, PoolTypeOK, poolVars,
      callVars, sweepVars, poolHistory, GetHit, Hit
<1>6. NoLeak'
  BY <1>1, PoolAssumption
  DEF KeptInv, CallAt, EntryAt, ClosingAt, NoLeak, PlaceFree, Creators, Tried,
      PoolTypeOK, poolVars, callVars, sweepVars, poolHistory, GetHit, Hit
<1> QED  BY <1>1, <1>2, <1>3, <1>4, <1>5, <1>6 DEF KeptInv

LEMMA StaleKeeps ==
  ASSUME KeptInv, NEW c \in Callers, NEW id \in Ids, GetStale(c, id)
  PROVE  KeptInv'
<1>1. PoolTypeOK /\ PoolTypeOK'
  BY PoolAssumption
  DEF KeptInv, PoolTypeOK, poolVars, callVars, sweepVars, poolHistory,
      GetStale, EvictStale, Evict
<1>2. ASSUME NEW x \in Callers PROVE CallAt(x)'
  BY <1>1, PoolAssumption
  DEF KeptInv, CallAt, EntryAt, ClosingAt, Trying, Tried, PoolTypeOK, poolVars,
      callVars, sweepVars, poolHistory, GetStale, EvictStale, Evict
<1>3. ASSUME NEW x \in Ids PROVE EntryAt(x)'
  BY <1>1, PoolAssumption
  DEF KeptInv, CallAt, EntryAt, ClosingAt, Trying, Tried, PoolTypeOK, poolVars,
      callVars, sweepVars, poolHistory, GetStale, EvictStale, Evict
<1>4. ASSUME NEW p \in Callers \cup Sweeps PROVE ClosingAt(p)'
  BY <1>1, PoolAssumption
  DEF KeptInv, CallAt, EntryAt, ClosingAt, Trying, Tried, PoolTypeOK, poolVars,
      callVars, sweepVars, poolHistory, GetStale, EvictStale, Evict
<1>5. PlaceFree'
  BY <1>1, PoolAssumption
  DEF KeptInv, CallAt, Creators, PlaceFree, Trying, PoolTypeOK, poolVars,
      callVars, sweepVars, poolHistory, GetStale, EvictStale, Evict
<1>6. NoLeak'
  BY <1>1, PoolAssumption
  DEF KeptInv, CallAt, EntryAt, ClosingAt, NoLeak, PlaceFree, Creators, Tried,
      PoolTypeOK, poolVars, callVars, sweepVars, poolHistory, GetStale,
      EvictStale, Evict
<1> QED  BY <1>1, <1>2, <1>3, <1>4, <1>5, <1>6 DEF KeptInv

LEMMA JoinsKeeps ==
  ASSUME KeptInv, NEW c \in Callers, NEW id \in Ids, BeginJoins(c, id)
  PROVE  KeptInv'
<1>1. PoolTypeOK /\ PoolTypeOK'
  BY PoolAssumption
  DEF KeptInv, PoolTypeOK, poolVars, callVars, sweepVars, poolHistory,
      BeginJoins, BeginConnect, Join
<1>2. ASSUME NEW x \in Callers PROVE CallAt(x)'
  BY <1>1, PoolAssumption
  DEF KeptInv, CallAt, EntryAt, ClosingAt, Trying, Tried, PoolTypeOK, poolVars,
      callVars, sweepVars, poolHistory, BeginJoins, BeginConnect, Join
<1>3. ASSUME NEW x \in Ids PROVE EntryAt(x)'
  BY <1>1, PoolAssumption
  DEF KeptInv, CallAt, EntryAt, ClosingAt, Trying, Tried, PoolTypeOK, poolVars,
      callVars, sweepVars, poolHistory, BeginJoins, BeginConnect, Join
<1>4. ASSUME NEW p \in Callers \cup Sweeps PROVE ClosingAt(p)'
  BY <1>1, PoolAssumption
  DEF KeptInv, CallAt, EntryAt, ClosingAt, Trying, Tried, PoolTypeOK, poolVars,
      callVars, sweepVars, poolHistory, BeginJoins, BeginConnect, Join
<1>5. PlaceFree'
  BY <1>1, PoolAssumption
  DEF KeptInv, CallAt, Creators, PlaceFree, Trying, PoolTypeOK, poolVars,
      callVars, sweepVars, poolHistory, BeginJoins, BeginConnect, Join
<1>6. NoLeak'
  BY <1>1, PoolAssumption
  DEF KeptInv, CallAt, EntryAt, ClosingAt, NoLeak, PlaceFree, Creators, Tried,
      PoolTypeOK, poolVars, callVars, sweepVars, poolHistory, BeginJoins,
      BeginConnect, Join
<1> QED  BY <1>1, <1>2, <1>3, <1>4, <1>5, <1>6 DEF KeptInv

LEMMA StartsKeeps ==
  ASSUME KeptInv, NEW c \in Callers, NEW id \in Ids, BeginStarts(c, id)
  PROVE  KeptInv'
<1>1. PoolTypeOK /\ PoolTypeOK'
  BY PoolAssumption
  DEF KeptInv, PoolTypeOK, poolVars, callVars, sweepVars, poolHistory,
      BeginStarts, BeginConnect, Join, StartConnect
<1>2. ASSUME NEW x \in Callers PROVE CallAt(x)'
  BY <1>1, PoolAssumption
  DEF KeptInv, CallAt, EntryAt, ClosingAt, Trying, Tried, PoolTypeOK, poolVars,
      callVars, sweepVars, poolHistory, BeginStarts, BeginConnect, Join, StartConnect
<1>3. ASSUME NEW x \in Ids PROVE EntryAt(x)'
  BY <1>1, PoolAssumption
  DEF KeptInv, CallAt, EntryAt, ClosingAt, Trying, Tried, PoolTypeOK, poolVars,
      callVars, sweepVars, poolHistory, BeginStarts, BeginConnect, Join, StartConnect
<1>4. ASSUME NEW p \in Callers \cup Sweeps PROVE ClosingAt(p)'
  BY <1>1, PoolAssumption
  DEF KeptInv, CallAt, EntryAt, ClosingAt, Trying, Tried, PoolTypeOK, poolVars,
      callVars, sweepVars, poolHistory, BeginStarts, BeginConnect, Join, StartConnect
<1>5. PlaceFree'
  BY <1>1, PoolAssumption
  DEF KeptInv, CallAt, Creators, PlaceFree, Trying, PoolTypeOK, poolVars,
      callVars, sweepVars, poolHistory, BeginStarts, BeginConnect, Join, StartConnect
<1>6. NoLeak'
  BY <1>1, PoolAssumption
  DEF KeptInv, CallAt, EntryAt, ClosingAt, NoLeak, PlaceFree, Creators, Tried,
      PoolTypeOK, poolVars, callVars, sweepVars, poolHistory, BeginStarts,
      BeginConnect, Join, StartConnect
<1> QED  BY <1>1, <1>2, <1>3, <1>4, <1>5, <1>6 DEF KeptInv

LEMMA EvictsKeeps ==
  ASSUME KeptInv, NEW c \in Callers, NEW id \in Ids, BeginEvicts(c, id)
  PROVE  KeptInv'
<1>1. PoolTypeOK /\ PoolTypeOK'
  BY PoolAssumption
  DEF KeptInv, PoolTypeOK, poolVars, callVars, sweepVars, poolHistory,
      BeginEvicts, BeginConnect, Join, StartConnect, Evict, LeastRecent, Pooled
<1>2. ASSUME NEW x \in Callers PROVE CallAt(x)'
  BY <1>1, PoolAssumption
  DEF KeptInv, CallAt, EntryAt, ClosingAt, Trying, Tried, PoolTypeOK, poolVars,
      callVars, sweepVars, poolHistory, BeginEvicts, BeginConnect, Join, StartConnect,
      Evict, LeastRecent, Pooled
<1>3. ASSUME NEW x \in Ids PROVE EntryAt(x)'
  BY <1>1, PoolAssumption
  DEF KeptInv, CallAt, EntryAt, ClosingAt, Trying, Tried, PoolTypeOK, poolVars,
      callVars, sweepVars, poolHistory, BeginEvicts, BeginConnect, Join, StartConnect,
      Evict, LeastRecent, Pooled
<1>4. ASSUME NEW p \in Callers \cup Sweeps PROVE ClosingAt(p)'
  BY <1>1, PoolAssumption
  DEF KeptInv, CallAt, EntryAt, ClosingAt, Trying, Tried, PoolTypeOK, poolVars,
      callVars, sweepVars, poolHistory, BeginEvicts, BeginConnect, Join, StartConnect,
      Evict, LeastRecent, Pooled
<1>5. PlaceFree'
  BY <1>1, PoolAssumption
  DEF KeptInv, CallAt, Creators, PlaceFree, Trying, PoolTypeOK, poolVars,
      callVars, sweepVars, poolHistory, BeginEvicts, BeginConnect, Join, StartConnect,
      Evict, LeastRecent, Pooled
<1>6. NoLeak'
  BY <1>1, PoolAssumption
  DEF KeptInv, CallAt, EntryAt, ClosingAt, NoLeak, PlaceFree, Creators, Tried,
      PoolTypeOK, poolVars, callVars, sweepVars, poolHistory, BeginEvicts,
      BeginConnect, Join, StartConnect, Evict, LeastRecent, Pooled
<1> QED  BY <1>1, <1>2, <1>3, <1>4, <1>5, <1>6 DEF KeptInv

LEMMA AfterVisitKeeps ==
  ASSUME KeptInv, NEW s \in Sweeps, AfterVisit(s)
  PROVE  KeptInv'
<1>1. PoolTypeOK /\ PoolTypeOK'
  BY PoolAssumption
  DEF KeptInv, PoolTypeOK, poolVars, callVars, sweepVars, poolHistory,
      AfterVisit, Close
<1>2. ASSUME NEW x \in Callers PROVE CallAt(x)'
  BY <1>1, PoolAssumption
  DEF KeptInv, CallAt, EntryAt, ClosingAt, Trying, Tried, PoolTypeOK, poolVars,
      callVars, sweepVars, poolHistory, AfterVisit, Close
<1>3. ASSUME NEW x \in Ids PROVE EntryAt(x)'
  BY <1>1, PoolAssumption
  DEF KeptInv, CallAt, EntryAt, ClosingAt, Trying, Tried, PoolTypeOK, poolVars,
      callVars, sweepVars, poolHistory, AfterVisit, Close
<1>4. ASSUME NEW p \in Callers \cup Sweeps PROVE ClosingAt(p)'
  BY <1>1, PoolAssumption
  DEF KeptInv, CallAt, EntryAt, ClosingAt, Trying, Tried, PoolTypeOK, poolVars,
      callVars, sweepVars, poolHistory, AfterVisit, Close
<1>5. PlaceFree'
  BY <1>1, PoolAssumption
  DEF KeptInv, CallAt, Creators, PlaceFree, Trying, PoolTypeOK, poolVars,
      callVars, sweepVars, poolHistory, AfterVisit, Close
<1>6. NoLeak'
  BY <1>1, PoolAssumption
  DEF KeptInv, CallAt, EntryAt, ClosingAt, NoLeak, PlaceFree, Creators, Tried,
      PoolTypeOK, poolVars, callVars, sweepVars, poolHistory, AfterVisit,
      Close
<1> QED  BY <1>1, <1>2, <1>3, <1>4, <1>5, <1>6 DEF KeptInv

LEMMA VisitKeeps ==
  ASSUME KeptInv, NEW s \in Sweeps, NEW id \in Ids, Visit(s, id)
  PROVE  KeptInv'
<1>1. PoolTypeOK /\ PoolTypeOK'
  BY PoolAssumption
  DEF KeptInv, PoolTypeOK, poolVars, callVars, sweepVars, poolHistory,
      Visit, Evict
<1>2. ASSUME NEW x \in Callers PROVE CallAt(x)'
  BY <1>1, PoolAssumption
  DEF KeptInv, CallAt, EntryAt, ClosingAt, Trying, Tried, PoolTypeOK, poolVars,
      callVars, sweepVars, poolHistory, Visit, Evict
<1>3. ASSUME NEW x \in Ids PROVE EntryAt(x)'
  BY <1>1, PoolAssumption
  DEF KeptInv, CallAt, EntryAt, ClosingAt, Trying, Tried, PoolTypeOK, poolVars,
      callVars, sweepVars, poolHistory, Visit, Evict
<1>4. ASSUME NEW p \in Callers \cup Sweeps PROVE ClosingAt(p)'
  BY <1>1, PoolAssumption
  DEF KeptInv, CallAt, EntryAt, ClosingAt, Trying, Tried, PoolTypeOK, poolVars,
      callVars, sweepVars, poolHistory, Visit, Evict
<1>5. PlaceFree'
  BY <1>1, PoolAssumption
  DEF KeptInv, CallAt, Creators, PlaceFree, Trying, PoolTypeOK, poolVars,
      callVars, sweepVars, poolHistory, Visit, Evict
<1>6. NoLeak'
  BY <1>1, PoolAssumption
  DEF KeptInv, CallAt, EntryAt, ClosingAt, NoLeak, PlaceFree, Creators, Tried,
      PoolTypeOK, poolVars, callVars, sweepVars, poolHistory, Visit,
      Evict
<1> QED  BY <1>1, <1>2, <1>3, <1>4, <1>5, <1>6 DEF KeptInv

LEMMA StartSweepKeeps ==
  ASSUME KeptInv, NEW s \in Sweeps, NEW k \in {"reapIdle", "closeAll"}, StartSweep(s, k)
  PROVE  KeptInv'
<1>1. PoolTypeOK /\ PoolTypeOK'
  BY PoolAssumption
  DEF KeptInv, PoolTypeOK, poolVars, callVars, sweepVars, poolHistory,
      StartSweep, Pooled
<1>2. ASSUME NEW x \in Callers PROVE CallAt(x)'
  BY <1>1, PoolAssumption
  DEF KeptInv, CallAt, EntryAt, ClosingAt, Trying, Tried, PoolTypeOK, poolVars,
      callVars, sweepVars, poolHistory, StartSweep, Pooled
<1>3. ASSUME NEW x \in Ids PROVE EntryAt(x)'
  BY <1>1, PoolAssumption
  DEF KeptInv, CallAt, EntryAt, ClosingAt, Trying, Tried, PoolTypeOK, poolVars,
      callVars, sweepVars, poolHistory, StartSweep, Pooled
<1>4. ASSUME NEW p \in Callers \cup Sweeps PROVE ClosingAt(p)'
  BY <1>1, PoolAssumption
  DEF KeptInv, CallAt, EntryAt, ClosingAt, Trying, Tried, PoolTypeOK, poolVars,
      callVars, sweepVars, poolHistory, StartSweep, Pooled
<1>5. PlaceFree'
  BY <1>1, PoolAssumption
  DEF KeptInv, CallAt, Creators, PlaceFree, Trying, PoolTypeOK, poolVars,
      callVars, sweepVars, poolHistory, StartSweep, Pooled
<1>6. NoLeak'
  BY <1>1, PoolAssumption
  DEF KeptInv, CallAt, EntryAt, ClosingAt, NoLeak, PlaceFree, Creators, Tried,
      PoolTypeOK, poolVars, callVars, sweepVars, poolHistory, StartSweep,
      Pooled
<1> QED  BY <1>1, <1>2, <1>3, <1>4, <1>5, <1>6 DEF KeptInv

LEMMA PoolTickKeeps ==
  ASSUME KeptInv, Advance
  PROVE  KeptInv'
<1>1. PoolTypeOK /\ PoolTypeOK'
  BY PoolAssumption
  DEF KeptInv, PoolTypeOK, poolVars, callVars, sweepVars, poolHistory,
      Advance
<1>2. ASSUME NEW x \in Callers PROVE CallAt(x)'
  BY <1>1, PoolAssumption
  DEF KeptInv, CallAt, EntryAt, ClosingAt, Trying, Tried, PoolTypeOK, poolVars,
      callVars, sweepVars, poolHistory, Advance
<1>3. ASSUME NEW x \in Ids PROVE EntryAt(x)'
  BY <1>1, PoolAssumption
  DEF KeptInv, CallAt, EntryAt, ClosingAt, Trying, Tried, PoolTypeOK, poolVars,
      callVars, sweepVars, poolHistory, Advance
<1>4. ASSUME NEW p \in Callers \cup Sweeps PROVE ClosingAt(p)'
  BY <1>1, PoolAssumption
  DEF KeptInv, CallAt, EntryAt, ClosingAt, Trying, Tried, PoolTypeOK, poolVars,
      callVars, sweepVars, poolHistory, Advance
<1>5. PlaceFree'
  BY <1>1, PoolAssumption
  DEF KeptInv, CallAt, Creators, PlaceFree, Trying, PoolTypeOK, poolVars,
      callVars, sweepVars, poolHistory, Advance
<1>6. NoLeak'
  BY <1>1, PoolAssumption
  DEF KeptInv, CallAt, EntryAt, ClosingAt, NoLeak, PlaceFree, Creators, Tried,
      PoolTypeOK, poolVars, callVars, sweepVars, poolHistory, Advance
<1> QED  BY <1>1, <1>2, <1>3, <1>4, <1>5, <1>6 DEF KeptInv


(***************************************************************************)
(* How a step changes what is pooled and who is about to connect.          *)
(***************************************************************************)
LEMMA PooledFinite == PoolTypeOK => IsFiniteSet(Pooled) /\ Cardinality(Pooled) \in Nat
BY PoolAssumption, FS_Subset, FS_CardinalityType DEF Pooled

(***************************************************************************)
(* The cap: while no two ids are connected at a time, a call that is about *)
(* to connect has found or made room for its entry.                        *)
(***************************************************************************)
LEMMA RoomKept ==
  ASSUME PoolTypeOK, RoomLeft, Pooled' \subseteq Pooled, Creators' \subseteq Creators,
         overlapped' = overlapped
  PROVE  RoomLeft'
<1>1. Cardinality(Pooled') <= Cardinality(Pooled) /\ Cardinality(Pooled') \in Nat
  BY PooledFinite, FS_Subset, FS_CardinalityType
<1> QED  BY <1>1, PooledFinite, PoolAssumption DEF RoomLeft

LEMMA RoomStep ==
  ASSUME KeptInv, KeptInv', RoomLeft, PoolNext
  PROVE  RoomLeft'
<1> USE DEF KeptInv
<1>1. ASSUME NEW c \in Callers, CloseStale(c) PROVE RoomLeft'
  BY <1>1, RoomKept DEF CloseStale, callVars, poolHistory, Pooled, Creators
<1>2. ASSUME NEW c \in Callers, AfterLRU(c) PROVE RoomLeft'
  <2>1. Creators' = Creators
    BY <1>2 DEF AfterLRU, Creators, PoolTypeOK
  <2> QED  BY <1>2, <2>1, RoomKept DEF AfterLRU, poolHistory, Pooled
<1>3. ASSUME NEW c \in Callers, Connected(c) PROVE RoomLeft'
  <2>1. c \in Creators /\ Creators' = Creators \ {c} /\ overlapped' = overlapped
    BY <1>3 DEF Connected, Creators, PoolTypeOK, poolHistory
  <2>2. Pooled' = Pooled \cup {want[c]}
    BY <1>3, PoolAssumption DEF Connected, Pooled, PoolTypeOK, CallAt
  <2>3. /\ Cardinality(Pooled') <= Cardinality(Pooled) + 1
        /\ Cardinality(Pooled') \in Nat /\ Cardinality(Pooled) \in Nat
    <3>1. IsFiniteSet(Pooled) /\ Cardinality(Pooled) \in Nat
      BY PooledFinite
    <3>2. \/ Cardinality(Pooled \cup {want[c]}) = Cardinality(Pooled)
          \/ Cardinality(Pooled \cup {want[c]}) = Cardinality(Pooled) + 1
      BY <3>1, FS_AddElement
    <3> QED  BY <2>2, <3>1, <3>2
  <2>4. CASE overlapped
    BY <2>1, <2>4 DEF RoomLeft
  <2>5. CASE ~overlapped
    <3>1. Creators' = {} /\ Cardinality(Pooled) < MaxConnections
      BY <2>1, <2>5 DEF RoomLeft
    <3> QED  BY <2>3, <3>1, PoolAssumption DEF RoomLeft
  <2> QED  BY <2>4, <2>5
<1>4. ASSUME NEW c \in Callers, ConnectFails(c) PROVE RoomLeft'
  <2>1. Creators' \subseteq Creators
    BY <1>4 DEF ConnectFails, Settle, Creators, PoolTypeOK
  <2> QED  BY <1>4, <2>1, RoomKept DEF ConnectFails, poolHistory, Pooled
<1>5. ASSUME NEW c \in Callers, Audited(c) PROVE RoomLeft'
  <2>1. Creators' \subseteq Creators
    BY <1>5 DEF Audited, Settle, Creators, PoolTypeOK
  <2> QED  BY <1>5, <2>1, RoomKept DEF Audited, poolHistory, Pooled
<1>6. ASSUME NEW c \in Callers, Joined(c) PROVE RoomLeft'
  <2>1. Creators' \subseteq Creators
    BY <1>6 DEF Joined, Creators, PoolTypeOK
  <2> QED  BY <1>6, <2>1, RoomKept DEF Joined, poolHistory, Pooled, poolVars
<1>7. ASSUME NEW c \in Callers, Release(c) PROVE RoomLeft'
  BY <1>7, RoomKept DEF Release, Creators, callVars, poolHistory, Pooled
<1>8. ASSUME NEW c \in Callers, NEW id \in Ids, GetHit(c, id) PROVE RoomLeft'
  <2>1. Creators' \subseteq Creators
    BY <1>8 DEF GetHit, Hit, Creators, PoolTypeOK
  <2> QED  BY <1>8, <2>1, RoomKept DEF GetHit, Hit, Pooled
<1>9. ASSUME NEW c \in Callers, NEW id \in Ids, GetStale(c, id) PROVE RoomLeft'
  <2>1. Creators' \subseteq Creators
    BY <1>9 DEF GetStale, EvictStale, Creators, PoolTypeOK
  <2>2. Pooled' \subseteq Pooled
    BY <1>9 DEF GetStale, EvictStale, Evict, Pooled, PoolTypeOK
  <2> QED  BY <1>9, <2>1, <2>2, RoomKept DEF GetStale, EvictStale
<1>10. ASSUME NEW c \in Callers, NEW id \in Ids, BeginJoins(c, id) PROVE RoomLeft'
  <2>1. Creators' \subseteq Creators
    BY <1>10 DEF BeginJoins, BeginConnect, Join, Creators, PoolTypeOK
  <2> QED  BY <1>10, <2>1, RoomKept DEF BeginJoins, BeginConnect, Join, Pooled
<1>11. ASSUME NEW c \in Callers, NEW id \in Ids, BeginStarts(c, id) PROVE RoomLeft'
  <2>1. /\ Creators' = Creators \cup {c}
        /\ overlapped' = (overlapped \/ Creators # {})
    BY <1>11 DEF BeginStarts, BeginConnect, Join, StartConnect, Creators, PoolTypeOK
  <2>2. Pooled' = Pooled
    BY <1>11 DEF BeginStarts, BeginConnect, Join, StartConnect, Pooled
  <2>3. Cardinality(Pooled) < MaxConnections
    BY <1>11, PooledFinite, FS_EmptySet, PoolAssumption DEF BeginStarts, Full
  <2> QED  BY <2>1, <2>2, <2>3, PooledFinite, PoolAssumption DEF RoomLeft, PoolTypeOK
<1>12. ASSUME NEW c \in Callers, NEW id \in Ids, BeginEvicts(c, id) PROVE RoomLeft'
  <2>1. /\ Creators' = Creators \cup {c}
        /\ overlapped' = (overlapped \/ Creators # {})
    BY <1>12 DEF BeginEvicts, BeginConnect, Join, StartConnect, Creators, PoolTypeOK
  <2>2. PICK old \in LeastRecent : Evict(c, old)
    BY <1>12 DEF BeginEvicts, BeginConnect, Join, StartConnect
  <2>3. old \in Pooled /\ Pooled' = Pooled \ {old}
    BY <2>2, PoolAssumption DEF Evict, LeastRecent, Pooled, PoolTypeOK
  <2>4. /\ Cardinality(Pooled') = Cardinality(Pooled) - 1
        /\ Cardinality(Pooled') \in Nat /\ Cardinality(Pooled) \in Nat
    <3>1. IsFiniteSet(Pooled) /\ Cardinality(Pooled) \in Nat
      BY PooledFinite
    <3>2. /\ IsFiniteSet(Pooled \ {old})
          /\ Cardinality(Pooled \ {old}) = Cardinality(Pooled) - 1
      BY <2>3, <3>1, FS_RemoveElement
    <3>3. Cardinality(Pooled \ {old}) \in Nat
      BY <3>2, FS_CardinalityType
    <3> QED  BY <2>3, <3>1, <3>2, <3>3
  <2>5. CASE overlapped \/ Creators # {}
    <3>1. overlapped'
      BY <2>1, <2>5
    <3> QED  BY <3>1 DEF RoomLeft
  <2>6. CASE ~overlapped /\ Creators = {}
    BY <2>1, <2>4, <2>6, PoolAssumption DEF RoomLeft
  <2> QED  BY <2>5, <2>6
<1>13. ASSUME NEW s \in Sweeps, AfterVisit(s) PROVE RoomLeft'
  BY <1>13, RoomKept
  DEF AfterVisit, Creators, callVars, poolHistory, Pooled
<1>14. ASSUME NEW s \in Sweeps, NEW id \in Ids, Visit(s, id) PROVE RoomLeft'
  <2>1. Pooled' \subseteq Pooled
    BY <1>14 DEF Visit, Evict, Pooled, PoolTypeOK
  <2> QED  BY <1>14, <2>1, RoomKept DEF Visit, Creators, callVars, poolHistory
<1>15. ASSUME NEW s \in Sweeps, NEW k \in {"reapIdle", "closeAll"}, StartSweep(s, k)
       PROVE  RoomLeft'
  BY <1>15, RoomKept
  DEF StartSweep, Creators, callVars, poolVars, poolHistory, Pooled
<1>16. CASE Advance
  BY <1>16, RoomKept
  DEF Advance, Creators, callVars, poolVars, poolHistory, Pooled
<1> QED
  BY <1>1, <1>2, <1>3, <1>4, <1>5, <1>6, <1>7, <1>8, <1>9, <1>10, <1>11, <1>12, <1>13,
     <1>14, <1>15, <1>16, PoolSteps

\* The inductive invariant.
PoolInv == KeptInv /\ RoomLeft

LEMMA PoolInvariant == PoolSpec => []PoolInv
<1>1. PoolInit => PoolInv
  <2> SUFFICES ASSUME PoolInit PROVE PoolInv
    OBVIOUS
  <2>1. PoolTypeOK
    <3>1. 0 \in 0 .. MaxClock
      BY PoolAssumption
    <3> QED  BY <3>1 DEF PoolInit, PoolTypeOK
  <2>2. Creators = {} /\ Pooled = {}
    BY DEF PoolInit, Creators, Pooled
  <2>3. KeptInv
    BY <2>1, <2>2, PoolAssumption
    DEF PoolInit, KeptInv, CallAt, EntryAt, ClosingAt, PlaceFree, NoLeak, Trying, Tried
  <2>4. Cardinality(Pooled) = 0
    BY <2>2, FS_EmptySet
  <2> QED  BY <2>2, <2>3, <2>4, PoolAssumption DEF PoolInv, RoomLeft
<1>2. PoolInv /\ [PoolNext]_(connectionVars) => PoolInv'
  <2> SUFFICES ASSUME PoolInv, [PoolNext]_(connectionVars) PROVE PoolInv'
    OBVIOUS
  <2>1. CASE PoolNext
    <3>1. KeptInv'
      BY <2>1, PoolSteps, CloseStaleKeeps, AfterLRUKeeps, ConnectedKeeps, ConnectFailsKeeps,
         AuditedKeeps, JoinedKeeps, ReleaseKeeps, HitKeeps, StaleKeeps, JoinsKeeps, StartsKeeps,
         EvictsKeeps, AfterVisitKeeps, VisitKeeps, StartSweepKeeps, PoolTickKeeps
      DEF PoolInv, KeptInv
    <3> QED  BY <2>1, <3>1, RoomStep DEF PoolInv
  <2>2. CASE UNCHANGED connectionVars
    BY <2>2
    DEF PoolInv, KeptInv, PoolTypeOK, CallAt, EntryAt, ClosingAt, PlaceFree, NoLeak,
        RoomLeft, Creators, Pooled, connectionVars, poolVars, callVars,
        sweepVars, poolHistory
  <2> QED  BY <2>1, <2>2
<1> QED  BY <1>1, <1>2, PTL DEF PoolSpec

(***************************************************************************)
(* What the pool hands out is open and belongs to the id it was asked for, *)
(* calls that share a connect get one connection, and the pool stays       *)
(* within its cap unless two ids were connected at a time: for every set   *)
(* of callers and sweeps of the idle reaper and closeAll.                  *)
(***************************************************************************)
THEOREM PooledConnectionsAreOpen == PoolSpec => []PooledIsOpen
<1>1. PoolInv => PooledIsOpen
  BY PoolAssumption
  DEF PoolInv, KeptInv, PooledIsOpen, SharedConnect, CapUnlessOverlap, RoomLeft,
      CallAt, EntryAt, Trying, Pooled, PoolTypeOK
<1> QED  BY <1>1, PoolInvariant, PTL

(***************************************************************************)
(* No connection is lost: one that is open is pooled or about to be        *)
(* disconnected, unless a stale entry's successor was replaced behind the  *)
(* back of the call that connected it.                                     *)
(***************************************************************************)
THEOREM ConnectionsAreKept == PoolSpec => []NoLeak
<1>1. PoolInv => NoLeak
  BY DEF PoolInv, KeptInv
<1> QED  BY <1>1, PoolInvariant, PTL

==============================================================================
