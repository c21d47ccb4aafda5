------------------------------ MODULE Migration ------------------------------
(***************************************************************************)
(* migration/orchestrator.ts and migration/state-store.ts: a migration is  *)
(* a run through five phases whose state is saved, HMAC-signed, after      *)
(* every transition, so that a restarted daemon resumes it.                *)
(*                                                                         *)
(* run() keeps its state object in memory and only ever writes the file;   *)
(* cancel() loads a copy of its own and saves that.  saveMigrationState is *)
(* a plain writeFile: it truncates, then writes, and two savers overlap.   *)
(* The delay phase goes through DelayContract.                             *)
(***************************************************************************)
EXTENDS Naturals

CONSTANTS Migs,            \* migration ids
          Delay, MaxTime,  \* as in DelayContract
          MaxCrashes,      \* bound: daemon crashes
          MaxCancels,      \* bound: calls of cancel() that found one in flight
          MaxFaults        \* bound: saves that fail

ASSUME MigrationAssumption ==
    /\ Delay \in Nat \ {0} /\ MaxTime \in Nat
    /\ MaxCrashes \in Nat /\ MaxCancels \in Nat /\ MaxFaults \in Nat

VARIABLES now, asked, promise, revoked,  \* the delay's contract
          file,       \* migrations/<id>.json
          mem,        \* the state object run() holds
          run,        \* where run() stands
          copy,       \* the state object cancel() loaded
          cancel,     \* where cancel() stands
          booted,     \* ids the start-up has still to resume
          approved,   \* history: the operator typed CONFIRM after the delay
          execs,      \* history: calls of the execute handler
          cancelled,  \* history: a cancel() in a phase before execute returned
          unsaved,    \* history: start() or run() rejected because a save failed
                      \* that nothing follows
          crashes, cancels, faults

delayVars == <<now, asked, promise, revoked>>
histories == <<approved, execs, cancelled, unsaved>>
bounds    == <<crashes, cancels, faults>>
vars == <<delayVars, file, mem, run, copy, cancel, booted, histories, bounds>>

D == INSTANCE DelayContract WITH Ids <- Migs

\* current_phase_index: 0 identify-resources, 1 plan-target, 2 dry-run,
\* 3 approval-delay, 4 execute, 5 past the end.
ApprovalDelay == 3
Execute == 4
Terminal == {"complete", "cancelled", "failed"}
States == [idx : 0..5, overall : {"in-flight"} \cup Terminal]
Fresh == [idx |-> 0, overall |-> "in-flight"]

\* A file that is absent, truncated or whose text does not parse.
NoState == {[idx |-> 0, overall |-> s] : s \in {"absent", "empty", "torn"}}
Blank(s) == [idx |-> 0, overall |-> s]
Unreadable(f) == f.overall \in {"empty", "torn"}
InFlight(s) == s.overall = "in-flight"

RunLabels == {"off", "create", "creating", "enter", "entering", "work", "delay",
              "prompt", "leave", "leaving", "fail", "failing"}
CancelLabels == {"off", "loaded", "save", "saving"}

TypeOK ==
    /\ D!ContractTypeOK
    /\ file \in [Migs -> States \cup NoState]
    /\ mem \in [Migs -> States]
    /\ run \in [Migs -> RunLabels]
    /\ copy \in [Migs -> States]
    /\ cancel \in [Migs -> CancelLabels]
    /\ booted \subseteq Migs
    /\ approved \in [Migs -> BOOLEAN]
    /\ execs \in [Migs -> Nat]
    /\ cancelled \in [Migs -> BOOLEAN]
    /\ unsaved \in [Migs -> BOOLEAN]
    /\ crashes \in 0..MaxCrashes
    /\ cancels \in 0..MaxCancels
    /\ faults \in 0..MaxFaults

Init ==
    /\ D!ContractInit
    /\ file = [m \in Migs |-> Blank("absent")]
    /\ mem = [m \in Migs |-> Fresh]
    /\ run = [m \in Migs |-> "off"]
    /\ copy = [m \in Migs |-> Fresh]
    /\ cancel = [m \in Migs |-> "off"]
    /\ booted = {}
    /\ approved = [m \in Migs |-> FALSE]
    /\ execs = [m \in Migs |-> 0]
    /\ cancelled = [m \in Migs |-> FALSE]
    /\ unsaved = [m \in Migs |-> FALSE]
    /\ crashes = 0
    /\ cancels = 0
    /\ faults = 0

RunAt(m, l) == run[m] = l
RunTo(m, l) == run' = [run EXCEPT ![m] = l]
CancelAt(m, l) == cancel[m] = l
CancelTo(m, l) == cancel' = [cancel EXCEPT ![m] = l]

\* saveMigrationState.  A text written over another's may leave its tail.
Truncate(m) == file' = [file EXCEPT ![m] = Blank("empty")]
Write(m, s) ==
    \E f \in (IF file[m] = Blank("empty") THEN {s} ELSE {s, Blank("torn")}) :
        file' = [file EXCEPT ![m] = f]

\* A save that fails leaves the file as it is, or part of its own text in it.
SaveFails(m) ==
    /\ faults < MaxFaults
    /\ faults' = faults + 1
    /\ \E f \in {file[m], Blank("torn")} : file' = [file EXCEPT ![m] = f]

-----------------------------------------------------------------------------
(***************************************************************************)
(* start() and the start-up's resume().  resume() of a state that is not   *)
(* in flight returns; one unreadable file stops the listing of all.        *)
(***************************************************************************)
Start(m) ==
    /\ file[m] = Blank("absent")
    /\ RunAt(m, "off")
    /\ mem' = [mem EXCEPT ![m] = Fresh]
    /\ RunTo(m, "create")
    /\ booted' = booted \ {m}
    /\ UNCHANGED <<delayVars, file, copy, cancel, histories, bounds>>

Resume(m) ==
    /\ m \in booted
    /\ file[m] # Blank("absent")
    /\ \A n \in Migs : ~Unreadable(file[n])
    /\ booted' = booted \ {m}
    /\ IF InFlight(file[m])
       THEN mem' = [mem EXCEPT ![m] = file[m]] /\ RunTo(m, "enter")
       ELSE UNCHANGED <<mem, run>>
    /\ UNCHANGED <<delayVars, file, copy, cancel, histories, bounds>>

(***************************************************************************)
(* run(): the two halves of each save, and where the loop goes after it.   *)
(***************************************************************************)
Halves == [create |-> "creating", enter |-> "entering",
           leave |-> "leaving", fail |-> "failing"]

RunTruncates(m) ==
    /\ run[m] \in DOMAIN Halves
    /\ Truncate(m)
    /\ RunTo(m, Halves[run[m]])
    /\ UNCHANGED <<delayVars, mem, copy, cancel, booted, histories, bounds>>

AfterSave(m) == IF RunAt(m, "entering") THEN "work"
                ELSE IF InFlight(mem[m]) THEN "enter" ELSE "off"

RunWrites(m) ==
    /\ run[m] \in {"creating", "entering", "leaving", "failing"}
    /\ Write(m, mem[m])
    /\ RunTo(m, AfterSave(m))
    /\ UNCHANGED <<delayVars, mem, copy, cancel, booted, histories, bounds>>

\* The catch of run(): the phase and the migration have failed.
FailedStateKept(s) == s                     \* a bug: the loop tries again for ever
FailedState(s) == [s EXCEPT !.overall = "failed"]

Throw(m) ==
    /\ mem' = [mem EXCEPT ![m] = FailedState(@)]
    /\ RunTo(m, "fail")

\* The save before or after the work of a phase throws into the catch of
\* run(); behind those of start() and of the catch itself there is nothing.
Guarded == {"enter", "entering", "leave", "leaving"}
RunSaveFails(m) ==
    /\ run[m] \in Guarded \cup {"create", "creating", "fail", "failing"}
    /\ SaveFails(m)
    /\ IF run[m] \in Guarded
       THEN Throw(m) /\ UNCHANGED unsaved
       ELSE RunTo(m, "off") /\ unsaved' = [unsaved EXCEPT ![m] = TRUE] /\ UNCHANGED mem
    /\ UNCHANGED <<delayVars, copy, cancel, booted, approved, execs, cancelled, crashes, cancels>>

\* runPhase after its work: the next index, and complete after execute.
\* (The loop's own exit past the last phase is dead: execute completes first.)
NextIdx(s) == s.idx + 1

FinishedEarly(s) ==                         \* a bug: complete one phase too soon
    [idx |-> NextIdx(s),
     overall |-> IF s.idx = ApprovalDelay THEN "complete" ELSE s.overall]
Finished(s) == [idx |-> NextIdx(s),
                overall |-> IF s.idx = Execute THEN "complete" ELSE s.overall]

PhaseDone(m) ==
    /\ mem' = [mem EXCEPT ![m] = Finished(@)]
    /\ RunTo(m, "leave")

HandlerReturns(m) ==
    /\ RunAt(m, "work")
    /\ mem[m].idx < ApprovalDelay
    /\ PhaseDone(m)
    /\ UNCHANGED <<delayVars, file, copy, cancel, booted, histories, bounds>>

\* A handler throws, or verifyBackup does at the start of the delay phase.
HandlerThrows(m) ==
    /\ RunAt(m, "work")
    /\ mem[m].idx # Execute
    /\ Throw(m)
    /\ UNCHANGED <<delayVars, file, copy, cancel, booted, histories, bounds>>

CallExecute(m, ok) ==
    /\ RunAt(m, "work")
    /\ mem[m].idx = Execute
    /\ execs' = [execs EXCEPT ![m] = @ + 1]
    /\ IF ok THEN PhaseDone(m) ELSE Throw(m)
    /\ UNCHANGED <<delayVars, file, copy, cancel, booted, approved, cancelled, unsaved, bounds>>

-----------------------------------------------------------------------------
(***************************************************************************)
(* The approval-delay phase: backup verified, delay asked for, awaited,    *)
(* then the typed CONFIRM with its time-out.                               *)
(***************************************************************************)
RequestDelay(m) ==
    /\ RunAt(m, "work")
    /\ mem[m].idx = ApprovalDelay
    /\ D!Ask(m)
    /\ RunTo(m, "delay")
    /\ UNCHANGED <<file, mem, copy, cancel, booted, histories, bounds>>

StartWaiting(m) ==
    /\ RunAt(m, "delay")
    /\ D!Wait(m)
    /\ UNCHANGED <<file, mem, run, copy, cancel, booted, histories, bounds>>

DelayElapsed(m) ==
    /\ RunAt(m, "delay")
    /\ D!Resolve(m)
    /\ RunTo(m, "prompt")
    /\ UNCHANGED <<file, mem, copy, cancel, booted, histories, bounds>>

DelayRejected(m) ==
    /\ RunAt(m, "delay")
    /\ promise[m] = "rejected"
    /\ Throw(m)
    /\ UNCHANGED <<delayVars, file, copy, cancel, booted, histories, bounds>>

ConfirmedOr(isConfirm) == TRUE              \* a bug: the answer is not looked at
Confirmed(isConfirm) == isConfirm

\* FALSE stands for another word and for the time-out of the prompt.
Answer(m, isConfirm) ==
    /\ RunAt(m, "prompt")
    /\ IF Confirmed(isConfirm) THEN PhaseDone(m) ELSE Throw(m)
    /\ approved' = IF isConfirm THEN [approved EXCEPT ![m] = TRUE] ELSE approved
    /\ UNCHANGED <<delayVars, file, copy, cancel, booted, execs, cancelled, unsaved, bounds>>

-----------------------------------------------------------------------------
(***************************************************************************)
(* cancel(): load a copy, cancel the delay if there is one, save the copy. *)
(***************************************************************************)
CancelLoads(m) ==
    /\ cancels < MaxCancels
    /\ CancelAt(m, "off")
    /\ InFlight(file[m])
    /\ copy' = [copy EXCEPT ![m] = file[m]]
    /\ CancelTo(m, "loaded")
    /\ cancels' = cancels + 1
    /\ UNCHANGED <<delayVars, file, mem, run, booted, histories, crashes, faults>>

\* A waiting promise is rejected, unless its timer has already gone off.
CancelDelay(m) ==
    /\ CancelAt(m, "loaded")
    /\ CancelTo(m, "save")
    /\ copy' = [copy EXCEPT ![m].overall = "cancelled"]
    /\ \/ promise[m] = "waiting" /\ promise' = [promise EXCEPT ![m] = "rejected"]
          /\ D!Revoke(m)
       \/ (promise[m] # "waiting" \/ D!Due(m)) /\ UNCHANGED delayVars
    /\ UNCHANGED <<file, mem, run, booted, histories, bounds>>

CancelTruncates(m) ==
    /\ CancelAt(m, "save")
    /\ Truncate(m)
    /\ CancelTo(m, "saving")
    /\ UNCHANGED <<delayVars, mem, run, copy, booted, histories, bounds>>

CancelWrites(m) ==
    /\ CancelAt(m, "saving")
    /\ Write(m, copy[m])
    /\ CancelTo(m, "off")
    /\ cancelled' = IF copy[m].idx < Execute THEN [cancelled EXCEPT ![m] = TRUE]
                                             ELSE cancelled
    /\ UNCHANGED <<delayVars, mem, run, copy, booted, approved, execs, unsaved, bounds>>

\* cancel() rejects; its copy and what it did to the delay are left behind.
CancelSaveFails(m) ==
    /\ cancel[m] \in {"save", "saving"}
    /\ SaveFails(m)
    /\ CancelTo(m, "off")
    /\ UNCHANGED <<delayVars, mem, run, copy, booted, histories, crashes, cancels>>

-----------------------------------------------------------------------------
Crash ==
    /\ crashes < MaxCrashes
    /\ crashes' = crashes + 1
    /\ D!Lose
    /\ run' = [m \in Migs |-> "off"]
    /\ cancel' = [m \in Migs |-> "off"]
    /\ booted' = Migs
    /\ UNCHANGED <<file, mem, copy, histories, cancels, faults>>

Tick ==
    /\ D!Elapse
    /\ UNCHANGED <<file, mem, run, copy, cancel, booted, histories, bounds>>

RunStep(m) ==
    \/ Resume(m) \/ RunTruncates(m) \/ RunWrites(m) \/ RunSaveFails(m)
    \/ HandlerReturns(m) \/ HandlerThrows(m) \/ \E ok \in BOOLEAN : CallExecute(m, ok)
    \/ RequestDelay(m) \/ StartWaiting(m) \/ DelayElapsed(m) \/ DelayRejected(m)
    \/ \E isConfirm \in BOOLEAN : Answer(m, isConfirm)

CancelStep(m) == CancelDelay(m) \/ CancelTruncates(m) \/ CancelWrites(m) \/ CancelSaveFails(m)

Next ==
    \/ \E m \in Migs : RunStep(m) \/ CancelStep(m) \/ Start(m) \/ CancelLoads(m)
    \/ Crash
    \/ Tick

Spec == Init /\ [][Next]_vars

\* Handlers return or throw, the prompt is answered or times out, the clock
\* advances.  The delay resolves as DelayedAction!CallersHearUndisturbed shows for a
\* daemon that does not restart; no other life is claimed to be fair.
FairSpec ==
    /\ Spec
    /\ WF_vars(Tick)
    /\ \A m \in Migs : WF_vars(RunStep(m)) /\ WF_vars(CancelStep(m))

-----------------------------------------------------------------------------
(***************************************************************************)
(* The execute phase is reached, in memory or in the file a restart will   *)
(* resume from, only after the whole delay and the operator's CONFIRM.     *)
(***************************************************************************)
ReadyFor(m) == approved[m] /\ now >= asked[m] + Delay
ExecuteIsApproved ==
    \A m \in Migs :
        /\ mem[m].idx >= Execute => ReadyFor(m)
        /\ file[m].idx >= Execute => ReadyFor(m)
        /\ execs[m] > 0 => ReadyFor(m)

(***************************************************************************)
(* The handler runs at most once per life of the daemon, and a migration   *)
(* is reported complete only if it ran.                                    *)
(***************************************************************************)
ExecutionsCounted ==
    \A m \in Migs : /\ execs[m] <= 1 + crashes
                    /\ file[m].overall = "complete" => execs[m] > 0

(***************************************************************************)
(* The call of start() or resume() ends for a migration nobody cancels,    *)
(* and when it does the file says how, unless the daemon crashes or the    *)
(* delay ends after the bounded clock.  A save that fails before or after  *)
(* a phase is no excuse: run() has the failure itself to save.  One that   *)
(* fails in start() or in the catch of run() is, and leaves the migration  *)
(* as the file has it: in flight, unreadable or absent.                    *)
(***************************************************************************)
Disturbed == crashes > 0 \/ cancels > 0
OutlivesClock(m) == asked[m] # D!Never /\ asked[m] + Delay > MaxTime
Ended(m) == RunAt(m, "off") /\ (file[m].overall \in Terminal \/ unsaved[m])
Settles ==
    \A m \in Migs : ~RunAt(m, "off") ~> Ended(m) \/ OutlivesClock(m) \/ Disturbed

(***************************************************************************)
(* What SPEC-002-2-04 and tests/integration/test-migration-flow.test.ts    *)
(* say: cancelled during the delay phase, a migration is aborted and       *)
(* execute is never called.  It is violated: run() never re-reads the      *)
(* file that cancel() writes (orchestrator.ts line 67).                    *)
(***************************************************************************)
CancelledNeverExecutes ==
    [][\A m \in Migs : cancelled[m] => execs'[m] = execs[m]]_vars
=============================================================================
