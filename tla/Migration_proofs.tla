-------------------------- MODULE Migration_proofs --------------------------
(***************************************************************************)
(* Theorems about Migration, for every set of migrations, every delay and  *)
(* every number of crashes, cancels and failed saves.                      *)
(***************************************************************************)
EXTENDS Migration, TLAPS

\* What carries an index past the delay phase has been approved and waited for.
Cleared(m, s) == s.idx >= Execute => ReadyFor(m)

ClearedAt(m) ==
    /\ Cleared(m, mem[m])
    /\ Cleared(m, file[m])
    /\ Cleared(m, copy[m])
    /\ asked[m] = D!Never \/ asked[m] <= now
    /\ RunAt(m, "prompt") => mem[m].idx = ApprovalDelay /\ now >= asked[m] + Delay
    /\ RunAt(m, "delay") => mem[m].idx = ApprovalDelay
    /\ execs[m] > 0 => ReadyFor(m)

IInv == TypeOK /\ \A m \in Migs : ClearedAt(m)

-----------------------------------------------------------------------------
\* The steps of the delay contract keep its types.
LEMMA ContractTypes ==
    ASSUME D!ContractTypeOK, NEW m \in Migs,
           \/ UNCHANGED delayVars
           \/ D!Ask(m) \/ D!Wait(m) \/ D!Resolve(m) \/ D!Revoke(m) \/ D!Lose \/ D!Elapse
    PROVE  D!ContractTypeOK'
<1> USE MigrationAssumption DEF D!ContractTypeOK
<1>1. CASE UNCHANGED delayVars
  BY <1>1 DEF delayVars
<1>2. CASE D!Ask(m)
  BY <1>2 DEF D!Ask
<1>3. CASE D!Wait(m)
  BY <1>3 DEF D!Wait
<1>4. CASE D!Resolve(m)
  BY <1>4 DEF D!Resolve
<1>5. CASE D!Revoke(m)
  BY <1>5 DEF D!Revoke
<1>6. CASE D!Lose
  BY <1>6 DEF D!Lose
<1>7. CASE D!Elapse
  BY <1>7 DEF D!Elapse
<1> QED
  BY <1>1, <1>2, <1>3, <1>4, <1>5, <1>6, <1>7

\* What a save leaves in the file: the saved state, or nothing readable.
LEMMA SaveType ==
    ASSUME TypeOK, NEW m \in Migs,
           Truncate(m) \/ (\E s \in States : s \in {mem[m], copy[m]} /\ Write(m, s))
    PROVE  /\ file' \in [Migs -> States \cup NoState]
           /\ \A j \in Migs : \/ file'[j] = file[j]
                              \/ file'[j] \in {mem[j], copy[j]}
                              \/ file'[j].idx = 0
<1>1. ASSUME NEW s \in {"empty", "torn"} PROVE Blank(s) \in NoState /\ Blank(s).idx = 0
  BY DEF Blank, NoState
<1>2. CASE Truncate(m)
  BY <1>1, <1>2 DEF Truncate, TypeOK
<1>3. CASE \E s \in States : s \in {mem[m], copy[m]} /\ Write(m, s)
  <2>1. PICK s \in States : s \in {mem[m], copy[m]} /\ Write(m, s)
    BY <1>3
  <2>2. PICK f \in {s, Blank("torn")} : file' = [file EXCEPT ![m] = f]
    BY <2>1 DEF Write
  <2> QED
    BY <1>1, <2>1, <2>2 DEF TypeOK
<1> QED
  BY <1>2, <1>3

\* Time, approvals and the first request only move towards readiness.
LEMMA ReadyStays ==
    ASSUME IInv, NEW j \in Migs, ReadyFor(j),
           now' \in Nat, now' >= now,
           asked'[j] = asked[j] \/ (asked[j] = D!Never /\ asked'[j] \in Nat /\ asked'[j] <= now),
           approved'[j] = approved[j] \/ approved'[j] = TRUE
    PROVE  ReadyFor(j)'
<1>1. approved'[j]
  BY DEF ReadyFor
<1>2. now \in Nat /\ now <= MaxTime /\ asked[j] \in Nat /\ now >= asked[j] + Delay
  BY MigrationAssumption DEF ReadyFor, IInv, TypeOK, D!ContractTypeOK
<1>3. now' >= asked'[j] + Delay
  BY <1>2, MigrationAssumption DEF D!Never
<1> QED
  BY <1>1, <1>3 DEF ReadyFor

\* A step that leaves time, requests, approvals and executions alone keeps
\* ClearedAt if what it stores was cleared and it enters neither the prompt
\* nor the delay.
LEMMA QuietStep ==
    ASSUME IInv, NEW j \in Migs,
           now' = now, asked' = asked, approved' = approved, execs' = execs,
           Cleared(j, mem'[j]), Cleared(j, file'[j]), Cleared(j, copy'[j]),
           \/ run'[j] = run[j] /\ mem'[j] = mem[j]
           \/ run'[j] \notin {"prompt", "delay"}
    PROVE  ClearedAt(j)'
<1>1. ClearedAt(j)
  BY DEF IInv
<1>2. ReadyFor(j)' = ReadyFor(j)
  BY DEF ReadyFor
<1> QED
  BY <1>1, <1>2 DEF ClearedAt, Cleared, RunAt, D!Never

\* The states that steps build from cleared ones.
LEMMA FreshIsCleared == ASSUME NEW j \in Migs PROVE Fresh \in States /\ Cleared(j, Fresh)
BY DEF Fresh, States, Terminal, Cleared, Execute

LEMMA SavedIsCleared ==
    ASSUME IInv, NEW j \in Migs, NEW f,
           f = file[j] \/ f \in {mem[j], copy[j]} \/ f.idx = 0
    PROVE  Cleared(j, f)
BY DEF IInv, ClearedAt, Cleared, Execute

LEMMA FailedIsCleared ==
    ASSUME IInv, NEW j \in Migs, NEW s \in States, Cleared(j, s)
    PROVE  FailedState(s) \in States /\ Cleared(j, FailedState(s))
BY DEF FailedState, States, Terminal, Cleared

LEMMA FinishedType ==
    ASSUME NEW s \in States, s.idx <= Execute
    PROVE  Finished(s) \in States /\ Finished(s).idx = s.idx + 1
BY DEF Finished, NextIdx, States, Terminal, Execute
-----------------------------------------------------------------------------
(***************************************************************************)
(* One lemma per action: types first, then ClearedAt for every migration.  *)
(***************************************************************************)
LEMMA StartStep == ASSUME IInv, NEW m \in Migs, Start(m) PROVE IInv'
<1> USE DEF Start, RunTo
<1>1. D!ContractTypeOK'
  BY ContractTypes DEF IInv, TypeOK
<1>2. TypeOK'
  BY <1>1, FreshIsCleared DEF IInv, TypeOK, RunLabels, histories, bounds
<1>3. ASSUME NEW j \in Migs PROVE ClearedAt(j)'
  <2>1. now' = now /\ asked' = asked /\ approved' = approved /\ execs' = execs
    BY DEF delayVars, histories
  <2>2. mem'[j] \in {mem[j], Fresh} /\ file'[j] = file[j] /\ copy'[j] = copy[j]
    BY DEF IInv, TypeOK
  <2>3. \/ run'[j] = run[j] /\ mem'[j] = mem[j]
        \/ run'[j] \notin {"prompt", "delay"}
    BY DEF IInv, TypeOK
  <2>4. Cleared(j, mem'[j]) /\ Cleared(j, file'[j]) /\ Cleared(j, copy'[j])
    BY <2>2, FreshIsCleared, SavedIsCleared
  <2> QED
    BY <2>1, <2>3, <2>4, QuietStep
<1> QED
  BY <1>2, <1>3 DEF IInv

LEMMA ResumeStep == ASSUME IInv, NEW m \in Migs, Resume(m) PROVE IInv'
<1> USE DEF Resume, RunTo
<1>1. D!ContractTypeOK'
  BY ContractTypes DEF IInv, TypeOK
<1>2. InFlight(file[m]) => file[m] \in States
  BY DEF IInv, TypeOK, InFlight, NoState
<1>3. mem' \in [Migs -> States] /\ run' \in [Migs -> RunLabels]
  BY <1>2 DEF IInv, TypeOK, RunLabels
<1>4. TypeOK'
  BY <1>1, <1>3 DEF IInv, TypeOK, histories, bounds
<1>5. ASSUME NEW j \in Migs PROVE ClearedAt(j)'
  <2>1. now' = now /\ asked' = asked /\ approved' = approved /\ execs' = execs
    BY DEF delayVars, histories
  <2>2. mem'[j] \in {mem[j], file[j]} /\ file'[j] = file[j] /\ copy'[j] = copy[j]
    BY DEF IInv, TypeOK
  <2>3. \/ run'[j] = run[j] /\ mem'[j] = mem[j]
        \/ run'[j] \notin {"prompt", "delay"}
    BY DEF IInv, TypeOK
  <2>4. Cleared(j, mem'[j]) /\ Cleared(j, file'[j]) /\ Cleared(j, copy'[j])
    BY <2>2, SavedIsCleared
  <2> QED
    BY <2>1, <2>3, <2>4, QuietStep
<1> QED
  BY <1>4, <1>5 DEF IInv

\* The two halves of a save, by run() or by cancel().
LEMMA SaveStep ==
    ASSUME IInv, NEW m \in Migs,
           RunTruncates(m) \/ RunWrites(m) \/ CancelTruncates(m) \/ CancelWrites(m)
    PROVE  IInv'
<1>1. D!ContractTypeOK'
  BY ContractTypes
     DEF IInv, TypeOK, RunTruncates, RunWrites, CancelTruncates, CancelWrites
<1>2. mem[m] \in States /\ copy[m] \in States
  BY DEF IInv, TypeOK
<1>3. Truncate(m) \/ (\E s \in States : s \in {mem[m], copy[m]} /\ Write(m, s))
  BY <1>2 DEF RunTruncates, RunWrites, CancelTruncates, CancelWrites
<1>4. /\ file' \in [Migs -> States \cup NoState]
      /\ \A j \in Migs : \/ file'[j] = file[j]
                         \/ file'[j] \in {mem[j], copy[j]}
                         \/ file'[j].idx = 0
  BY <1>3, SaveType DEF IInv
<1>5. /\ now' = now /\ asked' = asked /\ approved' = approved /\ execs' = execs
      /\ mem' = mem /\ copy' = copy /\ booted' = booted
      /\ crashes' = crashes /\ cancels' = cancels /\ unsaved' = unsaved /\ faults' = faults
  BY DEF RunTruncates, RunWrites, CancelTruncates, CancelWrites, delayVars, histories, bounds
<1>6. /\ run' \in [Migs -> RunLabels]
      /\ \A j \in Migs : run'[j] = run[j] \/ run'[j] \notin {"prompt", "delay"}
  <2>1. CASE RunTruncates(m)
    <3>1. Halves[run[m]] \in {"creating", "entering", "leaving", "failing"}
      BY <2>1 DEF RunTruncates, Halves
    <3> QED
      BY <2>1, <3>1 DEF RunTruncates, RunTo, IInv, TypeOK, RunLabels
  <2>2. CASE RunWrites(m)
    <3>1. AfterSave(m) \in {"work", "enter", "off"}
      BY DEF AfterSave
    <3> QED
      BY <2>2, <3>1 DEF RunWrites, RunTo, IInv, TypeOK, RunLabels
  <2>3. CASE CancelTruncates(m) \/ CancelWrites(m)
    BY <2>3 DEF CancelTruncates, CancelWrites, IInv, TypeOK
  <2> QED
    BY <2>1, <2>2, <2>3
<1>7. cancel' \in [Migs -> CancelLabels] /\ cancelled' \in [Migs -> BOOLEAN]
  BY DEF RunTruncates, RunWrites, CancelTruncates, CancelWrites, CancelTo,
         IInv, TypeOK, CancelLabels, histories
<1>8. TypeOK'
  BY <1>1, <1>4, <1>5, <1>6, <1>7 DEF IInv, TypeOK
<1>9. ASSUME NEW j \in Migs PROVE ClearedAt(j)'
  <2>1. Cleared(j, mem'[j]) /\ Cleared(j, file'[j]) /\ Cleared(j, copy'[j])
    BY <1>4, <1>5, SavedIsCleared
  <2> QED
    BY <1>5, <1>6, <2>1, QuietStep
<1> QED
  BY <1>8, <1>9 DEF IInv

\* A save that fails, of run() or of cancel(): what is left in the file.
LEMMA FailedSaveType ==
    ASSUME TypeOK, NEW m \in Migs, SaveFails(m)
    PROVE  /\ file' \in [Migs -> States \cup NoState]
           /\ faults' \in 0..MaxFaults
           /\ \A j \in Migs : j # m => file'[j] = file[j]
           /\ file'[m] = file[m] \/ file'[m] = Blank("torn")
<1>1. Blank("torn") \in NoState
  BY DEF Blank, NoState
<1>2. PICK f \in {file[m], Blank("torn")} : file' = [file EXCEPT ![m] = f]
  BY DEF SaveFails
<1>3. faults' \in 0..MaxFaults
  BY MigrationAssumption DEF SaveFails, TypeOK
<1> QED
  BY <1>1, <1>2, <1>3 DEF TypeOK

\* What a failed save of run() does to its memory: the catch fails the
\* migration, or the call itself rejects.
LEMMA FailedSaveRuns ==
    ASSUME IInv, NEW m \in Migs, RunSaveFails(m)
    PROVE  /\ \A j \in Migs : j # m => mem'[j] = mem[j] /\ run'[j] = run[j]
           /\ mem'[m] \in {mem[m], FailedState(mem[m])}
           /\ \/ run[m] \in Guarded /\ run'[m] = "fail" /\ mem'[m] = FailedState(mem[m])
              \/ run[m] \notin Guarded /\ run'[m] = "off" /\ mem'[m] = mem[m]
           /\ mem' \in [Migs -> States] /\ run' \in [Migs -> RunLabels]
           /\ unsaved' \in [Migs -> BOOLEAN]
<1>1. mem[m] \in States /\ FailedState(mem[m]) \in States
  BY DEF IInv, TypeOK, FailedState, States, Terminal
<1>2. CASE run[m] \in Guarded
  <2>1. /\ mem' = [mem EXCEPT ![m] = FailedState(mem[m])]
        /\ run' = [run EXCEPT ![m] = "fail"] /\ unsaved' = unsaved
    BY <1>2 DEF RunSaveFails, Throw, RunTo
  <2> QED
    BY <1>1, <1>2, <2>1 DEF IInv, TypeOK, RunLabels
<1>3. CASE run[m] \notin Guarded
  <2>1. /\ mem' = mem /\ run' = [run EXCEPT ![m] = "off"]
        /\ unsaved' = [unsaved EXCEPT ![m] = TRUE]
    BY <1>3 DEF RunSaveFails, RunTo
  <2> QED
    BY <1>1, <1>3, <2>1 DEF IInv, TypeOK, RunLabels
<1> QED
  BY <1>2, <1>3

LEMMA SaveFailsStep ==
    ASSUME IInv, NEW m \in Migs, RunSaveFails(m) \/ CancelSaveFails(m)
    PROVE  IInv'
<1>1. /\ UNCHANGED delayVars /\ copy' = copy /\ booted' = booted
      /\ approved' = approved /\ execs' = execs /\ cancelled' = cancelled
      /\ crashes' = crashes /\ cancels' = cancels /\ SaveFails(m)
  BY DEF RunSaveFails, CancelSaveFails, histories
<1>2. D!ContractTypeOK'
  BY <1>1, ContractTypes DEF IInv, TypeOK
<1>3. /\ file' \in [Migs -> States \cup NoState]
      /\ faults' \in 0..MaxFaults
      /\ \A j \in Migs : j # m => file'[j] = file[j]
      /\ file'[m] = file[m] \/ file'[m] = Blank("torn")
  BY <1>1, FailedSaveType DEF IInv
<1>4. /\ mem' \in [Migs -> States] /\ run' \in [Migs -> RunLabels]
      /\ unsaved' \in [Migs -> BOOLEAN] /\ cancel' \in [Migs -> CancelLabels]
  <2>1. CASE RunSaveFails(m)
    BY <2>1, FailedSaveRuns DEF RunSaveFails, IInv, TypeOK
  <2>2. CASE CancelSaveFails(m)
    BY <2>2 DEF CancelSaveFails, CancelTo, histories, IInv, TypeOK, CancelLabels
  <2> QED
    BY <2>1, <2>2
<1>5. TypeOK'
  BY <1>1, <1>2, <1>3, <1>4 DEF IInv, TypeOK
<1>6. ASSUME NEW j \in Migs PROVE ClearedAt(j)'
  <2>1. now' = now /\ asked' = asked
    BY <1>1 DEF delayVars
  <2>2. Cleared(j, file'[j]) /\ Cleared(j, copy'[j]) /\ Cleared(j, mem[j])
    BY <1>1, <1>3, SavedIsCleared DEF Blank
  <2>3. mem[j] \in States /\ Cleared(j, FailedState(mem[j]))
    BY <2>2, FailedIsCleared DEF IInv, TypeOK
  <2>4. /\ mem'[j] \in {mem[j], FailedState(mem[j])}
        /\ \/ run'[j] = run[j] /\ mem'[j] = mem[j]
           \/ run'[j] \notin {"prompt", "delay"}
    <3>1. CASE RunSaveFails(m)
      BY <3>1, FailedSaveRuns
    <3>2. CASE CancelSaveFails(m)
      BY <3>2 DEF CancelSaveFails
    <3> QED
      BY <3>1, <3>2
  <2>5. Cleared(j, mem'[j])
    BY <2>2, <2>3, <2>4
  <2> QED
    BY <1>1, <2>1, <2>2, <2>4, <2>5, QuietStep
<1> QED
  BY <1>5, <1>6 DEF IInv

LEMMA HandlerReturnsStep == ASSUME IInv, NEW m \in Migs, HandlerReturns(m) PROVE IInv'
<1> USE DEF HandlerReturns, PhaseDone, RunTo
<1>1. D!ContractTypeOK'
  BY ContractTypes DEF IInv, TypeOK
<1>2. mem[m] \in States /\ mem[m].idx <= Execute /\ mem[m].idx + 1 < Execute
  BY DEF IInv, TypeOK, States, Execute, ApprovalDelay
<1>3. Finished(mem[m]) \in States /\ Finished(mem[m]).idx < Execute
  BY <1>2, FinishedType
<1>4. mem' \in [Migs -> States] /\ run' \in [Migs -> RunLabels]
  BY <1>3 DEF IInv, TypeOK, RunLabels
<1>5. TypeOK'
  BY <1>1, <1>4 DEF IInv, TypeOK, histories, bounds
<1>6. ASSUME NEW j \in Migs PROVE ClearedAt(j)'
  <2>1. now' = now /\ asked' = asked /\ approved' = approved /\ execs' = execs
    BY DEF delayVars, histories
  <2>2. mem'[j] \in {mem[j], Finished(mem[m])} /\ file'[j] = file[j] /\ copy'[j] = copy[j]
    BY DEF IInv, TypeOK
  <2>3. \/ run'[j] = run[j] /\ mem'[j] = mem[j]
        \/ run'[j] \notin {"prompt", "delay"}
    BY DEF IInv, TypeOK
  <2>4. Cleared(j, Finished(mem[m]))
    BY <1>3 DEF Cleared, Execute, States
  <2>5. Cleared(j, mem'[j]) /\ Cleared(j, file'[j]) /\ Cleared(j, copy'[j])
    BY <2>2, <2>4, SavedIsCleared
  <2> QED
    BY <2>1, <2>3, <2>5, QuietStep
<1> QED
  BY <1>5, <1>6 DEF IInv

\* run() fails: its handler threw, or the delay was rejected.
LEMMA ThrowStep ==
    ASSUME IInv, NEW m \in Migs, HandlerThrows(m) \/ DelayRejected(m)
    PROVE  IInv'
<1>1. D!ContractTypeOK'
  BY ContractTypes DEF IInv, TypeOK, HandlerThrows, DelayRejected
<1>2. /\ now' = now /\ asked' = asked /\ approved' = approved /\ execs' = execs
      /\ file' = file /\ copy' = copy /\ booted' = booted /\ cancel' = cancel
      /\ cancelled' = cancelled /\ crashes' = crashes /\ cancels' = cancels
      /\ unsaved' = unsaved /\ faults' = faults
      /\ mem' = [mem EXCEPT ![m] = FailedState(@)]
      /\ run' = [run EXCEPT ![m] = "fail"]
  BY DEF HandlerThrows, DelayRejected, Throw, RunTo, delayVars, histories, bounds
<1>3. mem[m] \in States /\ Cleared(m, mem[m])
  BY DEF IInv, TypeOK, ClearedAt
<1>4. FailedState(mem[m]) \in States /\ Cleared(m, FailedState(mem[m]))
  BY <1>3, FailedIsCleared
<1>5. mem' \in [Migs -> States] /\ run' \in [Migs -> RunLabels]
  BY <1>2, <1>4 DEF IInv, TypeOK, RunLabels
<1>6. TypeOK'
  BY <1>1, <1>2, <1>5 DEF IInv, TypeOK
<1>7. ASSUME NEW j \in Migs PROVE ClearedAt(j)'
  <2>1. /\ j = m => mem'[j] = FailedState(mem[m])
        /\ j # m => mem'[j] = mem[j]
    BY <1>2 DEF IInv, TypeOK
  <2>2. \/ run'[j] = run[j] /\ mem'[j] = mem[j]
        \/ run'[j] \notin {"prompt", "delay"}
    BY <1>2 DEF IInv, TypeOK
  <2>3. Cleared(j, mem'[j]) /\ Cleared(j, file'[j]) /\ Cleared(j, copy'[j])
    BY <1>2, <1>4, <2>1, SavedIsCleared
  <2> QED
    BY <1>2, <2>2, <2>3, QuietStep
<1> QED
  BY <1>6, <1>7 DEF IInv

LEMMA StartWaitingStep == ASSUME IInv, NEW m \in Migs, StartWaiting(m) PROVE IInv'
<1>1. D!ContractTypeOK'
  BY ContractTypes DEF IInv, TypeOK, StartWaiting
<1>2. /\ now' = now /\ asked' = asked /\ approved' = approved /\ execs' = execs
      /\ file' = file /\ copy' = copy /\ booted' = booted /\ cancel' = cancel
      /\ cancelled' = cancelled /\ crashes' = crashes /\ cancels' = cancels
      /\ unsaved' = unsaved /\ faults' = faults
      /\ mem' = mem /\ run' = run
  BY DEF StartWaiting, D!Wait, histories, bounds
<1>3. TypeOK'
  BY <1>1, <1>2 DEF IInv, TypeOK
<1>4. ASSUME NEW j \in Migs PROVE ClearedAt(j)'
  <2>1. Cleared(j, mem'[j]) /\ Cleared(j, file'[j]) /\ Cleared(j, copy'[j])
    BY <1>2, SavedIsCleared
  <2> QED
    BY <1>2, <2>1, QuietStep
<1> QED
  BY <1>3, <1>4 DEF IInv

LEMMA CancelLoadsStep == ASSUME IInv, NEW m \in Migs, CancelLoads(m) PROVE IInv'
<1> USE DEF CancelLoads, CancelTo
<1>1. D!ContractTypeOK'
  BY ContractTypes DEF IInv, TypeOK
<1>2. file[m] \in States
  BY DEF IInv, TypeOK, InFlight, NoState
<1>3. copy' \in [Migs -> States] /\ cancel' \in [Migs -> CancelLabels]
  BY <1>2 DEF IInv, TypeOK, CancelLabels
<1>4. cancels' \in 0..MaxCancels /\ crashes' = crashes /\ faults' = faults
  BY MigrationAssumption DEF IInv, TypeOK
<1>5. TypeOK'
  BY <1>1, <1>3, <1>4 DEF IInv, TypeOK, histories
<1>6. ASSUME NEW j \in Migs PROVE ClearedAt(j)'
  <2>1. now' = now /\ asked' = asked /\ approved' = approved /\ execs' = execs
    BY DEF delayVars, histories
  <2>2. copy'[j] \in {copy[j], file[j]} /\ mem'[j] = mem[j] /\ file'[j] = file[j]
    BY DEF IInv, TypeOK
  <2>3. Cleared(j, mem'[j]) /\ Cleared(j, file'[j]) /\ Cleared(j, copy'[j])
    BY <2>2, SavedIsCleared
  <2> QED
    BY <2>1, <2>2, <2>3, QuietStep
<1> QED
  BY <1>5, <1>6 DEF IInv

LEMMA CancelDelayStep == ASSUME IInv, NEW m \in Migs, CancelDelay(m) PROVE IInv'
<1>1. D!ContractTypeOK'
  BY ContractTypes DEF IInv, TypeOK, CancelDelay
<1>2. /\ now' = now /\ asked' = asked /\ approved' = approved /\ execs' = execs
      /\ file' = file /\ mem' = mem /\ booted' = booted /\ run' = run
      /\ cancelled' = cancelled /\ crashes' = crashes /\ cancels' = cancels
      /\ unsaved' = unsaved /\ faults' = faults
      /\ copy' = [copy EXCEPT ![m].overall = "cancelled"]
      /\ cancel' = [cancel EXCEPT ![m] = "save"]
  BY DEF CancelDelay, CancelTo, D!Revoke, delayVars, histories, bounds
<1>3. copy' \in [Migs -> States] /\ cancel' \in [Migs -> CancelLabels]
  BY <1>2 DEF IInv, TypeOK, CancelLabels, States, Terminal
<1>4. TypeOK'
  BY <1>1, <1>2, <1>3 DEF IInv, TypeOK
<1>5. ASSUME NEW j \in Migs PROVE ClearedAt(j)'
  <2>1. copy'[j].idx = copy[j].idx
    BY <1>2 DEF IInv, TypeOK, States
  <2>2. Cleared(j, mem'[j]) /\ Cleared(j, file'[j]) /\ Cleared(j, copy[j])
    BY <1>2, SavedIsCleared
  <2>3. Cleared(j, copy'[j])
    BY <2>1, <2>2 DEF Cleared
  <2> QED
    BY <1>2, <2>2, <2>3, QuietStep
<1> QED
  BY <1>4, <1>5 DEF IInv

LEMMA CrashStep == ASSUME IInv, Crash PROVE IInv'
<1>1. /\ now' = now /\ asked' = asked /\ approved' = approved /\ execs' = execs
      /\ revoked' = revoked /\ promise' = [i \in Migs |-> "none"]
      /\ file' = file /\ mem' = mem /\ copy' = copy
      /\ booted' = Migs /\ cancelled' = cancelled /\ cancels' = cancels
      /\ unsaved' = unsaved /\ faults' = faults
      /\ run' = [j \in Migs |-> "off"] /\ cancel' = [j \in Migs |-> "off"]
  BY DEF Crash, D!Lose, histories
<1>2. D!ContractTypeOK'
  BY <1>1 DEF IInv, TypeOK, D!ContractTypeOK
<1>3. crashes' \in 0..MaxCrashes
  BY MigrationAssumption DEF Crash, IInv, TypeOK
<1>4. TypeOK'
  BY <1>1, <1>2, <1>3 DEF IInv, TypeOK, RunLabels, CancelLabels
<1>5. ASSUME NEW j \in Migs PROVE ClearedAt(j)'
  <2>1. Cleared(j, mem'[j]) /\ Cleared(j, file'[j]) /\ Cleared(j, copy'[j])
    BY <1>1, SavedIsCleared
  <2>2. run'[j] \notin {"prompt", "delay"}
    BY <1>1
  <2> QED
    BY <1>1, <2>1, <2>2, QuietStep
<1> QED
  BY <1>4, <1>5 DEF IInv

LEMMA CallExecuteStep ==
    ASSUME IInv, NEW m \in Migs, NEW ok \in BOOLEAN, CallExecute(m, ok)
    PROVE  IInv'
<1>1. D!ContractTypeOK'
  BY ContractTypes DEF IInv, TypeOK, CallExecute
<1>2. /\ now' = now /\ asked' = asked /\ approved' = approved
      /\ file' = file /\ copy' = copy /\ booted' = booted /\ cancel' = cancel
      /\ cancelled' = cancelled /\ crashes' = crashes /\ cancels' = cancels
      /\ unsaved' = unsaved /\ faults' = faults
      /\ execs' = [execs EXCEPT ![m] = @ + 1]
  BY DEF CallExecute, delayVars, bounds
<1>3. /\ mem[m] \in States /\ mem[m].idx = Execute
      /\ Cleared(m, mem[m]) /\ ReadyFor(m)
  BY DEF CallExecute, IInv, TypeOK, ClearedAt, Cleared, Execute
<1>4. PICK s \in States : mem' = [mem EXCEPT ![m] = s]
  <2>1. Finished(mem[m]) \in States
    BY <1>3, FinishedType DEF Execute
  <2>2. FailedState(mem[m]) \in States
    BY <1>3, FailedIsCleared
  <2> QED
    BY <2>1, <2>2 DEF CallExecute, PhaseDone, Throw
<1>5. PICK l \in {"leave", "fail"} : run' = [run EXCEPT ![m] = l]
  BY DEF CallExecute, PhaseDone, Throw, RunTo
<1>6. mem' \in [Migs -> States] /\ run' \in [Migs -> RunLabels]
  BY <1>4, <1>5 DEF IInv, TypeOK, RunLabels
<1>7. execs' \in [Migs -> Nat]
  BY <1>2 DEF IInv, TypeOK
<1>8. TypeOK'
  BY <1>1, <1>2, <1>6, <1>7 DEF IInv, TypeOK
<1>9. ASSUME NEW j \in Migs PROVE ClearedAt(j)'
  <2>1. ClearedAt(j) /\ ReadyFor(j)' = ReadyFor(j)
    BY <1>2 DEF IInv, ReadyFor
  <2>2. CASE j = m
    <3>1. ReadyFor(j)'
      BY <1>3, <2>1, <2>2
    <3>2. run'[j] \notin {"prompt", "delay"}
      BY <1>5, <2>2 DEF IInv, TypeOK
    <3>3. asked'[j] = asked[j] /\ now' = now
      BY <1>2
    <3> QED
      BY <2>1, <3>1, <3>2, <3>3 DEF ClearedAt, Cleared, RunAt, D!Never
  <2>3. CASE j # m
    <3>1. mem'[j] = mem[j] /\ run'[j] = run[j] /\ execs'[j] = execs[j]
      BY <1>2, <1>4, <1>5, <2>3 DEF IInv, TypeOK
    <3> QED
      BY <1>2, <2>1, <3>1 DEF ClearedAt, Cleared, RunAt, D!Never
  <2> QED
    BY <2>2, <2>3
<1> QED
  BY <1>8, <1>9 DEF IInv

LEMMA AnswerStep ==
    ASSUME IInv, NEW m \in Migs, NEW isConfirm \in BOOLEAN, Answer(m, isConfirm)
    PROVE  IInv'
<1>1. D!ContractTypeOK'
  BY ContractTypes DEF IInv, TypeOK, Answer
<1>2. /\ now' = now /\ asked' = asked /\ execs' = execs
      /\ file' = file /\ copy' = copy /\ booted' = booted /\ cancel' = cancel
      /\ cancelled' = cancelled /\ crashes' = crashes /\ cancels' = cancels
      /\ unsaved' = unsaved /\ faults' = faults
  BY DEF Answer, delayVars, bounds
<1>3. /\ mem[m] \in States /\ mem[m].idx = ApprovalDelay
      /\ now >= asked[m] + Delay
  BY DEF Answer, IInv, TypeOK, ClearedAt
<1>4. PICK s \in States : /\ mem' = [mem EXCEPT ![m] = s]
                          /\ s.idx >= Execute => isConfirm
  <2>1. Finished(mem[m]) \in States
    BY <1>3, FinishedType DEF Execute, ApprovalDelay
  <2>2. FailedState(mem[m]) \in States /\ FailedState(mem[m]).idx < Execute
    BY <1>3 DEF FailedState, States, Terminal, Execute, ApprovalDelay
  <2>3. CASE isConfirm
    BY <2>1, <2>3 DEF Answer, PhaseDone, Confirmed
  <2>4. CASE ~isConfirm
    BY <2>2, <2>4 DEF Answer, Throw, Confirmed, Execute, States
  <2> QED
    BY <2>3, <2>4
<1>5. PICK l \in {"leave", "fail"} : run' = [run EXCEPT ![m] = l]
  BY DEF Answer, PhaseDone, Throw, RunTo
<1>6. mem' \in [Migs -> States] /\ run' \in [Migs -> RunLabels]
  BY <1>4, <1>5 DEF IInv, TypeOK, RunLabels
<1>7. approved' \in [Migs -> BOOLEAN]
  BY DEF Answer, IInv, TypeOK
<1>8. TypeOK'
  BY <1>1, <1>2, <1>6, <1>7 DEF IInv, TypeOK
<1>9. ASSUME NEW j \in Migs PROVE ClearedAt(j)'
  <2>1. ClearedAt(j)
    BY DEF IInv
  <2>2. approved'[j] = approved[j] \/ approved'[j] = TRUE
    BY DEF Answer, IInv, TypeOK
  <2>3. now' \in Nat /\ now' >= now /\ asked'[j] = asked[j]
    BY <1>2 DEF IInv, TypeOK, D!ContractTypeOK
  <2>4. ReadyFor(j) => ReadyFor(j)'
    BY <2>2, <2>3, ReadyStays
  <2>5. CASE j = m
    <3>1. mem'[j].idx >= Execute => ReadyFor(j)'
      <4>1. isConfirm => approved'[j]
        BY <2>5 DEF Answer, IInv, TypeOK
      <4>2. now' >= asked'[j] + Delay
        BY <1>2, <1>3, <2>5
      <4>3. mem'[j].idx >= Execute => isConfirm
        BY <1>4, <2>5 DEF IInv, TypeOK
      <4> QED
        BY <4>1, <4>2, <4>3 DEF ReadyFor
    <3>2. run'[j] \notin {"prompt", "delay"}
      BY <1>5, <2>5 DEF IInv, TypeOK
    <3> QED
      BY <1>2, <2>1, <2>4, <3>1, <3>2 DEF ClearedAt, Cleared, RunAt, D!Never
  <2>6. CASE j # m
    <3>1. mem'[j] = mem[j] /\ run'[j] = run[j]
      BY <1>4, <1>5, <2>6 DEF IInv, TypeOK
    <3> QED
      BY <1>2, <2>1, <2>4, <3>1 DEF ClearedAt, Cleared, RunAt, D!Never
  <2> QED
    BY <2>5, <2>6
<1> QED
  BY <1>8, <1>9 DEF IInv

LEMMA RequestDelayStep == ASSUME IInv, NEW m \in Migs, RequestDelay(m) PROVE IInv'
<1>1. D!ContractTypeOK'
  BY ContractTypes DEF IInv, TypeOK, RequestDelay
<1>2. /\ now' = now /\ approved' = approved /\ execs' = execs
      /\ file' = file /\ mem' = mem /\ copy' = copy /\ booted' = booted
      /\ cancel' = cancel /\ cancelled' = cancelled
      /\ crashes' = crashes /\ cancels' = cancels /\ unsaved' = unsaved /\ faults' = faults
      /\ asked' = [asked EXCEPT ![m] = IF @ = D!Never THEN now ELSE @]
      /\ run' = [run EXCEPT ![m] = "delay"]
      /\ RunAt(m, "work") /\ mem[m].idx = ApprovalDelay
  BY DEF RequestDelay, D!Ask, RunTo, histories, bounds
<1>3. TypeOK'
  BY <1>1, <1>2 DEF IInv, TypeOK, RunLabels
<1>4. ASSUME NEW j \in Migs PROVE ClearedAt(j)'
  <2>1. ClearedAt(j)
    BY DEF IInv
  <2>2. now' \in Nat /\ now' >= now /\ now <= MaxTime /\ approved'[j] = approved[j]
    BY <1>2 DEF IInv, TypeOK, D!ContractTypeOK
  <2>3. asked'[j] = asked[j] \/ (asked[j] = D!Never /\ asked'[j] = now)
    BY <1>2 DEF IInv, TypeOK, D!ContractTypeOK
  <2>4. ReadyFor(j) => ReadyFor(j)'
    BY <1>2, <2>2, <2>3, ReadyStays
  <2>5. asked'[j] = D!Never \/ asked'[j] <= now'
    BY <1>2, <2>1, <2>2, <2>3 DEF ClearedAt
  <2>6. RunAt(j, "delay")' => mem'[j].idx = ApprovalDelay
    BY <1>2, <2>1 DEF ClearedAt, RunAt, IInv, TypeOK
  <2>7. RunAt(j, "prompt")' => mem'[j].idx = ApprovalDelay /\ now' >= asked'[j] + Delay
    <3>1. RunAt(j, "prompt")' => j # m /\ RunAt(j, "prompt")
      BY <1>2 DEF RunAt, IInv, TypeOK
    <3>2. j # m => asked'[j] = asked[j]
      BY <1>2 DEF IInv, TypeOK, D!ContractTypeOK
    <3> QED
      BY <1>2, <2>1, <3>1, <3>2 DEF ClearedAt
  <2> QED
    BY <1>2, <2>1, <2>4, <2>5, <2>6, <2>7 DEF ClearedAt, Cleared, D!Never
<1> QED
  BY <1>3, <1>4 DEF IInv

LEMMA DelayElapsedStep == ASSUME IInv, NEW m \in Migs, DelayElapsed(m) PROVE IInv'
<1>1. D!ContractTypeOK'
  BY ContractTypes DEF IInv, TypeOK, DelayElapsed
<1>2. /\ now' = now /\ asked' = asked /\ approved' = approved /\ execs' = execs
      /\ file' = file /\ mem' = mem /\ copy' = copy /\ booted' = booted
      /\ cancel' = cancel /\ cancelled' = cancelled
      /\ crashes' = crashes /\ cancels' = cancels /\ unsaved' = unsaved /\ faults' = faults
      /\ run' = [run EXCEPT ![m] = "prompt"]
      /\ RunAt(m, "delay") /\ now >= asked[m] + Delay
  BY DEF DelayElapsed, D!Resolve, D!Due, RunTo, histories, bounds
<1>3. TypeOK'
  BY <1>1, <1>2 DEF IInv, TypeOK, RunLabels
<1>4. ASSUME NEW j \in Migs PROVE ClearedAt(j)'
  <2>1. ClearedAt(j) /\ ClearedAt(m)
    BY DEF IInv
  <2>2. ReadyFor(j)' = ReadyFor(j)
    BY <1>2 DEF ReadyFor
  <2>3. RunAt(j, "delay")' => RunAt(j, "delay")
    BY <1>2 DEF RunAt, IInv, TypeOK
  <2>4. RunAt(j, "prompt")' => RunAt(j, "prompt") \/ j = m
    BY <1>2 DEF RunAt, IInv, TypeOK
  <2> QED
    BY <1>2, <2>1, <2>2, <2>3, <2>4 DEF ClearedAt, Cleared, D!Never
<1> QED
  BY <1>3, <1>4 DEF IInv

LEMMA TickStep == ASSUME IInv, Tick PROVE IInv'
<1>1. /\ now < MaxTime /\ now' = now + 1
      /\ asked' = asked /\ approved' = approved /\ execs' = execs
      /\ promise' = promise /\ revoked' = revoked
      /\ file' = file /\ mem' = mem /\ copy' = copy /\ booted' = booted
      /\ cancel' = cancel /\ cancelled' = cancelled /\ run' = run
      /\ crashes' = crashes /\ cancels' = cancels /\ unsaved' = unsaved /\ faults' = faults
  BY DEF Tick, D!Elapse, histories, bounds
<1>2. D!ContractTypeOK'
  BY <1>1, MigrationAssumption DEF IInv, TypeOK, D!ContractTypeOK
<1>3. TypeOK'
  BY <1>1, <1>2 DEF IInv, TypeOK
<1>4. ASSUME NEW j \in Migs PROVE ClearedAt(j)'
  <2>1. ClearedAt(j)
    BY DEF IInv
  <2>2. now \in Nat /\ asked[j] \in Nat /\ now' \in Nat /\ now' = now + 1
    BY <1>1, MigrationAssumption DEF IInv, TypeOK, D!ContractTypeOK
  <2>3. ReadyFor(j) => ReadyFor(j)'
    BY <1>1, <2>2, ReadyStays
  <2>4. asked'[j] = D!Never \/ asked'[j] <= now'
    BY <1>1, <2>1, <2>2 DEF ClearedAt
  <2>5. now >= asked[j] + Delay => now' >= asked'[j] + Delay
    BY <1>1, <2>2, MigrationAssumption
  <2> QED
    BY <1>1, <2>1, <2>3, <2>4, <2>5 DEF ClearedAt, Cleared, RunAt, D!Never
<1> QED
  BY <1>3, <1>4 DEF IInv
-----------------------------------------------------------------------------
\* IInv holds initially: nothing has run.
LEMMA InitIInv == Init => IInv
<1> SUFFICES ASSUME Init PROVE IInv
  OBVIOUS
<1>1. D!ContractTypeOK
  BY MigrationAssumption DEF Init, D!ContractInit, D!ContractTypeOK, D!Never
<1>2. TypeOK
  BY <1>1, MigrationAssumption
     DEF Init, TypeOK, Blank, NoState, Fresh, States, Terminal, RunLabels, CancelLabels
<1>3. ASSUME NEW j \in Migs PROVE ClearedAt(j)
  BY DEF Init, ClearedAt, Cleared, RunAt, Blank, Fresh, Execute, D!ContractInit, D!Never
<1> QED
  BY <1>2, <1>3 DEF IInv

LEMMA NextIInv == IInv /\ [Next]_vars => IInv'
<1> SUFFICES ASSUME IInv, [Next]_vars PROVE IInv'
  OBVIOUS
<1>1. ASSUME NEW m \in Migs, RunStep(m) PROVE IInv'
  BY <1>1, ResumeStep, SaveStep, SaveFailsStep, HandlerReturnsStep, ThrowStep, CallExecuteStep,
     RequestDelayStep, StartWaitingStep, DelayElapsedStep, AnswerStep DEF RunStep
<1>2. ASSUME NEW m \in Migs, CancelStep(m) PROVE IInv'
  BY <1>2, CancelDelayStep, SaveStep, SaveFailsStep DEF CancelStep
<1>3. CASE UNCHANGED vars
  BY <1>3 DEF vars, delayVars, histories, bounds, IInv, TypeOK, ClearedAt, Cleared,
              ReadyFor, RunAt, D!ContractTypeOK, D!Never
<1> QED
  BY <1>1, <1>2, <1>3, StartStep, CancelLoadsStep, CrashStep, TickStep DEF Next

(***************************************************************************)
(* The inductive invariant holds in every reachable state.                 *)
(***************************************************************************)
THEOREM Inductive == Spec => []IInv
BY InitIInv, NextIInv, PTL DEF Spec

(***************************************************************************)
(* Every state the orchestrator, its state files and cancel() can hold is  *)
(* well-formed, however their saves interleave.                            *)
(***************************************************************************)
THEOREM TypeCorrect == Spec => []TypeOK
<1>1. IInv => TypeOK
  BY DEF IInv
<1> QED
  BY <1>1, Inductive, PTL

(***************************************************************************)
(* The execute phase of run() is reached, in memory or on the disk, only   *)
(* after the whole delay and the operator's CONFIRM.                       *)
(***************************************************************************)
THEOREM ApprovedBeforeExecute == Spec => []ExecuteIsApproved
<1>1. IInv => ExecuteIsApproved
  BY DEF IInv, ClearedAt, Cleared, ExecuteIsApproved
<1> QED
  BY <1>1, Inductive, PTL

-----------------------------------------------------------------------------
(***************************************************************************)
(* Counting executions.  A migration may still reach the execute handler   *)
(* in this life of the daemon if the start-up has yet to resume it, or if  *)
(* the loop of run() goes on with a state in flight; whoever may has used  *)
(* up none of this life's executions.                                      *)
(***************************************************************************)
Going == {"create", "creating", "enter", "entering", "work", "delay", "prompt"}
MayExecute(m) ==
    \/ m \in booted
    \/ run[m] \in Going
    \/ run[m] \in {"leave", "leaving"} /\ InFlight(mem[m])

\* A state that says complete belongs to a migration that has executed.
Earned(m, s) == s.overall = "complete" => execs[m] > 0

CountedAt(m) ==
    /\ file[m].overall = "absent" => run[m] \in {"off", "create"} /\ execs[m] = 0
    /\ m \in booted => run[m] = "off"
    /\ run[m] \in {"fail", "failing"} => ~InFlight(mem[m])
    /\ MayExecute(m) => execs[m] <= crashes
    /\ execs[m] <= 1 + crashes
    /\ Earned(m, mem[m]) /\ Earned(m, file[m]) /\ Earned(m, copy[m])

CountInv == \A m \in Migs : CountedAt(m)

-----------------------------------------------------------------------------
LEMMA InitCount == Init => CountInv
<1> SUFFICES ASSUME Init, NEW m \in Migs PROVE CountedAt(m)
  BY DEF CountInv
<1>1. /\ execs[m] = 0 /\ crashes = 0 /\ run[m] = "off" /\ booted = {}
      /\ mem[m].overall = "in-flight" /\ copy[m].overall = "in-flight"
      /\ file[m].overall = "absent"
  BY DEF Init, Fresh, Blank
<1> QED
  BY <1>1 DEF CountedAt, MayExecute, Earned, Going

\* The migrations a step is not about.
LEMMA OthersCounted ==
    ASSUME CountInv, NEW j \in Migs,
           run'[j] = run[j], mem'[j] = mem[j], file'[j] = file[j], copy'[j] = copy[j],
           execs'[j] = execs[j], crashes' = crashes, j \in booted' => j \in booted
    PROVE  CountedAt(j)'
<1>1. CountedAt(j)
  BY DEF CountInv
<1> QED
  BY <1>1 DEF CountedAt, MayExecute, Earned, InFlight

\* A step that executes nothing: it stores earned states, creates no absent
\* file, and goes on only where it might before.
LEMMA NotExecuting ==
    ASSUME IInv, CountInv, NEW m \in Migs,
           execs' = execs, crashes' = crashes, m \in booted' => m \in booted /\ run'[m] = "off",
           Earned(m, mem'[m]), Earned(m, file'[m]), Earned(m, copy'[m]),
           file'[m].overall = "absent" => file[m].overall = "absent" /\ run'[m] \in {"off", "create"},
           run'[m] \in {"fail", "failing"} => ~InFlight(mem'[m]),
           MayExecute(m)' => MayExecute(m) \/ file[m].overall = "absent"
    PROVE  CountedAt(m)'
<1>1. CountedAt(m)
  BY DEF CountInv
<1>2. execs[m] \in Nat /\ crashes \in Nat
  BY MigrationAssumption DEF IInv, TypeOK
<1>3. MayExecute(m)' => execs[m] <= crashes
  BY <1>1, <1>2 DEF CountedAt
<1> QED
  BY <1>1, <1>2, <1>3 DEF CountedAt, Earned

\* States taken from one of the three places are earned.
LEMMA StoredIsEarned ==
    ASSUME CountInv, NEW m \in Migs, NEW s,
           s \in {mem[m], file[m], copy[m]} \/ s.overall # "complete"
    PROVE  Earned(m, s)
BY DEF CountInv, CountedAt, Earned

\* run() and cancel() save what they hold, or leave nothing readable.
LEMMA SavedHalf ==
    ASSUME IInv, NEW m \in Migs, NEW s \in States, Truncate(m) \/ Write(m, s)
    PROVE  /\ \A j \in Migs : j # m => file'[j] = file[j]
           /\ file'[m].overall \in {"empty", "torn"} \/ file'[m] = s
           /\ file'[m].overall # "absent"
<1>1. Blank("empty").overall = "empty" /\ Blank("torn").overall = "torn"
  BY DEF Blank
<1>2. s.overall # "absent"
  BY DEF States, Terminal
<1>3. PICK f \in {Blank("empty"), Blank("torn"), s} : file' = [file EXCEPT ![m] = f]
  BY DEF Truncate, Write
<1> QED
  BY <1>1, <1>2, <1>3 DEF IInv, TypeOK

LEMMA CountStart == ASSUME IInv, CountInv, NEW m \in Migs, Start(m) PROVE CountInv'
<1>1. /\ file[m].overall = "absent" /\ file' = file /\ copy' = copy
      /\ execs' = execs /\ crashes' = crashes /\ booted' = booted \ {m}
      /\ mem' = [mem EXCEPT ![m] = Fresh] /\ run' = [run EXCEPT ![m] = "create"]
  BY DEF Start, Blank, RunTo, histories, bounds
<1>2. /\ mem'[m] = Fresh /\ run'[m] = "create"
      /\ \A j \in Migs : j # m => mem'[j] = mem[j] /\ run'[j] = run[j]
  BY <1>1 DEF IInv, TypeOK
<1>3. Fresh.overall # "complete"
  BY DEF Fresh
<1>4. Earned(m, mem'[m]) /\ Earned(m, file'[m]) /\ Earned(m, copy'[m])
  BY <1>1, <1>2, <1>3, StoredIsEarned
<1>5. CountedAt(m)'
  BY <1>1, <1>2, <1>4, NotExecuting
<1>6. ASSUME NEW j \in Migs, j # m PROVE CountedAt(j)'
  BY <1>1, <1>2, <1>6, OthersCounted
<1> QED
  BY <1>5, <1>6 DEF CountInv

LEMMA CountResume == ASSUME IInv, CountInv, NEW m \in Migs, Resume(m) PROVE CountInv'
<1>1. /\ m \in booted /\ file[m] # Blank("absent") /\ file' = file /\ copy' = copy
      /\ execs' = execs /\ crashes' = crashes /\ booted' = booted \ {m}
      /\ \A j \in Migs : j # m => mem'[j] = mem[j] /\ run'[j] = run[j]
      /\ \/ mem'[m] = file[m] /\ run'[m] = "enter"
         \/ mem'[m] = mem[m] /\ run'[m] = run[m]
  BY DEF Resume, RunTo, histories, bounds, IInv, TypeOK
<1>2. file[m].overall # "absent"
  BY <1>1 DEF IInv, TypeOK, States, Terminal, NoState, Blank
<1>3. CountedAt(m)
  BY DEF CountInv
<1>4. run[m] = "off" /\ MayExecute(m)
  BY <1>1, <1>3 DEF CountedAt, MayExecute
<1>5. Earned(m, mem'[m]) /\ Earned(m, file'[m]) /\ Earned(m, copy'[m])
  BY <1>1, StoredIsEarned
<1>6. CountedAt(m)'
  BY <1>1, <1>2, <1>4, <1>5, NotExecuting
<1>7. ASSUME NEW j \in Migs, j # m PROVE CountedAt(j)'
  BY <1>1, <1>7, OthersCounted
<1> QED
  BY <1>6, <1>7 DEF CountInv

\* The loop goes on only behind the save of a state in flight.
LEMMA CountRunSaves ==
    ASSUME IInv, CountInv, NEW m \in Migs, RunTruncates(m) \/ RunWrites(m)
    PROVE  CountInv'
<1>1. /\ mem' = mem /\ copy' = copy /\ booted' = booted
      /\ execs' = execs /\ crashes' = crashes
      /\ mem[m] \in States /\ (Truncate(m) \/ Write(m, mem[m]))
  BY DEF RunTruncates, RunWrites, histories, bounds, IInv, TypeOK
<1>2. /\ \A j \in Migs : j # m => file'[j] = file[j]
      /\ file'[m].overall \in {"empty", "torn"} \/ file'[m] = mem[m]
      /\ file'[m].overall # "absent"
  BY <1>1, SavedHalf
<1>3. CountedAt(m)
  BY DEF CountInv
<1>4. /\ \A j \in Migs : j # m => run'[j] = run[j]
      /\ run[m] # "off"
      /\ run'[m] \in {"fail", "failing"} => run[m] \in {"fail", "failing"}
      /\ run'[m] \in Going => run[m] \in Going \/ InFlight(mem[m])
      /\ run'[m] \in {"leave", "leaving"} => run[m] \in {"leave", "leaving"}
  <2>1. CASE RunTruncates(m)
    <3>1. \/ run[m] = "create" /\ Halves[run[m]] = "creating"
          \/ run[m] = "enter" /\ Halves[run[m]] = "entering"
          \/ run[m] = "leave" /\ Halves[run[m]] = "leaving"
          \/ run[m] = "fail" /\ Halves[run[m]] = "failing"
      BY <2>1 DEF RunTruncates, Halves
    <3> QED
      BY <2>1, <3>1 DEF RunTruncates, RunTo, Going, IInv, TypeOK
  <2>2. CASE RunWrites(m)
    <3>1. \/ AfterSave(m) = "work" /\ run[m] = "entering"
          \/ AfterSave(m) = "enter" /\ InFlight(mem[m])
          \/ AfterSave(m) = "off"
      BY DEF AfterSave, RunAt
    <3> QED
      BY <2>2, <3>1 DEF RunWrites, RunTo, Going, IInv, TypeOK
  <2> QED
    BY <2>1, <2>2
<1>5. run[m] \in {"create", "creating", "enter", "entering", "leave", "leaving", "fail", "failing"}
  BY DEF RunTruncates, RunWrites, Halves
<1>6. MayExecute(m)' => MayExecute(m)
  BY <1>1, <1>3, <1>4, <1>5 DEF MayExecute, Going, CountedAt, InFlight
<1>7. Earned(m, mem'[m]) /\ Earned(m, file'[m]) /\ Earned(m, copy'[m])
  BY <1>1, <1>2, StoredIsEarned
<1>8. m \notin booted /\ (run'[m] \in {"fail", "failing"} => ~InFlight(mem'[m]))
  BY <1>1, <1>3, <1>4 DEF CountedAt
<1>9. CountedAt(m)'
  BY <1>1, <1>2, <1>6, <1>7, <1>8, NotExecuting
<1>10. ASSUME NEW j \in Migs, j # m PROVE CountedAt(j)'
  BY <1>1, <1>2, <1>4, <1>10, OthersCounted
<1> QED
  BY <1>9, <1>10 DEF CountInv

\* A failed save of run(): its catch has a failed state to save, or the call
\* is over.
LEMMA CountSaveFails ==
    ASSUME IInv, CountInv, NEW m \in Migs, RunSaveFails(m)
    PROVE  CountInv'
<1>1. /\ copy' = copy /\ booted' = booted /\ execs' = execs /\ crashes' = crashes
      /\ SaveFails(m) /\ run[m] \in Guarded \cup {"create", "creating", "fail", "failing"}
  BY DEF RunSaveFails
<1>2. /\ \A j \in Migs : j # m => file'[j] = file[j]
      /\ file'[m] = file[m] \/ file'[m] = Blank("torn")
  BY <1>1, FailedSaveType DEF IInv
<1>3. CountedAt(m) /\ mem[m] \in States
  BY DEF CountInv, IInv, TypeOK
<1>4. FailedState(mem[m]).overall = "failed" /\ Blank("torn").overall = "torn"
  BY <1>3 DEF FailedState, States, Blank
<1>5. /\ \A j \in Migs : j # m => mem'[j] = mem[j] /\ run'[j] = run[j]
      /\ \/ run[m] \in Guarded /\ run'[m] = "fail" /\ mem'[m] = FailedState(mem[m])
         \/ run[m] \notin Guarded /\ run'[m] = "off" /\ mem'[m] = mem[m]
  BY FailedSaveRuns
<1>6. /\ Earned(m, mem'[m]) /\ Earned(m, file'[m]) /\ Earned(m, copy'[m])
  BY <1>1, <1>2, <1>4, <1>5, StoredIsEarned
<1>7. m \notin booted /\ (run[m] \in Guarded => file[m].overall # "absent")
  BY <1>1, <1>3 DEF CountedAt, Guarded
<1>8. /\ file'[m].overall = "absent" => file[m].overall = "absent" /\ run'[m] \in {"off", "create"}
      /\ run'[m] \in {"fail", "failing"} => ~InFlight(mem'[m])
      /\ MayExecute(m)' => MayExecute(m)
  BY <1>1, <1>2, <1>4, <1>5, <1>7 DEF InFlight, MayExecute, Going
<1>9. CountedAt(m)'
  BY <1>1, <1>6, <1>7, <1>8, NotExecuting
<1>10. ASSUME NEW j \in Migs, j # m PROVE CountedAt(j)'
  BY <1>1, <1>2, <1>5, <1>10, OthersCounted
<1> QED
  BY <1>9, <1>10 DEF CountInv

\* cancel() touches its copy and the file.
LEMMA CountCancels ==
    ASSUME IInv, CountInv, NEW m \in Migs, CancelLoads(m) \/ CancelStep(m)
    PROVE  CountInv'
<1>1. /\ mem' = mem /\ run' = run /\ booted' = booted
      /\ execs' = execs /\ crashes' = crashes
  BY DEF CancelLoads, CancelStep, CancelDelay, CancelTruncates, CancelWrites,
         CancelSaveFails, histories, bounds
<1>2. /\ \A j \in Migs : j # m => copy'[j] = copy[j]
      /\ copy'[m] \in {copy[m], file[m]} \/ copy'[m].overall = "cancelled"
  BY DEF CancelLoads, CancelStep, CancelDelay, CancelTruncates, CancelWrites,
         CancelSaveFails, IInv, TypeOK, States
<1>3. /\ \A j \in Migs : j # m => file'[j] = file[j]
      /\ \/ file'[m] = file[m]
         \/ file'[m].overall \in {"empty", "torn"} \/ file'[m] = copy[m]
      /\ file'[m].overall = "absent" => file'[m] = file[m]
  <2>1. CASE CancelLoads(m) \/ CancelDelay(m)
    BY <2>1 DEF CancelLoads, CancelDelay
  <2>2. CASE CancelTruncates(m) \/ CancelWrites(m)
    <3>1. copy[m] \in States /\ (Truncate(m) \/ Write(m, copy[m]))
      BY <2>2 DEF CancelTruncates, CancelWrites, IInv, TypeOK
    <3> QED
      BY <3>1, SavedHalf
  <2>3. CASE CancelSaveFails(m)
    <3>1. /\ \A j \in Migs : j # m => file'[j] = file[j]
          /\ file'[m] = file[m] \/ file'[m] = Blank("torn")
      BY <2>3, FailedSaveType DEF CancelSaveFails, IInv
    <3> QED
      BY <3>1 DEF Blank
  <2> QED
    BY <2>1, <2>2, <2>3 DEF CancelStep
<1>4. CountedAt(m)
  BY DEF CountInv
<1>5. Earned(m, mem'[m]) /\ Earned(m, file'[m]) /\ Earned(m, copy'[m])
  BY <1>1, <1>2, <1>3, StoredIsEarned
<1>6. MayExecute(m)' => MayExecute(m)
  BY <1>1 DEF MayExecute, InFlight
<1>7. /\ file'[m].overall = "absent" => file[m].overall = "absent" /\ run'[m] \in {"off", "create"}
      /\ m \in booted' => m \in booted /\ run'[m] = "off"
      /\ run'[m] \in {"fail", "failing"} => ~InFlight(mem'[m])
  BY <1>1, <1>3, <1>4 DEF CountedAt
<1>8. CountedAt(m)'
  BY <1>1, <1>5, <1>6, <1>7, NotExecuting
<1>9. ASSUME NEW j \in Migs, j # m PROVE CountedAt(j)'
  BY <1>1, <1>2, <1>3, <1>9, OthersCounted
<1> QED
  BY <1>8, <1>9 DEF CountInv

\* A phase before execute ends: done, failed, or on its way to the prompt.
LEMMA CountPhases ==
    ASSUME IInv, CountInv, NEW m \in Migs,
           \/ HandlerReturns(m) \/ HandlerThrows(m) \/ RequestDelay(m) \/ StartWaiting(m)
           \/ DelayElapsed(m) \/ DelayRejected(m)
           \/ \E isConfirm \in BOOLEAN : Answer(m, isConfirm)
    PROVE  CountInv'
<1>1. /\ file' = file /\ copy' = copy /\ booted' = booted
      /\ execs' = execs /\ crashes' = crashes /\ run[m] \in Going
  BY DEF HandlerReturns, HandlerThrows, RequestDelay, StartWaiting, DelayElapsed,
         DelayRejected, Answer, histories, bounds, RunAt, Going
<1>2. mem[m] \in States /\ CountedAt(m) /\ (run[m] = "prompt" => mem[m].idx # Execute)
  BY DEF IInv, TypeOK, CountInv, ClearedAt, RunAt, ApprovalDelay, Execute
<1>3. /\ FailedState(mem[m]).overall = "failed"
      /\ mem[m].idx # Execute => Finished(mem[m]).overall = mem[m].overall
  BY <1>2 DEF FailedState, Finished, States
<1>4. /\ \A j \in Migs : j # m => mem'[j] = mem[j] /\ run'[j] = run[j]
      /\ \/ mem'[m] = mem[m] /\ run'[m] \in Going
         \/ mem'[m].overall = mem[m].overall /\ run'[m] = "leave"
         \/ mem'[m].overall = "failed" /\ run'[m] = "fail"
  <2>1. CASE RequestDelay(m) \/ StartWaiting(m) \/ DelayElapsed(m)
    BY <1>1, <2>1 DEF RequestDelay, StartWaiting, DelayElapsed, RunTo, Going, IInv, TypeOK
  <2>2. CASE \/ HandlerThrows(m) \/ DelayRejected(m)
             \/ \E isConfirm \in BOOLEAN : Answer(m, isConfirm) /\ ~Confirmed(isConfirm)
    <3>1. Throw(m)
      BY <2>2 DEF HandlerThrows, DelayRejected, Answer
    <3> QED
      BY <1>3, <3>1 DEF Throw, RunTo, IInv, TypeOK
  <2>3. CASE \/ HandlerReturns(m)
             \/ \E isConfirm \in BOOLEAN : Answer(m, isConfirm) /\ Confirmed(isConfirm)
    <3>1. PhaseDone(m) /\ mem[m].idx # Execute
      BY <1>2, <2>3 DEF HandlerReturns, Answer, RunAt, ApprovalDelay, Execute, States
    <3> QED
      BY <1>3, <3>1 DEF PhaseDone, RunTo, IInv, TypeOK
  <2> QED
    BY <2>1, <2>2, <2>3
<1>5. Earned(m, mem[m]) /\ Earned(m, file[m]) /\ Earned(m, copy[m])
  BY <1>2 DEF CountedAt
<1>6. Earned(m, mem'[m]) /\ Earned(m, file'[m]) /\ Earned(m, copy'[m])
  BY <1>1, <1>4, <1>5 DEF Earned
<1>7. MayExecute(m) /\ m \notin booted
  BY <1>1, <1>2 DEF MayExecute, CountedAt, Going
<1>8. /\ file'[m].overall = "absent" => run'[m] \in {"off", "create"}
      /\ run'[m] \in {"fail", "failing"} => ~InFlight(mem'[m])
  <2>1. file[m].overall # "absent"
    BY <1>2 DEF CountedAt, HandlerReturns, HandlerThrows, RequestDelay, StartWaiting,
                DelayElapsed, DelayRejected, Answer, RunAt
  <2> QED
    BY <1>1, <1>4, <2>1 DEF InFlight, Going
<1>9. CountedAt(m)'
  BY <1>1, <1>6, <1>7, <1>8, NotExecuting
<1>10. ASSUME NEW j \in Migs, j # m PROVE CountedAt(j)'
  BY <1>1, <1>4, <1>10, OthersCounted
<1> QED
  BY <1>9, <1>10 DEF CountInv

\* The execute handler: it used up none of this life's executions before,
\* and behind it the state is no longer in flight.
LEMMA CountExecute ==
    ASSUME IInv, CountInv, NEW m \in Migs, NEW ok \in BOOLEAN, CallExecute(m, ok)
    PROVE  CountInv'
<1>1. /\ file' = file /\ copy' = copy /\ booted' = booted /\ crashes' = crashes
      /\ execs' = [execs EXCEPT ![m] = @ + 1]
      /\ run[m] = "work" /\ mem[m].idx = Execute
  BY DEF CallExecute, bounds, RunAt
<1>2. mem[m] \in States /\ CountedAt(m) /\ execs[m] \in Nat /\ crashes \in Nat
  BY MigrationAssumption DEF IInv, TypeOK, CountInv
<1>3. FailedState(mem[m]).overall = "failed" /\ Finished(mem[m]).overall = "complete"
  BY <1>1, <1>2 DEF FailedState, Finished, States
<1>4. /\ \A j \in Migs : j # m => mem'[j] = mem[j] /\ run'[j] = run[j] /\ execs'[j] = execs[j]
      /\ execs'[m] = execs[m] + 1
      /\ mem'[m].overall \in {"complete", "failed"} /\ run'[m] \in {"leave", "fail"}
  BY <1>1, <1>3 DEF CallExecute, PhaseDone, Throw, RunTo, IInv, TypeOK
<1>5. execs[m] <= crashes /\ m \notin booted /\ file[m].overall # "absent"
  BY <1>1, <1>2 DEF CountedAt, MayExecute, Going
<1>6. execs'[m] > 0 /\ execs'[m] <= 1 + crashes'
  BY <1>1, <1>2, <1>4, <1>5
<1>7. ~MayExecute(m)' /\ ~InFlight(mem'[m])
  BY <1>1, <1>4, <1>5 DEF MayExecute, InFlight, Going
<1>8. CountedAt(m)'
  BY <1>1, <1>4, <1>5, <1>6, <1>7 DEF CountedAt, Earned
<1>9. ASSUME NEW j \in Migs, j # m PROVE CountedAt(j)'
  BY <1>1, <1>4, <1>9, OthersCounted
<1> QED
  BY <1>8, <1>9 DEF CountInv

\* A crash starts a new life, with one more execution to spend.
LEMMA CountCrash == ASSUME IInv, CountInv, Crash PROVE CountInv'
<1> SUFFICES ASSUME NEW m \in Migs PROVE CountedAt(m)'
  BY DEF CountInv
<1>1. /\ file' = file /\ mem' = mem /\ copy' = copy /\ execs' = execs
      /\ crashes' = crashes + 1 /\ run'[m] = "off"
  BY DEF Crash, histories
<1>2. CountedAt(m) /\ execs[m] \in Nat /\ crashes \in Nat
  BY MigrationAssumption DEF IInv, TypeOK, CountInv
<1>3. execs'[m] <= crashes' /\ execs'[m] <= 1 + crashes'
  BY <1>1, <1>2 DEF CountedAt
<1> QED
  BY <1>1, <1>2, <1>3 DEF CountedAt, Earned

LEMMA NextCount == ASSUME IInv, CountInv, [Next]_vars PROVE CountInv'
<1>1. ASSUME NEW m \in Migs, RunStep(m) PROVE CountInv'
  BY <1>1, CountResume, CountRunSaves, CountSaveFails, CountPhases, CountExecute DEF RunStep
<1>2. ASSUME NEW m \in Migs, CancelStep(m) \/ CancelLoads(m) \/ Start(m) PROVE CountInv'
  BY <1>2, CountCancels, CountStart
<1>3. CASE UNCHANGED vars \/ Tick
  <2>1. /\ run' = run /\ mem' = mem /\ file' = file /\ copy' = copy /\ execs' = execs
        /\ crashes' = crashes /\ booted' = booted
    BY <1>3 DEF vars, Tick, histories, bounds
  <2> QED
    BY <2>1, OthersCounted DEF CountInv
<1> QED
  BY <1>1, <1>2, <1>3, CountCrash DEF Next

(***************************************************************************)
(* The execute handler of the orchestrator is called at most once in each  *)
(* life of the daemon, however saves, cancels and resumes interleave, and  *)
(* no file says complete of a migration that was not executed.             *)
(***************************************************************************)
THEOREM ExecutionsAreCounted == Spec => []ExecutionsCounted
<1>1. Init => CountInv
  BY InitCount
<1>2. IInv /\ CountInv /\ [Next]_vars => CountInv'
  BY NextCount
<1>3. CountInv => ExecutionsCounted
  BY DEF CountInv, CountedAt, Earned, ExecutionsCounted
<1> QED
  BY <1>1, <1>2, <1>3, Inductive, PTL DEF Spec
=============================================================================
