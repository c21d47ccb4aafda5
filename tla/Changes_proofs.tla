--------------------------- MODULE Changes_proofs ---------------------------
(***************************************************************************)
(* Theorems about what stands before a change to the homelab, the safety   *)
(* ladder, for every set of concurrent approvals, every delay, time-out,   *)
(* freshness limit and backup manifest; and about the changes themselves,  *)
(* the deployment backends and autofix, for every number of callers,       *)
(* observations, faults and runs.                                          *)
(***************************************************************************)
EXTENDS ApprovalGate, Deploy, TLAPS

-----------------------------------------------------------------------------
(* The safety ladder: what has been secured at each place of a call.       *)

Arch(a) == request[a].class = "architectural"

\* What runBackupCheck leaves behind for a class that needs a backup.
BackedUp(a) ==
    NeedsBackup(request[a]) =>
        checked[a] # "no" /\ (checked[a] = "bypass" => request[a].admin
                                                      /\ "gate.bypass" \in audit[a])
Waited(a) == Arch(a) => request[a].dryRun /\ now >= asked[a] + Delay

Late == {"ask", "prompt", "verdict"}

GoodAt(a) ==
    /\ pc[a] # "new" => request[a] \in Requests
    /\ pc[a] = "new" => request[a] = NoRequest
    /\ result[a] # "none" => pc[a] = "done"
    /\ pc[a] \in {"backup", "bypass", "delay"} =>
         NeedsBackup(request[a]) /\ (Arch(a) => request[a].dryRun)
    /\ pc[a] = "bypass" => request[a].admin
    /\ pc[a] = "delay" => Arch(a) /\ BackedUp(a)
    /\ pc[a] \in Late => BackedUp(a) /\ Waited(a) /\ (Arch(a) => promise[a] = "resolved")
    /\ asked[a] # D!Never => Arch(a)
    /\ revoked[a] => asked[a] # D!Never /\ promise[a] # "resolved"
    /\ result[a] = "approved" => Evidence(a) /\ ~revoked[a]

GateInv == GateTypeOK /\ \A a \in Actions : GoodAt(a)

-----------------------------------------------------------------------------
\* An approval nobody touched stays good as time passes.
LEMMA Untouched ==
    ASSUME GateTypeOK, NEW j \in Actions, GoodAt(j), now' \in Nat, now' >= now,
           asked'[j] = asked[j], promise'[j] = promise[j], revoked'[j] = revoked[j],
           pc'[j] = pc[j], request'[j] = request[j], confirmed'[j] = confirmed[j],
           checked'[j] = checked[j], audit'[j] = audit[j], result'[j] = result[j]
    PROVE  GoodAt(j)'
<1>1. now \in Nat /\ asked[j] \in Nat /\ Delay \in Nat
  BY GateAssumption DEF GateTypeOK, D!ContractTypeOK
<1>2. now >= asked[j] + Delay => now' >= asked'[j] + Delay
  BY <1>1
<1>3. Waited(j) => Waited(j)'
  BY <1>2 DEF Waited, Arch
<1>4. Evidence(j) => Evidence(j)'
  BY <1>2 DEF Evidence
<1>5. BackedUp(j)' = BackedUp(j) /\ Arch(j)' = Arch(j)
  BY DEF BackedUp, Arch, NeedsBackup
<1> QED
  BY <1>3, <1>4, <1>5 DEF GoodAt, D!Never

\* The steps of the delay contract keep its types.
LEMMA ContractTypes ==
    ASSUME D!ContractTypeOK, NEW m \in Actions,
           \/ UNCHANGED delayVars
           \/ D!Ask(m) \/ D!Wait(m) \/ D!Resolve(m) \/ D!Revoke(m) \/ D!Lose \/ D!Elapse
    PROVE  D!ContractTypeOK' /\ now' \in Nat /\ now' >= now
<1> USE GateAssumption DEF D!ContractTypeOK
<1>1. CASE UNCHANGED delayVars
  BY <1>1 DEF delayVars
<1>2. CASE D!Ask(m)
  BY <1>2 DEF D!Ask
<1>3. CASE D!Wait(m)
  BY <1>3 DEF D!Wait
<1>4. CASE D!Resolve(m)
  BY <1>4 DEF D!Resolve
<1>5. CASE D!Revoke(m)
  <2>1. now' = now /\ asked' = asked
    BY <1>5 DEF D!Revoke
  <2>2. revoked' \in [Actions -> BOOLEAN]
    BY <1>5 DEF D!Revoke
  <2>3. promise' \in [Actions -> {"none", "waiting", "resolved", "rejected"}]
    BY <1>5 DEF D!Revoke
  <2> QED
    BY <2>1, <2>2, <2>3
<1>6. CASE D!Lose
  BY <1>6 DEF D!Lose
<1>7. CASE D!Elapse
  BY <1>7 DEF D!Elapse
<1> QED
  BY <1>1, <1>2, <1>3, <1>4, <1>5, <1>6, <1>7

\* A step of the gate that leaves the delay alone and touches one approval.
GateStepOf(a) ==
    /\ UNCHANGED delayVars
    /\ \A j \in Actions \ {a} :
         /\ pc'[j] = pc[j] /\ request'[j] = request[j] /\ confirmed'[j] = confirmed[j]
         /\ checked'[j] = checked[j] /\ audit'[j] = audit[j] /\ result'[j] = result[j]

LEMMA OthersStay ==
    ASSUME GateInv, NEW a \in Actions, GateStepOf(a), GateTypeOK', GoodAt(a)'
    PROVE  GateInv'
<1>1. now' \in Nat /\ now' >= now
  BY DEF GateStepOf, delayVars, GateInv, GateTypeOK, D!ContractTypeOK
<1>2. ASSUME NEW j \in Actions, j # a PROVE GoodAt(j)'
  BY <1>1, <1>2, Untouched DEF GateStepOf, delayVars, GateInv
<1> QED
  BY <1>2 DEF GateInv, GateTypeOK
-----------------------------------------------------------------------------
(***************************************************************************)
(* One lemma per action of the gate.                                       *)
(***************************************************************************)
LEMMA SubmitStep ==
    ASSUME GateInv, NEW a \in Actions, NEW r \in Requests, Submit(a, r)
    PROVE  GateInv'
<1>1. request' = [request EXCEPT ![a] = r] /\ pc[a] = "new"
  BY DEF Submit
<1>2. UNCHANGED <<delayVars, deadline, confirmed, checked, manifest, audit>>
  BY DEF Submit
<1> DEFINE bad == r.class = "architectural" /\ ~r.dryRun
           l == IF bad THEN "done" ELSE FirstStep(r)
           s == IF bad THEN "error" ELSE result[a]
<1>3. pc' = [pc EXCEPT ![a] = l]
  BY DEF Submit, Return, Goto
<1>4. result' = [result EXCEPT ![a] = s]
  <2>1. CASE bad
    BY <2>1 DEF Submit, Return
  <2>2. CASE ~bad
    BY <2>2 DEF Submit, GateInv, GateTypeOK
  <2> QED
    BY <2>1, <2>2
<1>5. l \in {"done", "verdict", "backup", "ask"} /\ s \in {result[a], "error"}
  BY DEF FirstStep
<1>6. /\ s = "error" /\ result[a] # "error" => l = "done"
      /\ l # "done" => l = FirstStep(r) /\ s = result[a]
      /\ l # "done" /\ r.class = "architectural" => r.dryRun
  OBVIOUS
<1> HIDE DEF bad, l, s
<1>7. /\ pc' = [pc EXCEPT ![a] = l] /\ result' = [result EXCEPT ![a] = s]
      /\ l \in {"done", "verdict", "backup", "ask"} /\ s \in {result[a], "error"}
  BY <1>3, <1>4, <1>5
<1>8. GateTypeOK'
  <2>1. D!ContractTypeOK'
    BY <1>2, ContractTypes DEF GateInv, GateTypeOK
  <2>2. request' \in [Actions -> Requests \cup {NoRequest}]
    BY <1>1 DEF GateInv, GateTypeOK
  <2>3. pc' \in [Actions -> {"new", "backup", "bypass", "delay", "ask", "prompt",
                             "verdict", "done", "lost"}]
    BY <1>7 DEF GateInv, GateTypeOK
  <2>4. result' \in [Actions -> {"none", "approved", "denied", "error"}]
    BY <1>7 DEF GateInv, GateTypeOK
  <2> QED
    BY <1>2, <2>1, <2>2, <2>3, <2>4 DEF GateInv, GateTypeOK
<1>9. GateStepOf(a)
  BY <1>1, <1>2, <1>7 DEF GateStepOf, GateInv, GateTypeOK
<1>10. GoodAt(a)'
  <2>1. /\ GoodAt(a) /\ request[a] = NoRequest /\ asked[a] = D!Never /\ ~revoked[a]
        /\ result[a] = "none"
    BY <1>1 DEF GateInv, GoodAt, Arch, NoRequest
  <2>2. /\ request'[a] = r /\ asked'[a] = D!Never /\ ~revoked'[a]
        /\ pc'[a] \in {"done", "verdict", "backup", "ask"}
        /\ result'[a] \in {"none", "error"} /\ (result'[a] = "error" => pc'[a] = "done")
    BY <1>1, <1>2, <1>7, <1>6, <2>1 DEF delayVars, GateInv, GateTypeOK
  <2>3. pc'[a] \in {"verdict", "ask"} => ~NeedsBackup(r) /\ r.class # "architectural"
    BY <1>7, <1>6, <2>2 DEF FirstStep, NeedsBackup, GateInv, GateTypeOK
  <2>4. pc'[a] = "backup" => NeedsBackup(r) /\ (r.class = "architectural" => r.dryRun)
    BY <1>7, <1>6, <2>2 DEF FirstStep, GateInv, GateTypeOK
  <2> QED
    BY <2>2, <2>3, <2>4 DEF GoodAt, Arch, BackedUp, Waited, Late, D!Never
<1> QED
  BY <1>8, <1>9, <1>10, OthersStay

LEMMA CheckBackupStep == ASSUME GateInv, NEW a \in Actions, CheckBackup(a) PROVE GateInv'
<1>1. UNCHANGED <<delayVars, request, deadline, confirmed, manifest, audit>>
  BY DEF CheckBackup
<1>2. AfterBackup(a) \in {"delay", "ask"}
  BY DEF AfterBackup
<1>3. GateTypeOK'
  <2>1. D!ContractTypeOK'
    BY <1>1, ContractTypes DEF GateInv, GateTypeOK
  <2>2. pc' \in [Actions -> {"new", "backup", "bypass", "delay", "ask", "prompt",
                             "verdict", "done", "lost"}]
    BY <1>2 DEF CheckBackup, Goto, Return, GateInv, GateTypeOK
  <2>3. result' \in [Actions -> {"none", "approved", "denied", "error"}]
    BY DEF CheckBackup, Return, GateInv, GateTypeOK
  <2>4. checked' \in [Actions -> {"no", "signed", "unsigned", "bypass"}]
    BY DEF CheckBackup, GateInv, GateTypeOK
  <2> QED
    BY <1>1, <2>1, <2>2, <2>3, <2>4 DEF GateInv, GateTypeOK
<1>4. GateStepOf(a)
  BY <1>1 DEF GateStepOf, CheckBackup, Goto, Return, GateInv, GateTypeOK
<1>5. GoodAt(a)'
  <2>1. /\ GoodAt(a) /\ pc[a] = "backup" /\ result[a] = "none"
        /\ NeedsBackup(request[a]) /\ (Arch(a) => request[a].dryRun)
        /\ request[a] \in Requests
    BY DEF CheckBackup, GateInv, GoodAt
  <2>2. /\ request'[a] = request[a] /\ asked'[a] = asked[a] /\ promise'[a] = promise[a]
        /\ revoked'[a] = revoked[a] /\ now' = now
    BY <1>1 DEF delayVars
  <2>3. CASE BackupVerified
    <3>1. /\ pc'[a] = AfterBackup(a) /\ result'[a] = "none"
          /\ checked'[a] \in {"signed", "unsigned"}
      BY <2>1, <2>3 DEF CheckBackup, Goto, GateInv, GateTypeOK
    <3>2. pc'[a] = "delay" => Arch(a)
      BY <3>1 DEF AfterBackup, Arch
    <3>3. pc'[a] = "ask" => ~Arch(a)
      BY <3>1 DEF AfterBackup, Arch
    <3> QED
      BY <1>2, <2>1, <2>2, <3>1, <3>2, <3>3
         DEF GoodAt, Arch, BackedUp, Waited, Late, D!Never, NeedsBackup
  <2>4. CASE ~BackupVerified
    <3>1. pc'[a] = "done" /\ result'[a] = "error"
      BY <2>1, <2>4 DEF CheckBackup, Return, Goto, GateInv, GateTypeOK
    <3> QED
      BY <2>1, <2>2, <3>1 DEF GoodAt, Arch, Late, D!Never
  <2> QED
    BY <2>3, <2>4
<1> QED
  BY <1>3, <1>4, <1>5, OthersStay

LEMMA SkipBackupStep == ASSUME GateInv, NEW a \in Actions, SkipBackup(a) PROVE GateInv'
<1>1. UNCHANGED <<delayVars, request, deadline, confirmed, checked, manifest, audit>>
  BY DEF SkipBackup
<1>2. GateTypeOK'
  <2>1. D!ContractTypeOK'
    BY <1>1, ContractTypes DEF GateInv, GateTypeOK
  <2>2. pc' \in [Actions -> {"new", "backup", "bypass", "delay", "ask", "prompt",
                             "verdict", "done", "lost"}]
    BY DEF SkipBackup, Goto, Return, GateInv, GateTypeOK
  <2>3. result' \in [Actions -> {"none", "approved", "denied", "error"}]
    BY DEF SkipBackup, Return, GateInv, GateTypeOK
  <2> QED
    BY <1>1, <2>1, <2>2, <2>3 DEF GateInv, GateTypeOK
<1>3. GateStepOf(a)
  BY <1>1 DEF GateStepOf, SkipBackup, Goto, Return, GateInv, GateTypeOK
<1>4. GoodAt(a)'
  <2>1. GoodAt(a) /\ pc[a] = "backup" /\ result[a] = "none"
    BY DEF SkipBackup, GateInv, GoodAt
  <2>2. /\ request'[a] = request[a] /\ asked'[a] = asked[a] /\ promise'[a] = promise[a]
        /\ revoked'[a] = revoked[a]
    BY <1>1 DEF delayVars
  <2>3. \/ pc'[a] = "bypass" /\ request[a].admin /\ result'[a] = "none"
        \/ pc'[a] = "done" /\ result'[a] = "denied"
    BY <2>1 DEF SkipBackup, MayBypass, Goto, Return, GateInv, GateTypeOK
  <2> QED
    BY <2>1, <2>2, <2>3 DEF GoodAt, Arch, Late, D!Never
<1> QED
  BY <1>2, <1>3, <1>4, OthersStay

LEMMA AuditBypassStep == ASSUME GateInv, NEW a \in Actions, AuditBypass(a) PROVE GateInv'
<1>1. /\ UNCHANGED <<delayVars, request, deadline, confirmed, manifest, result>>
      /\ pc' = [pc EXCEPT ![a] = AfterBackup(a)]
      /\ checked' = [checked EXCEPT ![a] = "bypass"]
      /\ audit' = [audit EXCEPT ![a] = @ \cup {"gate.bypass"}]
  BY DEF AuditBypass, Goto, Log
<1>2. AfterBackup(a) \in {"delay", "ask"}
  BY DEF AfterBackup
<1>3. GateTypeOK'
  <2>1. D!ContractTypeOK'
    BY <1>1, ContractTypes DEF GateInv, GateTypeOK
  <2>2. audit' \in [Actions -> SUBSET {"gate.allowed", "gate.denied", "gate.bypass"}]
    BY <1>1 DEF GateInv, GateTypeOK
  <2> QED
    BY <1>1, <1>2, <2>1, <2>2 DEF GateInv, GateTypeOK
<1>4. GateStepOf(a)
  BY <1>1 DEF GateStepOf, GateInv, GateTypeOK
<1>5. GoodAt(a)'
  <2>1. /\ GoodAt(a) /\ pc[a] = "bypass" /\ result[a] = "none" /\ request[a].admin
        /\ NeedsBackup(request[a]) /\ (Arch(a) => request[a].dryRun)
    BY DEF AuditBypass, GateInv, GoodAt
  <2>2. /\ request'[a] = request[a] /\ asked'[a] = asked[a] /\ promise'[a] = promise[a]
        /\ revoked'[a] = revoked[a] /\ result'[a] = "none"
        /\ pc'[a] = AfterBackup(a) /\ checked'[a] = "bypass" /\ "gate.bypass" \in audit'[a]
    BY <1>1, <2>1 DEF delayVars, GateInv, GateTypeOK
  <2>3. (pc'[a] = "delay" => Arch(a)) /\ (pc'[a] = "ask" => ~Arch(a))
    BY <2>2 DEF AfterBackup, Arch
  <2> QED
    BY <1>2, <2>1, <2>2, <2>3 DEF GoodAt, Arch, BackedUp, Waited, Late, D!Never
<1> QED
  BY <1>3, <1>4, <1>5, OthersStay

\* Steps that leave gate variables other than pc alone, and the delay of others.
DelayStepOf(a) ==
    /\ UNCHANGED <<now, request, deadline, confirmed, checked, manifest, audit, result>>
    /\ \A j \in Actions \ {a} :
         /\ pc'[j] = pc[j] /\ asked'[j] = asked[j]
         /\ promise'[j] = promise[j] /\ revoked'[j] = revoked[j]

LEMMA OthersStayInDelay ==
    ASSUME GateInv, NEW a \in Actions, DelayStepOf(a), GoodAt(a)', D!ContractTypeOK',
           \/ pc' = pc
           \/ pc' = [pc EXCEPT ![a] = "ask"]
    PROVE  GateInv'
<1>1. GateTypeOK'
  BY DEF GateInv, GateTypeOK, DelayStepOf
<1>2. now' \in Nat /\ now' >= now
  BY DEF DelayStepOf, GateInv, GateTypeOK, D!ContractTypeOK
<1>3. ASSUME NEW j \in Actions, j # a PROVE GoodAt(j)'
  BY <1>2, <1>3, Untouched DEF DelayStepOf, GateInv
<1> QED
  BY <1>1, <1>3 DEF GateInv, DelayStepOf

LEMMA RequestDelayStep == ASSUME GateInv, NEW a \in Actions, RequestDelay(a) PROVE GateInv'
<1>1. /\ pc[a] = "delay" /\ asked[a] = D!Never /\ promise[a] = "none"
      /\ asked' = [asked EXCEPT ![a] = IF @ = D!Never THEN now ELSE @]
      /\ revoked' = [revoked EXCEPT ![a] = FALSE]
      /\ UNCHANGED <<now, promise>> /\ UNCHANGED gateVars
  BY DEF RequestDelay, D!Ask
<1>2. D!ContractTypeOK'
  BY ContractTypes DEF RequestDelay, GateInv, GateTypeOK
<1>3. DelayStepOf(a) /\ pc' = pc
  BY <1>1 DEF DelayStepOf, gateVars, GateInv, GateTypeOK, D!ContractTypeOK
<1>4. GoodAt(a)'
  <2>1. GoodAt(a) /\ Arch(a) /\ BackedUp(a) /\ result[a] = "none"
    BY <1>1 DEF GateInv, GoodAt
  <2>2. ~revoked'[a]
    BY <1>1 DEF GateInv, GateTypeOK, D!ContractTypeOK
  <2>3. Arch(a)' /\ BackedUp(a)'
    BY <1>1, <2>1 DEF Arch, BackedUp, NeedsBackup, gateVars
  <2> QED
    BY <1>1, <2>1, <2>2, <2>3 DEF GoodAt, Late, gateVars, D!Never
<1> QED
  BY <1>2, <1>3, <1>4, OthersStayInDelay

LEMMA StartWaitingStep == ASSUME GateInv, NEW a \in Actions, StartWaiting(a) PROVE GateInv'
<1>1. /\ pc[a] = "delay" /\ promise' = [promise EXCEPT ![a] = "waiting"]
      /\ UNCHANGED <<now, asked, revoked>> /\ UNCHANGED gateVars
  BY DEF StartWaiting, D!Wait
<1>2. D!ContractTypeOK'
  BY ContractTypes DEF StartWaiting, GateInv, GateTypeOK
<1>3. DelayStepOf(a) /\ pc' = pc
  BY <1>1 DEF DelayStepOf, gateVars, GateInv, GateTypeOK, D!ContractTypeOK
<1>4. GoodAt(a)'
  <2>1. GoodAt(a) /\ Arch(a) /\ BackedUp(a) /\ result[a] = "none"
    BY <1>1 DEF GateInv, GoodAt
  <2>2. promise'[a] = "waiting"
    BY <1>1 DEF GateInv, GateTypeOK, D!ContractTypeOK
  <2>3. Arch(a)' /\ BackedUp(a)'
    BY <1>1, <2>1 DEF Arch, BackedUp, NeedsBackup, gateVars
  <2> QED
    BY <1>1, <2>1, <2>2, <2>3 DEF GoodAt, Late, gateVars, D!Never
<1> QED
  BY <1>2, <1>3, <1>4, OthersStayInDelay

LEMMA DelayElapsedStep == ASSUME GateInv, NEW a \in Actions, DelayElapsed(a) PROVE GateInv'
<1>1. /\ pc[a] = "delay" /\ now >= asked[a] + Delay /\ ~revoked[a]
      /\ promise' = [promise EXCEPT ![a] = "resolved"]
      /\ pc' = [pc EXCEPT ![a] = "ask"]
      /\ UNCHANGED <<now, asked, revoked, request, deadline, confirmed, checked,
                     manifest, audit, result>>
  BY DEF DelayElapsed, Goto, D!Resolve, D!Due
<1>2. D!ContractTypeOK'
  BY ContractTypes DEF DelayElapsed, GateInv, GateTypeOK
<1>3. DelayStepOf(a)
  BY <1>1 DEF DelayStepOf, GateInv, GateTypeOK, D!ContractTypeOK
<1>4. GoodAt(a)'
  <2>1. /\ GoodAt(a) /\ Arch(a) /\ BackedUp(a) /\ result[a] = "none"
        /\ request[a].dryRun
    BY <1>1 DEF GateInv, GoodAt
  <2>2. promise'[a] = "resolved" /\ pc'[a] = "ask"
    BY <1>1 DEF GateInv, GateTypeOK, D!ContractTypeOK
  <2>3. Arch(a)' /\ BackedUp(a)' /\ Waited(a)'
    BY <1>1, <2>1 DEF Arch, BackedUp, NeedsBackup, Waited
  <2> QED
    BY <1>1, <2>1, <2>2, <2>3 DEF GoodAt, Late, D!Never
<1> QED
  BY <1>1, <1>2, <1>3, <1>4, OthersStayInDelay

\* The operator cancels: an approved action is past the point of revoking.
LEMMA CancelStep == ASSUME GateInv, NEW a \in Actions, Cancel(a) PROVE GateInv'
<1>1. /\ UNCHANGED <<now, asked>> /\ UNCHANGED gateVars
      /\ asked[a] # D!Never
  BY DEF Cancel, D!Revoke
<1>2. D!ContractTypeOK'
  BY ContractTypes DEF Cancel, GateInv, GateTypeOK
<1>3. \/ revoked' = revoked
      \/ /\ ~(now >= asked[a] + Delay) /\ promise[a] # "resolved"
         /\ revoked' = [revoked EXCEPT ![a] = TRUE]
  BY DEF Cancel, D!Revoke, D!Due
<1>4. \/ promise' = promise
      \/ /\ promise[a] = "waiting"
         /\ promise' = [promise EXCEPT ![a] = "rejected"]
  BY DEF Cancel, D!Revoke
<1>5. DelayStepOf(a) /\ pc' = pc
  BY <1>1, <1>3, <1>4 DEF DelayStepOf, gateVars, GateInv, GateTypeOK, D!ContractTypeOK
<1>6. GoodAt(a)'
  <2>1. GoodAt(a) /\ Arch(a)
    BY <1>1 DEF GateInv, GoodAt
  <2>2. promise'[a] = promise[a] \/ (promise[a] = "waiting" /\ promise'[a] = "rejected")
    BY <1>4 DEF GateInv, GateTypeOK, D!ContractTypeOK
  <2>3. \/ revoked'[a] = revoked[a]
        \/ ~(now >= asked[a] + Delay) /\ promise[a] # "resolved"
    BY <1>3 DEF GateInv, GateTypeOK, D!ContractTypeOK
  <2>4. /\ Arch(a)' /\ BackedUp(a)' = BackedUp(a) /\ Waited(a)' = Waited(a)
        /\ Evidence(a)' = Evidence(a)
    BY <1>1, <2>1 DEF Arch, BackedUp, NeedsBackup, Waited, Evidence, gateVars
  <2>5. result[a] = "approved" => now >= asked[a] + Delay
    BY <2>1 DEF GoodAt, Evidence, Arch
  <2>6. revoked'[a] => asked'[a] # D!Never /\ promise'[a] # "resolved"
    BY <1>1, <2>1, <2>2, <2>3 DEF GoodAt
  <2>7. result'[a] = "approved" => Evidence(a)' /\ ~revoked'[a]
    BY <1>1, <2>1, <2>3, <2>4, <2>5 DEF GoodAt, gateVars
  <2> QED
    BY <1>1, <2>1, <2>2, <2>4, <2>6, <2>7 DEF GoodAt, Arch, Late, gateVars, D!Never
<1> QED
  BY <1>2, <1>5, <1>6, OthersStayInDelay

\* gateApproval throws: the delay was rejected, or the audit sink failed.
LEMMA ErrorStep ==
    ASSUME GateInv, NEW a \in Actions, DelayRejected(a) \/ AuditFails(a)
    PROVE  GateInv'
<1>1. /\ UNCHANGED <<delayVars, request, deadline, confirmed, checked, manifest, audit>>
      /\ pc[a] \in {"delay", "bypass", "verdict"}
      /\ pc' = [pc EXCEPT ![a] = "done"]
      /\ result' = [result EXCEPT ![a] = "error"]
  BY DEF DelayRejected, AuditFails, Return, Goto
<1>2. D!ContractTypeOK'
  BY <1>1, ContractTypes DEF GateInv, GateTypeOK
<1>3. GateTypeOK'
  BY <1>1, <1>2 DEF GateInv, GateTypeOK
<1>4. GateStepOf(a)
  BY <1>1 DEF GateStepOf, GateInv, GateTypeOK
<1>5. GoodAt(a)'
  <2>1. GoodAt(a) /\ pc'[a] = "done" /\ result'[a] = "error"
    BY <1>1 DEF GateInv, GoodAt, GateTypeOK
  <2> QED
    BY <1>1, <2>1 DEF GoodAt, Arch, Late, delayVars, D!Never
<1> QED
  BY <1>3, <1>4, <1>5, OthersStay

LEMMA OpenPromptStep == ASSUME GateInv, NEW a \in Actions, OpenPrompt(a) PROVE GateInv'
<1>1. /\ UNCHANGED <<delayVars, request, confirmed, checked, manifest, audit, result>>
      /\ pc[a] = "ask"
      /\ pc' = [pc EXCEPT ![a] = "prompt"]
      /\ deadline' = [deadline EXCEPT ![a] = Expiry]
  BY DEF OpenPrompt, Goto
<1>2. D!ContractTypeOK'
  BY <1>1, ContractTypes DEF GateInv, GateTypeOK
<1>3. Expiry \in 0..MaxTime + Ttl
  BY GateAssumption DEF Expiry, GateInv, GateTypeOK, D!ContractTypeOK
<1>4. GateTypeOK'
  BY <1>1, <1>2, <1>3 DEF GateInv, GateTypeOK
<1>5. GateStepOf(a)
  BY <1>1 DEF GateStepOf, GateInv, GateTypeOK
<1>6. GoodAt(a)'
  <2>1. GoodAt(a) /\ pc'[a] = "prompt"
    BY <1>1 DEF GateInv, GateTypeOK
  <2>2. BackedUp(a)' = BackedUp(a) /\ Waited(a)' = Waited(a) /\ Arch(a)' = Arch(a)
    BY <1>1 DEF BackedUp, Waited, Arch, NeedsBackup, delayVars
  <2> QED
    BY <1>1, <2>1, <2>2 DEF GoodAt, Late, delayVars, D!Never
<1> QED
  BY <1>4, <1>5, <1>6, OthersStay

\* A line or a time-out settles a set of open prompts.
LEMMA SettleStep ==
    ASSUME GateInv, NEW S \in SUBSET Open, NEW answer \in BOOLEAN, Settle(S, answer)
    PROVE  GateInv'
<1>1. UNCHANGED <<delayVars, request, deadline, checked, manifest, audit, result>>
  BY DEF Settle
<1>2. D!ContractTypeOK' /\ now' \in Nat /\ now' >= now
  BY <1>1 DEF delayVars, GateInv, GateTypeOK, D!ContractTypeOK
<1>3. pc' \in [Actions -> {"new", "backup", "bypass", "delay", "ask", "prompt",
                           "verdict", "done", "lost"}]
  BY DEF Settle, GateInv, GateTypeOK
<1>4. confirmed' \in [Actions -> BOOLEAN]
  BY DEF Settle, GateInv, GateTypeOK
<1>5. GateTypeOK'
  BY <1>1, <1>2, <1>3, <1>4 DEF GateInv, GateTypeOK
<1>6. ASSUME NEW j \in Actions PROVE GoodAt(j)'
  <2>1. GoodAt(j)
    BY DEF GateInv
  <2>2. CASE j \in S
    <3>1. pc[j] = "prompt" /\ pc'[j] = "verdict"
      BY <2>2 DEF Settle, Open
    <3>2. BackedUp(j)' = BackedUp(j) /\ Waited(j)' = Waited(j) /\ Arch(j)' = Arch(j)
      BY <1>1 DEF BackedUp, Waited, Arch, NeedsBackup, delayVars
    <3> QED
      BY <1>1, <2>1, <3>1, <3>2 DEF GoodAt, Late, delayVars, D!Never
  <2>3. CASE j \notin S
    <3>1. pc'[j] = pc[j] /\ confirmed'[j] = confirmed[j]
      BY <2>3 DEF Settle
    <3> QED
      BY <1>1, <1>2, <2>1, <3>1, Untouched DEF delayVars, GateInv
  <2> QED
    BY <2>2, <2>3
<1> QED
  BY <1>1, <1>5, <1>6 DEF GateInv

LEMMA VerdictStep == ASSUME GateInv, NEW a \in Actions, Verdict(a) PROVE GateInv'
<1>1. /\ UNCHANGED <<delayVars, request, deadline, confirmed, checked, manifest>>
      /\ pc[a] = "verdict" /\ pc' = [pc EXCEPT ![a] = "done"]
  BY DEF Verdict, Return, Goto
<1>2. PICK e \in {"gate.allowed", "gate.denied"} : audit' = [audit EXCEPT ![a] = @ \cup {e}]
  BY DEF Verdict, Log
<1>3. PICK s \in {"approved", "denied"} :
        result' = [result EXCEPT ![a] = s] /\ (s = "approved" => Granted(a))
  BY DEF Verdict, Return
<1>4. D!ContractTypeOK'
  BY <1>1, ContractTypes DEF GateInv, GateTypeOK
<1>5. GateTypeOK'
  BY <1>1, <1>2, <1>3, <1>4 DEF GateInv, GateTypeOK
<1>6. GateStepOf(a)
  BY <1>1, <1>2, <1>3 DEF GateStepOf, GateInv, GateTypeOK
<1>7. GoodAt(a)'
  <2>1. /\ GoodAt(a) /\ BackedUp(a) /\ Waited(a) /\ (Arch(a) => promise[a] = "resolved")
        /\ request[a] \in Requests
    BY <1>1 DEF GateInv, GoodAt, Late
  <2>2. pc'[a] = "done" /\ result'[a] = s /\ audit[a] \subseteq audit'[a]
    BY <1>1, <1>2, <1>3 DEF GateInv, GateTypeOK
  <2>3. s = "approved" => Evidence(a)'
    <3>1. BackedUp(a)' /\ Waited(a)'
      BY <1>1, <2>1, <2>2 DEF BackedUp, Waited, Arch, NeedsBackup, delayVars
    <3>2. s = "approved" => (request'[a].class # "read-only" => confirmed'[a])
      BY <1>1, <1>3 DEF Granted
    <3> QED
      BY <3>1, <3>2 DEF Evidence, BackedUp, Waited, Arch, NeedsBackup
  <2>4. ~revoked[a]
    BY <2>1 DEF GoodAt
  <2> QED
    BY <1>1, <2>1, <2>2, <2>3, <2>4 DEF GoodAt, Arch, Late, delayVars, D!Never
<1> QED
  BY <1>5, <1>6, <1>7, OthersStay

LEMMA CrashStep == ASSUME GateInv, Crash PROVE GateInv'
<1>1. /\ UNCHANGED <<now, asked, revoked, request, deadline, confirmed, checked, manifest,
                     audit, result>>
      /\ promise' = [j \in Actions |-> "none"]
      /\ pc' = [j \in Actions |-> IF pc[j] \in {"new", "done"} THEN pc[j] ELSE "lost"]
  BY DEF Crash, D!Lose
<1>2. GateTypeOK'
  BY <1>1 DEF GateInv, GateTypeOK, D!ContractTypeOK
<1>3. ASSUME NEW j \in Actions PROVE GoodAt(j)'
  <2>1. GoodAt(j) /\ promise'[j] = "none"
    BY <1>1 DEF GateInv
  <2>2. pc'[j] = pc[j] \/ pc'[j] = "lost"
    BY <1>1
  <2>3. pc'[j] \in {"new", "done", "lost"} /\ (pc'[j] = "lost" => pc[j] # "new" /\ pc[j] # "done")
    BY <1>1
  <2>4. Evidence(j)' = Evidence(j) /\ Arch(j)' = Arch(j)
    BY <1>1 DEF Evidence, Arch
  <2> QED
    BY <1>1, <2>1, <2>2, <2>3, <2>4 DEF GoodAt, Late, D!Never
<1> QED
  BY <1>1, <1>2, <1>3 DEF GateInv

\* Time passes, or a backup is recorded.
LEMMA EnvironmentStep == ASSUME GateInv, Tick \/ RecordBackup PROVE GateInv'
<1>1. /\ UNCHANGED <<asked, promise, revoked, pc, request, deadline, confirmed, checked,
                     audit, result>>
      /\ now' = now \/ (now < MaxTime /\ now' = now + 1)
      /\ manifest' = manifest \/ manifest' = manifest \cup {[sig |-> "valid", taken |-> now]}
  BY DEF Tick, RecordBackup, D!Elapse, delayVars, gateVars
<1>2. now \in 0..MaxTime /\ MaxTime \in Nat
  BY GateAssumption DEF GateInv, GateTypeOK, D!ContractTypeOK
<1>3. manifest' \subseteq Entries
  <2>1. [sig |-> "valid", taken |-> now] \in Entries
    BY <1>2 DEF Entries
  <2> QED
    BY <1>1, <2>1 DEF GateInv, GateTypeOK
<1>4. now' \in 0..MaxTime /\ now' >= now
  BY <1>1, <1>2
<1>5. GateTypeOK'
  BY <1>1, <1>3, <1>4 DEF GateInv, GateTypeOK, D!ContractTypeOK
<1>6. ASSUME NEW j \in Actions PROVE GoodAt(j)'
  BY <1>1, <1>4, Untouched DEF GateInv
<1> QED
  BY <1>3, <1>5, <1>6 DEF GateInv
-----------------------------------------------------------------------------
LEMMA InitGateInv == GateInit => GateInv
<1> SUFFICES ASSUME GateInit PROVE GateInv
  OBVIOUS
<1>1. manifest \subseteq Entries
  BY GateAssumption DEF GateInit
<1>2. D!ContractTypeOK
  BY GateAssumption DEF GateInit, D!ContractInit, D!ContractTypeOK, D!Never
<1>3. 0 \in 0..MaxTime + Ttl
  BY GateAssumption
<1>4. GateTypeOK
  BY <1>1, <1>2, <1>3 DEF GateInit, GateTypeOK
<1>5. ASSUME NEW j \in Actions PROVE GoodAt(j)
  BY DEF GateInit, GoodAt, Late, D!ContractInit, D!Never
<1> QED
  BY <1>1, <1>4, <1>5 DEF GateInv

LEMMA NextGateInv == GateInv /\ [GateNext]_ladderVars => GateInv'
<1> SUFFICES ASSUME GateInv, [GateNext]_ladderVars PROVE GateInv'
  OBVIOUS
<1>1. ASSUME NEW a \in Actions, Step(a) PROVE GateInv'
  <2>1. CASE PromptTimeout(a)
    <3>1. Settle({a}, FALSE) /\ {a} \in SUBSET Open
      BY <2>1 DEF PromptTimeout
    <3> QED
      BY <3>1, SettleStep
  <2> QED
    BY <1>1, <2>1, CheckBackupStep, SkipBackupStep, AuditBypassStep, RequestDelayStep,
       StartWaitingStep, DelayElapsedStep, ErrorStep, OpenPromptStep, VerdictStep DEF Step
<1>2. ASSUME NEW isConfirm \in BOOLEAN, TypeLine(isConfirm) PROVE GateInv'
  BY <1>2, SettleStep DEF TypeLine
<1>3. CASE UNCHANGED ladderVars
  <2>1. /\ now' = now /\ UNCHANGED <<asked, promise, revoked>> /\ UNCHANGED gateVars
    BY <1>3 DEF ladderVars, delayVars
  <2>2. GateTypeOK'
    BY <2>1 DEF gateVars, GateInv, GateTypeOK, D!ContractTypeOK
  <2>3. now' \in Nat /\ now' >= now
    BY <2>1 DEF GateInv, GateTypeOK, D!ContractTypeOK
  <2>4. ASSUME NEW j \in Actions PROVE GoodAt(j)'
    BY <2>1, <2>3, Untouched DEF gateVars, GateInv
  <2> QED
    BY <2>1, <2>2, <2>4 DEF gateVars, GateInv
<1> QED
  BY <1>1, <1>2, <1>3, SubmitStep, CancelStep, ErrorStep, CrashStep, EnvironmentStep DEF GateNext

(***************************************************************************)
(* The inductive invariant holds in every reachable state, whatever signed *)
(* or unsigned manifests the gate finds.                                   *)
(***************************************************************************)
THEOREM GateInductive == GateSpec => []GateInv
BY InitGateInv, NextGateInv, PTL DEF GateSpec

(***************************************************************************)
(* gateApproval approves nothing without the evidence its class calls for. *)
(***************************************************************************)
THEOREM ApprovalNeedsEvidence == GateSpec => []ApprovedWithEvidence
<1>1. GateInv => ApprovedWithEvidence
  BY DEF GateInv, GoodAt, ApprovedWithEvidence
<1> QED
  BY <1>1, GateInductive, PTL

(***************************************************************************)
(* An action revoked in time is never approved, however many approvals     *)
(* share the terminal.                                                     *)
(***************************************************************************)
THEOREM RevokedStaysUnapproved == GateSpec => []RevokedNeverApproved
<1>1. GateInv => RevokedNeverApproved
  BY DEF GateInv, GoodAt, RevokedNeverApproved
<1> QED
  BY <1>1, GateInductive, PTL

-----------------------------------------------------------------------------
(* The deployment backends and autofix.                                    *)

\* A proposal says whether its observation has a remediation, and the update
\* about to be forced has been paid for by an approval.
InUse == IF fix.at = "exec" THEN 1 ELSE 0

FixerInv ==
  /\ approvals \in Nat /\ forced \in Nat
  /\ \A p \in proposals : p.supported => p.id \in Fixable
  /\ forced + InUse <= approvals
  /\ fix.at \in {"gate", "exec"} => fix.id \in Fixable

-----------------------------------------------------------------------------
\* No deployment touches what autofix keeps.
LEMMA CallKeepsFixer ==
  ASSUME NEW c \in Callers, CallStep(c) \/ Build(c) \/ Deploy(c) \/ Rollback(c)
  PROVE  UNCHANGED fixer
<1>1. CASE Build(c) \/ Deploy(c) \/ Rollback(c)
  BY <1>1 DEF Build, Deploy, Rollback
<1>2. CASE Pull(c) \/ UnraidCapture(c) \/ SwarmBuilt(c) \/ Lookup(c)
  BY <1>2 DEF Pull, UnraidCapture, SwarmBuilt, Lookup
<1>3. CASE Create(c) \/ Start(c) \/ Stop(c) \/ Add(c)
  BY <1>3 DEF Create, Start, Stop, Add, Call
<1>4. CASE Check(c) \/ UnraidInspect(c) \/ PollNew(c) \/ Persist(c)
  BY <1>4 DEF Check, UnraidInspect, PollNew, Persist
<1>5. CASE SwarmInspect(c) \/ Stack(c)
  BY <1>5 DEF SwarmInspect, Stack
<1>6. CASE RStop(c) \/ RRemove(c) \/ RAdd(c) \/ RStart(c)
  BY <1>6 DEF RStop, RRemove, RAdd, RStart, Call
<1>7. CASE RPoll(c) \/ DockerRollback(c) \/ AwaitRollback(c)
  BY <1>7 DEF RPoll, DockerRollback, AwaitRollback, Call
<1> QED
  BY <1>1, <1>2, <1>3, <1>4, <1>5, <1>6, <1>7 DEF CallStep

LEMMA InitFixerInv == Init => FixerInv
BY DEF Init, FixerInv, InUse, NoFix

LEMMA StepFixerInv == FixerInv /\ [Next]_vars => FixerInv'
<1> SUFFICES ASSUME FixerInv, [Next]_vars PROVE FixerInv'
  OBVIOUS
<1> USE DEF FixerInv, InUse
<1>1. CASE UNCHANGED fixer
  BY <1>1 DEF fixer
<1>2. ASSUME NEW o \in Observations, Propose(o) PROVE FixerInv'
  <2> DEFINE new == [id |-> o, supported |-> o \in Fixable]
  <2>1. new.supported => new.id \in Fixable
    BY Zenon
  <2>2. proposals' = proposals \cup {new} /\ UNCHANGED <<fix, approvals, forced>>
    BY <1>2 DEF Propose
  <2> HIDE DEF new
  <2>3. \A p \in proposals' : p.supported => p.id \in Fixable
    BY <2>1, <2>2
  <2> QED
    BY <2>2, <2>3
<1>3. ASSUME NEW p \in proposals, Apply(p) PROVE FixerInv'
  BY <1>3 DEF Apply, FixTo
<1>4. CASE FixGate
  BY <1>4 DEF FixGate, FixTo, FixEnds, NoFix
<1>5. CASE FixExec
  BY <1>5 DEF FixExec, FixTo
<1>6. CASE FixAudit
  BY <1>6 DEF FixAudit, FixTo, FixEnds, NoFix
<1>7. CASE FixError
  BY <1>7 DEF FixError, FixEnds, NoFix
<1>8. ASSUME NEW c \in Callers, CallStep(c) \/ Build(c) \/ Deploy(c) \/ Rollback(c)
      PROVE  FixerInv'
  BY <1>1, <1>8, CallKeepsFixer
<1>9. CASE UNCHANGED vars
  BY <1>1, <1>9 DEF vars
<1> QED
  BY <1>2, <1>3, <1>4, <1>5, <1>6, <1>7, <1>8, <1>9 DEF Next

(***************************************************************************)
(* autofix apply (cli/commands/autofix.ts 350-507): however often it is    *)
(* run again after a lost answer or a failed audit entry, every forced     *)
(* update has an approval of its own and remedies an observation that has  *)
(* a remediation.                                                          *)
(***************************************************************************)
THEOREM ForcedNeedsApproval == Spec => []ForcedAsApproved
<1>1. FixerInv => ForcedAsApproved
  BY DEF FixerInv, InUse, ForcedAsApproved
<1> QED
  BY InitFixerInv, StepFixerInv, <1>1, PTL DEF Spec

-----------------------------------------------------------------------------
(***************************************************************************)
(* What a call reports.  Types first: the target, and what each caller     *)
(* keeps.                                                                  *)
(***************************************************************************)
Versions == Callers \cup Old \cup {None}
Targets == [spec : Versions, prev : Versions, up : BOOLEAN]
Places == {"idle", "check", "pull", "capture", "inspect", "stop", "add", "start", "poll", "persist",
           "rstop", "rremove", "radd", "rstart", "rpoll", "built", "stack", "rback", "rwait",
           "create", "lookup"}
Calls == [at : Places, op : {"none", "build", "deploy", "rollback"}, tries : Nat, old : Versions, ok : BOOLEAN]
Captures == [there : BOOLEAN, old : Versions]
Bases == [back : Versions, found : Targets, updated : BOOLEAN]
Reports == {"none", "built", "refused", "failed", "deployed", "unrecorded", "restored", "rollback failed"}

DeployTypeOK ==
  /\ kind \in {"unraid", "swarm", "proxmox"}
  /\ svc \in Targets /\ recorded \in BOOLEAN
  /\ job \in [Callers -> Calls]
  /\ artifact \in [Callers -> Captures] /\ record \in [Callers -> Captures]
  /\ report \in [Callers -> Reports]
  /\ base \in [Callers -> Bases] /\ clean \in [Callers -> BOOLEAN]

(***************************************************************************)
(* Then how far each caller's call is, and what that says of the target as *)
(* long as the caller is clean: what it captured it takes along, and each  *)
(* step of a deployment or of a restoration has left the target where the  *)
(* next one expects it.                                                    *)
(***************************************************************************)
\* Where a call to a backend of each kind can be.
PlacesOf(k) ==
  {"idle", "check"} \cup
  CASE k = "unraid"  -> {"pull", "capture", "inspect", "stop", "add", "start", "poll", "persist",
                         "rstop", "rremove", "radd", "rstart", "rpoll"}
    [] k = "swarm"   -> {"built", "inspect", "stack", "rback", "rwait"}
    [] OTHER         -> {"create", "lookup", "start", "poll", "persist", "rstop", "rstart", "rpoll"}

\* An instance of proxmox is created once, by the caller who goes on with it.
Own(c, k, s, at, art) ==
  k = "proxmox" =>
    /\ at \in {"check", "start", "poll", "persist"} => art.there
    /\ art.there \/ at = "lookup" => s.spec = c

\* Where a rollback leads: docker's leads from what the stack deploy left.
Went(k, b) == IF k = "swarm" /\ ~b.updated THEN b.found.prev ELSE b.back

Carried(k, s, at, old, art, rec, how, b) ==
  /\ k = "unraid" => art.old = b.back
  /\ k = "proxmox" => art.there /\ s.spec = b.back
  /\ k = "unraid" /\ at \notin {"idle", "pull", "capture"} => old = b.back
  /\ at = "stack" => old = b.back
  /\ at = "idle" /\ how = "deployed" =>
       /\ k = "unraid" => rec.old = b.back
       /\ k = "swarm" => s.prev = Went(k, b)

Reached(c, k, s, at, how, b) ==
  /\ at \in {"check", "inspect", "stop", "stack"} => s = b.found
  /\ at = "stack" => s.spec = b.back
  /\ at \in {"start", "poll", "persist"} => s.spec = c
  /\ at = "persist" => s.up
  /\ at \in {"rstart", "rpoll", "rwait"} => s.spec = Went(k, b)
  /\ at = "rback" => s.prev = Went(k, b)
  /\ at = "idle" =>
       /\ how = "deployed" => s.spec = c /\ (s.up \/ k = "swarm")
       /\ how = "restored" => s.spec = Went(k, b) /\ (s.up \/ k = "swarm")
       /\ how = "failed" => k = "proxmox" \/ b.back = None \/ s = b.found

Held(c, k, s, call, art, rec, how, b, cl) ==
  /\ call.at \in PlacesOf(k)
  /\ Own(c, k, s, call.at, art)
  /\ cl => Carried(k, s, call.at, call.old, art, rec, how, b) /\ Reached(c, k, s, call.at, how, b)

HeldBy(c) == Held(c, kind, svc, job[c], artifact[c], record[c], report[c], base[c], clean[c])

ReportInv == DeployTypeOK /\ \A c \in Callers : HeldBy(c)

-----------------------------------------------------------------------------
\* The host's calls, by what they leave.
LEMMA HostCalls ==
  ASSUME DeployTypeOK, NEW c \in Callers
  PROVE  /\ Started \in Targets /\ Started.spec = svc.spec
         /\ Stopped \in Targets /\ Stopped.spec = svc.spec
         /\ Updated(c) \in Targets /\ Updated(c).spec = c /\ Updated(c).prev = svc.spec
         /\ RolledBack \in Targets /\ RolledBack.spec = svc.prev
         /\ Absent \in Targets
<1>1. /\ (svc.spec \notin Broken) \in BOOLEAN
      /\ (svc.prev \notin Broken) \in BOOLEAN
      /\ (c \notin Broken) \in BOOLEAN
  OBVIOUS
<1>2. svc.spec \in Versions /\ svc.prev \in Versions
  BY DEF DeployTypeOK, Targets
<1>3. Started \in Targets /\ Started.spec = svc.spec
  BY <1>1 DEF Started, DeployTypeOK, Targets
<1>4. Stopped \in Targets /\ Stopped.spec = svc.spec
  BY DEF Stopped, DeployTypeOK, Targets
<1>5. Updated(c) \in Targets /\ Updated(c).spec = c /\ Updated(c).prev = svc.spec
  BY <1>1, <1>2 DEF Updated, Targets, Versions
<1>6. RolledBack \in Targets /\ RolledBack.spec = svc.prev
  BY <1>1, <1>2 DEF RolledBack, Targets
<1>7. Absent \in Targets
  BY DEF Absent, Targets, Versions
<1> QED
  BY <1>3, <1>4, <1>5, <1>6, <1>7

LEMMA HostAdds ==
  ASSUME NEW v \in Versions
  PROVE  Added(v) \in Targets /\ Added(v).spec = v
BY DEF Added, Absent, Targets, Versions

\* What every step of a caller leaves to the others.
Others(c) == \A d \in Callers \ {c} :
  /\ job'[d] = job[d] /\ artifact'[d] = artifact[d] /\ record'[d] = record[d]
  /\ report'[d] = report[d] /\ base'[d] = base[d]
  /\ clean'[d] => clean[d] /\ svc' = svc
SpecStays == kind = "proxmox" /\ svc.spec # None => svc'.spec = svc.spec

LEMMA OthersHeld ==
  ASSUME ReportInv, NEW c \in Callers, Others(c), SpecStays, kind' = kind, NEW d \in Callers, d # c
  PROVE  HeldBy(d)'
<1>1. HeldBy(d)
  BY DEF ReportInv
<1>2. /\ job'[d] = job[d] /\ artifact'[d] = artifact[d] /\ record'[d] = record[d]
      /\ report'[d] = report[d] /\ base'[d] = base[d]
      /\ clean'[d] => clean[d] /\ svc' = svc
  BY DEF Others
<1>3. Own(d, kind, svc', job[d].at, artifact[d])
  BY <1>1, DeployAssumption DEF HeldBy, Held, Own, SpecStays, None
<1> QED
  BY <1>1, <1>2, <1>3 DEF HeldBy, Held

-----------------------------------------------------------------------------
\* The pieces the actions are built from.
LEMMA Going ==
  ASSUME DeployTypeOK, NEW c \in Callers, NEW at \in Places, At(c, at)
  PROVE  /\ job' \in [Callers -> Calls]
         /\ job'[c].at = at /\ job'[c].old = job[c].old /\ job'[c].ok = job[c].ok
         /\ \A d \in Callers \ {c} : job'[d] = job[d]
<1> DEFINE new == [job[c] EXCEPT !.at = at]
<1>1. job \in [Callers -> Calls] /\ job[c] \in Calls
  BY DEF DeployTypeOK
<1>2. job' = [job EXCEPT ![c] = new]
  BY DEF At
<1>3. new \in Calls /\ new.at = at /\ new.old = job[c].old /\ new.ok = job[c].ok
  BY <1>1 DEF Calls
<1> HIDE DEF new
<1> QED
  BY <1>1, <1>2, <1>3

LEMMA IdleCall == Idle \in Calls /\ Idle.at = "idle"
BY DEF Idle, Calls, Places, Versions, None

LEMMA Ending ==
  ASSUME DeployTypeOK, NEW c \in Callers, NEW how \in Reports, End(c, how)
  PROVE  /\ job' \in [Callers -> Calls] /\ report' \in [Callers -> Reports]
         /\ job'[c].at = "idle" /\ report'[c] = how
         /\ \A d \in Callers \ {c} : job'[d] = job[d] /\ report'[d] = report[d]
BY IdleCall DEF DeployTypeOK, End

LEMMA Undisturbed ==
  ASSUME DeployTypeOK, NEW c \in Callers, Disturb(c, FALSE)
  PROVE  /\ clean' \in [Callers -> BOOLEAN]
         /\ clean'[c] => clean[c]
         /\ \A d \in Callers \ {c} : clean'[d] => clean[d] /\ svc' = svc
<1>1. \A d \in Callers : (clean[d] /\ (svc' = svc \/ (d = c /\ ~FALSE))) \in BOOLEAN
  OBVIOUS
<1>2. clean' = [d \in Callers |-> clean[d] /\ (svc' = svc \/ (d = c /\ ~FALSE))]
  BY Zenon DEF Disturb
<1>3. clean' \in [Callers -> BOOLEAN]
  BY <1>1, <1>2
<1>4. \A d \in Callers : clean'[d] = (clean[d] /\ (svc' = svc \/ (d = c /\ ~FALSE)))
  BY <1>2
<1> QED
  BY <1>3, <1>4

\* A call whose answer is lost disturbs its caller too.
LEMMA Disturbed ==
  ASSUME DeployTypeOK, NEW c \in Callers, Disturb(c, svc' # svc)
  PROVE  /\ clean' \in [Callers -> BOOLEAN]
         /\ \A d \in Callers : clean'[d] => clean[d] /\ svc' = svc
<1>1. \A d \in Callers : (clean[d] /\ (svc' = svc \/ (d = c /\ ~(svc' # svc)))) \in BOOLEAN
  OBVIOUS
<1>2. clean' = [d \in Callers |-> clean[d] /\ (svc' = svc \/ (d = c /\ ~(svc' # svc)))]
  BY Zenon DEF Disturb
<1>3. clean' \in [Callers -> BOOLEAN]
  BY <1>1, <1>2
<1>4. \A d \in Callers : clean'[d] = (clean[d] /\ (svc' = svc \/ (d = c /\ ~(svc' # svc))))
  BY <1>2
<1> QED
  BY <1>3, <1>4

LEMMA Capturing ==
  ASSUME DeployTypeOK, NEW c \in Callers, NEW old, Capture(c, old)
  PROVE  /\ base' \in [Callers -> Bases] /\ clean' \in [Callers -> BOOLEAN]
         /\ base'[c].back = svc.spec /\ base'[c].found = svc
         /\ clean'[c] => old = svc.spec
         /\ \A d \in Callers \ {c} : base'[d] = base[d] /\ clean'[d] = clean[d]
<1>1. [back |-> svc.spec, found |-> svc, updated |-> FALSE] \in Bases
  BY DEF DeployTypeOK, Bases, Targets
<1>2. (old = svc.spec) \in BOOLEAN
  OBVIOUS
<1> QED
  BY <1>1, <1>2 DEF DeployTypeOK, Capture

LEMMA Building ==
  ASSUME DeployTypeOK, NEW c \in Callers, NEW old \in Versions, Built(c, old)
  PROVE  /\ artifact' \in [Callers -> Captures]
         /\ artifact'[c].there /\ artifact'[c].old = old
         /\ \A d \in Callers \ {c} : artifact'[d] = artifact[d]
         /\ End(c, "built")
BY DEF DeployTypeOK, Built, Captures

LEMMA Deploying ==
  ASSUME DeployTypeOK, NEW c \in Callers, NEW old \in Versions, Deployed(c, old)
  PROVE  /\ record' \in [Callers -> Captures]
         /\ record'[c].old = old
         /\ \A d \in Callers \ {c} : record'[d] = record[d]
         /\ End(c, "deployed")
BY DEF DeployTypeOK, Deployed, Captures

-----------------------------------------------------------------------------
\* What a step leaves of the callers' standing.
CleanStays(c) ==
  /\ clean' \in [Callers -> BOOLEAN]
  /\ clean'[c] => clean[c]
  /\ \A d \in Callers \ {c} : clean'[d] => clean[d] /\ svc' = svc
NobodyGains ==
  /\ clean' \in [Callers -> BOOLEAN]
  /\ \A d \in Callers : clean'[d] => clean[d] /\ svc' = svc
Kept == kind' = kind /\ artifact' = artifact /\ base' = base

LEMMA Settled ==
  ASSUME DeployTypeOK, svc' = svc, clean' = clean
  PROVE  NobodyGains /\ SpecStays /\ svc' \in Targets
BY DEF DeployTypeOK, NobodyGains, SpecStays

LEMMA Closing ==
  ASSUME ReportInv, DeployTypeOK', NEW c \in Callers, Others(c), SpecStays, kind' = kind, HeldBy(c)'
  PROVE  ReportInv'
<1>1. \A d \in Callers : HeldBy(d)'
  BY OthersHeld
<1> QED
  BY <1>1 DEF ReportInv

\* A call that ends without success.
LEMMA Failing ==
  ASSUME ReportInv, NEW c \in Callers, NEW how \in {"refused", "rollback failed", "unrecorded", "failed"},
         End(c, how), NobodyGains, svc' \in Targets, SpecStays, Kept, record' = record, recorded' \in BOOLEAN,
         how = "failed" /\ clean[c] => kind = "proxmox" \/ base[c].back = None \/ svc = base[c].found
  PROVE  ReportInv'
<1>1. DeployTypeOK /\ HeldBy(c) /\ how \in Reports
  BY DEF ReportInv, Reports
<1>2. /\ job' \in [Callers -> Calls] /\ report' \in [Callers -> Reports]
      /\ job'[c].at = "idle" /\ report'[c] = how
      /\ \A d \in Callers \ {c} : job'[d] = job[d] /\ report'[d] = report[d]
  BY <1>1, Ending
<1>3. DeployTypeOK'
  BY <1>1, <1>2 DEF DeployTypeOK, Kept, NobodyGains
<1>4. Others(c)
  BY <1>2 DEF Others, Kept, NobodyGains
<1>5. Own(c, kind, svc', "idle", artifact[c])
  BY <1>1, DeployAssumption DEF HeldBy, Held, Own, SpecStays, None
<1>6. clean'[c] => clean[c] /\ svc' = svc
  BY DEF NobodyGains
<1>7. clean'[c] => Carried(kind, svc', "idle", job'[c].old, artifact[c], record[c], how, base[c])
  BY <1>1, <1>6 DEF HeldBy, Held, Carried
<1>8. clean'[c] => Reached(c, kind, svc', "idle", how, base[c])
  BY <1>6 DEF Reached
<1>9. HeldBy(c)'
  BY <1>2, <1>5, <1>7, <1>8 DEF HeldBy, Held, Kept, PlacesOf
<1> QED
  BY <1>3, <1>4, <1>9, Closing DEF Kept

\* A call that goes on.
LEMMA AdvancingSo ==
  ASSUME ReportInv, NEW c \in Callers, NEW at \in PlacesOf(kind) \ {"idle", "stack"}, at \in Places,
         Goes(c, at), CleanStays(c), svc' \in Targets, SpecStays, Kept, record' = record, recorded' = recorded,
         kind = "proxmox" /\ at \in {"check", "start", "poll", "persist"} => artifact[c].there,
         kind = "proxmox" /\ at = "lookup" => svc'.spec = c,
         job[c].at \notin {"idle", "pull", "capture"} \/ at = "capture",
         clean'[c] => Reached(c, kind, svc', at, report[c], base[c])
  PROVE  ReportInv'
<1>1. DeployTypeOK /\ HeldBy(c)
  BY DEF ReportInv
<1>2. /\ job' \in [Callers -> Calls]
      /\ job'[c].at = at /\ job'[c].old = job[c].old
      /\ \A d \in Callers \ {c} : job'[d] = job[d]
      /\ report' = report
  BY <1>1, Going DEF Goes
<1>3. DeployTypeOK'
  BY <1>1, <1>2 DEF DeployTypeOK, Kept, CleanStays
<1>4. Others(c)
  BY <1>2 DEF Others, Kept, CleanStays
<1>5. Own(c, kind, svc', at, artifact[c])
  BY <1>1, DeployAssumption DEF HeldBy, Held, Own, SpecStays, None
<1>6. clean'[c] => clean[c]
  BY DEF CleanStays
<1>7. clean'[c] => Carried(kind, svc', at, job[c].old, artifact[c], record[c], report[c], base[c])
  BY <1>1, <1>6, DeployAssumption DEF HeldBy, Held, Carried, Own, SpecStays, None
<1>8. HeldBy(c)'
  BY <1>2, <1>5, <1>6, <1>7 DEF HeldBy, Held, Kept
<1> QED
  BY <1>3, <1>4, <1>8, Closing DEF Kept

LEMMA Advancing ==
  ASSUME ReportInv, NEW c \in Callers, NEW at \in PlacesOf(kind) \ {"idle", "stack"}, at \in Places,
         Goes(c, at), CleanStays(c), svc' \in Targets, SpecStays, Kept, record' = record, recorded' = recorded,
         kind = "proxmox" /\ at \in {"check", "start", "poll", "persist"} => artifact[c].there,
         kind = "proxmox" /\ at = "lookup" => svc'.spec = c,
         job[c].at \notin {"idle", "pull", "capture"} \/ at = "capture",
         clean[c] => Reached(c, kind, svc', at, report[c], base[c])
  PROVE  ReportInv'
BY AdvancingSo DEF CleanStays

-----------------------------------------------------------------------------
\* The place of a call tells the backend.
LEMMA KindOf ==
  ASSUME ReportInv, NEW c \in Callers
  PROVE  /\ kind \in {"unraid", "swarm", "proxmox"}
         /\ job[c].at \in {"pull", "capture", "stop", "add", "rremove", "radd"} => kind = "unraid"
         /\ job[c].at \in {"built", "stack", "rback", "rwait"} => kind = "swarm"
         /\ job[c].at \in {"create", "lookup"} => kind = "proxmox"
         /\ job[c].at = "inspect" => kind # "proxmox"
         /\ job[c].at \in {"start", "poll", "persist", "rstop", "rstart", "rpoll"} => kind # "swarm"
<1>1. kind \in {"unraid", "swarm", "proxmox"} /\ job[c].at \in PlacesOf(kind)
  BY DEF ReportInv, DeployTypeOK, HeldBy, Held
<1>2. CASE kind = "unraid"
  BY <1>1, <1>2 DEF PlacesOf
<1>3. CASE kind = "swarm"
  BY <1>1, <1>3 DEF PlacesOf
<1>4. CASE kind = "proxmox"
  BY <1>1, <1>4 DEF PlacesOf
<1> QED
  BY <1>1, <1>2, <1>3, <1>4

LEMMA PlacesThere ==
  /\ {"pull", "capture", "check", "inspect", "stop", "add", "start", "poll", "persist",
      "rstop", "rremove", "radd", "rstart", "rpoll"} \subseteq PlacesOf("unraid")
  /\ {"built", "check", "inspect", "stack", "rback", "rwait"} \subseteq PlacesOf("swarm")
  /\ {"create", "lookup", "check", "start", "poll", "persist", "rstop", "rstart", "rpoll"} \subseteq PlacesOf("proxmox")
<1>1. {"pull", "capture", "check", "inspect", "stop", "add", "start", "poll", "persist",
       "rstop", "rremove", "radd", "rstart", "rpoll"} \subseteq PlacesOf("unraid")
  BY DEF PlacesOf
<1>2. {"built", "check", "inspect", "stack", "rback", "rwait"} \subseteq PlacesOf("swarm")
  BY DEF PlacesOf
<1>3. {"create", "lookup", "check", "start", "poll", "persist", "rstop", "rstart", "rpoll"} \subseteq PlacesOf("proxmox")
  BY DEF PlacesOf
<1> QED
  BY <1>1, <1>2, <1>3

\* A step of the caller that asks nothing of the host.
LEMMA Inside ==
  ASSUME ReportInv, NEW c \in Callers, UNCHANGED <<target, clean>>
  PROVE  /\ NobodyGains /\ CleanStays(c) /\ SpecStays /\ svc' \in Targets /\ recorded' \in BOOLEAN
         /\ kind' = kind /\ svc' = svc /\ recorded' = recorded
BY Settled DEF target, ReportInv, DeployTypeOK, NobodyGains, CleanStays

\* A call to the host that was done: the others lose their standing.
LEMMA HostDone ==
  ASSUME ReportInv, NEW c \in Callers, Disturb(c, FALSE)
  PROVE  CleanStays(c)
BY Undisturbed DEF ReportInv, CleanStays

\* One that failed: if it was done all the same, everybody does.
LEMMA HostLost ==
  ASSUME ReportInv, NEW c \in Callers, Disturb(c, svc' # svc)
  PROVE  NobodyGains /\ CleanStays(c)
BY Disturbed DEF ReportInv, NobodyGains, CleanStays

\* The failure of a deployment leads into the restoration, or ends the call.
LEMMA DeployFails ==
  ASSUME ReportInv, NEW c \in Callers, job[c].at \in {"add", "start", "poll"}, DeployFailed(c),
         NobodyGains, svc' \in Targets, SpecStays, Kept, record' = record, recorded' = recorded
  PROVE  ReportInv'
<1>1. kind \in {"unraid", "proxmox"} /\ recorded' \in BOOLEAN
  BY KindOf DEF ReportInv, DeployTypeOK
<1>2. CASE kind = "unraid" /\ job[c].old # None
  <2>1. Goes(c, "rstop")
    BY <1>2 DEF DeployFailed
  <2>2. "rstop" \in PlacesOf(kind) \ {"idle", "stack"} /\ "rstop" \in Places
    BY <1>2, PlacesThere DEF Places
  <2>3. Reached(c, kind, svc', "rstop", report[c], base[c]) /\ CleanStays(c)
    BY DEF Reached, NobodyGains, CleanStays
  <2> QED
    BY <1>2, <2>1, <2>2, <2>3, Advancing
<1>3. CASE ~(kind = "unraid" /\ job[c].old # None)
  <2>1. End(c, "failed")
    BY <1>3 DEF DeployFailed
  <2>2. clean[c] => kind = "proxmox" \/ base[c].back = None
    BY <1>1, <1>3 DEF ReportInv, HeldBy, Held, Carried
  <2> QED
    BY <1>1, <2>1, <2>2, Failing
<1> QED
  BY <1>2, <1>3

-----------------------------------------------------------------------------
(* build *)

LEMMA PullHolds ==
  ASSUME ReportInv, NEW c \in Callers, Pull(c)
  PROVE  ReportInv'
<1>1. /\ job[c].at = "pull" /\ UNCHANGED <<target, clean>> /\ Kept /\ record' = record
      /\ \/ Goes(c, "capture")
         \/ End(c, "refused")
         \/ job' = [job EXCEPT ![c].tries = @ + 1] /\ report' = report
  BY DEF Pull, Kept, target
<1>2. kind = "unraid"
  BY <1>1, KindOf
<1>3. CASE Goes(c, "capture")
  <2>1. "capture" \in PlacesOf(kind) \ {"idle", "stack"} /\ "capture" \in Places
    BY <1>2, PlacesThere DEF Places
  <2>2. Reached(c, kind, svc', "capture", report[c], base[c])
    BY DEF Reached
  <2> QED
    BY <1>1, <1>2, <1>3, <2>1, <2>2, Inside, Advancing
<1>4. CASE End(c, "refused")
  BY <1>1, <1>4, Inside, Failing
<1>5. CASE job' = [job EXCEPT ![c].tries = @ + 1] /\ report' = report
  <2> DEFINE new == [job[c] EXCEPT !.tries = @ + 1]
  <2>1. job \in [Callers -> Calls] /\ job[c] \in Calls
    BY DEF ReportInv, DeployTypeOK
  <2>2. job' = [job EXCEPT ![c] = new]
    BY <1>5
  <2>3. new \in Calls /\ new.at = "pull" /\ new.old = job[c].old
    BY <1>1, <2>1 DEF Calls
  <2> HIDE DEF new
  <2>4. job' \in [Callers -> Calls] /\ job'[c].at = "pull" /\ job'[c].old = job[c].old
        /\ \A d \in Callers \ {c} : job'[d] = job[d]
    BY <2>1, <2>2, <2>3
  <2>5. DeployTypeOK' /\ Others(c) /\ SpecStays
    BY <1>1, <1>5, <2>4 DEF ReportInv, DeployTypeOK, Others, Kept, target, SpecStays
  <2>6. HeldBy(c)'
    BY <1>1, <1>5, <2>4 DEF ReportInv, HeldBy, Held, Kept, target
  <2> QED
    BY <1>1, <2>5, <2>6, Closing DEF Kept
<1> QED
  BY <1>1, <1>3, <1>4, <1>5

\* What is captured at the end of a build is what there is, or nobody relies on it.
LEMMA BuildCaptures ==
  ASSUME ReportInv, NEW c \in Callers, NEW old \in Versions, NEW read,
         Built(c, old), Capture(c, read), UNCHANGED target, record' = record,
         (kind = "unraid" /\ read = old) \/ (kind = "proxmox" /\ svc.spec = c)
  PROVE  ReportInv'
<1>1. DeployTypeOK /\ HeldBy(c)
  BY DEF ReportInv
<1>2. /\ artifact' \in [Callers -> Captures]
      /\ artifact'[c].there /\ artifact'[c].old = old
      /\ \A d \in Callers \ {c} : artifact'[d] = artifact[d]
      /\ End(c, "built")
  BY <1>1, Building
<1>3. /\ base' \in [Callers -> Bases] /\ clean' \in [Callers -> BOOLEAN]
      /\ base'[c].back = svc.spec
      /\ clean'[c] => read = svc.spec
      /\ \A d \in Callers \ {c} : base'[d] = base[d] /\ clean'[d] = clean[d]
  BY <1>1, Capturing
<1>4. /\ job' \in [Callers -> Calls] /\ report' \in [Callers -> Reports]
      /\ job'[c].at = "idle" /\ report'[c] = "built"
      /\ \A d \in Callers \ {c} : job'[d] = job[d] /\ report'[d] = report[d]
  BY <1>1, <1>2, Ending DEF Reports
<1>5. DeployTypeOK' /\ Others(c) /\ SpecStays /\ kind' = kind
  BY <1>1, <1>2, <1>3, <1>4 DEF DeployTypeOK, Others, SpecStays, target
<1>6. Own(c, kind, svc, "idle", artifact'[c])
  BY DEF Own
<1>7. clean'[c] => Carried(kind, svc, "idle", job'[c].old, artifact'[c], record[c], "built", base'[c])
  BY <1>2, <1>3 DEF Carried
<1>8. Reached(c, kind, svc, "idle", "built", base'[c])
  BY DEF Reached
<1>9. HeldBy(c)'
  BY <1>4, <1>6, <1>7, <1>8 DEF HeldBy, Held, PlacesOf, target
<1> QED
  BY <1>5, <1>9, Closing

LEMMA UnraidCaptureHolds ==
  ASSUME ReportInv, NEW c \in Callers, UnraidCapture(c)
  PROVE  ReportInv'
<1>1. /\ job[c].at = "capture" /\ UNCHANGED target /\ record' = record
      /\ \/ Built(c, svc.spec) /\ Capture(c, svc.spec)
         \/ Built(c, None) /\ Capture(c, None)
         \/ End(c, "refused") /\ UNCHANGED <<artifact, base, clean>>
  BY DEF UnraidCapture
<1>2. kind = "unraid"
  BY <1>1, KindOf
<1>3. CASE Built(c, svc.spec) /\ Capture(c, svc.spec)
  <2>1. PICK old \in Versions : old = svc.spec
    BY DEF ReportInv, DeployTypeOK, Targets
  <2>2. Built(c, old) /\ Capture(c, old)
    BY <1>3, <2>1
  <2> QED
    BY <1>1, <1>2, <2>2, BuildCaptures
<1>4. CASE Built(c, None) /\ Capture(c, None)
  <2>1. None \in Versions
    BY DEF Versions
  <2> QED
    BY <1>1, <1>2, <1>4, <2>1, BuildCaptures
<1>5. CASE End(c, "refused") /\ UNCHANGED <<artifact, base, clean>>
  BY <1>1, <1>5, Inside, Failing DEF Kept, target
<1> QED
  BY <1>1, <1>3, <1>4, <1>5

LEMMA LookupHolds ==
  ASSUME ReportInv, NEW c \in Callers, Lookup(c)
  PROVE  ReportInv'
<1>1. /\ job[c].at = "lookup" /\ UNCHANGED target /\ record' = record /\ Capture(c, svc.spec)
      /\ Built(c, svc.spec) \/ Built(c, None)
  BY DEF Lookup
<1>2. kind = "proxmox" /\ svc.spec = c
  BY <1>1, KindOf DEF ReportInv, HeldBy, Held, Own
<1>3. Capture(c, c) /\ c \in Versions /\ None \in Versions
  BY <1>1, <1>2 DEF Versions
<1>4. Built(c, c) \/ Built(c, None)
  BY <1>1, <1>2
<1> QED
  BY <1>1, <1>2, <1>3, <1>4, BuildCaptures

LEMMA SwarmBuiltHolds ==
  ASSUME ReportInv, NEW c \in Callers, SwarmBuilt(c)
  PROVE  ReportInv'
<1>1. /\ job[c].at = "built" /\ Built(c, None) /\ UNCHANGED <<target, record, base, clean>>
  BY DEF SwarmBuilt
<1>2. kind = "swarm" /\ DeployTypeOK /\ HeldBy(c) /\ None \in Versions
  BY <1>1, KindOf DEF ReportInv, Versions
<1>3. /\ artifact' \in [Callers -> Captures]
      /\ \A d \in Callers \ {c} : artifact'[d] = artifact[d]
      /\ End(c, "built")
  BY <1>1, <1>2, Building
<1>4. /\ job' \in [Callers -> Calls] /\ report' \in [Callers -> Reports]
      /\ job'[c].at = "idle" /\ report'[c] = "built"
      /\ \A d \in Callers \ {c} : job'[d] = job[d] /\ report'[d] = report[d]
  BY <1>2, <1>3, Ending DEF Reports
<1>5. DeployTypeOK' /\ Others(c) /\ SpecStays /\ kind' = kind
  BY <1>1, <1>2, <1>3, <1>4 DEF DeployTypeOK, Others, SpecStays, target
<1>6. Own(c, kind, svc, "idle", artifact'[c])
  BY <1>2 DEF Own
<1>7. Carried(kind, svc, "idle", job'[c].old, artifact'[c], record[c], "built", base[c])
  BY <1>2 DEF Carried
<1>8. Reached(c, kind, svc, "idle", "built", base[c])
  BY DEF Reached
<1>9. HeldBy(c)'
  BY <1>1, <1>4, <1>6, <1>7, <1>8 DEF HeldBy, Held, PlacesOf, target
<1> QED
  BY <1>5, <1>9, Closing

\* A vmid is taken by the one who creates it, for good.
LEMMA CreateHolds ==
  ASSUME ReportInv, NEW c \in Callers, Create(c)
  PROVE  ReportInv'
<1>1. kind = "proxmox" /\ job[c].at = "create"
  BY KindOf DEF Create, Call
<1>2. recorded \in BOOLEAN /\ svc \in Targets
  BY DEF ReportInv, DeployTypeOK
<1>3. CASE svc.spec # None
  <2>1. End(c, "refused") /\ UNCHANGED <<target, clean>> /\ Kept /\ record' = record
    BY <1>3 DEF Create, Kept, target
  <2> QED
    BY <2>1, Inside, Failing
<1>4. CASE svc.spec = None
  <2>1. /\ \/ svc' = Added(c) /\ Goes(c, "lookup") /\ Disturb(c, FALSE)
           \/ svc' \in {svc, Added(c)} /\ End(c, "refused") /\ Disturb(c, svc' # svc)
        /\ Kept /\ record' = record /\ recorded' = recorded
    BY <1>4 DEF Create, Call, Kept
  <2>2. svc' \in Targets /\ SpecStays /\ Added(c).spec = c
    BY <1>2, <1>4, <2>1, HostAdds DEF SpecStays, Versions
  <2>3. CASE svc' = Added(c) /\ Goes(c, "lookup") /\ Disturb(c, FALSE)
    <3>1. "lookup" \in PlacesOf(kind) \ {"idle", "stack"} /\ "lookup" \in Places
      BY <1>1, PlacesThere DEF Places
    <3>2. Reached(c, kind, svc', "lookup", report[c], base[c])
      BY DEF Reached
    <3>3. CleanStays(c) /\ svc'.spec = c
      BY <2>2, <2>3, HostDone
    <3> QED
      BY <1>1, <2>1, <2>2, <2>3, <3>1, <3>2, <3>3, Advancing
  <2>4. CASE svc' \in {svc, Added(c)} /\ End(c, "refused") /\ Disturb(c, svc' # svc)
    <3>1. NobodyGains /\ recorded' \in BOOLEAN
      BY <1>2, <2>1, <2>4, HostLost
    <3> QED
      BY <2>1, <2>2, <2>4, <3>1, Failing
  <2> QED
    BY <2>1, <2>3, <2>4
<1> QED
  BY <1>3, <1>4

LEMMA BuildHolds ==
  ASSUME ReportInv, NEW c \in Callers, Build(c)
  PROVE  ReportInv'
<1> DEFINE at == CASE kind = "unraid" -> "pull" [] kind = "swarm" -> "built" [] OTHER -> "create"
           new == [Idle EXCEPT !.op = "build", !.at = at]
<1>1. job' = [job EXCEPT ![c] = new] /\ UNCHANGED <<target, artifact, record, report, base, clean>>
  BY DEF Build
<1>2. DeployTypeOK /\ HeldBy(c) /\ kind \in {"unraid", "swarm", "proxmox"}
  BY DEF ReportInv, DeployTypeOK
<1>3. \/ kind = "unraid" /\ at = "pull"
      \/ kind = "swarm" /\ at = "built"
      \/ kind = "proxmox" /\ at = "create"
  BY <1>2
<1>4. at \in PlacesOf(kind) /\ at \in Places
  BY <1>3, PlacesThere DEF Places
<1>5. new \in Calls /\ new.at = at
  BY <1>4, IdleCall DEF Idle, Calls
<1> HIDE DEF new, at
<1>6. job' \in [Callers -> Calls] /\ job'[c] = new /\ \A d \in Callers \ {c} : job'[d] = job[d]
  BY <1>1, <1>2, <1>5 DEF DeployTypeOK
<1>7. DeployTypeOK' /\ Others(c) /\ SpecStays
  BY <1>1, <1>2, <1>6 DEF DeployTypeOK, Others, SpecStays, target
<1>8. Own(c, kind, svc, at, artifact[c])
  BY <1>2, <1>3 DEF HeldBy, Held, Own
<1>9. clean[c] => Carried(kind, svc, at, new.old, artifact[c], record[c], report[c], base[c])
  BY <1>2, <1>3 DEF HeldBy, Held, Carried
<1>10. Reached(c, kind, svc, at, report[c], base[c])
  BY <1>3 DEF Reached
<1>11. HeldBy(c)'
  BY <1>1, <1>4, <1>5, <1>6, <1>8, <1>9, <1>10 DEF HeldBy, Held, target
<1> QED
  BY <1>1, <1>7, <1>11, Closing DEF target

-----------------------------------------------------------------------------
(* deploy *)

LEMMA DeployHolds ==
  ASSUME ReportInv, NEW c \in Callers, Deploy(c)
  PROVE  ReportInv'
<1> DEFINE new == [Idle EXCEPT !.op = "deploy", !.at = "check", !.old = artifact[c].old]
           from == [base[c] EXCEPT !.found = svc]
<1>1. /\ job' = [job EXCEPT ![c] = new] /\ base' = [base EXCEPT ![c] = from]
      /\ UNCHANGED <<target, artifact, record, report, clean>> /\ artifact[c].there
  BY DEF Deploy
<1>2. DeployTypeOK /\ HeldBy(c)
  BY DEF ReportInv
<1>3. new \in Calls /\ new.at = "check" /\ new.old = artifact[c].old
  BY <1>2 DEF Idle, Calls, Places, DeployTypeOK, Captures
<1>4. from \in Bases /\ from.back = base[c].back /\ from.found = svc
  BY <1>2 DEF DeployTypeOK, Bases
<1> HIDE DEF new, from
<1>5. job' \in [Callers -> Calls] /\ job'[c] = new /\ \A d \in Callers \ {c} : job'[d] = job[d]
  BY <1>1, <1>2, <1>3 DEF DeployTypeOK
<1>6. base' \in [Callers -> Bases] /\ base'[c] = from /\ \A d \in Callers \ {c} : base'[d] = base[d]
  BY <1>1, <1>2, <1>4 DEF DeployTypeOK
<1>7. DeployTypeOK' /\ Others(c) /\ SpecStays
  BY <1>1, <1>2, <1>5, <1>6 DEF DeployTypeOK, Others, SpecStays, target
<1>8. Own(c, kind, svc, "check", artifact[c])
  BY <1>1, <1>2 DEF HeldBy, Held, Own
<1>9. clean[c] => Carried(kind, svc, "check", new.old, artifact[c], record[c], report[c], from)
  BY <1>2, <1>3, <1>4 DEF HeldBy, Held, Carried
<1>10. Reached(c, kind, svc, "check", report[c], from)
  BY <1>4 DEF Reached
<1>11. HeldBy(c)'
  BY <1>1, <1>3, <1>5, <1>6, <1>8, <1>9, <1>10 DEF HeldBy, Held, PlacesOf, target
<1> QED
  BY <1>1, <1>7, <1>11, Closing DEF target

LEMMA CheckHolds ==
  ASSUME ReportInv, NEW c \in Callers, Check(c)
  PROVE  ReportInv'
<1>1. /\ job[c].at = "check" /\ UNCHANGED <<target, clean>> /\ Kept /\ record' = record
      /\ Goes(c, IF kind = "proxmox" THEN "start" ELSE "inspect") \/ End(c, "refused")
  BY DEF Check, Kept, target
<1>2. HeldBy(c) /\ kind \in {"unraid", "swarm", "proxmox"}
  BY DEF ReportInv, DeployTypeOK
<1>3. CASE End(c, "refused")
  BY <1>1, <1>3, Inside, Failing
<1>4. CASE kind = "proxmox" /\ Goes(c, "start")
  <2>1. "start" \in PlacesOf(kind) \ {"idle", "stack"} /\ "start" \in Places
    BY <1>4, PlacesThere DEF Places
  <2>2. artifact[c].there /\ svc.spec = c
    BY <1>1, <1>2, <1>4 DEF HeldBy, Held, Own
  <2>3. Reached(c, kind, svc', "start", report[c], base[c])
    BY <1>1, <2>2, Inside DEF Reached
  <2> QED
    BY <1>1, <1>4, <2>1, <2>2, <2>3, Inside, Advancing
<1>5. CASE kind # "proxmox" /\ Goes(c, "inspect")
  <2>1. "inspect" \in PlacesOf(kind) \ {"idle", "stack"} /\ "inspect" \in Places
    BY <1>2, <1>5, PlacesThere DEF Places
  <2>2. clean[c] => Reached(c, kind, svc', "inspect", report[c], base[c])
    BY <1>1, <1>2, Inside DEF HeldBy, Held, Reached
  <2> QED
    BY <1>1, <1>5, <2>1, <2>2, Inside, Advancing
<1> QED
  BY <1>1, <1>3, <1>4, <1>5

LEMMA UnraidInspectHolds ==
  ASSUME ReportInv, NEW c \in Callers, UnraidInspect(c)
  PROVE  ReportInv'
<1>1. /\ kind = "unraid" /\ job[c].at = "inspect" /\ UNCHANGED <<target, clean>> /\ Kept /\ record' = record
      /\ Goes(c, "add") \/ Goes(c, "stop") \/ End(c, "failed")
  BY DEF UnraidInspect, Kept, target
<1>2. HeldBy(c)
  BY DEF ReportInv
<1>3. clean[c] => svc = base[c].found
  BY <1>1, <1>2 DEF HeldBy, Held, Reached
<1>4. CASE End(c, "failed")
  BY <1>1, <1>3, <1>4, Inside, Failing
<1>5. ASSUME NEW at \in {"add", "stop"}, Goes(c, at) PROVE ReportInv'
  <2>1. at \in PlacesOf(kind) \ {"idle", "stack"} /\ at \in Places
    BY <1>1, PlacesThere DEF Places
  <2>2. clean[c] => Reached(c, kind, svc', at, report[c], base[c])
    BY <1>1, <1>3, Inside DEF Reached
  <2> QED
    BY <1>1, <1>5, <2>1, <2>2, Inside, Advancing
<1> QED
  BY <1>1, <1>4, <1>5

LEMMA StopHolds ==
  ASSUME ReportInv, NEW c \in Callers, Stop(c)
  PROVE  ReportInv'
<1>1. /\ job[c].at = "stop" /\ Kept /\ record' = record /\ recorded' = recorded
      /\ \/ svc' = Stopped /\ Goes(c, "add") /\ Disturb(c, FALSE)
         \/ svc' \in {svc, Stopped} /\ End(c, "failed") /\ Disturb(c, svc' # svc)
  BY DEF Stop, Call, Kept
<1>2. kind = "unraid" /\ HeldBy(c) /\ DeployTypeOK
  BY <1>1, KindOf DEF ReportInv
<1>3. svc' \in Targets /\ SpecStays /\ recorded' \in BOOLEAN
  BY <1>1, <1>2, HostCalls DEF SpecStays, DeployTypeOK
<1>4. CASE svc' = Stopped /\ Goes(c, "add") /\ Disturb(c, FALSE)
  <2>1. "add" \in PlacesOf(kind) \ {"idle", "stack"} /\ "add" \in Places
    BY <1>2, PlacesThere DEF Places
  <2>2. Reached(c, kind, svc', "add", report[c], base[c]) /\ CleanStays(c)
    BY <1>4, HostDone DEF Reached
  <2> QED
    BY <1>1, <1>2, <1>3, <1>4, <2>1, <2>2, Advancing
<1>5. CASE svc' \in {svc, Stopped} /\ End(c, "failed") /\ Disturb(c, svc' # svc)
  <2>1. NobodyGains
    BY <1>5, HostLost
  <2>2. clean[c] => svc = base[c].found
    BY <1>1, <1>2 DEF HeldBy, Held, Reached
  <2> QED
    BY <1>1, <1>3, <1>5, <2>1, <2>2, Failing
<1> QED
  BY <1>1, <1>4, <1>5

LEMMA AddHolds ==
  ASSUME ReportInv, NEW c \in Callers, Add(c)
  PROVE  ReportInv'
<1>1. /\ job[c].at = "add" /\ Kept /\ record' = record /\ recorded' = recorded
      /\ \/ svc' = Added(c) /\ Goes(c, "start") /\ Disturb(c, FALSE)
         \/ svc' \in {svc, Added(c)} /\ DeployFailed(c) /\ Disturb(c, svc' # svc)
  BY DEF Add, Call, Kept
<1>2. kind = "unraid" /\ DeployTypeOK
  BY <1>1, KindOf DEF ReportInv
<1>3. svc' \in Targets /\ SpecStays /\ Added(c).spec = c
  BY <1>1, <1>2, HostAdds DEF SpecStays, DeployTypeOK, Versions
<1>4. CASE svc' = Added(c) /\ Goes(c, "start") /\ Disturb(c, FALSE)
  <2>1. "start" \in PlacesOf(kind) \ {"idle", "stack"} /\ "start" \in Places
    BY <1>2, PlacesThere DEF Places
  <2>2. Reached(c, kind, svc', "start", report[c], base[c]) /\ CleanStays(c)
    BY <1>3, <1>4, HostDone DEF Reached
  <2> QED
    BY <1>1, <1>2, <1>3, <1>4, <2>1, <2>2, Advancing
<1>5. CASE svc' \in {svc, Added(c)} /\ DeployFailed(c) /\ Disturb(c, svc' # svc)
  BY <1>1, <1>3, <1>5, HostLost, DeployFails
<1> QED
  BY <1>1, <1>4, <1>5

LEMMA StartHolds ==
  ASSUME ReportInv, NEW c \in Callers, Start(c)
  PROVE  ReportInv'
<1>1. /\ job[c].at = "start" /\ kind \in {"unraid", "proxmox"} /\ HeldBy(c) /\ DeployTypeOK
  BY KindOf DEF Start, Call, ReportInv
<1>2. CASE svc.spec = None
  <2>1. DeployFailed(c) /\ UNCHANGED <<target, clean>> /\ Kept /\ record' = record
    BY <1>2 DEF Start, Kept, target
  <2> QED
    BY <1>1, <2>1, Inside, DeployFails
<1>3. CASE svc.spec # None
  <2>1. /\ Kept /\ record' = record /\ recorded' = recorded
        /\ \/ svc' = Started /\ Goes(c, "poll") /\ Disturb(c, FALSE)
           \/ svc' \in {svc, Started} /\ DeployFailed(c) /\ Disturb(c, svc' # svc)
    BY <1>3 DEF Start, Call, Kept
  <2>2. svc' \in Targets /\ svc'.spec = svc.spec /\ SpecStays
    BY <1>1, <2>1, HostCalls DEF SpecStays, DeployTypeOK
  <2>3. CASE svc' = Started /\ Goes(c, "poll") /\ Disturb(c, FALSE)
    <3>1. "poll" \in PlacesOf(kind) \ {"idle", "stack"} /\ "poll" \in Places
      BY <1>1, PlacesThere DEF Places
    <3>2. kind = "proxmox" => artifact[c].there
      BY <1>1 DEF HeldBy, Held, Own
    <3>3. clean[c] => Reached(c, kind, svc', "poll", report[c], base[c])
      BY <1>1, <2>2 DEF HeldBy, Held, Reached
    <3>4. CleanStays(c)
      BY <2>3, HostDone
    <3> QED
      BY <1>1, <2>1, <2>2, <2>3, <3>1, <3>2, <3>3, <3>4, Advancing
  <2>4. CASE svc' \in {svc, Started} /\ DeployFailed(c) /\ Disturb(c, svc' # svc)
    BY <1>1, <2>1, <2>2, <2>4, HostLost, DeployFails
  <2> QED
    BY <2>1, <2>3, <2>4
<1> QED
  BY <1>2, <1>3

LEMMA PollNewHolds ==
  ASSUME ReportInv, NEW c \in Callers, PollNew(c)
  PROVE  ReportInv'
<1>1. /\ job[c].at = "poll" /\ UNCHANGED <<target, clean>> /\ Kept /\ record' = record
      /\ (svc.up /\ Goes(c, "persist")) \/ DeployFailed(c)
  BY DEF PollNew, Poll, Kept, target
<1>2. /\ kind \in {"unraid", "proxmox"} /\ HeldBy(c)
  BY <1>1, KindOf DEF ReportInv
<1>3. CASE svc.up /\ Goes(c, "persist")
  <2>1. "persist" \in PlacesOf(kind) \ {"idle", "stack"} /\ "persist" \in Places
    BY <1>2, PlacesThere DEF Places
  <2>2. kind = "proxmox" => artifact[c].there
    BY <1>1, <1>2 DEF HeldBy, Held, Own
  <2>3. clean[c] => Reached(c, kind, svc', "persist", report[c], base[c])
    BY <1>1, <1>2, <1>3, Inside DEF HeldBy, Held, Reached
  <2> QED
    BY <1>1, <1>3, <2>1, <2>2, <2>3, Inside, Advancing
<1>4. CASE DeployFailed(c)
  BY <1>1, <1>4, Inside, DeployFails
<1> QED
  BY <1>1, <1>3, <1>4

LEMMA PersistHolds ==
  ASSUME ReportInv, NEW c \in Callers, Persist(c)
  PROVE  ReportInv'
<1>1. /\ job[c].at = "persist" /\ kind' = kind /\ svc' = svc /\ UNCHANGED <<artifact, base, clean>>
      /\ \/ Deployed(c, job[c].old) /\ recorded' = TRUE
         \/ End(c, "unrecorded") /\ UNCHANGED <<record, recorded>>
  BY DEF Persist
<1>2. kind \in {"unraid", "proxmox"} /\ HeldBy(c) /\ DeployTypeOK
  BY <1>1, KindOf DEF ReportInv
<1>3. CASE End(c, "unrecorded") /\ UNCHANGED <<record, recorded>>
  BY <1>1, <1>2, <1>3, Settled, Failing DEF Kept, DeployTypeOK
<1>4. CASE Deployed(c, job[c].old) /\ recorded' = TRUE
  <2>1. PICK old \in Versions : old = job[c].old
    BY <1>2 DEF DeployTypeOK, Calls
  <2>2. Deployed(c, old)
    BY <1>4, <2>1
  <2>3. /\ record' \in [Callers -> Captures] /\ record'[c].old = job[c].old
        /\ \A d \in Callers \ {c} : record'[d] = record[d]
        /\ End(c, "deployed")
    BY <1>2, <2>1, <2>2, Deploying
  <2>4. /\ job' \in [Callers -> Calls] /\ report' \in [Callers -> Reports]
        /\ job'[c].at = "idle" /\ report'[c] = "deployed"
        /\ \A d \in Callers \ {c} : job'[d] = job[d] /\ report'[d] = report[d]
    BY <1>2, <2>3, Ending DEF Reports
  <2>5. DeployTypeOK' /\ Others(c) /\ SpecStays
    BY <1>1, <1>2, <1>4, <2>3, <2>4 DEF DeployTypeOK, Others, SpecStays
  <2>6. Own(c, kind, svc, "idle", artifact[c])
    BY <1>2 DEF HeldBy, Held, Own
  <2>7. clean[c] => Carried(kind, svc, "idle", job'[c].old, artifact[c], record'[c], "deployed", base[c])
    BY <1>1, <1>2, <2>3 DEF HeldBy, Held, Carried
  <2>8. clean[c] => Reached(c, kind, svc, "idle", "deployed", base[c])
    BY <1>1, <1>2 DEF HeldBy, Held, Reached
  <2>9. HeldBy(c)'
    BY <1>1, <2>4, <2>6, <2>7, <2>8 DEF HeldBy, Held, PlacesOf
  <2> QED
    BY <1>1, <2>5, <2>9, Closing
<1> QED
  BY <1>1, <1>3, <1>4

LEMMA SwarmInspectHolds ==
  ASSUME ReportInv, NEW c \in Callers, SwarmInspect(c)
  PROVE  ReportInv'
<1>1. /\ kind = "swarm" /\ UNCHANGED <<target, artifact, record, report>>
      /\ \/ job' = [job EXCEPT ![c].at = "stack", ![c].old = svc.spec] /\ Capture(c, svc.spec)
         \/ job' = [job EXCEPT ![c].at = "stack", ![c].old = None] /\ Capture(c, None)
  BY DEF SwarmInspect
<1>2. DeployTypeOK /\ HeldBy(c)
  BY DEF ReportInv
<1>3. PICK old \in Versions : job' = [job EXCEPT ![c].at = "stack", ![c].old = old] /\ Capture(c, old)
  <2>1. svc.spec \in Versions /\ None \in Versions
    BY <1>2 DEF DeployTypeOK, Targets, Versions
  <2> QED
    BY <1>1, <2>1
<1> DEFINE new == [job[c] EXCEPT !.at = "stack", !.old = old]
<1>4. job' = [job EXCEPT ![c] = new]
  BY <1>2, <1>3 DEF DeployTypeOK
<1>5. new \in Calls /\ new.at = "stack" /\ new.old = old
  BY <1>2 DEF DeployTypeOK, Calls, Places
<1> HIDE DEF new
<1>6. job' \in [Callers -> Calls] /\ job'[c] = new /\ \A d \in Callers \ {c} : job'[d] = job[d]
  BY <1>2, <1>4, <1>5 DEF DeployTypeOK
<1>7. /\ base' \in [Callers -> Bases] /\ clean' \in [Callers -> BOOLEAN]
      /\ base'[c].back = svc.spec /\ base'[c].found = svc
      /\ clean'[c] => old = svc.spec
      /\ \A d \in Callers \ {c} : base'[d] = base[d] /\ clean'[d] = clean[d]
  BY <1>2, <1>3, Capturing
<1>8. DeployTypeOK' /\ Others(c) /\ SpecStays
  BY <1>1, <1>2, <1>6, <1>7 DEF DeployTypeOK, Others, SpecStays, target
<1>9. Own(c, kind, svc, "stack", artifact[c])
  BY <1>1 DEF Own
<1>10. clean'[c] => Carried(kind, svc, "stack", old, artifact[c], record[c], report[c], base'[c])
  BY <1>1, <1>7 DEF Carried
<1>11. Reached(c, kind, svc, "stack", report[c], base'[c])
  BY <1>7 DEF Reached
<1>12. HeldBy(c)'
  BY <1>1, <1>5, <1>6, <1>9, <1>10, <1>11, PlacesThere DEF HeldBy, Held, target
<1> QED
  BY <1>1, <1>8, <1>12, Closing DEF target

\* What the stack deploy leaves: the version it updated from, or nothing new.
LEMMA StackHolds ==
  ASSUME ReportInv, NEW c \in Callers, Stack(c)
  PROVE  ReportInv'
<1> DEFINE from == [base[c] EXCEPT !.updated = svc' # svc]
<1>1. /\ job[c].at = "stack" /\ UNCHANGED <<kind, recorded, artifact>> /\ base' = [base EXCEPT ![c] = from]
      /\ \/ svc' = Updated(c) /\ Deployed(c, job[c].old) /\ Disturb(c, FALSE)
         \/ /\ svc' \in {svc, Updated(c)} /\ record' = record /\ Disturb(c, FALSE)
            /\ IF job[c].old = None THEN End(c, "failed") ELSE Goes(c, "rback")
         \/ svc' \in {svc, Updated(c)} /\ record' = record /\ End(c, "failed") /\ Disturb(c, svc' # svc)
  BY DEF Stack
<1>2. kind = "swarm" /\ HeldBy(c) /\ DeployTypeOK
  BY <1>1, KindOf DEF ReportInv
<1>3. clean[c] => svc = base[c].found /\ svc.spec = base[c].back /\ job[c].old = base[c].back
  BY <1>1, <1>2 DEF HeldBy, Held, Carried, Reached
<1>4. /\ svc' \in Targets /\ SpecStays /\ svc' \in {svc, Updated(c)}
      /\ Updated(c).spec = c /\ Updated(c).prev = svc.spec
  BY <1>1, <1>2, HostCalls DEF SpecStays, DeployTypeOK
<1>5. from \in Bases /\ from.back = base[c].back /\ from.found = base[c].found /\ (from.updated <=> svc' # svc)
  <2>1. (svc' # svc) \in BOOLEAN /\ base[c] \in Bases
    BY <1>2 DEF DeployTypeOK
  <2> QED
    BY <2>1 DEF Bases
<1> HIDE DEF from
<1>6. base' \in [Callers -> Bases] /\ base'[c] = from /\ \A d \in Callers \ {c} : base'[d] = base[d]
  BY <1>1, <1>2, <1>5 DEF DeployTypeOK
<1>7. clean[c] => svc'.prev = Went(kind, from)
  BY <1>2, <1>3, <1>4, <1>5 DEF Went
<1>8. CleanStays(c)
  BY <1>1, HostDone, HostLost
<1>9. Own(c, kind, svc', "idle", artifact[c]) /\ Own(c, kind, svc', "rback", artifact[c])
  BY <1>2 DEF Own
<1>10. CASE svc' = Updated(c) /\ Deployed(c, job[c].old)
  <2>1. PICK old \in Versions : old = job[c].old
    BY <1>2 DEF DeployTypeOK, Calls
  <2>2. Deployed(c, old)
    BY <1>10, <2>1
  <2>3. /\ record' \in [Callers -> Captures]
        /\ \A d \in Callers \ {c} : record'[d] = record[d]
        /\ End(c, "deployed")
    BY <1>2, <2>2, Deploying
  <2>4. /\ job' \in [Callers -> Calls] /\ report' \in [Callers -> Reports]
        /\ job'[c].at = "idle" /\ report'[c] = "deployed"
        /\ \A d \in Callers \ {c} : job'[d] = job[d] /\ report'[d] = report[d]
    BY <1>2, <2>3, Ending DEF Reports
  <2>5. DeployTypeOK' /\ Others(c)
    BY <1>1, <1>2, <1>4, <1>6, <1>8, <2>3, <2>4 DEF DeployTypeOK, Others, CleanStays
  <2>6. clean[c] => Carried(kind, svc', "idle", job'[c].old, artifact[c], record'[c], "deployed", from)
    BY <1>2, <1>7 DEF Carried
  <2>7. Reached(c, kind, svc', "idle", "deployed", from)
    BY <1>2, <1>4, <1>10 DEF Reached
  <2>8. HeldBy(c)'
    BY <1>1, <1>6, <1>8, <1>9, <2>4, <2>6, <2>7 DEF HeldBy, Held, PlacesOf, CleanStays
  <2> QED
    BY <1>1, <1>4, <2>5, <2>8, Closing
<1>11. CASE record' = record /\ job[c].old # None /\ Goes(c, "rback")
  <2>1. "rback" \in PlacesOf(kind) /\ "rback" \in Places
    BY <1>2, PlacesThere DEF Places
  <2>2. /\ job' \in [Callers -> Calls]
        /\ job'[c].at = "rback" /\ job'[c].old = job[c].old
        /\ \A d \in Callers \ {c} : job'[d] = job[d]
        /\ report' = report
    BY <1>2, <1>11, <2>1, Going DEF Goes
  <2>3. DeployTypeOK' /\ Others(c)
    BY <1>1, <1>2, <1>4, <1>6, <1>8, <1>11, <2>2 DEF DeployTypeOK, Others, CleanStays
  <2>4. Carried(kind, svc', "rback", job[c].old, artifact[c], record[c], report[c], from)
    BY <1>2 DEF Carried
  <2>5. clean[c] => Reached(c, kind, svc', "rback", report[c], from)
    BY <1>7 DEF Reached
  <2>6. HeldBy(c)'
    BY <1>1, <1>6, <1>8, <1>9, <1>11, <2>1, <2>2, <2>4, <2>5 DEF HeldBy, Held, CleanStays
  <2> QED
    BY <1>1, <1>4, <2>3, <2>6, Closing
<1>12. CASE record' = record /\ End(c, "failed") /\ (clean'[c] => base[c].back = None \/ svc' = svc)
  <2>1. /\ job' \in [Callers -> Calls] /\ report' \in [Callers -> Reports]
        /\ job'[c].at = "idle" /\ report'[c] = "failed"
        /\ \A d \in Callers \ {c} : job'[d] = job[d] /\ report'[d] = report[d]
    BY <1>2, <1>12, Ending DEF Reports
  <2>2. DeployTypeOK' /\ Others(c)
    BY <1>1, <1>2, <1>4, <1>6, <1>8, <1>12, <2>1 DEF DeployTypeOK, Others, CleanStays
  <2>3. Carried(kind, svc', "idle", job'[c].old, artifact[c], record[c], "failed", from)
    BY <1>2 DEF Carried
  <2>4. clean'[c] => Reached(c, kind, svc', "idle", "failed", from)
    BY <1>3, <1>5, <1>8, <1>12 DEF Reached, CleanStays
  <2>5. HeldBy(c)'
    BY <1>1, <1>6, <1>9, <1>12, <2>1, <2>3, <2>4 DEF HeldBy, Held, PlacesOf
  <2> QED
    BY <1>1, <1>4, <2>2, <2>5, Closing
<1>13. record' = record /\ End(c, "failed") /\ Disturb(c, svc' # svc) => (clean'[c] => svc' = svc)
  BY HostLost DEF NobodyGains
<1>14. job[c].old = None => (clean'[c] => base[c].back = None)
  BY <1>3, <1>8 DEF CleanStays
<1> QED
  BY <1>1, <1>10, <1>11, <1>12, <1>13, <1>14

-----------------------------------------------------------------------------
(* rollback *)

\* A call that ends with the version the rollback led to, running if the backend waits for it.
LEMMA Restoring ==
  ASSUME ReportInv, NEW c \in Callers, End(c, "restored"), UNCHANGED <<target, clean>>, Kept, record' = record,
         clean[c] => svc.spec = Went(kind, base[c]) /\ (svc.up \/ kind = "swarm")
  PROVE  ReportInv'
<1>1. DeployTypeOK /\ HeldBy(c)
  BY DEF ReportInv
<1>2. /\ job' \in [Callers -> Calls] /\ report' \in [Callers -> Reports]
      /\ job'[c].at = "idle" /\ report'[c] = "restored"
      /\ \A d \in Callers \ {c} : job'[d] = job[d] /\ report'[d] = report[d]
  BY <1>1, Ending DEF Reports
<1>3. DeployTypeOK' /\ Others(c) /\ SpecStays
  BY <1>1, <1>2 DEF DeployTypeOK, Others, SpecStays, target, Kept
<1>4. Own(c, kind, svc, "idle", artifact[c])
  BY <1>1 DEF HeldBy, Held, Own
<1>5. clean[c] => Carried(kind, svc, "idle", job'[c].old, artifact[c], record[c], "restored", base[c])
  BY <1>1 DEF HeldBy, Held, Carried
<1>6. clean[c] => Reached(c, kind, svc, "idle", "restored", base[c])
  BY DEF Reached
<1>7. HeldBy(c)'
  BY <1>2, <1>4, <1>5, <1>6 DEF HeldBy, Held, PlacesOf, target, Kept
<1> QED
  BY <1>3, <1>7, Closing DEF Kept

LEMMA RollbackHolds ==
  ASSUME ReportInv, NEW c \in Callers, Rollback(c)
  PROVE  ReportInv'
<1>1. job[c].at = "idle" /\ UNCHANGED <<target, artifact, record, base>>
  BY DEF Rollback
<1>2. DeployTypeOK /\ HeldBy(c) /\ kind \in {"unraid", "swarm", "proxmox"}
  BY DEF ReportInv, DeployTypeOK
<1>3. CASE record[c].old = None
  <2>1. report' = [report EXCEPT ![c] = "refused"] /\ UNCHANGED <<job, clean>>
    BY <1>3 DEF Rollback
  <2>2. /\ report' \in [Callers -> Reports] /\ report'[c] = "refused"
        /\ \A d \in Callers \ {c} : report'[d] = report[d]
    BY <1>2, <2>1 DEF DeployTypeOK, Reports
  <2>3. DeployTypeOK' /\ Others(c) /\ SpecStays
    BY <1>1, <1>2, <2>1, <2>2 DEF DeployTypeOK, Others, SpecStays, target
  <2>4. clean[c] => /\ Carried(kind, svc, "idle", job[c].old, artifact[c], record[c], "refused", base[c])
                    /\ Reached(c, kind, svc, "idle", "refused", base[c])
    BY <1>1, <1>2 DEF HeldBy, Held, Carried, Reached
  <2>5. HeldBy(c)'
    BY <1>1, <1>2, <2>1, <2>2, <2>4 DEF HeldBy, Held, target
  <2> QED
    BY <1>1, <2>3, <2>5, Closing DEF target
<1>4. CASE record[c].old # None
  <2> DEFINE at == IF kind = "swarm" THEN "rback" ELSE "rstop"
             new == [Idle EXCEPT !.op = "rollback", !.old = record[c].old, !.at = at]
  <2>1. /\ job' = [job EXCEPT ![c] = new] /\ report' = report
        /\ clean' = [clean EXCEPT ![c] = @ /\ report[c] = "deployed"]
    BY <1>4 DEF Rollback
  <2>2. at \in Places /\ at \in PlacesOf(kind)
    BY <1>2, PlacesThere DEF Places
  <2>3. new \in Calls /\ new.at = at /\ new.old = record[c].old
    BY <1>2, <2>2 DEF Idle, Calls, DeployTypeOK, Captures
  <2> HIDE DEF new
  <2>4. job' \in [Callers -> Calls] /\ job'[c] = new /\ \A d \in Callers \ {c} : job'[d] = job[d]
    BY <1>2, <2>1, <2>3 DEF DeployTypeOK
  <2>5. (clean[c] /\ report[c] = "deployed") \in BOOLEAN
    OBVIOUS
  <2>6. /\ clean' \in [Callers -> BOOLEAN] /\ clean'[c] = (clean[c] /\ report[c] = "deployed")
        /\ \A d \in Callers \ {c} : clean'[d] = clean[d]
    BY <1>2, <2>1, <2>5 DEF DeployTypeOK
  <2>7. DeployTypeOK' /\ Others(c) /\ SpecStays
    BY <1>1, <1>2, <2>1, <2>4, <2>6 DEF DeployTypeOK, Others, SpecStays, target
  <2>8. Own(c, kind, svc, at, artifact[c])
    BY <1>2 DEF HeldBy, Held, Own
  <2>9. clean[c] /\ report[c] = "deployed" =>
          /\ Carried(kind, svc, at, new.old, artifact[c], record[c], report[c], base[c])
          /\ Reached(c, kind, svc, at, report[c], base[c])
    BY <1>1, <1>2, <2>3 DEF HeldBy, Held, Carried, Reached
  <2>10. HeldBy(c)'
    BY <1>1, <2>1, <2>2, <2>3, <2>4, <2>6, <2>8, <2>9 DEF HeldBy, Held, target
  <2> QED
    BY <1>1, <2>7, <2>10, Closing DEF target
<1> QED
  BY <1>3, <1>4

\* A stop that fails is remembered, not obeyed.
LEMMA RStopHolds ==
  ASSUME ReportInv, NEW c \in Callers, RStop(c)
  PROVE  ReportInv'
<1>1. /\ job[c].at = "rstop" /\ Kept /\ record' = record /\ recorded' = recorded
  BY DEF RStop, Call, Kept
<1>2. kind \in {"unraid", "proxmox"} /\ HeldBy(c) /\ DeployTypeOK
  BY <1>1, KindOf DEF ReportInv
<1>3. CASE kind = "unraid"
  <2>1. \/ svc' = Stopped /\ Goes(c, "rremove") /\ Disturb(c, FALSE)
        \/ svc' \in {svc, Stopped} /\ End(c, "rollback failed") /\ Disturb(c, svc' # svc)
    BY <1>3 DEF RStop, Call, RollbackFailed
  <2>2. svc' \in Targets /\ SpecStays /\ recorded' \in BOOLEAN
    BY <1>1, <1>2, <1>3, <2>1, HostCalls DEF SpecStays, DeployTypeOK
  <2>3. CASE svc' = Stopped /\ Goes(c, "rremove") /\ Disturb(c, FALSE)
    <3>1. "rremove" \in PlacesOf(kind) \ {"idle", "stack"} /\ "rremove" \in Places
      BY <1>3, PlacesThere DEF Places
    <3>2. Reached(c, kind, svc', "rremove", report[c], base[c]) /\ CleanStays(c)
      BY <2>3, HostDone DEF Reached
    <3> QED
      BY <1>1, <1>3, <2>2, <2>3, <3>1, <3>2, Advancing
  <2>4. CASE svc' \in {svc, Stopped} /\ End(c, "rollback failed") /\ Disturb(c, svc' # svc)
    BY <1>1, <2>2, <2>4, HostLost, Failing
  <2> QED
    BY <2>1, <2>3, <2>4
<1>4. CASE kind = "proxmox"
  <2>1. /\ report' = report
        /\ \/ svc' = Stopped /\ At(c, "rstart") /\ Disturb(c, FALSE)
           \/ /\ svc' \in {svc, Stopped} /\ Disturb(c, svc' # svc)
              /\ job' = [job EXCEPT ![c].at = "rstart", ![c].ok = FALSE]
    BY <1>4 DEF RStop
  <2>2. svc' \in Targets /\ svc'.spec = svc.spec /\ SpecStays
    BY <1>2, <2>1, HostCalls DEF SpecStays, DeployTypeOK
  <2>3. "rstart" \in PlacesOf(kind) \ {"idle", "stack"} /\ "rstart" \in Places
    BY <1>4, PlacesThere DEF Places
  <2>4. clean[c] => Reached(c, kind, svc', "rstart", report[c], base[c])
    BY <1>2, <1>4, <2>2 DEF HeldBy, Held, Carried, Reached, Went
  <2>5. CASE svc' = Stopped /\ At(c, "rstart") /\ Disturb(c, FALSE)
    BY <1>1, <1>4, <2>1, <2>2, <2>3, <2>4, <2>5, HostDone, Advancing DEF Goes
  <2>6. CASE /\ svc' \in {svc, Stopped} /\ Disturb(c, svc' # svc)
             /\ job' = [job EXCEPT ![c].at = "rstart", ![c].ok = FALSE]
    <3> DEFINE new == [job[c] EXCEPT !.at = "rstart", !.ok = FALSE]
    <3>1. job' = [job EXCEPT ![c] = new]
      BY <1>2, <2>6 DEF DeployTypeOK
    <3>2. new \in Calls /\ new.at = "rstart"
      BY <1>2, <2>3 DEF DeployTypeOK, Calls
    <3> HIDE DEF new
    <3>3. job' \in [Callers -> Calls] /\ job'[c] = new /\ \A d \in Callers \ {c} : job'[d] = job[d]
      BY <1>2, <3>1, <3>2 DEF DeployTypeOK
    <3>4. NobodyGains
      BY <2>6, HostLost
    <3>5. DeployTypeOK' /\ Others(c)
      BY <1>1, <1>2, <2>1, <2>2, <3>3, <3>4 DEF DeployTypeOK, Others, Kept, NobodyGains
    <3>6. Own(c, kind, svc', "rstart", artifact[c])
      BY <1>2, <2>2 DEF HeldBy, Held, Own
    <3>7. clean[c] => Carried(kind, svc', "rstart", new.old, artifact[c], record[c], report[c], base[c])
      BY <1>2, <1>4, <2>2 DEF HeldBy, Held, Carried
    <3>8. HeldBy(c)'
      BY <1>1, <2>1, <2>3, <2>4, <3>2, <3>3, <3>4, <3>6, <3>7 DEF HeldBy, Held, Kept, NobodyGains
    <3> QED
      BY <1>1, <2>2, <3>5, <3>8, Closing DEF Kept
  <2> QED
    BY <2>1, <2>5, <2>6
<1> QED
  BY <1>2, <1>3, <1>4

LEMMA RRemoveHolds ==
  ASSUME ReportInv, NEW c \in Callers, RRemove(c)
  PROVE  ReportInv'
<1>1. /\ job[c].at = "rremove" /\ Kept /\ record' = record /\ recorded' = recorded
      /\ \/ svc' = Absent /\ Goes(c, "radd") /\ Disturb(c, FALSE)
         \/ svc' \in {svc, Absent} /\ End(c, "rollback failed") /\ Disturb(c, svc' # svc)
  BY DEF RRemove, Call, RollbackFailed, Kept
<1>2. kind = "unraid" /\ DeployTypeOK
  BY <1>1, KindOf DEF ReportInv
<1>3. svc' \in Targets /\ SpecStays /\ recorded' \in BOOLEAN
  BY <1>1, <1>2, HostCalls DEF SpecStays, DeployTypeOK
<1>4. CASE svc' = Absent /\ Goes(c, "radd") /\ Disturb(c, FALSE)
  <2>1. "radd" \in PlacesOf(kind) \ {"idle", "stack"} /\ "radd" \in Places
    BY <1>2, PlacesThere DEF Places
  <2>2. Reached(c, kind, svc', "radd", report[c], base[c]) /\ CleanStays(c)
    BY <1>4, HostDone DEF Reached
  <2> QED
    BY <1>1, <1>2, <1>3, <1>4, <2>1, <2>2, Advancing
<1>5. CASE svc' \in {svc, Absent} /\ End(c, "rollback failed") /\ Disturb(c, svc' # svc)
  BY <1>1, <1>3, <1>5, HostLost, Failing
<1> QED
  BY <1>1, <1>4, <1>5

\* What is added again is what was captured.
LEMMA RAddHolds ==
  ASSUME ReportInv, NEW c \in Callers, RAdd(c)
  PROVE  ReportInv'
<1> DEFINE again == Added(job[c].old)
<1>1. /\ job[c].at = "radd" /\ Kept /\ record' = record /\ recorded' = recorded
      /\ \/ svc' = again /\ Goes(c, "rstart") /\ Disturb(c, FALSE)
         \/ svc' \in {svc, again} /\ End(c, "rollback failed") /\ Disturb(c, svc' # svc)
  BY DEF RAdd, Call, RollbackFailed, Kept
<1>2. kind = "unraid" /\ DeployTypeOK /\ HeldBy(c) /\ job[c].old \in Versions
  BY <1>1, KindOf DEF ReportInv, DeployTypeOK, Calls
<1>3. again \in Targets /\ again.spec = job[c].old
  BY <1>2, HostAdds
<1> HIDE DEF again
<1>4. svc' \in Targets /\ SpecStays /\ recorded' \in BOOLEAN
  BY <1>1, <1>2, <1>3 DEF SpecStays, DeployTypeOK
<1>5. CASE svc' = again /\ Goes(c, "rstart") /\ Disturb(c, FALSE)
  <2>1. "rstart" \in PlacesOf(kind) \ {"idle", "stack"} /\ "rstart" \in Places
    BY <1>2, PlacesThere DEF Places
  <2>2. clean[c] => job[c].old = base[c].back
    BY <1>1, <1>2 DEF HeldBy, Held, Carried
  <2>3. clean[c] => Reached(c, kind, svc', "rstart", report[c], base[c])
    BY <1>2, <1>3, <1>5, <2>2 DEF Reached, Went
  <2>4. CleanStays(c)
    BY <1>5, HostDone
  <2> QED
    BY <1>1, <1>2, <1>4, <1>5, <2>1, <2>3, <2>4, Advancing
<1>6. CASE svc' \in {svc, again} /\ End(c, "rollback failed") /\ Disturb(c, svc' # svc)
  BY <1>1, <1>4, <1>6, HostLost, Failing
<1> QED
  BY <1>1, <1>5, <1>6

LEMMA RStartHolds ==
  ASSUME ReportInv, NEW c \in Callers, RStart(c)
  PROVE  ReportInv'
<1>1. /\ job[c].at = "rstart" /\ kind \in {"unraid", "proxmox"} /\ HeldBy(c) /\ DeployTypeOK
  BY KindOf DEF RStart, Call, ReportInv
<1>2. CASE svc.spec = None
  <2>1. End(c, "rollback failed") /\ UNCHANGED <<target, clean>> /\ Kept /\ record' = record
    BY <1>2 DEF RStart, RollbackFailed, Kept, target
  <2> QED
    BY <2>1, Inside, Failing
<1>3. CASE svc.spec # None
  <2>1. /\ Kept /\ record' = record /\ recorded' = recorded
        /\ \/ svc' = Started /\ Goes(c, "rpoll") /\ Disturb(c, FALSE)
           \/ svc' \in {svc, Started} /\ End(c, "rollback failed") /\ Disturb(c, svc' # svc)
    BY <1>3 DEF RStart, Call, RollbackFailed, Kept
  <2>2. svc' \in Targets /\ svc'.spec = svc.spec /\ SpecStays /\ recorded' \in BOOLEAN
    BY <1>1, <2>1, HostCalls DEF SpecStays, DeployTypeOK
  <2>3. CASE svc' = Started /\ Goes(c, "rpoll") /\ Disturb(c, FALSE)
    <3>1. "rpoll" \in PlacesOf(kind) \ {"idle", "stack"} /\ "rpoll" \in Places
      BY <1>1, PlacesThere DEF Places
    <3>2. clean[c] => Reached(c, kind, svc', "rpoll", report[c], base[c])
      BY <1>1, <2>2 DEF HeldBy, Held, Reached
    <3>3. CleanStays(c)
      BY <2>3, HostDone
    <3> QED
      BY <1>1, <2>1, <2>2, <2>3, <3>1, <3>2, <3>3, Advancing
  <2>4. CASE svc' \in {svc, Started} /\ End(c, "rollback failed") /\ Disturb(c, svc' # svc)
    BY <2>1, <2>2, <2>4, HostLost, Failing
  <2> QED
    BY <2>1, <2>3, <2>4
<1> QED
  BY <1>2, <1>3

LEMMA RPollHolds ==
  ASSUME ReportInv, NEW c \in Callers, RPoll(c)
  PROVE  ReportInv'
<1>1. /\ job[c].at = "rpoll" /\ UNCHANGED <<target, clean>> /\ Kept /\ record' = record
      /\ (svc.up /\ End(c, IF job[c].ok THEN "restored" ELSE "rollback failed")) \/ End(c, "rollback failed")
  BY DEF RPoll, Poll, RollbackFailed, Kept, target
<1>2. clean[c] => svc.spec = Went(kind, base[c])
  BY <1>1 DEF ReportInv, HeldBy, Held, Reached
<1>3. CASE svc.up /\ End(c, "restored")
  BY <1>1, <1>2, <1>3, Restoring
<1>4. CASE End(c, "rollback failed")
  BY <1>1, <1>4, Inside, Failing
<1>5. (svc.up /\ End(c, "restored")) \/ End(c, "rollback failed")
  <2>1. CASE job[c].ok
    BY <1>1, <2>1
  <2>2. CASE ~job[c].ok
    BY <1>1, <2>2
  <2> QED
    BY <2>1, <2>2
<1> QED
  BY <1>3, <1>4, <1>5

\* docker goes back to the spec before the last update.
LEMMA DockerRollbackHolds ==
  ASSUME ReportInv, NEW c \in Callers, DockerRollback(c)
  PROVE  ReportInv'
<1>1. /\ job[c].at = "rback" /\ kind = "swarm" /\ HeldBy(c) /\ DeployTypeOK
  BY KindOf DEF DockerRollback, Call, ReportInv
<1>2. CASE svc.prev = None
  <2>1. End(c, "rollback failed") /\ UNCHANGED <<target, clean>> /\ Kept /\ record' = record
    BY <1>2 DEF DockerRollback, RollbackFailed, Kept, target
  <2> QED
    BY <2>1, Inside, Failing
<1>3. CASE svc.prev # None
  <2>1. /\ Kept /\ record' = record /\ recorded' = recorded
        /\ \/ svc' = RolledBack /\ Goes(c, "rwait") /\ Disturb(c, FALSE)
           \/ svc' \in {svc, RolledBack} /\ End(c, "rollback failed") /\ Disturb(c, svc' # svc)
    BY <1>3 DEF DockerRollback, Call, RollbackFailed, Kept
  <2>2. /\ svc' \in Targets /\ SpecStays /\ recorded' \in BOOLEAN
        /\ RolledBack.spec = svc.prev
    BY <1>1, <2>1, HostCalls DEF SpecStays, DeployTypeOK
  <2>3. CASE svc' = RolledBack /\ Goes(c, "rwait") /\ Disturb(c, FALSE)
    <3>1. "rwait" \in PlacesOf(kind) \ {"idle", "stack"} /\ "rwait" \in Places
      BY <1>1, PlacesThere DEF Places
    <3>2. clean[c] => svc.prev = Went(kind, base[c])
      BY <1>1 DEF HeldBy, Held, Reached
    <3>3. clean[c] => Reached(c, kind, svc', "rwait", report[c], base[c])
      BY <2>2, <2>3, <3>2 DEF Reached
    <3>4. CleanStays(c)
      BY <2>3, HostDone
    <3> QED
      BY <1>1, <2>1, <2>2, <2>3, <3>1, <3>3, <3>4, Advancing
  <2>4. CASE svc' \in {svc, RolledBack} /\ End(c, "rollback failed") /\ Disturb(c, svc' # svc)
    BY <2>1, <2>2, <2>4, HostLost, Failing
  <2> QED
    BY <2>1, <2>3, <2>4
<1> QED
  BY <1>2, <1>3

LEMMA AwaitRollbackHolds ==
  ASSUME ReportInv, NEW c \in Callers, AwaitRollback(c)
  PROVE  ReportInv'
<1>1. /\ job[c].at = "rwait" /\ UNCHANGED <<target, clean>> /\ Kept /\ record' = record
      /\ End(c, "restored") \/ End(c, "rollback failed")
  BY DEF AwaitRollback, RollbackFailed, Kept, target
<1>2. kind = "swarm" /\ (clean[c] => svc.spec = Went(kind, base[c]))
  BY <1>1, KindOf DEF ReportInv, HeldBy, Held, Reached
<1>3. CASE End(c, "restored")
  BY <1>1, <1>2, <1>3, Restoring
<1>4. CASE End(c, "rollback failed")
  BY <1>1, <1>4, Inside, Failing
<1> QED
  BY <1>1, <1>3, <1>4

-----------------------------------------------------------------------------
\* Autofix touches no call; an update it forces disturbs every caller.
LEMMA FixerHolds ==
  ASSUME ReportInv, UNCHANGED <<kind, recorded, deploys>>, svc' \in Targets, SpecStays, NobodyGains
  PROVE  ReportInv'
<1>1. DeployTypeOK'
  BY DEF ReportInv, DeployTypeOK, deploys, NobodyGains
<1>2. ASSUME NEW d \in Callers PROVE HeldBy(d)'
  <2>1. HeldBy(d) /\ (clean'[d] => clean[d] /\ svc' = svc)
    BY DEF ReportInv, NobodyGains
  <2>2. Own(d, kind, svc', job[d].at, artifact[d])
    BY <2>1, DeployAssumption DEF HeldBy, Held, Own, SpecStays, None
  <2> QED
    BY <2>1, <2>2 DEF HeldBy, Held, deploys
<1> QED
  BY <1>1, <1>2 DEF ReportInv

LEMMA FixExecHolds ==
  ASSUME ReportInv, FixExec
  PROVE  ReportInv'
<1> DEFINE again == Updated(svc.spec)
<1>1. /\ UNCHANGED <<kind, recorded, deploys>>
      /\ (kind = "swarm" /\ svc' = again) \/ svc' = svc
      /\ clean' = [d \in Callers |-> clean[d] /\ svc' = svc]
  BY DEF FixExec
<1>2. DeployTypeOK
  BY DEF ReportInv
<1>3. again \in Targets
  <2>1. (svc.spec \notin Broken) \in BOOLEAN
    OBVIOUS
  <2> QED
    BY <1>2, <2>1 DEF Updated, DeployTypeOK, Targets
<1> HIDE DEF again
<1>4. svc' \in Targets /\ SpecStays
  BY <1>1, <1>2, <1>3 DEF SpecStays, DeployTypeOK
<1>5. \A d \in Callers : (clean[d] /\ svc' = svc) \in BOOLEAN
  OBVIOUS
<1>6. NobodyGains
  BY <1>1, <1>5 DEF NobodyGains
<1> QED
  BY <1>1, <1>4, <1>6, FixerHolds

LEMMA InitReport == Init => ReportInv
<1> SUFFICES ASSUME Init PROVE ReportInv
  OBVIOUS
<1>1. Absent \in Targets /\ None \in Versions /\ "v1" \in Versions /\ "v0" \in Versions
  BY DEF Absent, Targets, Versions, Old
<1>2. svc \in Targets
  <2>1. PICK prev \in Versions : svc \in {Absent, [spec |-> "v1", prev |-> prev, up |-> TRUE]}
    <3>1. CASE kind = "swarm"
      BY <1>1, <3>1 DEF Init
    <3>2. CASE kind # "swarm"
      BY <1>1, <3>2 DEF Init
    <3> QED
      BY <3>1, <3>2
  <2>2. TRUE \in BOOLEAN
    OBVIOUS
  <2>3. [spec |-> "v1", prev |-> prev, up |-> TRUE] \in Targets
    BY <1>1, <2>2, Zenon DEF Targets
  <2> QED
    BY <1>1, <2>1, <2>3
<1>3. NoArtifact \in Captures /\ [back |-> None, found |-> Absent, updated |-> FALSE] \in Bases /\ None \in Reports
  BY <1>1 DEF NoArtifact, Captures, Bases, Reports, None
<1>4. DeployTypeOK
  <2>1. (svc # Absent) \in BOOLEAN /\ recorded = (svc # Absent)
    BY Zenon DEF Init
  <2>2. recorded \in BOOLEAN
    BY <2>1
  <2>3. kind \in {"unraid", "swarm", "proxmox"} /\ job \in [Callers -> Calls]
        /\ artifact \in [Callers -> Captures] /\ record \in [Callers -> Captures]
    BY <1>3, IdleCall DEF Init
  <2>4. report \in [Callers -> Reports] /\ base \in [Callers -> Bases] /\ clean \in [Callers -> BOOLEAN]
    BY <1>3 DEF Init
  <2> QED
    BY <1>2, <2>2, <2>3, <2>4 DEF DeployTypeOK
<1>5. ASSUME NEW c \in Callers PROVE HeldBy(c)
  <2>1. job[c].at = "idle" /\ ~artifact[c].there /\ ~clean[c]
    BY IdleCall DEF Init, NoArtifact
  <2> QED
    BY <2>1 DEF HeldBy, Held, Own, PlacesOf
<1> QED
  BY <1>4, <1>5 DEF ReportInv

LEMMA StepReport == ReportInv /\ [Next]_vars => ReportInv'
<1> SUFFICES ASSUME ReportInv, [Next]_vars PROVE ReportInv'
  OBVIOUS
<1>1. ASSUME NEW c \in Callers, Build(c) \/ Deploy(c) \/ Rollback(c) PROVE ReportInv'
  BY <1>1, BuildHolds, DeployHolds, RollbackHolds
<1>2. ASSUME NEW c \in Callers, CallStep(c) PROVE ReportInv'
  BY <1>2, PullHolds, UnraidCaptureHolds, SwarmBuiltHolds, CreateHolds, LookupHolds, CheckHolds,
     UnraidInspectHolds, StopHolds, AddHolds, StartHolds, PollNewHolds, PersistHolds, SwarmInspectHolds,
     StackHolds, RStopHolds, RRemoveHolds, RAddHolds, RStartHolds, RPollHolds, DockerRollbackHolds,
     AwaitRollbackHolds
  DEF CallStep
<1>3. CASE UNCHANGED <<target, deploys, clean>>
  <2>1. UNCHANGED <<kind, recorded, deploys>> /\ svc' \in Targets /\ SpecStays /\ NobodyGains
    BY <1>3, Settled DEF target, ReportInv
  <2> QED
    BY <2>1, FixerHolds
<1>4. ASSUME NEW o \in Observations, Propose(o) PROVE ReportInv'
  BY <1>3, <1>4 DEF Propose
<1>5. ASSUME NEW p \in proposals, Apply(p) PROVE ReportInv'
  BY <1>3, <1>5 DEF Apply
<1>6. CASE FixGate \/ FixAudit \/ FixError
  BY <1>3, <1>6 DEF FixGate, FixAudit, FixError
<1>7. CASE FixExec
  BY <1>7, FixExecHolds
<1>8. CASE UNCHANGED vars
  BY <1>3, <1>8 DEF vars, deploys
<1> QED
  BY <1>1, <1>2, <1>4, <1>5, <1>6, <1>7, <1>8 DEF Next

(***************************************************************************)
(* The backends' deploy and rollback (deploy/backends/unraid.ts,           *)
(* docker-swarm.ts, proxmox.ts), on one target, for any callers, refused   *)
(* and lost calls and forced updates: a caller whose target nobody else    *)
(* changed, and whose answers all came, finds there what its last call     *)
(* reported.  "deployed" is its version, and running where the backend     *)
(* waits for it; "restored" is the version that ran when the rollback      *)
(* point was captured, or, when a refused stack deploy had left a service  *)
(* as it was, the one before that; "failed" is the target as the deploy    *)
(* found it.                                                               *)
(***************************************************************************)
THEOREM ReportsAreTrue == Spec => []ReportIsTrue
<1>1. ReportInv => ReportIsTrue
  <2> SUFFICES ASSUME ReportInv, NEW c \in Callers, clean[c], job[c].at = "idle"
               PROVE  CASE report[c] = "deployed" -> svc.spec = c /\ (svc.up \/ kind = "swarm")
                        [] report[c] = "restored" -> svc.spec = WentBackTo(c) /\ (svc.up \/ kind = "swarm")
                        [] report[c] = "failed" -> kind # "proxmox" /\ base[c].back # None => svc = base[c].found
                        [] OTHER -> TRUE
    BY DEF ReportIsTrue
  <2>1. Reached(c, kind, svc, "idle", report[c], base[c])
    BY DEF ReportInv, HeldBy, Held
  <2>2. /\ report[c] = "deployed" => svc.spec = c /\ (svc.up \/ kind = "swarm")
        /\ report[c] = "restored" => svc.spec = WentBackTo(c) /\ (svc.up \/ kind = "swarm")
        /\ report[c] = "failed" => (kind # "proxmox" /\ base[c].back # None => svc = base[c].found)
    BY <2>1 DEF Reached, WentBackTo, Went
  <2>3. CASE report[c] = "deployed"
    BY <2>2, <2>3
  <2>4. CASE report[c] = "restored"
    BY <2>2, <2>4
  <2>5. CASE report[c] = "failed"
    BY <2>2, <2>5
  <2>6. CASE report[c] \notin {"deployed", "restored", "failed"}
    BY <2>6
  <2> QED
    BY <2>3, <2>4, <2>5, <2>6
<1> QED
  BY InitReport, StepReport, <1>1, PTL DEF Spec
=============================================================================
