---------------------------- MODULE ApprovalGate ----------------------------
(***************************************************************************)
(* safety/gate.ts, with the typed-CONFIRM prompt (safety/typed-confirm.ts) *)
(* and the backup check (backup/orchestrator.ts) it calls.  The 24 hour    *)
(* delay is taken through its contract, DelayContract, whose steps are     *)
(* composed with the gate's here; the operator's terminal, the backup      *)
(* engine and the audit sink are the environment.                          *)
(*                                                                         *)
(* Several approvals run at once in one process.  They share the terminal: *)
(* every prompt opens its own readline on the same stdin, so a typed line  *)
(* answers all the prompts that are open.                                  *)
(***************************************************************************)
EXTENDS Naturals

CONSTANTS Actions,         \* action ids
          Classes,         \* destructiveness classes of the submitted actions
          Delay, MaxTime,  \* as in DelayContract
          Ttl,             \* typed_confirm_ttl_seconds
          MaxAge,          \* max_age_seconds of the platform's backups
          FirstBackups     \* the manifests the gate may find at the start

VARIABLES now, asked, promise, revoked,  \* the delay's contract
          pc,        \* where the gateApproval call of an action stands
          request,   \* what was asked: class, dry-run report, flag, role
          deadline,  \* when the open prompt of an action times out
          confirmed, \* what typedConfirmModal resolved to
          checked,   \* history: what satisfied the backup check
          manifest,  \* the platform's entries in backup-manifest.json
          audit,     \* the gate events written for an action
          result     \* what gateApproval returned or threw

delayVars  == <<now, asked, promise, revoked>>
gateVars   == <<pc, request, deadline, confirmed, checked, manifest, audit, result>>
ladderVars == <<delayVars, gateVars>>

D == INSTANCE DelayContract WITH Ids <- Actions

\* An entry's hmac verifies, fails, or is empty (converted from a v1 shape);
\* a converted entry without a time is stamped with the time it is read.
Undated == MaxTime + 1
Entries == [sig : {"valid", "bad", "none"}, taken : 0..MaxTime + 1]

ASSUME GateAssumption ==
    /\ Delay \in Nat \ {0} /\ MaxTime \in Nat
    /\ Ttl \in Nat \ {0} /\ MaxAge \in Nat
    /\ Classes \subseteq {"read-only", "reversible", "persistent-modifying",
                          "data-affecting", "architectural"}
    /\ FirstBackups \subseteq SUBSET Entries

Requests == [class : Classes, dryRun : BOOLEAN, skip : BOOLEAN, admin : BOOLEAN]
NoRequest == [class |-> "none"]

NeedsBackup(r) == r.class \in {"data-affecting", "architectural"}

GateTypeOK ==
    /\ D!ContractTypeOK
    /\ pc \in [Actions -> {"new", "backup", "bypass", "delay", "ask", "prompt",
                           "verdict", "done", "lost"}]
    /\ request \in [Actions -> Requests \cup {NoRequest}]
    /\ deadline \in [Actions -> 0..MaxTime + Ttl]
    /\ confirmed \in [Actions -> BOOLEAN]
    /\ checked \in [Actions -> {"no", "signed", "unsigned", "bypass"}]
    /\ manifest \subseteq Entries
    /\ audit \in [Actions -> SUBSET {"gate.allowed", "gate.denied", "gate.bypass"}]
    /\ result \in [Actions -> {"none", "approved", "denied", "error"}]

GateInit ==
    /\ D!ContractInit
    /\ pc = [a \in Actions |-> "new"]
    /\ request = [a \in Actions |-> NoRequest]
    /\ deadline = [a \in Actions |-> 0]
    /\ confirmed = [a \in Actions |-> FALSE]
    /\ checked = [a \in Actions |-> "no"]
    /\ manifest \in FirstBackups
    /\ audit = [a \in Actions |-> {}]
    /\ result = [a \in Actions |-> "none"]

Goto(a, l) == pc' = [pc EXCEPT ![a] = l]
Return(a, r) == Goto(a, "done") /\ result' = [result EXCEPT ![a] = r]
Log(a, e) == audit' = [audit EXCEPT ![a] = @ \cup {e}]

-----------------------------------------------------------------------------
(***************************************************************************)
(* gateApproval: dispatch on the class.  An architectural action without a *)
(* dry-run report is refused outright.                                     *)
(***************************************************************************)
FirstStep(r) == IF r.class = "read-only" THEN "verdict"
                ELSE IF NeedsBackup(r) THEN "backup" ELSE "ask"

Submit(a, r) ==
    /\ pc[a] = "new"
    /\ request' = [request EXCEPT ![a] = r]
    /\ IF r.class = "architectural" /\ ~r.dryRun
       THEN Return(a, "error")
       ELSE Goto(a, FirstStep(r)) /\ result' = result
    /\ UNCHANGED <<delayVars, deadline, confirmed, checked, manifest, audit>>

(***************************************************************************)
(* verifyBackup: any entry whose hmac fails makes it throw; otherwise the  *)
(* freshest entry of the platform must be young enough.                    *)
(***************************************************************************)
TakenAt(e) == IF e.taken = Undated THEN now ELSE e.taken
Tampered == \E e \in manifest : e.sig = "bad"

Candidates == manifest
Freshest == CHOOSE e \in Candidates : \A f \in Candidates : TakenAt(f) <= TakenAt(e)

Stale(e) == now - TakenAt(e) > MaxAge

BackupVerified == /\ ~Tampered
                  /\ Candidates # {}
                  /\ ~Stale(Freshest)

AfterBackup(a) == IF request[a].class = "architectural" THEN "delay" ELSE "ask"

CheckBackup(a) ==
    /\ pc[a] = "backup"
    /\ ~request[a].skip
    /\ IF BackupVerified
       THEN /\ Goto(a, AfterBackup(a))
            /\ checked' = [checked EXCEPT ![a] =
                             IF Freshest.sig = "valid" THEN "signed" ELSE "unsigned"]
            /\ result' = result
       ELSE Return(a, "error") /\ checked' = checked
    /\ UNCHANGED <<delayVars, request, deadline, confirmed, manifest, audit>>

\* --skip-backup-check: admin only, and audited before it is honoured.
MayBypassAnyone(a) == TRUE                     \* a bug: the role is not checked
MayBypass(a) == request[a].admin

SkipBackup(a) ==
    /\ pc[a] = "backup"
    /\ request[a].skip
    /\ IF MayBypass(a) THEN Goto(a, "bypass") /\ result' = result
                       ELSE Return(a, "denied")
    /\ UNCHANGED <<delayVars, request, deadline, confirmed, checked, manifest, audit>>

AuditBypass(a) ==
    /\ pc[a] = "bypass"
    /\ Log(a, "gate.bypass")
    /\ checked' = [checked EXCEPT ![a] = "bypass"]
    /\ Goto(a, AfterBackup(a))
    /\ UNCHANGED <<delayVars, request, deadline, confirmed, manifest, result>>

-----------------------------------------------------------------------------
(***************************************************************************)
(* The delay of an architectural action.  A rejection propagates.          *)
(***************************************************************************)
RequestDelay(a) ==
    /\ pc[a] = "delay"
    /\ asked[a] = D!Never
    /\ D!Ask(a)
    /\ UNCHANGED gateVars

StartWaiting(a) ==
    /\ pc[a] = "delay"
    /\ D!Wait(a)
    /\ UNCHANGED gateVars

DelayElapsed(a) ==
    /\ pc[a] = "delay"
    /\ D!Resolve(a)
    /\ Goto(a, "ask")
    /\ UNCHANGED <<request, deadline, confirmed, checked, manifest, audit, result>>

Cancel(a) ==
    /\ D!Revoke(a)
    /\ UNCHANGED gateVars

DelayRejectionIgnored(a) ==                    \* a bug: the rejection is swallowed
    /\ pc[a] = "delay"
    /\ promise[a] = "rejected"
    /\ Goto(a, "ask")
    /\ UNCHANGED <<delayVars, request, deadline, confirmed, checked, manifest,
                   audit, result>>

DelayRejected(a) ==
    /\ pc[a] = "delay"
    /\ promise[a] = "rejected"
    /\ Return(a, "error")
    /\ UNCHANGED <<delayVars, request, deadline, confirmed, checked, manifest, audit>>

-----------------------------------------------------------------------------
(***************************************************************************)
(* typedConfirmModal: a timer against an answer; whichever settles first.  *)
(***************************************************************************)
Expiry == now + Ttl

OpenPrompt(a) ==
    /\ pc[a] = "ask"
    /\ Goto(a, "prompt")
    /\ deadline' = [deadline EXCEPT ![a] = Expiry]
    /\ UNCHANGED <<delayVars, request, confirmed, checked, manifest, audit, result>>

Settle(S, answer) ==
    /\ pc' = [a \in Actions |-> IF a \in S THEN "verdict" ELSE pc[a]]
    /\ confirmed' = [a \in Actions |-> IF a \in S THEN answer ELSE confirmed[a]]
    /\ UNCHANGED <<delayVars, request, deadline, checked, manifest, audit, result>>

Open == {a \in Actions : pc[a] = "prompt"}

TypeLine(isConfirm) ==
    /\ Open # {}
    /\ Settle(Open, isConfirm)

LapsedNever(a) == FALSE                        \* a bug: the timer is cleared early
Lapsed(a) == now >= deadline[a]

PromptTimeout(a) ==
    /\ a \in Open
    /\ Lapsed(a)
    /\ Settle({a}, FALSE)

(***************************************************************************)
(* The verdict is audited before it is returned; if the audit sink throws, *)
(* gateApproval throws.                                                    *)
(***************************************************************************)
Granted(a) == request[a].class = "read-only" \/ confirmed[a]

Verdict(a) ==
    /\ pc[a] = "verdict"
    /\ IF Granted(a) THEN Log(a, "gate.allowed") /\ Return(a, "approved")
                     ELSE Log(a, "gate.denied") /\ Return(a, "denied")
    /\ UNCHANGED <<delayVars, request, deadline, confirmed, checked, manifest>>

AuditFails(a) ==
    /\ pc[a] \in {"bypass", "verdict"}
    /\ Return(a, "error")
    /\ UNCHANGED <<delayVars, request, deadline, confirmed, checked, manifest, audit>>

-----------------------------------------------------------------------------
\* The environment: the process ends, a backup is recorded, time passes.
Crash ==
    /\ D!Lose
    /\ pc' = [a \in Actions |-> IF pc[a] \in {"new", "done"} THEN pc[a] ELSE "lost"]
    /\ UNCHANGED <<request, deadline, confirmed, checked, manifest, audit, result>>

RecordBackup ==
    /\ manifest' = manifest \cup {[sig |-> "valid", taken |-> now]}
    /\ UNCHANGED <<delayVars, pc, request, deadline, confirmed, checked, audit, result>>

Tick == D!Elapse /\ UNCHANGED gateVars

Step(a) ==
    \/ CheckBackup(a) \/ SkipBackup(a) \/ AuditBypass(a)
    \/ RequestDelay(a) \/ StartWaiting(a) \/ DelayElapsed(a) \/ DelayRejected(a)
    \/ OpenPrompt(a) \/ PromptTimeout(a) \/ Verdict(a)

GateNext ==
    \/ \E a \in Actions :
         Step(a) \/ Cancel(a) \/ AuditFails(a) \/ \E r \in Requests : Submit(a, r)
    \/ \E isConfirm \in BOOLEAN : TypeLine(isConfirm)
    \/ Crash
    \/ RecordBackup
    \/ Tick

GateSpec == GateInit /\ [][GateNext]_ladderVars

\* The event loop runs what is ready and time passes; nobody has to submit,
\* answer, cancel or crash.
GateFairSpec == GateSpec /\ WF_ladderVars(Tick) /\ \A a \in Actions : WF_ladderVars(Step(a))

-----------------------------------------------------------------------------
(***************************************************************************)
(* The destructiveness ladder: what stands behind an approval.             *)
(***************************************************************************)
Evidence(a) ==
    LET c == request[a].class IN
    /\ c # "read-only" => confirmed[a]
    /\ c \in {"data-affecting", "architectural"} =>
         checked[a] # "no" /\ (checked[a] = "bypass" => request[a].admin
                                                       /\ "gate.bypass" \in audit[a])
    /\ c = "architectural" => request[a].dryRun /\ now >= asked[a] + Delay

(***************************************************************************)
(* gateApproval approves an action only with everything its class calls    *)
(* for: the operator's CONFIRM, a backup check or an audited bypass by an  *)
(* admin, the dry-run report and the whole delay.                          *)
(***************************************************************************)
ApprovedWithEvidence == \A a \in Actions : result[a] = "approved" => Evidence(a)

(***************************************************************************)
(* An action the operator revoked in time is never approved, whatever is   *)
(* typed at the prompts of other actions.                                  *)
(***************************************************************************)
RevokedNeverApproved == \A a \in Actions : revoked[a] => result[a] # "approved"

(***************************************************************************)
(* A gate call that has no delay left to wait for returns: a prompt nobody *)
(* answers times out.  A prompt that outlives the bounded clock may stay.  *)
(***************************************************************************)
InHand(a) == pc[a] \in {"ask", "prompt", "verdict"}
OutlivesClock(a) == pc[a] = "prompt" /\ deadline[a] > MaxTime
GateReturns == \A a \in Actions : InHand(a) ~> ~InHand(a) \/ OutlivesClock(a)

(***************************************************************************)
(* What backup/orchestrator.ts lines 69-71 say and line 87 does not do:    *)
(* unsigned entries converted from the v1 overdue shape do not serve       *)
(* verifyBackup's gate checks.  As an invariant it is violated.            *)
(***************************************************************************)
UnsignedNeverServes == \A a \in Actions : checked[a] # "unsigned"
=============================================================================
