-------------------------------- MODULE Deploy --------------------------------
(***************************************************************************)
(* The deployment backends (unraid, docker-swarm, proxmox) on one target   *)
(* that several callers build for, deploy to and roll back, beside the     *)
(* `autofix` command, which forces an update of a swarm service.           *)
(*                                                                         *)
(* One action per call to the host.  A call is done, is refused, or is     *)
(* done although its answer is lost; the last two fail for the caller.     *)
(*                                                                         *)
(* Abstractions: the version a caller deploys is the caller.  Parameter    *)
(* checks, the share check and the backup check of a stateful target are   *)
(* one step that passes or refuses.  The host program verifies records     *)
(* before it uses them.                                                    *)
(***************************************************************************)
EXTENDS Naturals

CONSTANTS
  Callers,
  Broken,        \* the versions that never reach running
  Observations,
  Fixable,       \* the observations with a remediation
  Attempts,      \* BACKOFF_MS.length
  MaxCalls,      \* bound: builds, deploys and rollbacks
  MaxFaults,     \* bound: refused and lost calls
  MaxFixes       \* bound: runs of autofix

ASSUME DeployAssumption ==
  /\ Broken \subseteq Callers /\ Fixable \subseteq Observations
  /\ "none" \notin Callers   \* which stands for no version
  /\ Attempts \in Nat \ {0} /\ {MaxCalls, MaxFaults, MaxFixes} \subseteq Nat

VARIABLES
  kind,       \* the backend of the target
  svc,        \* the container, service or instance: its version, docker's previous one, running
  recorded,   \* proxmoxRecordPath(vmid) exists
  job,        \* what each caller's call is doing
  artifact,   \* what each caller has built: the version captured for rollback
  record,     \* the signed record each caller holds
  proposals,  \* .autonomous-dev/proposals
  fix,        \* the autofix command
  left,
  \* history
  report,     \* how each caller's last call ended
  base,       \* the version there was when the rollback point was captured, the target each
              \* deploy found, and whether its stack deploy then updated the service
  clean,      \* since then nobody else changed it and no answer was lost
  approvals, forced  \* gate approvals and forced updates of autofix

target == <<kind, svc, recorded>>
fixer == <<proposals, fix, approvals, forced>>
vars == <<target, job, artifact, record, fixer, left, report, base, clean>>

None == "none"
Old == {"v1", "v0"}
Absent == [spec |-> None, prev |-> None, up |-> FALSE]
Idle == [at |-> "idle", op |-> None, tries |-> 0, old |-> None, ok |-> TRUE]
NoArtifact == [there |-> FALSE, old |-> None]
NoFix == [at |-> "idle", id |-> None]

Init ==
  /\ kind \in {"unraid", "swarm", "proxmox"}
  /\ svc \in {Absent, [spec |-> "v1", prev |-> IF kind = "swarm" THEN "v0" ELSE None, up |-> TRUE]}
  /\ recorded = (svc # Absent)
  /\ job = [c \in Callers |-> Idle]
  /\ artifact = [c \in Callers |-> NoArtifact]
  /\ record = [c \in Callers |-> NoArtifact]
  /\ proposals = {} /\ fix = NoFix
  /\ left = [calls |-> MaxCalls, faults |-> MaxFaults, fixes |-> MaxFixes]
  /\ report = [c \in Callers |-> None]
  /\ base = [c \in Callers |-> [back |-> None, found |-> Absent, updated |-> FALSE]]
  /\ clean = [c \in Callers |-> FALSE]
  /\ approvals = 0 /\ forced = 0

Spend(what) == left[what] > 0 /\ left' = [left EXCEPT ![what] = @ - 1]

-----------------------------------------------------------------------------
(* The host. *)

Started == IF svc.spec = None THEN svc ELSE [svc EXCEPT !.up = svc.spec \notin Broken]
Stopped == [svc EXCEPT !.up = FALSE]
Added(v) == [Absent EXCEPT !.spec = v]
\* docker stack deploy does not wait for the tasks of the version.
Updated(v) == [spec |-> v, prev |-> svc.spec, up |-> v \notin Broken]
\* docker keeps one previous spec and swaps the two.
RolledBack == [spec |-> svc.prev, prev |-> svc.spec, up |-> svc.prev \notin Broken]

\* Whoever changes the target disturbs the others; a lost answer disturbs its caller.
Disturb(c, lost) ==
  clean' = [d \in Callers |-> clean[d] /\ (svc' = svc \/ (d = c /\ ~lost))]

At(c, at) == job' = [job EXCEPT ![c].at = at]
End(c, how) == job' = [job EXCEPT ![c] = Idle] /\ report' = [report EXCEPT ![c] = how]
Goes(c, at) == At(c, at) /\ UNCHANGED report
\* A call to the host that leads to the step `at`, or fails.
Call(c, from, after, at, Failed) ==
  /\ job[c].at = from
  /\ \/ svc' = after /\ Goes(c, at) /\ Disturb(c, FALSE) /\ UNCHANGED left
     \/ Spend("faults") /\ svc' \in {svc, after} /\ Failed /\ Disturb(c, svc' # svc)
  /\ UNCHANGED <<kind, recorded, artifact, record, fixer, base>>

\* What the version to roll back to was read as, from the target as it is.
Capture(c, old) ==
  /\ base' = [base EXCEPT ![c] = [back |-> svc.spec, found |-> svc, updated |-> FALSE]]
  /\ clean' = [clean EXCEPT ![c] = (old = svc.spec)]

\* pollForRunning: 60 s of inspections.
Poll(c, from, Passed, Failed) ==
  /\ job[c].at = from
  /\ \/ svc.up /\ Passed /\ UNCHANGED left
     \/ ~svc.up /\ Failed /\ UNCHANGED left
     \/ Spend("faults") /\ Failed

-----------------------------------------------------------------------------
(* build *)

Build(c) ==
  /\ job[c].at = "idle" /\ Spend("calls")
  /\ job' = [job EXCEPT ![c] = [Idle EXCEPT !.op = "build",
       !.at = CASE kind = "unraid" -> "pull" [] kind = "swarm" -> "built" [] OTHER -> "create"]]
  /\ UNCHANGED <<target, artifact, record, fixer, report, base, clean>>

Built(c, old) == artifact' = [artifact EXCEPT ![c] = [there |-> TRUE, old |-> old]] /\ End(c, "built")

\* pullImage: complete, failed for good, or transient up to the last attempt.
Pull(c) ==
  /\ job[c].at = "pull"
  /\ \/ Goes(c, "capture")
     \/ End(c, "refused")
     \/ IF job[c].tries + 1 < Attempts
        THEN job' = [job EXCEPT ![c].tries = @ + 1] /\ UNCHANGED report
        ELSE End(c, "refused")
  /\ UNCHANGED <<target, artifact, record, fixer, left, base, clean>>

\* The container's config now; an answer without one counts as no container.
UnraidCapture(c) ==
  /\ job[c].at = "capture"
  /\ \/ Built(c, svc.spec) /\ Capture(c, svc.spec) /\ UNCHANGED left
     \/ Spend("faults") /\ Built(c, None) /\ Capture(c, None)
     \/ Spend("faults") /\ End(c, "refused") /\ UNCHANGED <<artifact, base, clean>>
  /\ UNCHANGED <<target, record, fixer>>

SwarmBuilt(c) ==
  /\ job[c].at = "built" /\ Built(c, None)
  /\ UNCHANGED <<target, record, fixer, left, base, clean>>

\* pct create and qm create fail when the vmid is taken.
Create(c) ==
  IF svc.spec # None
  THEN /\ job[c].at = "create" /\ End(c, "refused")
       /\ UNCHANGED <<target, artifact, record, fixer, left, base, clean>>
  ELSE Call(c, "create", Added(c), "lookup", End(c, "refused"))

\* An unreadable record is no record.  A vmid's record names that vmid.
Lookup(c) ==
  /\ job[c].at = "lookup"
  /\ \/ Built(c, IF recorded THEN svc.spec ELSE None) /\ UNCHANGED left
     \/ Spend("faults") /\ Built(c, None)
  /\ Capture(c, svc.spec)
  /\ UNCHANGED <<target, record, fixer>>

-----------------------------------------------------------------------------
(* deploy *)

Deploy(c) ==
  /\ job[c].at = "idle" /\ artifact[c].there /\ Spend("calls")
  /\ job' = [job EXCEPT ![c] = [Idle EXCEPT !.op = "deploy", !.at = "check", !.old = artifact[c].old]]
  /\ base' = [base EXCEPT ![c].found = svc]
  /\ UNCHANGED <<target, artifact, record, fixer, report, clean>>

\* validateParameters, the shares, the backup of a stateful target.
Check(c) ==
  /\ job[c].at = "check"
  /\ \/ Goes(c, IF kind = "proxmox" THEN "start" ELSE "inspect")
     \/ End(c, "refused")
  /\ UNCHANGED <<target, artifact, record, fixer, left, base, clean>>

UnraidInspect(c) ==
  /\ kind = "unraid" /\ job[c].at = "inspect"
  /\ \/ Goes(c, IF svc.spec = None THEN "add" ELSE "stop") /\ UNCHANGED left
     \/ Spend("faults") /\ End(c, "failed")
  /\ UNCHANGED <<target, artifact, record, fixer, base, clean>>

\* Outside the try: a failure here is thrown as it is.
Stop(c) == Call(c, "stop", Stopped, "add", End(c, "failed"))

\* The catch of unraid: restore when a version was captured.
DeployFailed(c) ==
  IF kind = "unraid" /\ job[c].old # None THEN Goes(c, "rstop") ELSE End(c, "failed")

Add(c) == Call(c, "add", Added(c), "start", DeployFailed(c))

Start(c) ==
  IF svc.spec = None
  THEN /\ job[c].at = "start" /\ DeployFailed(c)
       /\ UNCHANGED <<target, artifact, record, fixer, left, base, clean>>
  ELSE Call(c, "start", Started, "poll", DeployFailed(c))

\* Bug: no deadline.
PollNewEver(c) ==
  /\ job[c].at = "poll" /\ svc.up /\ Goes(c, "persist")
  /\ UNCHANGED <<target, artifact, record, fixer, left, base, clean>>

\* proxmox reads the address too; that it has none is not an error.
PollNew(c) ==
  /\ Poll(c, "poll", Goes(c, "persist"), DeployFailed(c))
  /\ UNCHANGED <<target, artifact, record, fixer, base, clean>>

Deployed(c, old) ==
  record' = [record EXCEPT ![c] = [there |-> TRUE, old |-> old]] /\ End(c, "deployed")

Persist(c) ==
  /\ job[c].at = "persist"
  /\ \/ Deployed(c, job[c].old) /\ recorded' = TRUE /\ UNCHANGED left
     \/ Spend("faults") /\ End(c, "unrecorded") /\ UNCHANGED <<record, recorded>>
  /\ UNCHANGED <<kind, svc, artifact, fixer, base, clean>>

\* docker service inspect; a failing one counts as no service.
SwarmInspect(c) ==
  /\ kind = "swarm" /\ job[c].at = "inspect" /\ UNCHANGED report
  /\ \/ job' = [job EXCEPT ![c].at = "stack", ![c].old = svc.spec] /\ Capture(c, svc.spec) /\ UNCHANGED left
     \/ Spend("faults") /\ job' = [job EXCEPT ![c].at = "stack", ![c].old = None] /\ Capture(c, None)
  /\ UNCHANGED <<target, artifact, record, fixer>>

\* docker stack deploy.  Only a non-zero exit leads to a rollback, whether or
\* not the failed deploy had updated the service.
Stack(c) ==
  /\ job[c].at = "stack"
  /\ \/ svc' = Updated(c) /\ Deployed(c, job[c].old) /\ Disturb(c, FALSE) /\ UNCHANGED left
     \/ /\ Spend("faults") /\ svc' \in {svc, Updated(c)} /\ UNCHANGED record
        /\ IF job[c].old = None THEN End(c, "failed") ELSE Goes(c, "rback")
        /\ Disturb(c, FALSE)
     \/ Spend("faults") /\ svc' \in {svc, Updated(c)} /\ UNCHANGED record
        /\ End(c, "failed") /\ Disturb(c, svc' # svc)
  /\ base' = [base EXCEPT ![c].updated = svc' # svc]
  /\ UNCHANGED <<kind, recorded, artifact, fixer>>

-----------------------------------------------------------------------------
(* rollback, and the rollback of a failed deploy *)

\* Of the record of the last deploy; docker's second rollback undoes the first.
Rollback(c) ==
  /\ job[c].at = "idle" /\ record[c].there /\ Spend("calls")
  /\ IF record[c].old = None
     THEN report' = [report EXCEPT ![c] = "refused"] /\ UNCHANGED <<job, clean>>
     ELSE /\ job' = [job EXCEPT ![c] = [Idle EXCEPT !.op = "rollback", !.old = record[c].old,
                       !.at = IF kind = "swarm" THEN "rback" ELSE "rstop"]]
          /\ clean' = [clean EXCEPT ![c] = @ /\ report[c] = "deployed"]
          /\ UNCHANGED report
  /\ UNCHANGED <<target, artifact, record, fixer, base>>

RollbackFailed(c) == End(c, "rollback failed")

\* proxmox goes on when the stop fails, and remembers.
RStop(c) ==
  IF kind = "unraid" THEN Call(c, "rstop", Stopped, "rremove", RollbackFailed(c))
  ELSE /\ job[c].at = "rstop" /\ UNCHANGED <<kind, recorded, artifact, record, fixer, report, base>>
       /\ \/ svc' = Stopped /\ At(c, "rstart") /\ Disturb(c, FALSE) /\ UNCHANGED left
          \/ /\ Spend("faults") /\ svc' \in {svc, Stopped} /\ Disturb(c, svc' # svc)
             /\ job' = [job EXCEPT ![c].at = "rstart", ![c].ok = FALSE]

RRemove(c) == Call(c, "rremove", Absent, "radd", RollbackFailed(c))

\* Bug: what is added again is the version that has just failed.
RAddSame(c) == Call(c, "radd", Added(c), "rstart", RollbackFailed(c))

RAdd(c) == Call(c, "radd", Added(job[c].old), "rstart", RollbackFailed(c))

RStart(c) ==
  IF svc.spec = None
  THEN /\ job[c].at = "rstart" /\ RollbackFailed(c)
       /\ UNCHANGED <<target, artifact, record, fixer, left, base, clean>>
  ELSE Call(c, "rstart", Started, "rpoll", RollbackFailed(c))

RPoll(c) ==
  /\ Poll(c, "rpoll", End(c, IF job[c].ok THEN "restored" ELSE "rollback failed"), RollbackFailed(c))
  /\ UNCHANGED <<target, artifact, record, fixer, base, clean>>

\* docker service rollback
DockerRollback(c) ==
  IF svc.prev = None
  THEN /\ job[c].at = "rback" /\ RollbackFailed(c)
       /\ UNCHANGED <<target, artifact, record, fixer, left, base, clean>>
  ELSE Call(c, "rback", RolledBack, "rwait", RollbackFailed(c))

\* The update state reads "completed" within 90 s, or it does not.
AwaitRollback(c) ==
  /\ job[c].at = "rwait"
  /\ End(c, "restored") \/ RollbackFailed(c)
  /\ UNCHANGED <<target, artifact, record, fixer, left, base, clean>>

-----------------------------------------------------------------------------
(* autofix *)

deploys == <<job, artifact, record, report, base>>
FixTo(at, id) == fix' = [at |-> at, id |-> id]
FixEnds == fix' = NoFix

\* The proposal is written before the audit entry, whose failure ends the command.
Propose(o) ==
  /\ fix.at = "idle" /\ Spend("fixes")
  /\ proposals' = proposals \cup {[id |-> o, supported |-> o \in Fixable]}
  /\ UNCHANGED <<target, fix, approvals, forced, deploys, clean>>

Apply(p) ==
  /\ fix.at = "idle" /\ Spend("fixes")
  /\ IF p.supported THEN FixTo("gate", p.id) ELSE UNCHANGED fix
  /\ UNCHANGED <<target, proposals, approvals, forced, deploys, clean>>

\* Denied: the command ends.  Every run of apply asks again.
FixGate ==
  /\ fix.at = "gate"
  /\ \/ FixTo("exec", fix.id) /\ approvals' = approvals + 1
     \/ FixEnds /\ UNCHANGED approvals
     \/ FixTo("error", fix.id) /\ UNCHANGED approvals
  /\ UNCHANGED <<target, proposals, forced, left, deploys, clean>>

\* docker service update --force: the same version once more.
FixExec ==
  /\ fix.at = "exec"
  /\ \/ /\ kind = "swarm" /\ svc.spec # None
        /\ svc' = Updated(svc.spec) /\ forced' = forced + 1 /\ FixTo("audit", fix.id)
     \/ UNCHANGED <<svc, forced>> /\ (FixTo("audit", fix.id) \/ FixTo("error", fix.id))
  /\ clean' = [d \in Callers |-> clean[d] /\ svc' = svc]
  /\ UNCHANGED <<kind, recorded, proposals, approvals, left, deploys>>

\* Bug: the failed command is run again without asking.
FixAuditAgain ==
  /\ fix.at = "audit"
  /\ \/ FixEnds /\ UNCHANGED left
     \/ Spend("faults") /\ FixTo("exec", fix.id)
  /\ UNCHANGED <<target, proposals, approvals, forced, deploys, clean>>

\* The entry of the command, or else that of its error; then it ends.
FixAudit ==
  /\ fix.at = "audit"
  /\ \/ FixEnds /\ UNCHANGED left
     \/ Spend("faults") /\ FixTo("error", fix.id)
  /\ UNCHANGED <<target, proposals, approvals, forced, deploys, clean>>

FixError ==
  /\ fix.at = "error" /\ FixEnds
  /\ UNCHANGED <<target, proposals, approvals, forced, left, deploys, clean>>

-----------------------------------------------------------------------------
CallStep(c) ==
  \/ Pull(c) \/ UnraidCapture(c) \/ SwarmBuilt(c) \/ Create(c) \/ Lookup(c)
  \/ Check(c) \/ UnraidInspect(c) \/ Stop(c) \/ Add(c) \/ Start(c) \/ PollNew(c) \/ Persist(c)
  \/ SwarmInspect(c) \/ Stack(c)
  \/ RStop(c) \/ RRemove(c) \/ RAdd(c) \/ RStart(c) \/ RPoll(c)
  \/ DockerRollback(c) \/ AwaitRollback(c)

Next ==
  \/ \E c \in Callers : Build(c) \/ Deploy(c) \/ Rollback(c) \/ CallStep(c)
  \/ \E o \in Observations : Propose(o)
  \/ \E p \in proposals : Apply(p)
  \/ FixGate \/ FixExec \/ FixAudit \/ FixError

\* Every answer of a host arrives or times out.
Spec == Init /\ [][Next]_vars /\ \A c \in Callers : WF_vars(CallStep(c))

-----------------------------------------------------------------------------
(* Properties *)

\* What a call reported is what is there, as long as nobody else changed the
\* target and no answer was lost.  "deployed" is the new version, and on unraid
\* and proxmox, whose deploy waits for it, running; docker stack deploy says
\* nothing of that.  "restored" is the version that ran when the rollback point
\* was captured, with one exception: when the failed stack deploy had left the
\* service as it was, docker goes one update further back than that, and the
\* error says rollback_success all the same.  "failed" is the target as the
\* deploy found it.  (attemptRollback of unraid and swarm, the catch of deploy.)
WentBackTo(c) == IF kind = "swarm" /\ ~base[c].updated THEN base[c].found.prev ELSE base[c].back
ReportIsTrue == \A c \in Callers : clean[c] /\ job[c].at = "idle" =>
  CASE report[c] = "deployed" -> svc.spec = c /\ (svc.up \/ kind = "swarm")
    [] report[c] = "restored" -> svc.spec = WentBackTo(c) /\ (svc.up \/ kind = "swarm")
    [] report[c] = "failed" -> kind # "proxmox" /\ base[c].back # None => svc = base[c].found
    [] OTHER -> TRUE

\* A pull that is never accepted, a container that never runs, a rollback that
\* never completes: every call comes back.
CallsReturn == \A c \in Callers : job[c].at # "idle" ~> job[c].at = "idle"

\* autofix forces an update at most once for every approval of the gate, and
\* never for an observation without a remediation.
ForcedAsApproved ==
  /\ forced + (IF fix.at = "exec" THEN 1 ELSE 0) <= approvals
  /\ fix.at \in {"gate", "exec"} => fix.id \in Fixable
=============================================================================
