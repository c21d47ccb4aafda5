--------------------------- MODULE DelayedAction ---------------------------
(***************************************************************************)
(* safety/delay.ts: delayed actions kept in one HMAC-signed file per id.   *)
(*                                                                         *)
(* The code runs in one Node process (the daemon) that interleaves async   *)
(* functions at every await; the cancel-action command runs the same code  *)
(* in a process of its own, with empty timer and promise maps.  A writer   *)
(* is one activation of an async function that ends in persist().          *)
(* persist() is a plain fs.writeFile: it truncates the file, writes it,    *)
(* and only then lets its caller go on, so a writer takes three steps      *)
(* after its decision and two writers can interleave inside the file.      *)
(***************************************************************************)
EXTENDS Naturals, FiniteSets

CONSTANTS Ids,         \* action ids
          Delay,       \* delayMs, in ticks
          MaxTime,     \* bound: the clock stops here
          MaxCrashes,  \* bound: daemon crashes
          MaxCancels,  \* bound: cancels that found a pending record
          CancelsBy    \* where cancelDelayedAction runs: "cancel" is the
                       \* daemon, "cliCancel" the cancel-action command

ASSUME DelayedActionAssumption ==
    /\ Delay \in Nat \ {0}
    /\ MaxTime \in Nat
    /\ MaxCrashes \in Nat
    /\ MaxCancels \in Nat
    /\ CancelsBy \subseteq {"cancel", "cliCancel"}

VARIABLES now,      \* Date.now()
          disk,     \* pending-actions/<id>.json
          daemon,   \* "down", "up" or "refused" (fail-closed start-up)
          op,       \* the activation of each writer on each id
          timers,   \* timeouts armed in the event loop
          live,     \* liveTimers: the handle kept for an id
          promise,  \* pendingResolvers/pendingRejecters and what they settled
          asked,    \* history: first request for an id, or Never
          revoked,  \* history: a cancel completed before the due time
          crashes, cancels

daemonVars == <<daemon, timers, live, promise>>
historyVars == <<asked, revoked>>
bounds     == <<crashes, cancels>>
vars == <<now, disk, daemon, op, timers, live, promise, asked, revoked,
          crashes, cancels>>

Never == MaxTime + 1

\* A timer is known by who armed it: scheduleDelayedAction or the start-up.
Handles == {"load", "sched"}
FireOf == [load |-> "fireLoad", sched |-> "fireSched"]
Firers  == {"fireLoad", "fireSched"}
Writers == {"schedule", "cancel", "cliCancel"} \cup Firers
InDaemon(w) == w # "cliCancel"

(***************************************************************************)
(* The file.  "empty" is a truncated file, "torn" one whose text does not  *)
(* parse; readRecord and loadPendingActions throw on both.                 *)
(***************************************************************************)
Statuses == {"pending", "cancelled", "fired"}
Contents == [st : Statuses \cup {"absent", "empty", "torn"},
             fireAt : 0..MaxTime + Delay]
Blank(s) == [st |-> s, fireAt |-> 0]
Unreadable(c) == c.st \in {"empty", "torn"}

\* Two records of one id differ in length by the length of their status.
Size == [absent |-> 0, empty |-> 0, fired |-> 5, pending |-> 7,
         cancelled |-> 9, torn |-> 9]

\* Text written from offset 0 leaves the tail of a longer text behind.
WriteOver(old, new) == IF Size[old.st] > Size[new.st] THEN Blank("torn") ELSE new

StatusBy == [schedule |-> "pending", cancel |-> "cancelled",
             cliCancel |-> "cancelled", fireLoad |-> "fired", fireSched |-> "fired"]

Idle == [pc |-> "idle", fireAt |-> 0]
Activation == [pc : {"idle", "decided", "truncated", "written"},
               fireAt : 0..MaxTime + Delay]
Busy(i) == \E w \in Writers : op[i][w].pc # "idle"

TypeOK ==
    /\ now \in 0..MaxTime
    /\ disk \in [Ids -> Contents]
    /\ daemon \in {"down", "up", "refused"}
    /\ op \in [Ids -> [Writers -> Activation]]
    /\ timers \in [Ids -> SUBSET [handle : Handles, at : 0..MaxTime + Delay]]
    /\ live \in [Ids -> Handles \cup {"none"}]
    /\ promise \in [Ids -> {"none", "waiting", "resolved", "rejected"}]
    /\ asked \in [Ids -> 0..MaxTime + 1]
    /\ revoked \in [Ids -> BOOLEAN]
    /\ crashes \in 0..MaxCrashes
    /\ cancels \in 0..MaxCancels

Init ==
    /\ now = 0
    /\ disk = [i \in Ids |-> Blank("absent")]
    /\ daemon = "up"
    /\ op = [i \in Ids |-> [w \in Writers |-> Idle]]
    /\ timers = [i \in Ids |-> {}]
    /\ live = [i \in Ids |-> "none"]
    /\ promise = [i \in Ids |-> "none"]
    /\ asked = [i \in Ids |-> Never]
    /\ revoked = [i \in Ids |-> FALSE]
    /\ crashes = 0
    /\ cancels = 0

-----------------------------------------------------------------------------
(***************************************************************************)
(* persist(): truncate, then write the text.                               *)
(***************************************************************************)
At(i, w, pc) == op[i][w].pc = pc
Enter(i, w, a) == op' = [op EXCEPT ![i][w] = a]
Goto(i, w, pc) == Enter(i, w, [pc |-> pc, fireAt |-> op[i][w].fireAt])
Finish(i, w) == Enter(i, w, Idle)

Truncate(i, w) ==
    /\ At(i, w, "decided")
    /\ disk' = [disk EXCEPT ![i] = Blank("empty")]
    /\ Goto(i, w, "truncated")
    /\ UNCHANGED <<now, daemonVars, historyVars, bounds>>

Write(i, w) ==
    /\ At(i, w, "truncated")
    /\ disk' = [disk EXCEPT ![i] =
                  WriteOver(@, [st |-> StatusBy[w], fireAt |-> op[i][w].fireAt])]
    /\ Goto(i, w, "written")
    /\ UNCHANGED <<now, daemonVars, historyVars, bounds>>

-----------------------------------------------------------------------------
(***************************************************************************)
(* scheduleDelayedAction.  A caller has one request per id in flight; it   *)
(* asks again for the same id only in a later life of the daemon.          *)
(***************************************************************************)
Schedule(i) ==
    /\ daemon = "up"
    /\ promise[i] = "none"
    /\ At(i, "schedule", "idle")
    /\ Enter(i, "schedule", [pc |-> "decided", fireAt |-> now + Delay])
    /\ asked' = [asked EXCEPT ![i] = IF @ = Never THEN now ELSE @]
    /\ revoked' = [revoked EXCEPT ![i] = FALSE]
    /\ UNCHANGED <<now, disk, daemonVars, bounds>>

\* The timer is armed for the delay itself, counted from this moment.
FireTimeNoDelay == now                          \* a bug: the delay is dropped
FireTime == now + Delay

ScheduleDone(i) ==
    /\ At(i, "schedule", "written")
    /\ promise' = [promise EXCEPT ![i] = "waiting"]
    /\ timers' = [timers EXCEPT ![i] = @ \cup {[handle |-> "sched", at |-> FireTime]}]
    /\ live' = [live EXCEPT ![i] = "sched"]
    /\ Finish(i, "schedule")
    /\ UNCHANGED <<now, disk, daemon, historyVars, bounds>>

(***************************************************************************)
(* cancelDelayedAction.  On a record that is absent, not pending or        *)
(* unreadable it returns or throws and changes nothing.                    *)
(***************************************************************************)
CancelRead(i, w) ==
    /\ w \in CancelsBy
    /\ InDaemon(w) => daemon = "up"
    /\ cancels < MaxCancels
    /\ At(i, w, "idle")
    /\ disk[i].st = "pending"
    /\ Enter(i, w, [pc |-> "decided", fireAt |-> disk[i].fireAt])
    /\ cancels' = cancels + 1
    /\ UNCHANGED <<now, disk, daemonVars, historyVars, crashes>>

\* History: the cancel returned in good time, with its record on the disk and
\* no new request for the id under way.
InGoodTime(i) ==
    /\ now < asked[i] + Delay
    /\ disk[i].st = "cancelled"
    /\ At(i, "schedule", "idle")

NoteRevoked(i) ==
    /\ revoked' = IF InGoodTime(i) THEN [revoked EXCEPT ![i] = TRUE] ELSE revoked
    /\ UNCHANGED asked

CancelDone(i) ==
    /\ At(i, "cancel", "written")
    /\ timers' = [timers EXCEPT ![i] = {t \in @ : t.handle # live[i]}]
    /\ live' = [live EXCEPT ![i] = "none"]
    /\ promise' = [promise EXCEPT ![i] = IF @ = "waiting" THEN "rejected" ELSE @]
    /\ NoteRevoked(i)
    /\ Finish(i, "cancel")
    /\ UNCHANGED <<now, disk, daemon, bounds>>

\* In the command's process liveTimers and pendingRejecters are empty.
CliCancelDone(i) ==
    /\ At(i, "cliCancel", "written")
    /\ NoteRevoked(i)
    /\ Finish(i, "cliCancel")
    /\ UNCHANGED <<now, disk, daemonVars, bounds>>

-----------------------------------------------------------------------------
(***************************************************************************)
(* The end of the daemon: timers, promises and activations are lost.       *)
(***************************************************************************)
Die ==
    /\ daemon' = "down"
    /\ op' = [i \in Ids |-> [w \in Writers |-> IF InDaemon(w) THEN Idle ELSE op[i][w]]]
    /\ timers' = [i \in Ids |-> {}]
    /\ live' = [i \in Ids |-> "none"]
    /\ promise' = [i \in Ids |-> "none"]
    /\ UNCHANGED <<now, disk, historyVars, cancels>>

(***************************************************************************)
(* fireAction, run by an expired timer.  Nobody awaits it: an exception in *)
(* readRecord is an unhandled rejection, which ends the process.           *)
(***************************************************************************)
MayFireUnlessFired(c) == c.st # "fired"         \* a bug: a cancel is ignored
MayFireStrictly(c) == c.st = "pending" /\ c.fireAt < now   \* a bug: off by one
MayFire(c) == c.st = "pending"

Expire(i, h) ==
    /\ \E t \in timers[i] : t.handle = h /\ t.at <= now
    /\ timers' = [timers EXCEPT ![i] = {t \in @ : t.handle # h}]

FireRead(i, h) ==
    /\ Expire(i, h)
    /\ At(i, FireOf[h], "idle")
    /\ ~Unreadable(disk[i])
    /\ IF MayFire(disk[i])
       THEN Enter(i, FireOf[h], [pc |-> "decided", fireAt |-> disk[i].fireAt])
       ELSE op' = op
    /\ UNCHANGED <<now, disk, daemon, live, promise, historyVars, bounds>>

FireThrows(i) ==
    /\ \E t \in timers[i] : t.at <= now
    /\ Unreadable(disk[i])
    /\ Die
    /\ UNCHANGED crashes

FireDone(i, h) ==
    /\ At(i, FireOf[h], "written")
    /\ live' = [live EXCEPT ![i] = "none"]
    /\ promise' = [promise EXCEPT ![i] = IF @ = "waiting" THEN "resolved" ELSE @]
    /\ Finish(i, FireOf[h])
    /\ UNCHANGED <<now, disk, daemon, timers, historyVars, bounds>>

Crash ==
    /\ daemon = "up"
    /\ crashes < MaxCrashes
    /\ crashes' = crashes + 1
    /\ Die

(***************************************************************************)
(* loadPendingActions at start-up.  A past-due record gets no timer.       *)
(***************************************************************************)
StillToRun(c) == c.st = "pending" /\ c.fireAt > now

RearmAt(c) == c.fireAt

Refuse ==
    /\ daemon = "down"
    /\ \E i \in Ids : Unreadable(disk[i])
    /\ daemon' = "refused"
    /\ UNCHANGED <<now, disk, op, timers, live, promise, historyVars, bounds>>

LoadPendingActions ==
    /\ daemon \in {"down", "refused"}
    /\ \A i \in Ids : ~Unreadable(disk[i])
    /\ daemon' = "up"
    /\ timers' = [i \in Ids |-> IF StillToRun(disk[i])
                                THEN {[handle |-> "load", at |-> RearmAt(disk[i])]}
                                ELSE {}]
    /\ live' = [i \in Ids |-> IF StillToRun(disk[i]) THEN "load" ELSE "none"]
    /\ UNCHANGED <<now, disk, op, promise, historyVars, bounds>>

Tick ==
    /\ now < MaxTime
    /\ now' = now + 1
    /\ UNCHANGED <<disk, daemonVars, op, historyVars, bounds>>

-----------------------------------------------------------------------------
Step(i) ==
    \/ ScheduleDone(i)
    \/ CancelDone(i)
    \/ CliCancelDone(i)
    \/ FireThrows(i)
    \/ \E w \in Writers : Truncate(i, w) \/ Write(i, w)
    \/ \E h \in Handles : FireRead(i, h) \/ FireDone(i, h)

Request(i) ==
    \/ Schedule(i)
    \/ \E w \in CancelsBy : CancelRead(i, w)

Next ==
    \/ \E i \in Ids : Step(i) \/ Request(i)
    \/ Crash
    \/ Refuse
    \/ LoadPendingActions
    \/ Tick

Spec == Init /\ [][Next]_vars

\* Node runs every callback that is ready, the clock advances, and the
\* supervisor restarts the daemon; requests and crashes are never forced.
FairSpec ==
    /\ Spec
    /\ \A i \in Ids : WF_vars(Step(i))
    /\ WF_vars(LoadPendingActions)
    /\ WF_vars(Tick)

-----------------------------------------------------------------------------
Resolves(i) == promise[i] # "resolved" /\ promise'[i] = "resolved"

(***************************************************************************)
(* However often the daemon restarts and re-arms or re-schedules, no       *)
(* caller of scheduleDelayedAction is released before the full delay has   *)
(* passed since the action was first scheduled.                            *)
(***************************************************************************)
NoEarlyRelease == [][\A i \in Ids : Resolves(i) => now >= asked[i] + Delay]_vars

(***************************************************************************)
(* A cancel that completed before the due time, from the daemon or from    *)
(* the command line, stands: the caller is not released afterwards.        *)
(***************************************************************************)
RevokedStands == \A i \in Ids : revoked[i] => promise[i] # "resolved"

(***************************************************************************)
(* While the daemon runs, a pending record whose time has not come is not  *)
(* orphaned: a timer or an activation will look at it again, or its caller *)
(* has been told that it was cancelled (loadPendingActions re-arms what a  *)
(* crash left behind).                                                     *)
(***************************************************************************)
PendingIsDriven ==
    \A i \in Ids : (daemon = "up" /\ disk[i].st = "pending" /\ disk[i].fireAt > now)
                     => timers[i] # {} \/ Busy(i) \/ promise[i] = "rejected"

\* Timers that fall after the end of the bounded clock claim nothing.
WaitsInTime(i) == promise[i] = "waiting" /\ \A t \in timers[i] : t.at <= MaxTime

(***************************************************************************)
(* A caller of scheduleDelayedAction hears back, its promise settles,      *)
(* unless its daemon has been restarted or its record says cancelled: a    *)
(* timer re-armed by a restart has no promise, and cancel-action, in a     *)
(* process of its own, cannot reject one.  Until then no pending record is *)
(* orphaned (PendingIsDriven).                                             *)
(***************************************************************************)
CallersHearUndisturbed ==
    /\ []PendingIsDriven
    /\ \A i \in Ids : WaitsInTime(i) ~> \/ promise[i] # "waiting"
                                       \/ crashes > 0
                                       \/ disk[i].st = "cancelled"

(***************************************************************************)
(* What delay.ts lines 10-11 promise and line 84 does not keep: a cancel   *)
(* that flips the status rejects the promise, so a caller whose record     *)
(* says cancelled is never released.  As an invariant it is violated, by a *)
(* cancel that reads before and writes after the timer's activation.       *)
(***************************************************************************)
CancelledIsNotReleased ==
    \A i \in Ids : (disk[i].st = "cancelled" /\ ~Busy(i)) => promise[i] # "resolved"

(***************************************************************************)
(* The inductive strengthening of the above: every timer, record and       *)
(* activation carries a time no earlier than the due time of the first     *)
(* request, a firing activation exists only from then on, and a revoked    *)
(* action has neither a request nor a firing under way.                    *)
(***************************************************************************)
TimelyAt(i) ==
    /\ asked[i] = Never \/ asked[i] <= now
    /\ \A t \in timers[i] : t.at >= asked[i] + Delay
    /\ disk[i].st \in Statuses => disk[i].fireAt >= asked[i] + Delay
    /\ \A w \in Writers : ~At(i, w, "idle") => op[i][w].fireAt >= asked[i] + Delay
    /\ \A w \in Firers : ~At(i, w, "idle") => now >= asked[i] + Delay
    /\ promise[i] = "resolved" => now >= asked[i] + Delay
    /\ ~At(i, "schedule", "idle") => promise[i] = "none"

RevokedQuietAt(i) ==
    revoked[i] => /\ disk[i].st \in {"cancelled", "empty"}
                  /\ At(i, "schedule", "idle")
                  /\ \A w \in Firers : At(i, w, "idle")
                  /\ promise[i] # "resolved"

Timely == \A i \in Ids : TimelyAt(i)
RevokedQuiet == \A i \in Ids : RevokedQuietAt(i)

Contract == INSTANCE DelayContract
\* DelayedAction implements DelayContract: the callers of scheduleDelayedAction
\* may rely on the contract alone.
ImplementsContract == Contract!ContractSpec
=============================================================================
