--------------------------- MODULE DelayContract ---------------------------
(***************************************************************************)
(* What safety/delay.ts promises to its callers (the approval gate and the *)
(* migration orchestrator), with files, timers and the cancel command      *)
(* abstracted away: a caller that asks for a delay gets a promise that     *)
(* resolves no earlier than Delay after the first time it asked, and never *)
(* after the operator revoked the action in good time.  DelayedAction      *)
(* implements it; ApprovalGate is built on it.                             *)
(***************************************************************************)
EXTENDS Naturals

CONSTANTS Ids,      \* action ids and migration ids
          Delay,    \* delayMs, in ticks
          MaxTime   \* bound on the clock

VARIABLES now,      \* Date.now()
          asked,    \* when the delay of an id was first asked for, or Never
          promise,  \* the promise scheduleDelayedAction returned
          revoked   \* the operator's cancel took effect before the due time

contractVars == <<now, asked, promise, revoked>>

Never == MaxTime + 1

ContractTypeOK ==
    /\ now \in 0..MaxTime
    /\ asked \in [Ids -> 0..MaxTime + 1]
    /\ promise \in [Ids -> {"none", "waiting", "resolved", "rejected"}]
    /\ revoked \in [Ids -> BOOLEAN]

ContractInit ==
    /\ now = 0
    /\ asked = [i \in Ids |-> Never]
    /\ promise = [i \in Ids |-> "none"]
    /\ revoked = [i \in Ids |-> FALSE]

Due(i) == now >= asked[i] + Delay

\* Asking again (a migration resumed after a restart) overrides an old cancel
\* and keeps the time of the first request.
Ask(i) ==
    /\ promise[i] = "none"
    /\ asked' = [asked EXCEPT ![i] = IF @ = Never THEN now ELSE @]
    /\ revoked' = [revoked EXCEPT ![i] = FALSE]
    /\ UNCHANGED <<now, promise>>

Wait(i) ==
    /\ promise[i] = "none"
    /\ asked[i] # Never
    /\ promise' = [promise EXCEPT ![i] = "waiting"]
    /\ UNCHANGED <<now, asked, revoked>>

Resolve(i) ==
    /\ promise[i] = "waiting"
    /\ Due(i)
    /\ ~revoked[i]
    /\ promise' = [promise EXCEPT ![i] = "resolved"]
    /\ UNCHANGED <<now, asked, revoked>>

\* A cancel may take effect on the record only, on the promise only, or both.
Revoke(i) ==
    /\ asked[i] # Never
    /\ \/ revoked' = revoked
       \/ /\ ~Due(i)
          /\ promise[i] # "resolved"
          /\ revoked' = [revoked EXCEPT ![i] = TRUE]
    /\ \/ promise' = promise
       \/ /\ promise[i] = "waiting"
          /\ promise' = [promise EXCEPT ![i] = "rejected"]
    /\ UNCHANGED <<now, asked>>

\* The process ends: its promises are gone with it.
Lose ==
    /\ promise' = [i \in Ids |-> "none"]
    /\ UNCHANGED <<now, asked, revoked>>

Elapse ==
    /\ now < MaxTime
    /\ now' = now + 1
    /\ UNCHANGED <<asked, promise, revoked>>

ContractNext ==
    \/ \E i \in Ids : Ask(i) \/ Wait(i) \/ Resolve(i) \/ Revoke(i)
    \/ Lose
    \/ Elapse

ContractSpec == ContractInit /\ [][ContractNext]_contractVars
=============================================================================
