------------------------ MODULE DelayedAction_proofs ------------------------
(***************************************************************************)
(* Theorems about DelayedAction, for every set of ids, every delay and     *)
(* every number of crashes and cancels.                                    *)
(***************************************************************************)
EXTENDS DelayedAction, TLAPS

\* The text a writer leaves in the file is a well-formed record or is torn.
LEMMA WriteOverType ==
    ASSUME NEW old \in Contents, NEW new \in Contents
    PROVE  WriteOver(old, new) \in Contents
BY DelayedActionAssumption DEF WriteOver, Contents, Blank, Statuses

LEMMA StatusByType == \A w \in Writers : StatusBy[w] \in Statuses
BY DEF Writers, Firers, StatusBy, Statuses

LEMMA EnterType ==
    ASSUME TypeOK, NEW i \in Ids, NEW w \in Writers, NEW a \in Activation,
           Enter(i, w, a)
    PROVE  op' \in [Ids -> [Writers -> Activation]]
BY DEF TypeOK, Enter

\* Every activation the model writes is well formed.
LEMMA ActivationType ==
    /\ Idle \in Activation
    /\ \A pc \in {"idle", "decided", "truncated", "written"} :
         \A t \in 0..MaxTime + Delay : [pc |-> pc, fireAt |-> t] \in Activation
BY DelayedActionAssumption DEF Idle, Activation

LEMMA FireOfType == \A h \in Handles : FireOf[h] \in Firers /\ FireOf[h] \in Writers
BY DEF Handles, FireOf, Firers, Writers

\* Moving an activation to its next step keeps its record.
LEMMA GotoType ==
    ASSUME TypeOK, NEW i \in Ids, NEW w \in Writers,
           NEW pc \in {"decided", "truncated", "written"}, Goto(i, w, pc)
    PROVE  op' \in [Ids -> [Writers -> Activation]]
<1>1. op[i][w].fireAt \in 0..MaxTime + Delay
  BY DEF TypeOK, Activation
<1> QED
  BY <1>1, ActivationType, EnterType DEF Goto

LEMMA FinishType ==
    ASSUME TypeOK, NEW i \in Ids, NEW w \in Writers, Finish(i, w)
    PROVE  op' \in [Ids -> [Writers -> Activation]]
BY ActivationType, EnterType DEF Finish

LEMMA DieType ==
    ASSUME TypeOK, Die, crashes' \in 0..MaxCrashes PROVE TypeOK'
BY DelayedActionAssumption
   DEF TypeOK, Die, historyVars, Idle, Activation

(***************************************************************************)
(* Every variable keeps its type: the clock, the record files, timers and  *)
(* activations of delay.ts stay within the values the model names.         *)
(***************************************************************************)
THEOREM TypeCorrect == Spec => []TypeOK
<1> USE DelayedActionAssumption
<1>1. Init => TypeOK
  BY DEF Init, TypeOK, Contents, Blank, Idle, Activation, Never
<1>2. ASSUME TypeOK, [Next]_vars PROVE TypeOK'
  <2> USE <1>2
  <2>1. ASSUME NEW i \in Ids, NEW w \in Writers, Truncate(i, w) PROVE TypeOK'
    <3>1. op' \in [Ids -> [Writers -> Activation]]
      BY <2>1, GotoType DEF Truncate
    <3>2. Blank("empty") \in Contents
      BY DEF Contents, Blank
    <3>3. disk' \in [Ids -> Contents]
      BY <2>1, <3>2 DEF TypeOK, Truncate
    <3> QED
      BY <2>1, <3>1, <3>3 DEF TypeOK, Truncate, daemonVars, historyVars, bounds
  <2>2. ASSUME NEW i \in Ids, NEW w \in Writers, Write(i, w) PROVE TypeOK'
    <3> DEFINE new == [st |-> StatusBy[w], fireAt |-> op[i][w].fireAt]
    <3>1. new \in Contents
      BY StatusByType DEF TypeOK, Contents, Activation
    <3>2. WriteOver(disk[i], new) \in Contents
      BY <3>1, WriteOverType DEF TypeOK
    <3>3. disk' = [disk EXCEPT ![i] = WriteOver(disk[i], new)]
      BY <2>2 DEF Write, TypeOK
    <3>4. op' \in [Ids -> [Writers -> Activation]]
      BY <2>2, GotoType DEF Write
    <3> HIDE DEF new
    <3>5. disk' \in [Ids -> Contents]
      BY <3>2, <3>3 DEF TypeOK
    <3> QED
      BY <2>2, <3>4, <3>5
         DEF TypeOK, Write, daemonVars, historyVars, bounds
  <2>3. ASSUME NEW i \in Ids, Schedule(i) PROVE TypeOK'
    <3>1. op' \in [Ids -> [Writers -> Activation]]
      <4>1. now + Delay \in 0..MaxTime + Delay
        BY DEF TypeOK
      <4> QED
        BY <2>3, <4>1, ActivationType, EnterType DEF Schedule, Writers
    <3>2. asked' \in [Ids -> 0..MaxTime + 1]
      BY <2>3 DEF TypeOK, Schedule
    <3>3. revoked' \in [Ids -> BOOLEAN]
      BY <2>3 DEF TypeOK, Schedule
    <3> QED
      BY <2>3, <3>1, <3>2, <3>3 DEF TypeOK, Schedule, daemonVars, bounds
  <2>4. ASSUME NEW i \in Ids, ScheduleDone(i) PROVE TypeOK'
    <3>1. op' \in [Ids -> [Writers -> Activation]]
      BY <2>4, FinishType DEF ScheduleDone, Writers
    <3>2. [handle |-> "sched", at |-> FireTime] \in [handle : Handles, at : 0..MaxTime + Delay]
      BY DEF TypeOK, FireTime, Handles
    <3>3. timers' \in [Ids -> SUBSET [handle : Handles, at : 0..MaxTime + Delay]]
      BY <2>4, <3>2 DEF TypeOK, ScheduleDone
    <3>4. live' \in [Ids -> Handles \cup {"none"}]
      BY <2>4 DEF TypeOK, ScheduleDone, Handles
    <3> QED
      BY <2>4, <3>1, <3>3, <3>4 DEF TypeOK, ScheduleDone, historyVars, bounds
  <2>5. ASSUME NEW i \in Ids, NEW w \in CancelsBy, CancelRead(i, w) PROVE TypeOK'
    <3>1. w \in Writers /\ disk[i].fireAt \in 0..MaxTime + Delay
      BY DEF Writers, TypeOK, Contents
    <3>2. op' \in [Ids -> [Writers -> Activation]]
      BY <2>5, <3>1, ActivationType, EnterType DEF CancelRead
    <3> QED
      BY <2>5, <3>2 DEF TypeOK, CancelRead, daemonVars, historyVars
  <2>6. ASSUME NEW i \in Ids, CancelDone(i) PROVE TypeOK'
    <3>1. op' \in [Ids -> [Writers -> Activation]]
      BY <2>6, FinishType DEF CancelDone, Writers
    <3> QED
      BY <2>6, <3>1 DEF TypeOK, CancelDone, NoteRevoked, InGoodTime, At, bounds
  <2>7. ASSUME NEW i \in Ids, CliCancelDone(i) PROVE TypeOK'
    <3>1. op' \in [Ids -> [Writers -> Activation]]
      BY <2>7, FinishType DEF CliCancelDone, Writers
    <3> QED
      BY <2>7, <3>1 DEF TypeOK, CliCancelDone, NoteRevoked, InGoodTime, At,
                        daemonVars, bounds
  <2>8. ASSUME NEW i \in Ids, NEW h \in Handles, FireRead(i, h) PROVE TypeOK'
    <3>1. FireOf[h] \in Writers /\ disk[i].fireAt \in 0..MaxTime + Delay
      BY FireOfType DEF TypeOK, Contents
    <3>2. op' \in [Ids -> [Writers -> Activation]]
      <4>1. CASE op' = op
        BY <4>1 DEF TypeOK
      <4>2. CASE Enter(i, FireOf[h], [pc |-> "decided", fireAt |-> disk[i].fireAt])
        BY <4>2, <3>1, ActivationType, EnterType
      <4> QED
        BY <2>8, <4>1, <4>2 DEF FireRead
    <3> QED
      BY <2>8, <3>2 DEF TypeOK, FireRead, Expire, historyVars, bounds
  <2>9. ASSUME NEW i \in Ids, FireThrows(i) PROVE TypeOK'
    BY <2>9, DieType DEF FireThrows, TypeOK
  <2>10. ASSUME NEW i \in Ids, NEW h \in Handles, FireDone(i, h) PROVE TypeOK'
    <3>1. op' \in [Ids -> [Writers -> Activation]]
      BY <2>10, FinishType, FireOfType DEF FireDone
    <3> QED
      BY <2>10, <3>1 DEF TypeOK, FireDone, historyVars, bounds
  <2>11. CASE Crash
    BY <2>11, DieType DEF Crash, TypeOK
  <2>12. CASE Refuse
    BY <2>12 DEF TypeOK, Refuse, historyVars, bounds
  <2>13. CASE LoadPendingActions
    BY <2>13 DEF TypeOK, LoadPendingActions, RearmAt, historyVars, bounds,
                 Contents, Handles
  <2>14. CASE Tick
    BY <2>14 DEF TypeOK, Tick, daemonVars, historyVars, bounds
  <2>15. CASE UNCHANGED vars
    BY <2>15 DEF TypeOK, vars
  <2> QED
    BY <2>1, <2>2, <2>3, <2>4, <2>5, <2>6, <2>7, <2>8, <2>9, <2>10, <2>11,
       <2>12, <2>13, <2>14, <2>15 DEF Next, Step, Request
<1> QED
  BY <1>1, <1>2, PTL DEF Spec

-----------------------------------------------------------------------------
\* An entered activation replaces one entry of op and leaves the others.
LEMMA EnterReads ==
    ASSUME TypeOK, NEW i \in Ids, NEW w \in Writers, NEW a, Enter(i, w, a)
    PROVE  \A j \in Ids, v \in Writers :
             op'[j][v] = IF j = i /\ v = w THEN a ELSE op[j][v]
BY DEF TypeOK, Enter

\* The times the invariants compare are numbers.
LEMMA TimesAreNumbers ==
    ASSUME TypeOK
    PROVE  /\ now \in Nat /\ Delay \in Nat /\ MaxTime \in Nat /\ now <= MaxTime
           /\ \A i \in Ids : asked[i] \in Nat /\ asked[i] <= MaxTime + 1
           /\ \A i \in Ids : disk[i].fireAt \in Nat
           /\ \A i \in Ids, w \in Writers : /\ op[i][w].fireAt \in Nat
                                            /\ op[i][w].fireAt <= MaxTime + Delay
           /\ \A i \in Ids : \A t \in timers[i] : t.at \in Nat
BY DelayedActionAssumption DEF TypeOK, Contents, Activation

LEMMA TimelyPersist ==
    ASSUME TypeOK, Timely, NEW i \in Ids, NEW w \in Writers,
           Truncate(i, w) \/ Write(i, w)
    PROVE  Timely'
<1> SUFFICES ASSUME NEW j \in Ids PROVE TimelyAt(j)'
  BY DEF Timely
<1>1. TimelyAt(j) /\ TimelyAt(i)
  BY DEF Timely
<1>2. \A v \in Writers : /\ op'[j][v].fireAt = op[j][v].fireAt
                         /\ (op'[j][v].pc = "idle") = (op[j][v].pc = "idle")
  <2>1. CASE Truncate(i, w)
    BY <2>1, EnterReads DEF Truncate, Goto, At
  <2>2. CASE Write(i, w)
    BY <2>2, EnterReads DEF Write, Goto, At
  <2> QED
    BY <2>1, <2>2
<1>3. disk'[j].st \in Statuses => disk'[j].fireAt >= asked[j] + Delay
  <2>1. CASE Truncate(i, w)
    BY <1>1, <2>1 DEF Truncate, TypeOK, Blank, Statuses, TimelyAt
  <2>2. CASE Write(i, w)
    BY <1>1, <2>2 DEF Write, TypeOK, WriteOver, Blank, Statuses, TimelyAt, At
  <2> QED
    BY <2>1, <2>2
<1>4. now' = now /\ timers' = timers /\ promise' = promise /\ asked' = asked
  BY DEF Truncate, Write, daemonVars, historyVars
<1>5. "schedule" \in Writers /\ Firers \subseteq Writers
  BY DEF Writers
<1> QED
  BY <1>1, <1>2, <1>3, <1>4, <1>5 DEF TimelyAt, At, Never

LEMMA TimelySchedule ==
    ASSUME TypeOK, Timely, NEW i \in Ids, Schedule(i) PROVE Timely'
<1> SUFFICES ASSUME NEW j \in Ids PROVE TimelyAt(j)'
  BY DEF Timely
<1>1. TimelyAt(j) /\ TimelyAt(i)
  BY DEF Timely
<1>2. "schedule" \in Writers /\ Firers \subseteq Writers /\ "schedule" \notin Firers
  BY DEF Writers, Firers
<1>3. \A v \in Writers : op'[j][v] = IF j = i /\ v = "schedule"
                                    THEN [pc |-> "decided", fireAt |-> now + Delay]
                                    ELSE op[j][v]
  BY <1>2, EnterReads DEF Schedule
<1>4. asked'[j] = IF j = i /\ asked[j] = Never THEN now ELSE asked[j]
  BY DEF Schedule, TypeOK
<1>5. now' = now /\ timers' = timers /\ promise' = promise /\ disk' = disk
  BY DEF Schedule, daemonVars
<1>6. promise[i] = "none"
  BY DEF Schedule
<1> QED
  BY <1>1, <1>2, <1>3, <1>4, <1>5, <1>6, TimesAreNumbers DEF TimelyAt, At, Never

LEMMA TimelyScheduleDone ==
    ASSUME TypeOK, Timely, NEW i \in Ids, ScheduleDone(i) PROVE Timely'
<1> SUFFICES ASSUME NEW j \in Ids PROVE TimelyAt(j)'
  BY DEF Timely
<1>1. TimelyAt(j) /\ TimelyAt(i)
  BY DEF Timely
<1>2. "schedule" \in Writers /\ Firers \subseteq Writers /\ "schedule" \notin Firers
  BY DEF Writers, Firers
<1>3. \A v \in Writers : op'[j][v] = IF j = i /\ v = "schedule" THEN Idle ELSE op[j][v]
  BY <1>2, EnterReads DEF ScheduleDone, Finish
<1>4. asked[i] <= now
  BY <1>1, <1>2, TimesAreNumbers DEF TimelyAt, ScheduleDone, At, Never
<1>5. timers'[j] \subseteq timers[j] \cup
        (IF j = i THEN {[handle |-> "sched", at |-> now + Delay]} ELSE {})
  BY DEF ScheduleDone, TypeOK, FireTime
<1>6. \A t \in timers'[j] : t.at >= asked[j] + Delay
  BY <1>1, <1>4, <1>5, TimesAreNumbers DEF TimelyAt
<1>7. now' = now /\ asked' = asked /\ disk' = disk
      /\ promise' = [promise EXCEPT ![i] = "waiting"]
  BY DEF ScheduleDone, historyVars
<1>8. promise'[j] = IF j = i THEN "waiting" ELSE promise[j]
  BY <1>7 DEF TypeOK
<1> QED
  BY <1>1, <1>2, <1>3, <1>6, <1>7, <1>8, TimesAreNumbers DEF TimelyAt, At, Idle, Never

LEMMA TimelyCancelRead ==
    ASSUME TypeOK, Timely, NEW i \in Ids, NEW w \in CancelsBy, CancelRead(i, w)
    PROVE  Timely'
<1> SUFFICES ASSUME NEW j \in Ids PROVE TimelyAt(j)'
  BY DEF Timely
<1>1. TimelyAt(j) /\ TimelyAt(i)
  BY DEF Timely
<1>2. /\ w \in Writers /\ w \notin Firers /\ w # "schedule"
      /\ "schedule" \in Writers /\ Firers \subseteq Writers
  BY DelayedActionAssumption DEF Writers, Firers
<1>3. \A v \in Writers : op'[j][v] = IF j = i /\ v = w
                                    THEN [pc |-> "decided", fireAt |-> disk[i].fireAt]
                                    ELSE op[j][v]
  BY <1>2, EnterReads DEF CancelRead
<1>4. disk[i].st \in Statuses
  BY DEF CancelRead, Statuses
<1>5. now' = now /\ timers' = timers /\ promise' = promise /\ disk' = disk /\ asked' = asked
  BY DEF CancelRead, daemonVars, historyVars
<1> QED
  BY <1>1, <1>2, <1>3, <1>4, <1>5 DEF TimelyAt, At, Never

LEMMA TimelyCancelDone ==
    ASSUME TypeOK, Timely, NEW i \in Ids, CancelDone(i) \/ CliCancelDone(i)
    PROVE  Timely'
<1> SUFFICES ASSUME NEW j \in Ids PROVE TimelyAt(j)'
  BY DEF Timely
<1>1. TimelyAt(j) /\ TimelyAt(i)
  BY DEF Timely
<1>2. /\ {"cancel", "cliCancel", "schedule"} \subseteq Writers /\ Firers \subseteq Writers
      /\ "cancel" \notin Firers /\ "cliCancel" \notin Firers
  BY DEF Writers, Firers
<1>3. \A v \in Writers : op'[j][v] \in {op[j][v], Idle}
  BY <1>2, EnterReads DEF CancelDone, CliCancelDone, Finish
<1>4. now' = now /\ asked' = asked /\ disk' = disk
  BY DEF CancelDone, CliCancelDone, NoteRevoked
<1>5. \/ /\ timers' = [timers EXCEPT ![i] = {t \in timers[i] : t.handle # live[i]}]
         /\ promise' = [promise EXCEPT ![i] = IF promise[i] = "waiting" THEN "rejected" ELSE promise[i]]
      \/ timers' = timers /\ promise' = promise
  BY DEF CancelDone, CliCancelDone, daemonVars
<1>6. timers'[j] \subseteq timers[j]
  <2>1. j \in DOMAIN timers
    BY DEF TypeOK
  <2> QED
    BY <1>5, <2>1
<1>7. promise'[j] = promise[j] \/ (promise[j] = "waiting" /\ promise'[j] = "rejected")
  <2>1. j \in DOMAIN promise
    BY DEF TypeOK
  <2> QED
    BY <1>5, <2>1
<1> QED
  BY <1>1, <1>2, <1>3, <1>4, <1>6, <1>7 DEF TimelyAt, At, Idle, Never

LEMMA TimelyFireRead ==
    ASSUME TypeOK, Timely, NEW i \in Ids, NEW h \in Handles, FireRead(i, h)
    PROVE  Timely'
<1> SUFFICES ASSUME NEW j \in Ids PROVE TimelyAt(j)'
  BY DEF Timely
<1>1. TimelyAt(j) /\ TimelyAt(i)
  BY DEF Timely
<1>2. /\ FireOf[h] \in Writers /\ FireOf[h] # "schedule"
      /\ "schedule" \in Writers /\ Firers \subseteq Writers
  BY FireOfType DEF Writers, Firers
<1>3. \A v \in Writers : \/ op'[j][v] = op[j][v]
                        \/ /\ j = i /\ v = FireOf[h] /\ disk[i].st = "pending"
                           /\ op'[j][v] = [pc |-> "decided", fireAt |-> disk[i].fireAt]
  BY <1>2, EnterReads DEF FireRead, MayFire
<1>4. now >= asked[i] + Delay
  BY <1>1, TimesAreNumbers DEF FireRead, Expire, TimelyAt
<1>5. now' = now /\ asked' = asked /\ disk' = disk /\ promise' = promise
  BY DEF FireRead, historyVars
<1>6. timers'[j] \subseteq timers[j]
  BY DEF FireRead, Expire, TypeOK
<1>7. \A v \in Writers : ~(op'[j][v].pc = "idle") => op'[j][v].fireAt >= asked[j] + Delay
  BY <1>1, <1>3 DEF TimelyAt, At, Statuses
<1>8. \A v \in Firers : ~(op'[j][v].pc = "idle") => now >= asked[j] + Delay
  BY <1>1, <1>2, <1>3, <1>4 DEF TimelyAt, At
<1>9. op'[j]["schedule"] = op[j]["schedule"]
  BY <1>2, <1>3
<1> QED
  BY <1>1, <1>5, <1>6, <1>7, <1>8, <1>9 DEF TimelyAt, At, Never

LEMMA TimelyFireDone ==
    ASSUME TypeOK, Timely, NEW i \in Ids, NEW h \in Handles, FireDone(i, h)
    PROVE  Timely' /\ now >= asked[i] + Delay
<1> SUFFICES ASSUME NEW j \in Ids PROVE TimelyAt(j)' /\ now >= asked[i] + Delay
  BY DEF Timely
<1>1. TimelyAt(j) /\ TimelyAt(i)
  BY DEF Timely
<1>2. /\ FireOf[h] \in Firers /\ FireOf[h] # "schedule"
      /\ "schedule" \in Writers /\ Firers \subseteq Writers
  BY FireOfType DEF Writers, Firers
<1>3. \A v \in Writers : op'[j][v] \in {op[j][v], Idle}
  BY <1>2, EnterReads DEF FireDone, Finish
<1>4. op'[j]["schedule"] = op[j]["schedule"]
  BY <1>2, EnterReads DEF FireDone, Finish
<1>5. now >= asked[i] + Delay
  BY <1>1, <1>2 DEF FireDone, At, TimelyAt
<1>6. now' = now /\ asked' = asked /\ disk' = disk /\ timers' = timers
  BY DEF FireDone, historyVars
<1>7. promise'[j] = IF j = i /\ promise[j] = "waiting" THEN "resolved" ELSE promise[j]
  BY DEF FireDone, TypeOK
<1> QED
  BY <1>1, <1>2, <1>3, <1>4, <1>5, <1>6, <1>7 DEF TimelyAt, At, Idle, Never

LEMMA TimelyDie ==
    ASSUME TypeOK, Timely, Die PROVE Timely'
<1> SUFFICES ASSUME NEW j \in Ids PROVE TimelyAt(j)'
  BY DEF Timely
<1>1. TimelyAt(j)
  BY DEF Timely
<1>2. "schedule" \in Writers /\ Firers \subseteq Writers
  BY DEF Writers
<1>3. \A v \in Writers : op'[j][v] \in {op[j][v], Idle}
  BY DEF Die
<1>4. now' = now /\ asked' = asked /\ disk' = disk /\ timers'[j] = {}
      /\ promise'[j] = "none"
  BY DEF Die, historyVars
<1> QED
  BY <1>1, <1>2, <1>3, <1>4 DEF TimelyAt, At, Idle, Never

LEMMA TimelyLoad ==
    ASSUME TypeOK, Timely, LoadPendingActions PROVE Timely'
<1> SUFFICES ASSUME NEW j \in Ids PROVE TimelyAt(j)'
  BY DEF Timely
<1>1. TimelyAt(j)
  BY DEF Timely
<1>2. \A t \in timers'[j] : t.at = disk[j].fireAt /\ disk[j].st = "pending"
  BY DEF LoadPendingActions, RearmAt, StillToRun
<1>3. now' = now /\ asked' = asked /\ disk' = disk /\ op' = op /\ promise' = promise
  BY DEF LoadPendingActions, historyVars
<1> QED
  BY <1>1, <1>2, <1>3 DEF TimelyAt, At, Never, Statuses

LEMMA TimelyTick ==
    ASSUME TypeOK, Timely, Tick PROVE Timely'
<1> SUFFICES ASSUME NEW j \in Ids PROVE TimelyAt(j)'
  BY DEF Timely
<1>1. TimelyAt(j)
  BY DEF Timely
<1>2. now' = now + 1 /\ asked' = asked /\ disk' = disk /\ op' = op /\ promise' = promise
      /\ timers' = timers
  BY DEF Tick, daemonVars, historyVars
<1> QED
  BY <1>1, <1>2, TimesAreNumbers DEF TimelyAt, At, Never

LEMMA TimelyStep ==
    ASSUME TypeOK, Timely, [Next]_vars PROVE Timely'
<1>1. ASSUME NEW i \in Ids, NEW w \in Writers, Truncate(i, w) \/ Write(i, w)
      PROVE Timely'
  BY <1>1, TimelyPersist
<1>2. ASSUME NEW i \in Ids, Schedule(i) PROVE Timely'
  BY <1>2, TimelySchedule
<1>3. ASSUME NEW i \in Ids, ScheduleDone(i) PROVE Timely'
  BY <1>3, TimelyScheduleDone
<1>4. ASSUME NEW i \in Ids, NEW w \in CancelsBy, CancelRead(i, w) PROVE Timely'
  BY <1>4, TimelyCancelRead
<1>5. ASSUME NEW i \in Ids, CancelDone(i) \/ CliCancelDone(i) PROVE Timely'
  BY <1>5, TimelyCancelDone
<1>6. ASSUME NEW i \in Ids, NEW h \in Handles, FireRead(i, h) \/ FireDone(i, h)
      PROVE Timely'
  BY <1>6, TimelyFireRead, TimelyFireDone
<1>7. ASSUME NEW i \in Ids, FireThrows(i) \/ Crash PROVE Timely'
  BY <1>7, TimelyDie DEF FireThrows, Crash
<1>8. CASE Crash
  BY <1>8, TimelyDie DEF Crash
<1>9. CASE Refuse \/ UNCHANGED vars
  <2>1. now' = now /\ asked' = asked /\ disk' = disk /\ op' = op /\ promise' = promise
        /\ timers' = timers
    BY <1>9 DEF Refuse, vars, historyVars
  <2> QED
    BY <2>1 DEF Timely, TimelyAt, At, Never
<1>10. CASE LoadPendingActions
  BY <1>10, TimelyLoad
<1>11. CASE Tick
  BY <1>11, TimelyTick
<1> QED
  BY <1>1, <1>2, <1>3, <1>4, <1>5, <1>6, <1>7, <1>8, <1>9, <1>10, <1>11
     DEF Next, Step, Request

-----------------------------------------------------------------------------
\* The actions that leave a revoked action alone.
LEMMA QuietPersist ==
    ASSUME TypeOK, RevokedQuiet, NEW i \in Ids, NEW w \in Writers,
           Truncate(i, w) \/ Write(i, w)
    PROVE  RevokedQuiet'
<1> SUFFICES ASSUME NEW j \in Ids, revoked[j] PROVE RevokedQuietAt(j)'
  BY DEF RevokedQuiet, RevokedQuietAt, Truncate, Write, historyVars
<1>1. RevokedQuietAt(j)
  BY DEF RevokedQuiet
<1>2. \A v \in Writers : (op'[j][v].pc = "idle") = (op[j][v].pc = "idle")
  <2>1. CASE Truncate(i, w)
    BY <2>1, EnterReads DEF Truncate, Goto, At
  <2>2. CASE Write(i, w)
    BY <2>2, EnterReads DEF Write, Goto, At
  <2> QED
    BY <2>1, <2>2
<1>3. disk'[j].st \in {"cancelled", "empty"}
  <2>1. CASE Truncate(i, w)
    BY <1>1, <2>1 DEF Truncate, TypeOK, Blank, RevokedQuietAt
  <2>2. CASE Write(i, w) /\ i = j
    <3>1. w \in {"cancel", "cliCancel"}
      BY <1>1, <2>2 DEF Write, RevokedQuietAt, At, Writers
    <3>2. StatusBy[w] = "cancelled"
      BY <3>1 DEF StatusBy
    <3>3. disk'[j] = [st |-> "cancelled", fireAt |-> op[i][w].fireAt]
      BY <1>1, <2>2, <3>2 DEF Write, TypeOK, RevokedQuietAt, WriteOver, Size
    <3> QED
      BY <3>3
  <2>3. CASE Write(i, w) /\ i # j
    BY <1>1, <2>3 DEF Write, TypeOK, RevokedQuietAt
  <2> QED
    BY <2>1, <2>2, <2>3
<1>4. promise' = promise
  BY DEF Truncate, Write, daemonVars
<1>5. "schedule" \in Writers /\ Firers \subseteq Writers
  BY DEF Writers
<1> QED
  BY <1>1, <1>2, <1>3, <1>4, <1>5 DEF RevokedQuietAt, At

LEMMA QuietSchedule ==
    ASSUME TypeOK, RevokedQuiet, NEW i \in Ids, Schedule(i) \/ ScheduleDone(i)
    PROVE  RevokedQuiet'
<1> SUFFICES ASSUME NEW j \in Ids, revoked'[j] PROVE RevokedQuietAt(j)'
  BY DEF RevokedQuiet, RevokedQuietAt
<1>1. "schedule" \in Writers /\ Firers \subseteq Writers
  BY DEF Writers
<1>2. j # i /\ revoked[j] /\ RevokedQuietAt(j)
  <2>1. CASE Schedule(i)
    BY <2>1 DEF Schedule, TypeOK, RevokedQuiet
  <2>2. CASE ScheduleDone(i)
    BY <2>2 DEF ScheduleDone, RevokedQuiet, RevokedQuietAt, historyVars, At
  <2> QED
    BY <2>1, <2>2
<1>3. \A v \in Writers : op'[j][v] = op[j][v]
  BY <1>1, <1>2, EnterReads DEF Schedule, ScheduleDone, Finish
<1>4. disk' = disk /\ promise'[j] = promise[j]
  BY <1>2 DEF Schedule, ScheduleDone, TypeOK, daemonVars
<1> QED
  BY <1>1, <1>2, <1>3, <1>4 DEF RevokedQuietAt, At

LEMMA QuietCancelRead ==
    ASSUME TypeOK, RevokedQuiet, NEW i \in Ids, NEW w \in CancelsBy, CancelRead(i, w)
    PROVE  RevokedQuiet'
<1> SUFFICES ASSUME NEW j \in Ids, revoked[j] PROVE RevokedQuietAt(j)'
  BY DEF RevokedQuiet, RevokedQuietAt, CancelRead, historyVars
<1>1. RevokedQuietAt(j) /\ j # i
  BY DEF RevokedQuiet, RevokedQuietAt, CancelRead
<1>2. "schedule" \in Writers /\ Firers \subseteq Writers /\ w \in Writers
  BY DelayedActionAssumption DEF Writers
<1>3. \A v \in Writers : op'[j][v] = op[j][v]
  BY <1>1, <1>2, EnterReads DEF CancelRead
<1>4. disk' = disk /\ promise' = promise
  BY DEF CancelRead, daemonVars
<1> QED
  BY <1>1, <1>2, <1>3, <1>4 DEF RevokedQuietAt, At

\* Here the history variable is set: in good time, no firing has begun.
LEMMA QuietCancelDone ==
    ASSUME TypeOK, Timely, RevokedQuiet, NEW i \in Ids,
           CancelDone(i) \/ CliCancelDone(i)
    PROVE  RevokedQuiet'
<1> SUFFICES ASSUME NEW j \in Ids, revoked'[j] PROVE RevokedQuietAt(j)'
  BY DEF RevokedQuiet, RevokedQuietAt
<1>1. /\ {"cancel", "cliCancel", "schedule"} \subseteq Writers
      /\ Firers \subseteq Writers
  BY DEF Writers
<1>2. \A v \in Writers : op'[j][v] \in {op[j][v], Idle}
  BY <1>1, EnterReads DEF CancelDone, CliCancelDone, Finish
<1>3. disk' = disk
  BY DEF CancelDone, CliCancelDone
<1>4. promise'[j] = "resolved" => promise[j] = "resolved"
  BY DEF CancelDone, CliCancelDone, TypeOK, daemonVars
<1>5. revoked[j] \/ (j = i /\ InGoodTime(i))
  BY DEF CancelDone, CliCancelDone, NoteRevoked, TypeOK
<1>6. CASE revoked[j]
  <2>1. RevokedQuietAt(j)
    BY DEF RevokedQuiet
  <2> QED
    BY <1>1, <1>2, <1>3, <1>4, <1>6, <2>1 DEF RevokedQuietAt, At, Idle
<1>7. CASE j = i /\ InGoodTime(i)
  <2>1. TimelyAt(i) /\ now < asked[i] + Delay
    BY <1>7 DEF Timely, InGoodTime
  <2>2. /\ \A v \in Firers : At(i, v, "idle")
        /\ promise[i] # "resolved"
    BY <2>1, TimesAreNumbers DEF TimelyAt
  <2> QED
    BY <1>1, <1>2, <1>3, <1>4, <1>7, <2>2 DEF RevokedQuietAt, At, Idle, InGoodTime
<1> QED
  BY <1>5, <1>6, <1>7

LEMMA QuietFire ==
    ASSUME TypeOK, RevokedQuiet, NEW i \in Ids, NEW h \in Handles,
           FireRead(i, h) \/ FireDone(i, h)
    PROVE  RevokedQuiet'
<1> SUFFICES ASSUME NEW j \in Ids, revoked[j] PROVE RevokedQuietAt(j)'
  BY DEF RevokedQuiet, RevokedQuietAt, FireRead, FireDone, historyVars
<1>1. RevokedQuietAt(j)
  BY DEF RevokedQuiet
<1>2. /\ FireOf[h] \in Firers /\ FireOf[h] \in Writers
      /\ "schedule" \in Writers /\ Firers \subseteq Writers
  BY FireOfType DEF Writers
<1>3. \A v \in Writers : op'[j][v] = op[j][v]
  <2>1. CASE FireRead(i, h)
    <3>1. CASE op' = op
      BY <3>1
    <3>2. CASE Enter(i, FireOf[h], [pc |-> "decided", fireAt |-> disk[i].fireAt])
      <4>1. op' = op \/ disk[i].st = "pending"
        BY <2>1 DEF FireRead, MayFire
      <4>2. disk[i].st = "pending" => j # i
        BY <1>1 DEF RevokedQuietAt
      <4> QED
        BY <1>2, <3>2, <4>1, <4>2, EnterReads
    <3> QED
      BY <2>1, <3>1, <3>2 DEF FireRead
  <2>2. CASE FireDone(i, h)
    <3>1. j # i
      BY <1>1, <1>2, <2>2 DEF FireDone, At, RevokedQuietAt
    <3> QED
      BY <1>2, <2>2, <3>1, EnterReads DEF FireDone, Finish
  <2> QED
    BY <2>1, <2>2
<1>4. disk' = disk /\ promise'[j] = promise[j]
  <2>1. CASE FireRead(i, h)
    BY <2>1 DEF FireRead
  <2>2. CASE FireDone(i, h)
    BY <1>1, <1>2, <2>2 DEF FireDone, At, RevokedQuietAt, TypeOK
  <2> QED
    BY <2>1, <2>2
<1> QED
  BY <1>1, <1>2, <1>3, <1>4 DEF RevokedQuietAt, At

LEMMA QuietDie ==
    ASSUME TypeOK, RevokedQuiet, Die PROVE RevokedQuiet'
<1> SUFFICES ASSUME NEW j \in Ids, revoked[j] PROVE RevokedQuietAt(j)'
  BY DEF RevokedQuiet, RevokedQuietAt, Die, historyVars
<1>1. RevokedQuietAt(j)
  BY DEF RevokedQuiet
<1>2. "schedule" \in Writers /\ Firers \subseteq Writers
  BY DEF Writers
<1>3. \A v \in Writers : op'[j][v] \in {op[j][v], Idle}
  BY DEF Die
<1>4. disk' = disk /\ promise'[j] = "none"
  BY DEF Die
<1> QED
  BY <1>1, <1>2, <1>3, <1>4 DEF RevokedQuietAt, At, Idle

LEMMA QuietStep ==
    ASSUME TypeOK, Timely, RevokedQuiet, [Next]_vars PROVE RevokedQuiet'
<1>1. ASSUME NEW i \in Ids, NEW w \in Writers, Truncate(i, w) \/ Write(i, w)
      PROVE RevokedQuiet'
  BY <1>1, QuietPersist
<1>2. ASSUME NEW i \in Ids, Schedule(i) \/ ScheduleDone(i) PROVE RevokedQuiet'
  BY <1>2, QuietSchedule
<1>3. ASSUME NEW i \in Ids, NEW w \in CancelsBy, CancelRead(i, w) PROVE RevokedQuiet'
  BY <1>3, QuietCancelRead
<1>4. ASSUME NEW i \in Ids, CancelDone(i) \/ CliCancelDone(i) PROVE RevokedQuiet'
  BY <1>4, QuietCancelDone
<1>5. ASSUME NEW i \in Ids, NEW h \in Handles, FireRead(i, h) \/ FireDone(i, h)
      PROVE RevokedQuiet'
  BY <1>5, QuietFire
<1>6. ASSUME NEW i \in Ids, FireThrows(i) PROVE RevokedQuiet'
  BY <1>6, QuietDie DEF FireThrows
<1>7. CASE Crash
  BY <1>7, QuietDie DEF Crash
<1>8. CASE Refuse \/ LoadPendingActions \/ Tick \/ UNCHANGED vars
  <2>1. revoked' = revoked /\ disk' = disk /\ op' = op /\ promise' = promise
    BY <1>8 DEF Refuse, LoadPendingActions, Tick, vars, historyVars, daemonVars
  <2> QED
    BY <2>1 DEF RevokedQuiet, RevokedQuietAt, At
<1> QED
  BY <1>1, <1>2, <1>3, <1>4, <1>5, <1>6, <1>7, <1>8 DEF Next, Step, Request

-----------------------------------------------------------------------------
\* The inductive invariant: types, times, and the quiet of revoked actions.
IInv == TypeOK /\ Timely /\ RevokedQuiet

THEOREM Inductive == Spec => []IInv
<1>1. Init => Timely /\ RevokedQuiet
  BY DelayedActionAssumption
     DEF Init, Timely, TimelyAt, RevokedQuiet, RevokedQuietAt, At, Idle, Blank,
         Never, Statuses, Writers, Firers
<1>2. TypeOK /\ Timely /\ RevokedQuiet /\ [Next]_vars => Timely' /\ RevokedQuiet'
  BY TimelyStep, QuietStep
<1> QED
  BY <1>1, <1>2, TypeCorrect, PTL DEF Spec, IInv

(***************************************************************************)
(* A cancel that completed before the due time stands, whichever process   *)
(* ran it and however the daemon restarts around it.                       *)
(***************************************************************************)
THEOREM CancelStands == Spec => []RevokedStands
<1>1. IInv => RevokedStands
  BY DEF IInv, RevokedQuiet, RevokedQuietAt, RevokedStands
<1> QED
  BY <1>1, Inductive, PTL

\* Only the last step of fireAction settles a promise as resolved.
LEMMA ReleaseIsTimely ==
    ASSUME IInv, Next, NEW i \in Ids, Resolves(i)
    PROVE  now >= asked[i] + Delay
<1> USE DEF IInv, TypeOK, Resolves
<1>1. ASSUME NEW k \in Ids, NEW h \in Handles, FireDone(k, h)
      PROVE now >= asked[i] + Delay
  <2>1. k = i
    BY <1>1 DEF FireDone
  <2> QED
    BY <1>1, <2>1, TimelyFireDone
<1>2. ASSUME NEW k \in Ids, ScheduleDone(k) PROVE FALSE
  BY <1>2 DEF ScheduleDone
<1>3. ASSUME NEW k \in Ids, CancelDone(k) PROVE FALSE
  BY <1>3 DEF CancelDone
<1>4. ASSUME Die PROVE FALSE
  BY <1>4 DEF Die
<1>5. ASSUME promise' = promise PROVE FALSE
  BY <1>5
<1> QED
  BY <1>1, <1>2, <1>3, <1>4, <1>5
     DEF Next, Step, Request, Truncate, Write, Schedule, CancelRead, CliCancelDone,
         FireRead, FireThrows, Crash, Refuse, LoadPendingActions, Tick, daemonVars

(***************************************************************************)
(* No caller is released before the delay has passed since the first       *)
(* request, for any number of crashes, restarts and resumed requests.      *)
(***************************************************************************)
THEOREM FullDelay == Spec => NoEarlyRelease
<1>1. IInv /\ [Next]_vars => [\A i \in Ids : Resolves(i) => now >= asked[i] + Delay]_vars
  BY ReleaseIsTimely
<1> QED
  BY <1>1, Inductive, PTL DEF Spec, NoEarlyRelease

-----------------------------------------------------------------------------
\* An activation under way, or a caller's due time, presupposes a request.
LEMMA BusyIsAsked ==
    ASSUME IInv, NEW i \in Ids, NEW w \in Writers, ~At(i, w, "idle")
    PROVE  asked[i] # Never
BY TimesAreNumbers DEF IInv, Timely, TimelyAt, Never

LEMMA StepRefines ==
    ASSUME IInv, [Next]_vars
    PROVE  [Contract!ContractNext]_(Contract!contractVars)
<1> USE DEF Contract!contractVars, Contract!ContractNext
<1>1. ASSUME NEW i \in Ids, Schedule(i) PROVE Contract!Ask(i)
  BY <1>1 DEF Schedule, Contract!Ask, Contract!Never, Never, daemonVars
<1>2. ASSUME NEW i \in Ids, ScheduleDone(i) PROVE Contract!Wait(i)
  <2>1. "schedule" \in Writers /\ ~At(i, "schedule", "idle")
    BY <1>2 DEF Writers, ScheduleDone, At
  <2>2. asked[i] # Never
    BY <2>1, BusyIsAsked
  <2>3. promise[i] = "none"
    BY <2>1 DEF IInv, Timely, TimelyAt
  <2> QED
    BY <1>2, <2>2, <2>3 DEF ScheduleDone, Contract!Wait, Contract!Never, Never, historyVars
<1>3. ASSUME NEW i \in Ids, CancelDone(i) \/ CliCancelDone(i) PROVE Contract!Revoke(i)
  <2>1. asked[i] # Never
    <3>1. \E w \in {"cancel", "cliCancel"} : ~At(i, w, "idle")
      BY <1>3 DEF CancelDone, CliCancelDone, At
    <3>2. {"cancel", "cliCancel"} \subseteq Writers
      BY DEF Writers
    <3> QED
      BY <3>1, <3>2, BusyIsAsked
  <2>2. promise' = promise \/ (/\ promise[i] = "waiting"
                              /\ promise' = [promise EXCEPT ![i] = "rejected"])
    BY <1>3 DEF CancelDone, CliCancelDone, daemonVars, IInv, TypeOK
  <2>3. \/ revoked' = revoked
        \/ InGoodTime(i) /\ revoked' = [revoked EXCEPT ![i] = TRUE]
    BY <1>3 DEF CancelDone, CliCancelDone, NoteRevoked, IInv, TypeOK
  <2>4. InGoodTime(i) => ~Contract!Due(i) /\ promise[i] # "resolved"
    BY TimesAreNumbers DEF InGoodTime, Contract!Due, IInv, Timely, TimelyAt
  <2>5. now' = now /\ asked' = asked
    BY <1>3 DEF CancelDone, CliCancelDone, NoteRevoked, daemonVars
  <2> QED
    BY <2>1, <2>2, <2>3, <2>4, <2>5 DEF Contract!Revoke, Contract!Never, Never
<1>4. ASSUME NEW i \in Ids, NEW h \in Handles, FireDone(i, h)
      PROVE Contract!Resolve(i) \/ UNCHANGED Contract!contractVars
  <2>1. FireOf[h] \in Firers /\ ~At(i, FireOf[h], "idle")
    BY <1>4, FireOfType DEF FireDone, At
  <2>2. now >= asked[i] + Delay
    BY <1>4, TimelyFireDone DEF IInv
  <2>3. ~revoked[i]
    BY <2>1 DEF IInv, RevokedQuiet, RevokedQuietAt
  <2>4. now' = now /\ asked' = asked /\ revoked' = revoked
    BY <1>4 DEF FireDone, historyVars
  <2>5. CASE promise[i] = "waiting"
    BY <1>4, <2>2, <2>3, <2>4, <2>5
       DEF FireDone, Contract!Resolve, Contract!Due, IInv, TypeOK
  <2>6. CASE promise[i] # "waiting"
    BY <1>4, <2>4, <2>6 DEF FireDone, IInv, TypeOK
  <2> QED
    BY <2>5, <2>6
<1>5. ASSUME Die PROVE Contract!Lose
  BY <1>5 DEF Die, Contract!Lose, historyVars
<1>6. CASE Tick
  BY <1>6 DEF Tick, Contract!Elapse, daemonVars, historyVars
<1>7. ASSUME \/ \E i \in Ids, w \in Writers : Truncate(i, w) \/ Write(i, w)
             \/ \E i \in Ids, w \in CancelsBy : CancelRead(i, w)
             \/ \E i \in Ids, h \in Handles : FireRead(i, h)
             \/ Refuse \/ LoadPendingActions \/ UNCHANGED vars
      PROVE UNCHANGED Contract!contractVars
  BY <1>7 DEF Truncate, Write, CancelRead, FireRead, Refuse, LoadPendingActions,
              vars, daemonVars, historyVars
<1> QED
  BY <1>1, <1>2, <1>3, <1>4, <1>5, <1>6, <1>7
     DEF Next, Step, Request, FireThrows, Crash

(***************************************************************************)
(* delay.ts implements the contract its callers rely on: each of its steps *)
(* is a step of DelayContract or leaves the contract's variables alone.    *)
(***************************************************************************)
THEOREM Refinement == Spec => ImplementsContract
<1>1. Init => Contract!ContractInit
  BY DEF Init, Contract!ContractInit, Contract!Never, Never
<1>2. IInv /\ [Next]_vars => [Contract!ContractNext]_(Contract!contractVars)
  BY StepRefines
<1> QED
  BY <1>1, <1>2, Inductive, PTL DEF Spec, ImplementsContract, Contract!ContractSpec
=============================================================================
