------------------------------ MODULE AuditLog ------------------------------
(***************************************************************************)
(* audit/writer.ts and audit/key-store.ts: the HMAC-chained, append-only   *)
(* log, with the walk of `audit verify` (cli/commands/audit.ts) that reads *)
(* it.                                                                     *)
(*                                                                         *)
(* One AuditWriter serves the process; appends queue behind a promise      *)
(* mutex in the order of their calls.  The last hmac and seq are cached,   *)
(* and recovered from the tail of the file when the cache is empty, by an  *)
(* append or, outside the mutex, by getLastHmac.  A write may fail before  *)
(* or after its first bytes, and the process may end at any moment.        *)
(*                                                                         *)
(* Each call writes at most one line, so a call stands for its line's      *)
(* hmac.                                                                   *)
(***************************************************************************)
EXTENDS Naturals, Sequences

CONSTANTS Calls,      \* calls of append()
          LongCalls,  \* those whose line does not fit TAIL_CHUNK_BYTES
          Genesis,    \* GENESIS_PREV_HMAC
          Garbage,    \* a line that does not parse
          MaxEnds,    \* bound: ends of the process
          MaxPeeks    \* bound: calls of getLastHmac that found no cache

ASSUME AuditAssumption ==
    /\ LongCalls \subseteq Calls
    /\ Genesis \notin Calls /\ Garbage \notin Calls \cup {Genesis}
    /\ MaxEnds \in Nat /\ MaxPeeks \in Nat

VARIABLES log,        \* the complete lines of audit.log
          torn,       \* its last bytes are not a complete line
          keyFile,    \* .audit-key: 0 if absent, else the number of the key
          keyCache,   \* AuditKeyStore.cached, likewise
          cachedPrev, \* cachedPrevHmac, cachedPrevSeq
          queue,      \* the calls in the mutex chain, the active one first
          stage,      \* where the active call stands
          claim,      \* the prevHmac and prevSeq the active call has read
          peek,       \* getLastHmac: the size of the log it has seen
          outcome,    \* what each call came to
          order,      \* history: the calls in the order they were made
          halved,     \* history: a write of this process failed half-way
          spliced,    \* history: the same process wrote a line behind it
          overtaken,  \* history: getLastHmac installed an outdated tail
          keys, ends, peeks

fileVars   == <<log, torn, keyFile>>
memVars    == <<keyCache, cachedPrev, queue, stage, claim, peek, outcome>>
logHistory == <<order, halved, spliced, overtaken>>
bounds     == <<keys, ends, peeks>>
logVars    == <<fileVars, memVars, logHistory, bounds>>

NoTail == [hmac |-> Garbage, seq |-> 0]
Tails == [hmac : Calls \cup {Genesis}, seq : Nat]
Lines == [call : Calls, seq : Nat, prev : Calls \cup {Genesis}, key : Nat]
GarbageLine == [call |-> Garbage, seq |-> 0, prev |-> Garbage, key |-> 0]
Off == [on |-> FALSE, size |-> 0, torn |-> FALSE]

LogTypeOK ==
    /\ log \in Seq(Lines \cup {GarbageLine})
    /\ torn \in BOOLEAN
    /\ keyFile \in 0..MaxEnds + 1
    /\ keyCache \in 0..MaxEnds + 1
    /\ cachedPrev \in Tails \cup {NoTail}
    /\ queue \in Seq(Calls)
    /\ stage \in {"wait", "key", "write", "written"}
    /\ claim \in Tails \cup {NoTail}
    /\ peek \in [on : BOOLEAN, size : Nat, torn : BOOLEAN]
    /\ outcome \in [Calls -> {"new", "queued", "done", "failed", "lost"}]
    /\ order \in Seq(Calls)
    /\ halved \in BOOLEAN
    /\ spliced \in BOOLEAN
    /\ overtaken \in BOOLEAN
    /\ keys \in 0..MaxEnds + 1
    /\ ends \in 0..MaxEnds
    /\ peeks \in 0..MaxPeeks

LogInit ==
    /\ log = <<>> /\ torn = FALSE /\ keyFile = 0
    /\ keyCache = 0 /\ cachedPrev = NoTail
    /\ queue = <<>> /\ stage = "wait" /\ claim = NoTail
    /\ peek = Off
    /\ outcome = [c \in Calls |-> "new"]
    /\ order = <<>> /\ halved = FALSE /\ spliced = FALSE /\ overtaken = FALSE
    /\ keys = 0 /\ ends = 0 /\ peeks = 0

-----------------------------------------------------------------------------
(***************************************************************************)
(* append(): take a place in the mutex chain.                              *)
(***************************************************************************)
CallInFront(c) ==                \* a bug: the last to come is served first
    /\ outcome[c] = "new"
    /\ outcome' = [outcome EXCEPT ![c] = "queued"]
    /\ queue' = IF stage = "wait" THEN <<c>> \o queue ELSE Append(queue, c)
    /\ order' = Append(order, c)
    /\ UNCHANGED <<fileVars, keyCache, cachedPrev, stage, claim, peek, halved, spliced, overtaken,
                   bounds>>

Call(c) ==
    /\ outcome[c] = "new"
    /\ outcome' = [outcome EXCEPT ![c] = "queued"]
    /\ queue' = Append(queue, c)
    /\ order' = Append(order, c)
    /\ UNCHANGED <<fileVars, keyCache, cachedPrev, stage, claim, peek, halved, spliced, overtaken,
                   bounds>>

\* The finally block: the next call gets the mutex, whatever happened.
Leave(result) ==
    /\ outcome' = [outcome EXCEPT ![Head(queue)] = result]
    /\ queue' = Tail(queue)
    /\ stage' = "wait"
    /\ claim' = NoTail

LeaveLocked(result) ==           \* a bug: a failed call keeps the mutex
    /\ outcome' = [outcome EXCEPT ![Head(queue)] = "queued"]
    /\ queue' = queue
    /\ stage' = "stuck"
    /\ claim' = NoTail

FailLocked == LeaveLocked("failed")
FailCall == Leave("failed")

(***************************************************************************)
(* recoverState(): the tail of a file of n lines.  Bytes without a newline *)
(* at the end, a line that does not parse and a line that starts before    *)
(* the last 4 KiB make it throw.                                           *)
(***************************************************************************)
RecoverableAnyway(n, isTorn) ==     \* a bug: the newline is not looked for
    n # 0 => log[n] # GarbageLine /\ log[n].call \notin LongCalls
Recoverable(n, isTorn) ==
    /\ ~isTorn
    /\ n # 0 => log[n] # GarbageLine /\ log[n].call \notin LongCalls

Recovered(n) == IF n = 0 THEN [hmac |-> Genesis, seq |-> 0]
                         ELSE [hmac |-> log[n].call, seq |-> log[n].seq]

Begin ==
    /\ stage = "wait" /\ queue # <<>>
    /\ cachedPrev # NoTail \/ Recoverable(Len(log), torn)
    /\ cachedPrev' = IF cachedPrev = NoTail THEN Recovered(Len(log)) ELSE cachedPrev
    /\ claim' = cachedPrev'
    /\ stage' = "key"
    /\ UNCHANGED <<fileVars, keyCache, queue, peek, outcome, logHistory, bounds>>

BeginFails ==
    /\ stage = "wait" /\ queue # <<>>
    /\ cachedPrev = NoTail /\ ~Recoverable(Len(log), torn)
    /\ FailCall
    /\ UNCHANGED <<fileVars, keyCache, cachedPrev, peek, logHistory, bounds>>

(***************************************************************************)
(* getKey(): the cached key, the key of the file, or a new one, which is   *)
(* renamed into place before it is used.                                   *)
(***************************************************************************)
Saved(k) == k

GetKey ==
    /\ stage = "key"
    /\ IF keyCache # 0 \/ keyFile # 0
       THEN /\ keyCache' = IF keyCache # 0 THEN keyCache ELSE keyFile
            /\ UNCHANGED <<keyFile, keys>>
       ELSE /\ keys' = keys + 1
            /\ keyCache' = keys'
            /\ keyFile' = Saved(keys')
    /\ stage' = "write"
    /\ UNCHANGED <<log, torn, cachedPrev, queue, claim, peek, outcome, logHistory, ends, peeks>>

KeyFails ==
    /\ stage = "key" /\ keyCache = 0
    /\ FailCall
    /\ UNCHANGED <<fileVars, keyCache, cachedPrev, peek, logHistory, bounds>>

(***************************************************************************)
(* appendFile and what follows it.                                         *)
(***************************************************************************)
NextSeq == claim.seq + 1

Line == [call |-> Head(queue), seq |-> NextSeq, prev |-> claim.hmac, key |-> keyCache]

Write ==
    /\ stage = "write"
    /\ log' = Append(log, IF torn THEN GarbageLine ELSE Line)
    /\ torn' = FALSE
    /\ spliced' = (spliced \/ (torn /\ halved))
    /\ stage' = "written"
    /\ UNCHANGED <<keyFile, keyCache, cachedPrev, queue, claim, peek, outcome, order, halved,
                   overtaken, bounds>>

\* ENOSPC and the like, with or without some of the line on the disk.
WriteFails ==
    /\ stage = "write"
    /\ torn' \in {torn, TRUE}
    /\ halved' = (halved \/ torn')
    /\ FailCall
    /\ UNCHANGED <<log, keyFile, keyCache, cachedPrev, peek, order, spliced, overtaken, bounds>>

Return ==
    /\ stage = "written"
    /\ cachedPrev' = [hmac |-> Head(queue), seq |-> NextSeq]
    /\ Leave("done")
    /\ UNCHANGED <<fileVars, keyCache, peek, logHistory, bounds>>

-----------------------------------------------------------------------------
(***************************************************************************)
(* getLastHmac(): recovers the tail too, but without the mutex.            *)
(***************************************************************************)
PeekSize ==
    /\ cachedPrev = NoTail /\ ~peek.on
    /\ peeks < MaxPeeks
    /\ peeks' = peeks + 1
    /\ peek' = [on |-> TRUE, size |-> Len(log), torn |-> torn]
    /\ UNCHANGED <<fileVars, keyCache, cachedPrev, queue, stage, claim, outcome, logHistory,
                   keys, ends>>

PeekTail ==
    /\ peek.on
    /\ IF Recoverable(peek.size, peek.torn)
       THEN /\ cachedPrev' = Recovered(peek.size)
            /\ overtaken' = (overtaken \/ peek.size # Len(log))
       ELSE UNCHANGED <<cachedPrev, overtaken>>
    /\ peek' = Off
    /\ UNCHANGED <<fileVars, keyCache, queue, stage, claim, outcome, order, halved, spliced,
                   bounds>>

\* The process ends, perhaps in the middle of a write.
EndProcess ==
    /\ ends < MaxEnds
    /\ ends' = ends + 1
    /\ torn' \in (IF stage = "write" THEN {torn, TRUE} ELSE {torn})
    /\ outcome' = [c \in Calls |-> IF outcome[c] = "queued" THEN "lost" ELSE outcome[c]]
    /\ keyCache' = 0 /\ cachedPrev' = NoTail /\ queue' = <<>>
    /\ stage' = "wait" /\ claim' = NoTail /\ peek' = Off /\ halved' = FALSE
    /\ UNCHANGED <<log, keyFile, order, spliced, overtaken, keys, peeks>>

Step == \/ Begin \/ BeginFails \/ GetKey \/ KeyFails
        \/ Write \/ WriteFails \/ Return \/ PeekTail

LogNext == Step \/ PeekSize \/ EndProcess \/ \E c \in Calls : Call(c)

LogSpec == LogInit /\ [][LogNext]_logVars
LogFairSpec == LogSpec /\ WF_logVars(Step)

-----------------------------------------------------------------------------
(***************************************************************************)
(* runAuditVerify: every line parses, follows its predecessor's hmac and   *)
(* seq, and is signed with the key of the key file.                        *)
(***************************************************************************)
Follows(i) ==
    /\ log[i] # GarbageLine
    /\ log[i].seq = i
    /\ log[i].prev = IF i = 1 THEN Genesis ELSE log[i - 1].call
    /\ log[i].key = keyFile

Verifies == \A i \in 1..Len(log) : Follows(i)

(***************************************************************************)
(* Whatever fails and whenever the process ends, the complete lines verify *)
(* (no gap, no fork, one key), provided that no process went on writing    *)
(* behind the bytes of a write that failed half-way, and that getLastHmac  *)
(* did not overlap an append.                                              *)
(***************************************************************************)
ChainIntact == ~spliced /\ ~overtaken => Verifies

(***************************************************************************)
(* Lines appear in the order in which append() was called, each call at    *)
(* most once, and a call that returned has its line.                       *)
(***************************************************************************)
PlaceOf(c) == CHOOSE k \in 1..Len(order) : order[k] = c
Written(c) == \E i \in 1..Len(log) : log[i].call = c
InCallOrder ==
    /\ \A i, j \in 1..Len(log) :
         (i < j /\ log[i] # GarbageLine /\ log[j] # GarbageLine)
           => PlaceOf(log[i].call) < PlaceOf(log[j].call)
    /\ \A c \in Calls : outcome[c] = "done" /\ ~spliced => Written(c)

(***************************************************************************)
(* The mutex is always released: every call comes to an end.               *)
(***************************************************************************)
AppendReturns == \A c \in Calls : outcome[c] = "queued" ~> outcome[c] # "queued"

=============================================================================
