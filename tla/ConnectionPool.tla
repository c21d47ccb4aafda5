--------------------------- MODULE ConnectionPool ---------------------------
(***************************************************************************)
(* connection/pool.ts: open connections cached per platform id, with an    *)
(* idle timeout, a cap with LRU eviction, a reaper and closeAll.           *)
(*                                                                         *)
(* Everything between two awaits is one action.  A connection is named by  *)
(* the call of getConnection that created it.  The awaits of an eviction   *)
(* (disconnect, then the audit entry) are one, and so are those of a       *)
(* failing connect.  Entries of equal lastUsedAt are evicted in either     *)
(* order.                                                                  *)
(***************************************************************************)
EXTENDS Naturals, FiniteSets

CONSTANTS Ids,             \* platform ids
          Callers,         \* calls of getConnection
          Asks,            \* which call may ask for which id
          Sweeps,          \* runs of reapIdle or closeAll, which may overlap
          None,            \* no connection, no call
          MaxConnections, IdleTimeout,
          MaxClock         \* bound: the clock

ASSUME PoolAssumption ==
    /\ None \notin Callers \cup Ids
    /\ Callers \cap Sweeps = {}
    /\ IsFiniteSet(Ids)
    /\ Asks \subseteq Callers \X Ids
    /\ MaxConnections \in Nat \ {0}
    /\ IdleTimeout \in Nat /\ MaxClock \in Nat

VARIABLES clock,
          entries,    \* id -> the pooled connection
          lastUsedAt, \* id -> the time of the last hand-out
          inflight,   \* id -> the call whose connect is pending
          conn,       \* connection -> its state
          place,      \* call -> where it stands
          want,       \* call -> the id it asks for
          got,        \* call -> the connection it was handed
          toVisit,    \* sweep -> ids it has yet to look at
          closing,    \* call or sweep -> the connection it is disconnecting
          kind,       \* sweep -> "reapIdle" or "closeAll"
          overlapped, \* history: two ids were being connected at a time
          raced       \* history: a stale entry's successor came and was replaced

poolVars       == <<entries, lastUsedAt, inflight, conn>>
callVars       == <<place, want, got>>
sweepVars      == <<toVisit, kind>>
poolHistory    == <<overlapped, raced>>
connectionVars == <<clock, poolVars, callVars, sweepVars, closing, poolHistory>>

PoolTypeOK ==
    /\ clock \in 0..MaxClock
    /\ entries \in [Ids -> Callers \cup {None}]
    /\ lastUsedAt \in [Ids -> 0..MaxClock]
    /\ inflight \in [Ids -> Callers \cup {None}]
    /\ conn \in [Callers -> {"none", "open", "closed"}]
    /\ place \in [Callers -> {"idle", "stale", "waiting", "evictLRU", "connecting",
                           "audit", "done", "failed"}]
    /\ want \in [Callers -> Ids \cup {None}]
    /\ got \in [Callers -> Callers \cup {None}]
    /\ toVisit \in [Sweeps -> SUBSET Ids]
    /\ kind \in [Sweeps -> {"none", "reapIdle", "closeAll"}]
    /\ closing \in [Callers \cup Sweeps -> Callers \cup {None}]
    /\ overlapped \in BOOLEAN
    /\ raced \in BOOLEAN

PoolInit ==
    /\ clock = 0
    /\ entries = [id \in Ids |-> None] /\ lastUsedAt = [id \in Ids |-> 0]
    /\ inflight = [id \in Ids |-> None]
    /\ conn = [c \in Callers |-> "none"]
    /\ place = [c \in Callers |-> "idle"] /\ want = [c \in Callers |-> None]
    /\ got = [c \in Callers |-> None]
    /\ toVisit = [s \in Sweeps |-> {}] /\ kind = [s \in Sweeps |-> "none"]
    /\ closing = [p \in Callers \cup Sweeps |-> None]
    /\ overlapped = FALSE /\ raced = FALSE

Pooled == {id \in Ids : entries[id] # None}

\* Calls that decided to connect and have no entry yet.
Creators == {c \in Callers : place[c] \in {"evictLRU", "connecting"}}

Stale(id) == clock - lastUsedAt[id] > IdleTimeout

LeastRecent == {id \in Pooled : \A j \in Pooled : lastUsedAt[id] <= lastUsedAt[j]}

-----------------------------------------------------------------------------
(***************************************************************************)
(* evict(id) up to its first await: the entry goes before the disconnect.  *)
(***************************************************************************)
EvictEntryLast(p, id) ==    \* a bug: the entry stays until the disconnect
    /\ closing' = [closing EXCEPT ![p] = entries[id]]
    /\ conn' = [conn EXCEPT ![entries[id]] = "closed"]
    /\ entries' = entries

EvictNoClose(p, id) ==      \* a bug: the entry is dropped, not disconnected
    /\ entries' = [entries EXCEPT ![id] = None]
    /\ UNCHANGED <<closing, conn>>

Evict(p, id) ==
    /\ entries' = [entries EXCEPT ![id] = None]
    /\ closing' = [closing EXCEPT ![p] = entries[id]]
    /\ conn' = conn

\* disconnect, whose failure is only logged.
Close(p) ==
    /\ closing[p] # None
    /\ closing' = [closing EXCEPT ![p] = None]
    /\ conn' = [conn EXCEPT ![closing[p]] = "closed"]

Full == Cardinality(Pooled) >= MaxConnections

(***************************************************************************)
(* The rest of getConnection once there is no entry to return: join the    *)
(* pending connect, or start one, which first evicts if the pool is full.  *)
(***************************************************************************)
StartConnect(c, id) ==
    /\ inflight' = [inflight EXCEPT ![id] = c]
    /\ overlapped' = (overlapped \/ Creators # {})
    /\ IF Full /\ Pooled # {}
       THEN /\ \E old \in LeastRecent : Evict(c, old)
            /\ place' = [place EXCEPT ![c] = "evictLRU"]
       ELSE /\ place' = [place EXCEPT ![c] = "connecting"]
            /\ UNCHANGED <<entries, conn, closing>>
    /\ UNCHANGED got

Join(c, id) ==
    IF inflight[id] = None
    THEN StartConnect(c, id)
    ELSE /\ place' = [place EXCEPT ![c] = "waiting"]
         /\ got' = [got EXCEPT ![c] = inflight[id]]
         /\ UNCHANGED <<entries, inflight, conn, closing, overlapped>>

(***************************************************************************)
(* getConnection(id)                                                       *)
(***************************************************************************)

Hit(c, id) ==
    /\ entries[id] # None /\ ~Stale(id)
    /\ lastUsedAt' = [lastUsedAt EXCEPT ![id] = clock]
    /\ got' = [got EXCEPT ![c] = entries[id]]
    /\ place' = [place EXCEPT ![c] = "done"]
    /\ UNCHANGED <<entries, inflight, conn, closing, overlapped>>

EvictStale(c, id) ==
    /\ entries[id] # None /\ Stale(id)
    /\ Evict(c, id)
    /\ place' = [place EXCEPT ![c] = "stale"]
    /\ UNCHANGED <<lastUsedAt, inflight, got, overlapped>>

Miss(c, id) ==
    /\ entries[id] = None
    /\ Join(c, id)
    /\ UNCHANGED lastUsedAt

GetConnection(c, id) ==
    /\ place[c] = "idle" /\ <<c, id>> \in Asks
    /\ want' = [want EXCEPT ![c] = id]
    /\ Hit(c, id) \/ EvictStale(c, id) \/ Miss(c, id)
    /\ UNCHANGED <<clock, sweepVars, raced>>

CloseStale(c) ==
    /\ place[c] = "stale"
    /\ Close(c)
    /\ UNCHANGED <<clock, entries, lastUsedAt, inflight, callVars, sweepVars, poolHistory>>

\* The stale entry is closed and its end audited; entries is not read again.
AfterStale(c) ==
    /\ place[c] = "stale" /\ closing[c] = None
    /\ Join(c, want[c])
    /\ raced' = (raced \/ (inflight[want[c]] = None /\ entries[want[c]] # None))
    /\ UNCHANGED <<clock, lastUsedAt, want, sweepVars>>

AfterLRU(c) ==
    /\ place[c] = "evictLRU"
    /\ Close(c)
    /\ place' = [place EXCEPT ![c] = "connecting"]
    /\ UNCHANGED <<clock, entries, lastUsedAt, inflight, want, got, sweepVars, poolHistory>>

(***************************************************************************)
(* createAndConnect from connect() on.                                     *)
(***************************************************************************)
Connected(c) ==
    /\ place[c] = "connecting"
    /\ conn' = [conn EXCEPT ![c] = "open"]
    /\ entries' = [entries EXCEPT ![want[c]] = c]
    /\ lastUsedAt' = [lastUsedAt EXCEPT ![want[c]] = clock]
    /\ place' = [place EXCEPT ![c] = "audit"]
    /\ UNCHANGED <<clock, inflight, want, got, sweepVars, closing, poolHistory>>

Settle(c, result) ==
    /\ place' = [place EXCEPT ![c] = result]
    /\ got' = [got EXCEPT ![c] = IF result = "done" THEN c ELSE None]
    /\ inflight' = [inflight EXCEPT ![want[c]] = None]

ConnectFails(c) ==
    /\ place[c] = "connecting"
    /\ Settle(c, "failed")
    /\ UNCHANGED <<clock, entries, lastUsedAt, conn, want, sweepVars, closing, poolHistory>>

\* connection_opened is appended; if that fails, so does the call, and the
\* entry stays.
Audited(c) ==
    /\ place[c] = "audit"
    /\ \E result \in {"done", "failed"} : Settle(c, result)
    /\ UNCHANGED <<clock, entries, lastUsedAt, conn, want, sweepVars, closing, poolHistory>>

JoinedIfDone(c) ==          \* a bug: a rejection does not reach those who joined
    /\ place[c] = "waiting" /\ place[got[c]] = "done"
    /\ place' = [place EXCEPT ![c] = "done"]
    /\ UNCHANGED <<clock, poolVars, want, got, sweepVars, closing, poolHistory>>

\* A call that joined another's promise settles with it.
Joined(c) ==
    /\ place[c] = "waiting"
    /\ LET owner == got[c] IN
       /\ place[owner] \in {"done", "failed"}
       /\ place' = [place EXCEPT ![c] = place[owner]]
       /\ got' = [got EXCEPT ![c] = IF place[owner] = "done" THEN owner ELSE None]
    /\ UNCHANGED <<clock, poolVars, want, sweepVars, closing, poolHistory>>

Release(c) ==
    /\ place[c] = "done" /\ entries[want[c]] # None
    /\ lastUsedAt' = [lastUsedAt EXCEPT ![want[c]] = clock]
    /\ UNCHANGED <<clock, entries, inflight, conn, callVars, sweepVars, closing, poolHistory>>

-----------------------------------------------------------------------------
(***************************************************************************)
(* reapIdle and closeAll walk over the ids that had entries at their start.*)
(***************************************************************************)
StartSweep(s, k) ==
    /\ kind[s] = "none"
    /\ kind' = [kind EXCEPT ![s] = k]
    /\ toVisit' = [toVisit EXCEPT ![s] = Pooled]
    /\ UNCHANGED <<clock, poolVars, callVars, closing, poolHistory>>

Visit(s, id) ==
    /\ id \in toVisit[s] /\ closing[s] = None
    /\ toVisit' = [toVisit EXCEPT ![s] = @ \ {id}]
    /\ IF entries[id] # None /\ (kind[s] = "closeAll" \/ Stale(id))
       THEN Evict(s, id)
       ELSE UNCHANGED <<entries, conn, closing>>
    /\ UNCHANGED <<clock, lastUsedAt, inflight, callVars, kind, poolHistory>>

AfterVisit(s) ==
    /\ Close(s)
    /\ UNCHANGED <<clock, entries, lastUsedAt, inflight, callVars, sweepVars, poolHistory>>

Advance ==
    /\ clock < MaxClock
    /\ clock' = clock + 1
    /\ UNCHANGED <<poolVars, callVars, sweepVars, closing, poolHistory>>

CallStep(c) ==
    CloseStale(c) \/ AfterStale(c) \/ AfterLRU(c) \/ Connected(c) \/ ConnectFails(c) \/ Audited(c) \/ Joined(c)

SweepStep(s) == AfterVisit(s) \/ \E id \in Ids : Visit(s, id)

PoolNext ==
    \/ \E c \in Callers : CallStep(c) \/ Release(c) \/ \E id \in Ids : GetConnection(c, id)
    \/ \E s \in Sweeps : SweepStep(s) \/ \E k \in {"reapIdle", "closeAll"} : StartSweep(s, k)
    \/ Advance

PoolSpec == PoolInit /\ [][PoolNext]_connectionVars

\* connect and disconnect come to an end, and the event loop runs on.
PoolFairSpec ==
    /\ PoolSpec
    /\ \A c \in Callers : WF_connectionVars(CallStep(c))
    /\ \A s \in Sweeps : WF_connectionVars(SweepStep(s))

-----------------------------------------------------------------------------
(***************************************************************************)
(* pool.ts lines 7-9: concurrent calls for an id share one connect().      *)
(***************************************************************************)
SharedConnect ==
    \A c, d \in Callers :
        /\ {place[c], place[d]} \subseteq {"evictLRU", "connecting", "audit"}
        /\ want[c] = want[d]
        => c = d

(***************************************************************************)
(* As long as no two connects overlap, the pool stays within its cap       *)
(* (docs/specs/SPEC-001-2-03 line 94 promises it without the proviso; the  *)
(* size is compared before connect() and the entry inserted after it).     *)
(***************************************************************************)
CapUnlessOverlap == overlapped \/ Cardinality(Pooled) <= MaxConnections

(***************************************************************************)
(* A pooled connection has not been disconnected, whoever evicts while     *)
(* others connect; its connect was shared, and there are not too many.     *)
(***************************************************************************)
PooledIsOpen ==
    /\ PoolTypeOK
    /\ \A id \in Pooled : conn[entries[id]] = "open"
    /\ SharedConnect
    /\ CapUnlessOverlap

(***************************************************************************)
(* No open connection is lost: it is pooled or about to be disconnected.   *)
(* A call that evicted a stale entry does not look for the successor that  *)
(* another call pooled meanwhile, and replaces it; hence the proviso.      *)
(***************************************************************************)
NoLeak ==
    raced \/ \A c \in Callers :
        conn[c] = "open" => \/ entries[want[c]] = c
                            \/ \E p \in Callers \cup Sweeps : closing[p] = c

(***************************************************************************)
(* Every getConnection settles, whatever fails and whoever evicts.         *)
(***************************************************************************)
CallsReturn == \A c \in Callers : place[c] # "idle" ~> place[c] \in {"done", "failed"}
=============================================================================
