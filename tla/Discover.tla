------------------------------ MODULE Discover ------------------------------
(***************************************************************************)
(* Scanning with the operator's consent: the `discover` command over       *)
(* ConsentManager, PlatformProber and InventoryManager, beside another     *)
(* process that runs `consent grant`, `consent revoke` or `inventory       *)
(* remove`.                                                                *)
(*                                                                         *)
(* network_consent.yaml and inventory.yaml are read whole, changed and     *)
(* written whole, each under a mutex of one process: here every process    *)
(* runs one command, so the mutexes exclude nobody.                        *)
(*                                                                         *)
(* Abstractions: a range is a set of hosts and the one host whose consent  *)
(* is looked up; a network is its fingerprint; a platform is the host and  *)
(* port that answered.  Consents are for http probes.  The consents are    *)
(* the set of the file's entries: each is appended to entries given before *)
(* it, so their order in the file is the order of their ids.  Audit        *)
(* entries whose failure ends a call leave the files as a crash would      *)
(* (Crash).                                                                *)
(***************************************************************************)
EXTENDS Naturals, Sequences, SequencesExt, FiniteSets

CONSTANTS
  Ranges,       \* CIDRs
  HostsOf,      \* enumerateHosts of each
  FirstOf,      \* firstHostInCidr of each
  Ports,        \* the ports of the fingerprint catalogue
  PortLists,    \* the ports an operator may list in `consent grant`
  Answering,    \* the hosts and ports at which a platform may answer
  Networks, Home,
  Concurrency,  \* in-flight probes
  Lifetime,     \* defaultExpiryDays
  MaxTime,      \* bound: the last instant
  MaxRuns,      \* bound: runs of `discover`
  MaxCommands,  \* bound: runs of the other commands
  MaxEvents     \* bound: changes of network and killed commands

ASSUME DiscoverAssumption ==
  /\ \A r \in Ranges : FirstOf[r] \in HostsOf[r]
  /\ IsFiniteSet(UNION {HostsOf[r] : r \in Ranges}) /\ IsFiniteSet(Ports)
  /\ Answering \subseteq (UNION {HostsOf[r] : r \in Ranges}) \X Ports
  /\ PortLists \subseteq SUBSET Ports /\ Home \in Networks /\ Concurrency \in Nat \ {0} /\ Lifetime \in Nat
  /\ {MaxTime, MaxRuns, MaxCommands, MaxEvents} \subseteq Nat

VARIABLES
  now, network,
  consents,   \* network_consent.yaml
  inventory,  \* inventory.yaml
  run,        \* the `discover` command
  probes,     \* its scan: the jobs waiting, woken and in flight, and the matches
  other,      \* the other command
  left,       \* commands and events left
  \* history
  withdrawn,  \* the consents an operator was told are revoked
  found,      \* the platforms recorded and not removed since
  torn        \* the files written over what another process had written

vars == <<now, network, consents, inventory, run, probes, other, left, withdrawn, found, torn>>
history == <<withdrawn, found, torn>>

Hosts == UNION {HostsOf[r] : r \in Ranges}
Jobs == Hosts \X Ports
NoScan == [waiting |-> <<>>, woken |-> {}, flying |-> {}, matches |-> {}]
NoConsent == [id |-> 0]
NoJob == <<"no", "job">>
IdleRun == [at |-> "idle", todo |-> <<>>, single |-> FALSE, prompts |-> FALSE, asked |-> Home,
            new |-> NoConsent, consent |-> NoConsent, base |-> {},
            job |-> NoJob, known |-> FALSE, read |-> {}]
IdleOther == [at |-> "idle", range |-> "none", ports |-> {}, asked |-> Home, new |-> NoConsent,
              base |-> {}, job |-> NoJob, read |-> {}]

Init ==
  /\ now = 0 /\ network = Home
  /\ consents = {} /\ inventory = {}
  /\ run = IdleRun /\ probes = NoScan /\ other = IdleOther
  /\ left = [runs |-> MaxRuns, others |-> MaxCommands, events |-> MaxEvents, ids |-> 0]
  /\ withdrawn = {} /\ found = {} /\ torn = {}

Spend(what) == left[what] > 0 /\ left' = [left EXCEPT ![what] = @ - 1]
Cidr == Head(run.todo)

-----------------------------------------------------------------------------
(* ConsentManager *)

InForce(c) == now < c.expires /\ c.network = network

\* checkConsent: the first entry that covers the host and is in force.
CheckConsent(host) ==
  LET hit == {c \in consents : host \in HostsOf[c.range] /\ InForce(c)}
  IN  IF hit = {} THEN NoConsent ELSE CHOOSE c \in hit : \A d \in hit : c.id <= d.id

\* The consent as it is approved: dated after the answer, for the network
\* that was shown in the question.
Consent(range, ports, asked) ==
  [id |-> left.ids + 1, range |-> range, ports |-> ports, network |-> asked, expires |-> now + Lifetime]

NewId == left' = [left EXCEPT !.ids = @ + 1]

\* A file written over a version its writer has not read.
Tear(file, base, current) == torn' = IF base = current THEN torn ELSE torn \cup {file}

-----------------------------------------------------------------------------
(* `discover`: targets and consent. *)

Start(range, prompts) ==
  /\ run.at = "idle" /\ Spend("runs")
  /\ run' = [IdleRun EXCEPT !.at = "check", !.todo = <<range>>, !.single = TRUE, !.prompts = prompts]
  /\ UNCHANGED <<now, network, consents, inventory, probes, other, history>>

\* Without --cidr: the range of every entry in force.
StartAll(prompts) ==
  /\ run.at = "idle" /\ Spend("runs")
  /\ LET Before(c, d) == c.id < d.id
         eligible == SetToSortSeq({c \in consents : InForce(c)}, Before)
     IN  /\ eligible # <<>>
         /\ run' = [IdleRun EXCEPT !.at = "check", !.prompts = prompts,
                                   !.todo = [i \in DOMAIN eligible |-> eligible[i].range]]
  /\ UNCHANGED <<now, network, consents, inventory, probes, other, history>>

EndRun == run' = IdleRun
\* The next range, or the report.
NextRange ==
  run' = IF Len(run.todo) = 1 THEN IdleRun
         ELSE [IdleRun EXCEPT !.at = "check", !.todo = Tail(run.todo), !.prompts = run.prompts]

\* One for each host and each port of the catalogue that is permitted.
JobsOf(consent) == {job \in Jobs : job[1] \in HostsOf[Cidr] /\ job[2] \in consent.ports}

\* The prober's jobs all ask for the semaphore at once; the first get it.
Ask(consent) ==
  LET jobs == SetToSeq(JobsOf(consent))
      first == IF Len(jobs) < Concurrency THEN Len(jobs) ELSE Concurrency
  IN  probes' = [NoScan EXCEPT !.flying = {jobs[i] : i \in 1 .. first},
                               !.waiting = SubSeq(jobs, first + 1, Len(jobs))]

Scan(consent) ==
  /\ run' = [run EXCEPT !.at = "scan", !.consent = consent]
  /\ Ask(consent)

\* A consent file that cannot be read costs the range.
Check ==
  /\ run.at = "check"
  /\ LET c == CheckConsent(FirstOf[Cidr])
     IN  \/ c # NoConsent /\ Scan(c)
         \/ /\ c = NoConsent /\ ~run.prompts /\ UNCHANGED probes
            /\ IF run.single THEN EndRun ELSE NextRange
         \/ /\ c = NoConsent /\ run.prompts /\ UNCHANGED probes
            /\ run' = [run EXCEPT !.at = "prompt", !.asked = network]
         \/ NextRange /\ UNCHANGED probes
  /\ UNCHANGED <<now, network, consents, inventory, other, left, history>>

\* Rejected: the whole command ends.
Reject ==
  /\ run.at = "prompt" /\ EndRun
  /\ UNCHANGED <<now, network, consents, inventory, probes, other, left, history>>

Approve ==
  /\ run.at = "prompt" /\ NewId
  /\ run' = [run EXCEPT !.at = "save", !.base = consents, !.new = Consent(Cidr, Ports, run.asked)]
  /\ UNCHANGED <<now, network, consents, inventory, probes, other, history>>

Save ==
  /\ run.at = "save"
  /\ consents' = run.base \cup {run.new}
  /\ run' = [run EXCEPT !.at = "recheck", !.base = {}]
  /\ Tear("consents", run.base, consents)
  /\ UNCHANGED <<now, network, inventory, probes, other, left, withdrawn, found>>

\* Bug: the approved consent is used without looking it up again.
RecheckNot ==
  /\ run.at = "recheck" /\ Scan(run.new)
  /\ UNCHANGED <<now, network, consents, inventory, other, left, history>>

\* "approved but not retrievable": revoked, expired or on another network by now.
\* Here a file that cannot be read ends the command.
Recheck ==
  /\ run.at = "recheck"
  /\ LET c == CheckConsent(FirstOf[Cidr])
     IN  \/ c # NoConsent /\ Scan(c)
         \/ c = NoConsent /\ NextRange /\ UNCHANGED probes
         \/ EndRun /\ UNCHANGED probes
  /\ UNCHANGED <<now, network, consents, inventory, other, left, history>>

-----------------------------------------------------------------------------
(* `discover`: the prober and its semaphore. *)

\* A waiter that was woken takes its place in flight one microtask later.
Resume(job) ==
  /\ run.at = "scan" /\ job \in probes.woken
  /\ probes' = [probes EXCEPT !.woken = @ \ {job}, !.flying = @ \cup {job}]
  /\ UNCHANGED <<now, network, consents, inventory, run, other, left, history>>

\* Bug: a probe that fails does not give its place to a waiter.
ProbedOnlyMatchReleases(job, match) ==
  /\ run.at = "scan" /\ job \in probes.flying /\ (match => job \in Answering)
  /\ probes' = [probes EXCEPT
       !.flying = @ \ {job},
       !.matches = IF match THEN @ \cup {job} ELSE @,
       !.woken = IF match /\ probes.waiting # <<>> THEN @ \cup {Head(probes.waiting)} ELSE @,
       !.waiting = IF match /\ @ # <<>> THEN Tail(@) ELSE @]
  /\ UNCHANGED <<now, network, consents, inventory, run, other, left, history>>

\* Bug: every waiter is woken.
ProbedWakesAll(job, match) ==
  /\ run.at = "scan" /\ job \in probes.flying /\ (match => job \in Answering)
  /\ probes' = [probes EXCEPT
       !.flying = @ \ {job},
       !.matches = IF match THEN @ \cup {job} ELSE @,
       !.woken = @ \cup ToSet(probes.waiting),
       !.waiting = <<>>]
  /\ UNCHANGED <<now, network, consents, inventory, run, other, left, history>>

\* A probe is answered, or fails or times out; the first waiter is woken.
Probed(job, match) ==
  /\ run.at = "scan" /\ job \in probes.flying /\ (match => job \in Answering)
  /\ probes' = [probes EXCEPT
       !.flying = @ \ {job},
       !.matches = IF match THEN @ \cup {job} ELSE @,
       !.woken = IF probes.waiting # <<>> THEN @ \cup {Head(probes.waiting)} ELSE @,
       !.waiting = IF @ # <<>> THEN Tail(@) ELSE @]
  /\ UNCHANGED <<now, network, consents, inventory, run, other, left, history>>

ScanDone ==
  /\ run.at = "scan" /\ probes.flying = {} /\ probes.woken = {} /\ probes.waiting = <<>>
  /\ run' = [run EXCEPT !.at = "record"]
  /\ UNCHANGED <<now, network, consents, inventory, probes, other, left, history>>

-----------------------------------------------------------------------------
(* `discover`: the inventory. *)

Lookup(job) ==
  /\ run.at = "record" /\ job \in probes.matches
  /\ run' = [run EXCEPT !.at = "read", !.job = job, !.known = job \in inventory]
  /\ UNCHANGED <<now, network, consents, inventory, probes, other, left, history>>

\* updatePlatform throws NOT_FOUND and addPlatform DUPLICATE_ID when another
\* process came first; either ends the command.
Read ==
  /\ run.at = "read"
  /\ IF run.known = (run.job \in inventory)
     THEN run' = [run EXCEPT !.at = "write", !.read = inventory] /\ UNCHANGED probes
     ELSE EndRun /\ probes' = NoScan
  /\ UNCHANGED <<now, network, consents, inventory, other, left, history>>

\* Bug: what was read is written back without the platform.
WriteLost ==
  /\ run.at = "write"
  /\ inventory' = IF run.known THEN run.read ELSE run.read \ {run.job}
  /\ run' = [run EXCEPT !.at = "record", !.job = NoJob, !.known = FALSE, !.read = {}]
  /\ probes' = [probes EXCEPT !.matches = @ \ {run.job}]
  /\ found' = found \cup {run.job}
  /\ Tear("inventory", run.read, inventory)
  /\ UNCHANGED <<now, network, consents, other, left, withdrawn>>

Write ==
  /\ run.at = "write"
  /\ inventory' = run.read \cup {run.job}
  /\ run' = [run EXCEPT !.at = "record", !.job = NoJob, !.known = FALSE, !.read = {}]
  /\ probes' = [probes EXCEPT !.matches = @ \ {run.job}]
  /\ found' = found \cup {run.job}
  /\ Tear("inventory", run.read, inventory)
  /\ UNCHANGED <<now, network, consents, other, left, withdrawn>>

Recorded ==
  /\ run.at = "record" /\ probes.matches = {}
  /\ NextRange /\ probes' = NoScan
  /\ UNCHANGED <<now, network, consents, inventory, other, left, history>>

-----------------------------------------------------------------------------
(* The other command. *)

Grant(range, ports) ==
  /\ other.at = "idle" /\ Spend("others")
  /\ other' = [IdleOther EXCEPT !.at = "prompt", !.range = range, !.ports = ports, !.asked = network]
  /\ UNCHANGED <<now, network, consents, inventory, run, probes, history>>

GrantRead ==
  /\ other.at = "prompt" /\ NewId
  /\ other' = [other EXCEPT !.at = "grant", !.base = consents,
                            !.new = Consent(other.range, other.ports, other.asked)]
  /\ UNCHANGED <<now, network, consents, inventory, run, probes, history>>

GrantWrite ==
  /\ other.at = "grant"
  /\ consents' = other.base \cup {other.new} /\ other' = IdleOther
  /\ Tear("consents", other.base, consents)
  /\ UNCHANGED <<now, network, inventory, run, probes, left, withdrawn, found>>

Revoke(range) ==
  /\ other.at = "idle" /\ Spend("others")
  /\ \E c \in consents : c.range = range
  /\ other' = [IdleOther EXCEPT !.at = "revoke", !.range = range, !.base = consents]
  /\ UNCHANGED <<now, network, consents, inventory, run, probes, history>>

\* All entries of the range go, as written.
RevokeWrite ==
  /\ other.at = "revoke"
  /\ LET gone == {c \in other.base : c.range = other.range}
     IN  consents' = other.base \ gone /\ withdrawn' = withdrawn \cup {c.id : c \in gone}
  /\ other' = IdleOther
  /\ Tear("consents", other.base, consents)
  /\ UNCHANGED <<now, network, inventory, run, probes, left, found>>

RemovePlatform(job) ==
  /\ other.at = "idle" /\ job \in inventory /\ Spend("others")
  /\ other' = [IdleOther EXCEPT !.at = "remove", !.job = job, !.read = inventory]
  /\ UNCHANGED <<now, network, consents, inventory, run, probes, history>>

RemovePlatformWrite ==
  /\ other.at = "remove"
  /\ inventory' = other.read \ {other.job}
  /\ other' = IdleOther /\ found' = found \ {other.job}
  /\ Tear("inventory", other.read, inventory)
  /\ UNCHANGED <<now, network, consents, run, probes, left, withdrawn>>

-----------------------------------------------------------------------------
(* The world. *)

Tick ==
  /\ now < MaxTime /\ now' = now + 1
  /\ UNCHANGED <<network, consents, inventory, run, probes, other, left, history>>

Move(n) ==
  /\ n # network /\ Spend("events") /\ network' = n
  /\ UNCHANGED <<now, consents, inventory, run, probes, other, history>>

Crash ==
  /\ Spend("events")
  /\ \/ run.at # "idle" /\ EndRun /\ probes' = NoScan /\ UNCHANGED other
     \/ other.at # "idle" /\ other' = IdleOther /\ UNCHANGED <<run, probes>>
  /\ UNCHANGED <<now, network, consents, inventory, history>>

RunStep ==
  \/ Check \/ Save \/ Recheck \/ ScanDone \/ Read \/ Write \/ Recorded
  \/ \E job \in Jobs : Resume(job) \/ Lookup(job) \/ \E match \in BOOLEAN : Probed(job, match)

Next ==
  \/ RunStep \/ Reject \/ Approve
  \/ \E r \in Ranges, b \in BOOLEAN : Start(r, b)
  \/ \E b \in BOOLEAN : StartAll(b)
  \/ \E r \in Ranges : Revoke(r) \/ \E ports \in PortLists : Grant(r, ports)
  \/ GrantRead \/ GrantWrite \/ RevokeWrite \/ RemovePlatformWrite
  \/ \E job \in Jobs : RemovePlatform(job)
  \/ Tick \/ \E n \in Networks : Move(n)
  \/ Crash

\* The steps of the command are promises that settle (a probe times out);
\* the operator need not answer.
Spec == Init /\ [][Next]_vars /\ WF_vars(RunStep)

-----------------------------------------------------------------------------
\* A scan begins under a consent that is on file for the current network and
\* has not expired or been revoked, however long the operator took to answer
\* and whatever happened meanwhile; its probes keep to the asked range and
\* the consent's ports (checkConsent, runDiscoverBody, PlatformProber.scan).
\* A revocation may be undone by a writer that had read the file before it.
ScanIsApproved ==
  [][run.at # "scan" /\ run'.at = "scan" =>
       LET c == run'.consent
       IN  /\ c.id \in 1 .. left.ids /\ FirstOf[Cidr] \in HostsOf[c.range] /\ InForce(c)
           /\ "consents" \in torn \/ c.id \notin withdrawn
           /\ probes'.flying \cup ToSet(probes'.waiting) \subseteq HostsOf[Cidr] \X c.ports]_vars

\* The semaphore never has more probes in flight than its limit, counting the
\* waiters that were woken and have not resumed (Semaphore.release).
ProbesAreCapped == Cardinality(probes.flying) + Cardinality(probes.woken) <= Concurrency

\* What a run recorded stays in the inventory until it is removed, and what
\* was removed stays away, unless two processes wrote the file at once.
FoundIsKept == "inventory" \in torn \/ found = inventory

\* A run comes to its end, or to a question: no probe waits for a place that
\* nobody gives back (PlatformProber.scan).
RunEnds == run.at # "idle" ~> run.at \in {"idle", "prompt"}

=============================================================================
