-------------------------- MODULE Inventory_proofs --------------------------
(***************************************************************************)
(* Theorems about scans with consent (Discover) and the refresh of the     *)
(* inventory graph (Refresh), for every set of ranges, ports, platforms    *)
(* and entities, every limit of the semaphore and any number of other      *)
(* commands, changes and faults. The two share no name, and each theorem   *)
(* is about one of them.                                                   *)
(***************************************************************************)
EXTENDS Discover, Refresh, FiniteSetTheorems, WellFoundedInduction, TLAPS

-----------------------------------------------------------------------------
(***************************************************************************)
(* Scans with consent.                                                     *)
(***************************************************************************)

\* The places of the semaphore that are taken or promised.
Places(pr) == Cardinality(pr.flying) + Cardinality(pr.woken)

Shape(pr) == pr = [waiting |-> pr.waiting, woken |-> pr.woken, flying |-> pr.flying, matches |-> pr.matches]

Capped ==
  /\ Shape(probes)
  /\ IsFiniteSet(probes.flying) /\ IsFiniteSet(probes.woken)
  /\ Places(probes) <= Concurrency

-----------------------------------------------------------------------------
LEMMA JobsFinite == IsFiniteSet(Jobs)
BY DiscoverAssumption, FS_Product DEF Jobs, Hosts

\* SetToSeq lists a finite set.
LEMMA Listing ==
  ASSUME NEW S, IsFiniteSet(S)
  PROVE  SetToSeq(S) \in Seq(S) /\ Len(SetToSeq(S)) \in Nat
<1> DEFINE n == Cardinality(S)
           Lists(f) == f \in [1 .. n -> S] /\ IsInjective(f)
<1>1. n \in Nat /\ ExistsBijection(1 .. n, S)
  BY FS_CardinalityType
<1>2. PICK f \in Bijection(1 .. n, S) : TRUE
  BY <1>1 DEF ExistsBijection
<1>3. f \in [1 .. n -> S] /\ IsInjective(f)
  BY <1>2 DEF Bijection, Injection
<1>4. SetToSeq(S) \in [1 .. n -> S]
  BY <1>3 DEF SetToSeq
<1>5. SetToSeq(S) \in Seq(S)
  BY <1>1, <1>4
<1> QED
  BY <1>5

\* No more elements than positions.
LEMMA Prefix ==
  ASSUME NEW s, NEW k \in Nat
  PROVE  /\ IsFiniteSet({s[i] : i \in 1 .. k})
         /\ Cardinality({s[i] : i \in 1 .. k}) <= k
<1> DEFINE T == {s[i] : i \in 1 .. k}
           f == [i \in 1 .. k |-> s[i]]
<1>1. f \in Surjection(1 .. k, T)
  BY DEF Surjection
<1>2. IsFiniteSet(1 .. k) /\ Cardinality(1 .. k) = k
  BY FS_Interval
<1>3. IsFiniteSet(T) /\ Cardinality(T) <= Cardinality(1 .. k)
  BY <1>1, <1>2, FS_Surjection
<1> QED
  BY <1>2, <1>3

\* A scan starts with no more probes in flight than the limit.
LEMMA AskCapped ==
  ASSUME NEW consent, Ask(consent)
  PROVE  Capped'
<1> DEFINE jobs == SetToSeq(JobsOf(consent))
           first == IF Len(jobs) < Concurrency THEN Len(jobs) ELSE Concurrency
           T == {jobs[i] : i \in 1 .. first}
<1>1. IsFiniteSet(JobsOf(consent))
  BY JobsFinite, FS_Subset DEF JobsOf
<1>2. first \in Nat /\ first <= Concurrency
  BY <1>1, Listing, DiscoverAssumption
<1>3. IsFiniteSet(T) /\ Cardinality(T) <= first /\ Cardinality(T) \in Nat
  BY <1>2, Prefix, FS_CardinalityType
<1>4. Shape(probes') /\ probes'.flying = T /\ probes'.woken = {}
  BY DEF Ask, NoScan, Shape
<1> QED
  BY <1>2, <1>3, <1>4, FS_EmptySet, DiscoverAssumption DEF Capped, Places

LEMMA NoScanCapped ==
  ASSUME probes' = NoScan
  PROVE  Capped'
BY FS_EmptySet, DiscoverAssumption DEF Capped, Places, NoScan, Shape

LEMMA OneMore ==
  ASSUME NEW S, IsFiniteSet(S), NEW x
  PROVE  /\ IsFiniteSet(S \cup {x})
         /\ Cardinality(S) \in Nat /\ Cardinality(S \cup {x}) \in Nat
         /\ Cardinality(S \cup {x}) <= Cardinality(S) + 1
<1>1. IsFiniteSet(S \cup {x}) /\ Cardinality(S) \in Nat
  BY FS_AddElement, FS_CardinalityType
<1>2. Cardinality(S \cup {x}) = IF x \in S THEN Cardinality(S) ELSE Cardinality(S) + 1
  BY FS_AddElement
<1> QED
  BY <1>1, <1>2

\* A woken waiter takes the place it was promised.
LEMMA ResumeCapped ==
  ASSUME Capped, NEW job, Resume(job)
  PROVE  Capped'
<1>1. /\ job \in probes.woken
      /\ Shape(probes')
      /\ probes'.flying = probes.flying \cup {job}
      /\ probes'.woken = probes.woken \ {job}
  BY DEF Resume, Capped, Shape
<1>2. /\ IsFiniteSet(probes'.flying) /\ Cardinality(probes'.flying) <= Cardinality(probes.flying) + 1
      /\ Cardinality(probes'.flying) \in Nat /\ Cardinality(probes.flying) \in Nat
  <2>1. IsFiniteSet(probes.flying)
    BY DEF Capped
  <2>2. /\ IsFiniteSet(probes.flying \cup {job}) /\ Cardinality(probes.flying) \in Nat
        /\ Cardinality(probes.flying \cup {job}) \in Nat
        /\ Cardinality(probes.flying \cup {job}) <= Cardinality(probes.flying) + 1
    BY <2>1, OneMore
  <2> QED
    BY <1>1, <2>2
<1>3. /\ IsFiniteSet(probes'.woken) /\ Cardinality(probes'.woken) = Cardinality(probes.woken) - 1
      /\ Cardinality(probes'.woken) \in Nat /\ Cardinality(probes.woken) \in Nat
  BY <1>1, FS_RemoveElement, FS_CardinalityType DEF Capped
<1> QED
  BY <1>1, <1>2, <1>3, DiscoverAssumption DEF Capped, Places

\* A probe that ends gives its place to at most one waiter.
LEMMA ProbedCapped ==
  ASSUME Capped, NEW job, NEW match, Probed(job, match)
  PROVE  Capped'
<1>1. /\ job \in probes.flying
      /\ Shape(probes')
      /\ probes'.flying = probes.flying \ {job}
      /\ probes'.woken = IF probes.waiting # <<>> THEN probes.woken \cup {Head(probes.waiting)}
                                                   ELSE probes.woken
  BY DEF Probed, Capped, Shape
<1>2. /\ IsFiniteSet(probes'.flying) /\ Cardinality(probes'.flying) = Cardinality(probes.flying) - 1
      /\ Cardinality(probes'.flying) \in Nat /\ Cardinality(probes.flying) \in Nat
  BY <1>1, FS_RemoveElement, FS_CardinalityType DEF Capped
<1>3. /\ IsFiniteSet(probes'.woken) /\ Cardinality(probes'.woken) <= Cardinality(probes.woken) + 1
      /\ Cardinality(probes'.woken) \in Nat /\ Cardinality(probes.woken) \in Nat
  <2>1. CASE probes'.woken = probes.woken
    BY <2>1, FS_CardinalityType DEF Capped
  <2>2. ASSUME NEW w, probes'.woken = probes.woken \cup {w} PROVE <1>3!:
    BY <2>2, OneMore DEF Capped
  <2> QED
    BY <1>1, <2>1, <2>2
<1> QED
  BY <1>1, <1>2, <1>3, DiscoverAssumption DEF Capped, Places

LEMMA StepCapped == Capped /\ [Next]_vars => Capped'
<1> SUFFICES ASSUME Capped, [Next]_vars PROVE Capped'
  OBVIOUS
<1>1. CASE UNCHANGED probes
  BY <1>1 DEF Capped, Places
<1>2. CASE Check
  <2>1. UNCHANGED probes \/ \E consent : Ask(consent)
    BY <1>2 DEF Check, Scan
  <2> QED
    BY <1>1, <2>1, AskCapped
<1>3. CASE Recheck
  <2>1. UNCHANGED probes \/ \E consent : Ask(consent)
    BY <1>3 DEF Recheck, Scan
  <2> QED
    BY <1>1, <2>1, AskCapped
<1>4. ASSUME NEW job \in Jobs, Resume(job) PROVE Capped'
  BY <1>4, ResumeCapped
<1>5. ASSUME NEW job \in Jobs, NEW match \in BOOLEAN, Probed(job, match) PROVE Capped'
  BY <1>5, ProbedCapped
<1>6. CASE Read \/ Recorded \/ Crash
  BY <1>1, <1>6, NoScanCapped DEF Read, Recorded, Crash
<1>7. CASE Write
  <2>1. Shape(probes') /\ probes'.flying = probes.flying /\ probes'.woken = probes.woken
    BY <1>7 DEF Write, Capped, Shape
  <2> QED
    BY <2>1 DEF Capped, Places
<1>8. CASE Save \/ ScanDone \/ Reject \/ Approve \/ GrantRead \/ GrantWrite
            \/ RevokeWrite \/ RemovePlatformWrite \/ Tick
  BY <1>1, <1>8 DEF Save, ScanDone, Reject, Approve, GrantRead, GrantWrite, RevokeWrite,
                    RemovePlatformWrite, Tick
<1>9. ASSUME NEW job \in Jobs, Lookup(job) \/ RemovePlatform(job) PROVE Capped'
  BY <1>1, <1>9 DEF Lookup, RemovePlatform
<1>10. ASSUME NEW r \in Ranges, NEW b \in BOOLEAN, Start(r, b) PROVE Capped'
  BY <1>1, <1>10 DEF Start
<1>11. ASSUME NEW r \in Ranges, NEW ports \in PortLists, Grant(r, ports) PROVE Capped'
  BY <1>1, <1>11 DEF Grant
<1>12. ASSUME NEW n \in Networks, Move(n) PROVE Capped'
  BY <1>1, <1>12 DEF Move
<1>13. ASSUME NEW b \in BOOLEAN, StartAll(b) PROVE Capped'
  BY <1>1, <1>13 DEF StartAll
<1>14. ASSUME NEW r \in Ranges, Revoke(r) PROVE Capped'
  BY <1>1, <1>14 DEF Revoke
<1>15. CASE UNCHANGED vars
  BY <1>1, <1>15 DEF vars
<1> QED
  BY <1>2, <1>3, <1>4, <1>5, <1>6, <1>7, <1>8, <1>9, <1>10, <1>11, <1>12, <1>13, <1>14, <1>15
  DEF Next, RunStep

(***************************************************************************)
(* The semaphore of the prober (discovery/prober.ts 92-118): probes in     *)
(* flight and waiters that were woken never exceed the limit, for every    *)
(* range, every permitted port and every limit.                            *)
(***************************************************************************)
THEOREM SemaphoreHolds == Spec => []ProbesAreCapped
<1>1. Init => Capped
  BY FS_EmptySet, DiscoverAssumption DEF Init, NoScan, Capped, Places, Shape
<1>2. Capped => ProbesAreCapped
  BY DEF Capped, Places, ProbesAreCapped
<1> QED
  BY <1>1, <1>2, StepCapped, PTL DEF Spec

-----------------------------------------------------------------------------
\* A step that does not write the inventory leaves the proviso and the claim.
LEMMA StepFound == FoundIsKept /\ [Next]_vars => FoundIsKept'
<1> SUFFICES ASSUME FoundIsKept, [Next]_vars PROVE FoundIsKept'
  OBVIOUS
<1> USE DEF FoundIsKept
<1>1. CASE UNCHANGED <<inventory, found>> /\ torn \subseteq torn'
  BY <1>1
<1>2. CASE Write
  BY <1>2 DEF Write, Tear
<1>3. CASE RemovePlatformWrite
  BY <1>3 DEF RemovePlatformWrite, Tear
<1>4. CASE Save \/ GrantWrite \/ RevokeWrite
  BY <1>1, <1>4 DEF Save, GrantWrite, RevokeWrite, Tear
<1>5. CASE Check \/ Recheck \/ Read \/ Recorded \/ Crash \/ ScanDone \/ Reject \/ Approve
            \/ GrantRead \/ Tick
  BY <1>1, <1>5 DEF Check, Recheck, Read, Recorded, Crash, ScanDone, Reject, Approve,
                    GrantRead, Tick, history
<1>6. ASSUME NEW job \in Jobs, Resume(job) \/ Lookup(job) \/ RemovePlatform(job)
      PROVE  FoundIsKept'
  BY <1>1, <1>6 DEF Resume, Lookup, RemovePlatform, history
<1>7. ASSUME NEW job \in Jobs, NEW match \in BOOLEAN, Probed(job, match) PROVE FoundIsKept'
  BY <1>1, <1>7 DEF Probed, history
<1>8. ASSUME NEW r \in Ranges, NEW b \in BOOLEAN, Start(r, b) PROVE FoundIsKept'
  BY <1>1, <1>8 DEF Start, history
<1>9. ASSUME NEW b \in BOOLEAN, StartAll(b) PROVE FoundIsKept'
  BY <1>1, <1>9 DEF StartAll, history
<1>10. ASSUME NEW r \in Ranges, Revoke(r) PROVE FoundIsKept'
  BY <1>1, <1>10 DEF Revoke, history
<1>11. ASSUME NEW r \in Ranges, NEW ports \in PortLists, Grant(r, ports) PROVE FoundIsKept'
  BY <1>1, <1>11 DEF Grant, history
<1>12. ASSUME NEW n \in Networks, Move(n) PROVE FoundIsKept'
  BY <1>1, <1>12 DEF Move, history
<1>13. CASE UNCHANGED vars
  BY <1>1, <1>13 DEF vars
<1> QED
  BY <1>2, <1>3, <1>4, <1>5, <1>6, <1>7, <1>8, <1>9, <1>10, <1>11, <1>12, <1>13
  DEF Next, RunStep

(***************************************************************************)
(* discover and inventory remove (cli/commands/discover.ts 320-372,        *)
(* discovery/inventory.ts): what a run recorded stays until it is removed  *)
(* and what was removed stays away, whatever is killed in between, unless  *)
(* two processes wrote the file from the same reading of it.               *)
(***************************************************************************)
THEOREM FindingsStay == Spec => []FoundIsKept
<1>1. Init => FoundIsKept
  BY DEF Init, FoundIsKept
<1> QED
  BY <1>1, StepFound, PTL DEF Spec

-----------------------------------------------------------------------------
(***************************************************************************)
(* Which consent a scan begins under.  An entry is told by its id, which   *)
(* no other entry has had: so an entry that stays in the file when others  *)
(* are withdrawn has none of their ids, and an entry still to be written   *)
(* is not among those withdrawn meanwhile.                                 *)
(***************************************************************************)
Ids(file) == {c.id : c \in file}
Distinct(file) == \A c, d \in file : c.id = d.id => c = d
Given == 1 .. left.ids
Seen == Ids(consents) \cup Ids(run.base) \cup Ids(other.base) \cup withdrawn

RunShape(r) == r = [at |-> r.at, todo |-> r.todo, single |-> r.single, prompts |-> r.prompts,
                    asked |-> r.asked, new |-> r.new, consent |-> r.consent, base |-> r.base,
                    job |-> r.job, known |-> r.known, read |-> r.read]
OtherShape(o) == o = [at |-> o.at, range |-> o.range, ports |-> o.ports, asked |-> o.asked,
                      new |-> o.new, base |-> o.base, job |-> o.job, read |-> o.read]
Shapes ==
  /\ left \in [{"runs", "others", "events", "ids"} -> Nat]
  /\ RunShape(run) /\ OtherShape(other)

NewIds ==
  /\ Seen \subseteq Given
  /\ run.at = "save" => run.new.id \in Given \ Seen
  /\ other.at = "grant" => other.new.id \in Given \ Seen
  /\ run.at = "save" /\ other.at = "grant" => run.new.id # other.new.id

InFile ==
  /\ Distinct(consents) /\ Distinct(run.base) /\ Distinct(other.base)
  /\ "consents" \in torn \/ Ids(consents) \cap withdrawn = {}

ConsentInv == Shapes /\ NewIds /\ InFile

\* What a step of `discover` leaves of the command when it writes no consent.
RunMoves ==
  /\ RunShape(run')
  /\ run'.at # "save"
  /\ run'.base = {} \/ run'.base = run.base
OtherMoves ==
  /\ OtherShape(other')
  /\ other'.at # "grant"
  /\ other'.base \in {{}, other.base, consents}
FilesStay ==
  consents' = consents /\ withdrawn' = withdrawn /\ ("consents" \in torn => "consents" \in torn')
LeftMoves == left' \in [{"runs", "others", "events", "ids"} -> Nat] /\ left'.ids = left.ids

-----------------------------------------------------------------------------
LEMMA Spent ==
  ASSUME Shapes, NEW what \in {"runs", "others", "events"}, Spend(what)
  PROVE  LeftMoves
BY DEF Shapes, Spend, LeftMoves

LEMMA LeftStays ==
  ASSUME Shapes, left' = left
  PROVE  LeftMoves
BY DEF Shapes, LeftMoves

LEMMA RunEnding ==
  ASSUME run' = IdleRun
  PROVE  RunMoves
BY DEF IdleRun, RunMoves, RunShape

LEMMA RunNext ==
  ASSUME NextRange
  PROVE  RunMoves /\ run'.at # "scan"
BY DEF NextRange, IdleRun, RunMoves, RunShape

\* No step but these four touches a file, a pending entry or an id.
LEMMA Elsewhere ==
  ASSUME ConsentInv, LeftMoves, FilesStay,
         run' = run \/ RunMoves,
         other' = other \/ OtherMoves
  PROVE  ConsentInv'
<1>1. RunShape(run') /\ OtherShape(other') /\ left' \in [{"runs", "others", "events", "ids"} -> Nat]
  BY DEF ConsentInv, Shapes, RunMoves, OtherMoves, LeftMoves
<1>2. Given' = Given
  BY DEF LeftMoves, Given
<1>3. /\ run'.base \in {run.base, {}}
      /\ run'.at = "save" => run' = run
      /\ other'.base \in {other.base, {}, consents}
      /\ other'.at = "grant" => other' = other
  BY DEF RunMoves, OtherMoves
<1>4. Seen' \subseteq Seen
  BY <1>3 DEF Seen, Ids, FilesStay
<1>5. NewIds'
  BY <1>2, <1>3, <1>4 DEF ConsentInv, NewIds
<1>6. InFile'
  BY <1>3 DEF ConsentInv, InFile, FilesStay, Distinct, Ids
<1> QED
  BY <1>1, <1>5, <1>6 DEF ConsentInv, Shapes


\* A consent that is approved gets the next id, which nobody has had.
LEMMA ApproveKeeps ==
  ASSUME ConsentInv, Approve
  PROVE  ConsentInv'
<1>1. /\ run.at = "prompt" /\ other' = other /\ FilesStay
      /\ left' = [left EXCEPT !.ids = @ + 1]
  BY DEF Approve, NewId, FilesStay, history
<1>2. /\ left' \in [{"runs", "others", "events", "ids"} -> Nat]
      /\ left'.ids = left.ids + 1 /\ left.ids \in Nat
  BY <1>1 DEF ConsentInv, Shapes
<1>3. Given \subseteq Given' /\ left'.ids \in Given' \ Given
  BY <1>2 DEF Given
<1>4. run'.new.id = left.ids + 1
  BY DEF Approve, Consent, ConsentInv, Shapes, RunShape
<1>5. RunShape(run') /\ run'.base = consents
  BY DEF Approve, ConsentInv, Shapes, RunShape
<1>6. Seen' \subseteq Seen
  BY <1>1, <1>5 DEF Seen, Ids, FilesStay
<1>7. NewIds'
  BY <1>1, <1>2, <1>3, <1>4, <1>6 DEF ConsentInv, NewIds
<1>8. InFile'
  BY <1>1, <1>5 DEF ConsentInv, InFile, FilesStay, Distinct, Ids
<1> QED
  BY <1>1, <1>2, <1>5, <1>7, <1>8 DEF ConsentInv, Shapes

LEMMA GrantReadKeeps ==
  ASSUME ConsentInv, GrantRead
  PROVE  ConsentInv'
<1>1. /\ other.at = "prompt" /\ run' = run /\ FilesStay
      /\ left' = [left EXCEPT !.ids = @ + 1]
  BY DEF GrantRead, NewId, FilesStay, history
<1>2. /\ left' \in [{"runs", "others", "events", "ids"} -> Nat]
      /\ left'.ids = left.ids + 1 /\ left.ids \in Nat
  BY <1>1 DEF ConsentInv, Shapes
<1>3. Given \subseteq Given' /\ left'.ids \in Given' \ Given
  BY <1>2 DEF Given
<1>4. other'.new.id = left.ids + 1
  BY DEF GrantRead, Consent, ConsentInv, Shapes, OtherShape
<1>5. OtherShape(other') /\ other'.base = consents
  BY DEF GrantRead, ConsentInv, Shapes, OtherShape
<1>6. Seen' \subseteq Seen
  BY <1>1, <1>5 DEF Seen, Ids, FilesStay
<1>7. NewIds'
  BY <1>1, <1>2, <1>3, <1>4, <1>6 DEF ConsentInv, NewIds
<1>8. InFile'
  BY <1>1, <1>5 DEF ConsentInv, InFile, FilesStay, Distinct, Ids
<1> QED
  BY <1>1, <1>2, <1>5, <1>7, <1>8 DEF ConsentInv, Shapes

\* One more entry, whose id the others have not.
LEMMA DistinctMore ==
  ASSUME NEW file, Distinct(file), NEW c, c.id \notin Ids(file)
  PROVE  Distinct(file \cup {c}) /\ Ids(file \cup {c}) = Ids(file) \cup {c.id}
BY DEF Distinct, Ids

LEMMA SaveKeeps ==
  ASSUME ConsentInv, Save
  PROVE  ConsentInv'
<1>1. /\ run.at = "save" /\ other' = other /\ left' = left /\ withdrawn' = withdrawn
      /\ consents' = run.base \cup {run.new}
      /\ torn' = IF run.base = consents THEN torn ELSE torn \cup {"consents"}
  BY DEF Save, Tear
<1>2. RunShape(run') /\ run'.at = "recheck" /\ run'.base = {}
  BY DEF Save, ConsentInv, Shapes, RunShape
<1>3. run.new.id \in Given \ Seen /\ Seen \subseteq Given /\ Given' = Given
  BY <1>1 DEF ConsentInv, NewIds, Given
<1>4. Distinct(consents') /\ Ids(consents') = Ids(run.base) \cup {run.new.id}
  BY <1>1, <1>3, DistinctMore DEF ConsentInv, InFile, Seen
<1>5. Seen' \subseteq Seen \cup {run.new.id}
  BY <1>1, <1>2, <1>4 DEF Seen, Ids
<1>6. NewIds'
  BY <1>1, <1>2, <1>3, <1>5 DEF ConsentInv, NewIds
<1>7. "consents" \in torn' \/ Ids(consents') \cap withdrawn' = {}
  BY <1>1, <1>3, <1>4 DEF ConsentInv, InFile, Seen
<1>8. InFile'
  BY <1>1, <1>2, <1>4, <1>7 DEF ConsentInv, InFile, Distinct
<1> QED
  BY <1>1, <1>2, <1>6, <1>8 DEF ConsentInv, Shapes

LEMMA GrantWriteKeeps ==
  ASSUME ConsentInv, GrantWrite
  PROVE  ConsentInv'
<1>1. /\ other.at = "grant" /\ run' = run /\ left' = left /\ withdrawn' = withdrawn
      /\ consents' = other.base \cup {other.new}
      /\ torn' = IF other.base = consents THEN torn ELSE torn \cup {"consents"}
  BY DEF GrantWrite, Tear
<1>2. OtherShape(other') /\ other'.at = "idle" /\ other'.base = {}
  BY DEF GrantWrite, IdleOther, OtherShape
<1>3. other.new.id \in Given \ Seen /\ Seen \subseteq Given /\ Given' = Given
  BY <1>1 DEF ConsentInv, NewIds, Given
<1>4. Distinct(consents') /\ Ids(consents') = Ids(other.base) \cup {other.new.id}
  BY <1>1, <1>3, DistinctMore DEF ConsentInv, InFile, Seen
<1>5. Seen' \subseteq Seen \cup {other.new.id}
  BY <1>1, <1>2, <1>4 DEF Seen, Ids
<1>6. NewIds'
  BY <1>1, <1>2, <1>3, <1>5 DEF ConsentInv, NewIds
<1>7. "consents" \in torn' \/ Ids(consents') \cap withdrawn' = {}
  BY <1>1, <1>3, <1>4 DEF ConsentInv, InFile, Seen
<1>8. InFile'
  BY <1>1, <1>2, <1>4, <1>7 DEF ConsentInv, InFile, Distinct
<1> QED
  BY <1>1, <1>2, <1>6, <1>8 DEF ConsentInv, Shapes

\* What is withdrawn leaves the file, and nothing that stays has its id.
LEMMA RevokeWriteKeeps ==
  ASSUME ConsentInv, RevokeWrite
  PROVE  ConsentInv'
<1> DEFINE gone == {c \in other.base : c.range = other.range}
<1>1. /\ other.at = "revoke" /\ run' = run /\ left' = left
      /\ consents' = other.base \ gone /\ withdrawn' = withdrawn \cup Ids(gone)
      /\ torn' = IF other.base = consents THEN torn ELSE torn \cup {"consents"}
  BY DEF RevokeWrite, Tear, Ids
<1>2. OtherShape(other') /\ other'.at = "idle" /\ other'.base = {}
  BY DEF RevokeWrite, IdleOther, OtherShape
<1>3. Distinct(other.base)
  BY DEF ConsentInv, InFile
<1>4. Distinct(consents') /\ Ids(consents') \subseteq Ids(other.base) /\ Ids(gone) \subseteq Ids(other.base)
  BY <1>1, <1>3 DEF Distinct, Ids
<1>5. Ids(consents') \cap Ids(gone) = {}
  BY <1>1, <1>3 DEF Distinct, Ids
<1>6. Seen' \subseteq Seen /\ Given' = Given
  BY <1>1, <1>2, <1>4 DEF Seen, Ids, Given
<1>7. NewIds'
  BY <1>1, <1>2, <1>6 DEF ConsentInv, NewIds
<1>8. "consents" \in torn' \/ Ids(consents') \cap withdrawn' = {}
  BY <1>1, <1>4, <1>5 DEF ConsentInv, InFile
<1>9. InFile'
  BY <1>1, <1>2, <1>4, <1>8 DEF ConsentInv, InFile, Distinct
<1> QED
  BY <1>1, <1>2, <1>7, <1>9 DEF ConsentInv, Shapes

\* The steps of `discover` that write neither a consent nor an id.
LEMMA RunKeeps ==
  ASSUME ConsentInv,
         \/ Check \/ Recheck \/ Reject \/ ScanDone \/ Read \/ Write \/ Recorded
         \/ \E job \in Jobs : Resume(job) \/ Lookup(job) \/ \E match \in BOOLEAN : Probed(job, match)
  PROVE  ConsentInv'
<1>1. FilesStay /\ left' = left /\ other' = other
  BY DEF Check, Recheck, Reject, ScanDone, Read, Write, Recorded, Resume, Lookup, Probed, FilesStay, history, Tear
<1>2. run' = run \/ RunMoves
  <2> USE DEF ConsentInv, Shapes, RunShape, RunMoves
  <2>1. CASE Check
    <3> DEFINE c == CheckConsent(FirstOf[Cidr])
    <3>1. CASE Scan(c)
      BY <2>1, <3>1 DEF Check, Scan
    <3>2. CASE EndRun
      BY <3>2, RunEnding DEF EndRun
    <3>3. CASE NextRange
      BY <3>3, RunNext
    <3>4. CASE run' = [run EXCEPT !.at = "prompt", !.asked = network]
      BY <3>4
    <3>5. Scan(c) \/ EndRun \/ NextRange \/ run' = [run EXCEPT !.at = "prompt", !.asked = network]
      <4> HIDE DEF c
      <4> QED
        BY <2>1 DEF Check, c
    <3> QED
      BY <3>1, <3>2, <3>3, <3>4, <3>5
  <2>2. CASE Recheck
    BY <2>2, RunNext, RunEnding DEF Recheck, Scan, EndRun
  <2>3. CASE Reject \/ Recorded \/ Read
    BY <2>3, RunEnding, RunNext DEF Reject, Recorded, Read, EndRun
  <2>4. CASE ScanDone \/ Write
    BY <2>4 DEF ScanDone, Write
  <2>5. CASE \E job \in Jobs : Resume(job) \/ Lookup(job) \/ \E match \in BOOLEAN : Probed(job, match)
    BY <2>5 DEF Resume, Lookup, Probed
  <2> QED
    BY <2>1, <2>2, <2>3, <2>4, <2>5
<1> QED
  BY <1>1, <1>2, LeftStays, Elsewhere DEF ConsentInv

LEMMA StepConsents == ConsentInv /\ [Next]_vars => ConsentInv'
<1> SUFFICES ASSUME ConsentInv, [Next]_vars PROVE ConsentInv'
  OBVIOUS
<1> USE DEF FilesStay, history
<1>1. CASE RunStep \/ Reject
  BY <1>1, RunKeeps, SaveKeeps DEF RunStep
<1>2. CASE Approve \/ GrantRead \/ GrantWrite \/ RevokeWrite
  BY <1>2, ApproveKeeps, GrantReadKeeps, GrantWriteKeeps, RevokeWriteKeeps
<1>3. ASSUME NEW r \in Ranges, NEW b \in BOOLEAN, Start(r, b) PROVE ConsentInv'
  <2>1. LeftMoves /\ FilesStay /\ other' = other
    BY <1>3, Spent DEF Start, ConsentInv
  <2>2. RunMoves
    BY <1>3 DEF Start, IdleRun, RunMoves, RunShape
  <2> QED
    BY <2>1, <2>2, Elsewhere
<1>4. ASSUME NEW b \in BOOLEAN, StartAll(b) PROVE ConsentInv'
  <2>1. LeftMoves /\ FilesStay /\ other' = other
    BY <1>4, Spent DEF StartAll, ConsentInv
  <2>2. PICK list : run' = [IdleRun EXCEPT !.at = "check", !.prompts = b, !.todo = list]
    BY <1>4 DEF StartAll
  <2>3. RunMoves
    BY <2>2 DEF IdleRun, RunMoves, RunShape
  <2> QED
    BY <2>1, <2>3, Elsewhere
<1>5. ASSUME NEW r \in Ranges, NEW ports \in PortLists, Grant(r, ports) PROVE ConsentInv'
  <2>1. LeftMoves /\ FilesStay /\ run' = run
    BY <1>5, Spent DEF Grant, ConsentInv
  <2>2. OtherMoves
    BY <1>5 DEF Grant, IdleOther, OtherMoves, OtherShape
  <2> QED
    BY <2>1, <2>2, Elsewhere
<1>6. ASSUME NEW r \in Ranges, Revoke(r) PROVE ConsentInv'
  <2>1. LeftMoves /\ FilesStay /\ run' = run
    BY <1>6, Spent DEF Revoke, ConsentInv
  <2>2. OtherMoves
    BY <1>6 DEF Revoke, IdleOther, OtherMoves, OtherShape
  <2> QED
    BY <2>1, <2>2, Elsewhere
<1>7. ASSUME NEW job \in Jobs, RemovePlatform(job) PROVE ConsentInv'
  <2>1. LeftMoves /\ FilesStay /\ run' = run
    BY <1>7, Spent DEF RemovePlatform, ConsentInv
  <2>2. OtherMoves
    BY <1>7 DEF RemovePlatform, IdleOther, OtherMoves, OtherShape
  <2> QED
    BY <2>1, <2>2, Elsewhere
<1>8. CASE RemovePlatformWrite
  <2>1. LeftMoves /\ FilesStay /\ run' = run
    BY <1>8, LeftStays DEF RemovePlatformWrite, ConsentInv, Tear
  <2>2. OtherMoves
    BY <1>8 DEF RemovePlatformWrite, IdleOther, OtherMoves, OtherShape
  <2> QED
    BY <2>1, <2>2, Elsewhere
<1>9. CASE Tick
  BY <1>9, LeftStays, Elsewhere DEF Tick, ConsentInv
<1>10. ASSUME NEW n \in Networks, Move(n) PROVE ConsentInv'
  BY <1>10, Spent, Elsewhere DEF Move, ConsentInv
<1>11. CASE Crash
  <2>1. LeftMoves /\ FilesStay
    BY <1>11, Spent DEF Crash, ConsentInv
  <2>2. (run' = run \/ RunMoves) /\ (other' = other \/ OtherMoves)
    BY <1>11, RunEnding DEF Crash, EndRun, IdleOther, OtherMoves, OtherShape
  <2> QED
    BY <2>1, <2>2, Elsewhere
<1>12. CASE UNCHANGED vars
  BY <1>12, LeftStays, Elsewhere DEF vars, ConsentInv
<1> QED
  BY <1>1, <1>2, <1>3, <1>4, <1>5, <1>6, <1>7, <1>8, <1>9, <1>10, <1>11, <1>12 DEF Next

-----------------------------------------------------------------------------
\* Every set of naturals has a least element.
LEMMA LeastNat ==
  ASSUME NEW T, T \subseteq Nat, T # {}
  PROVE  \E m \in T : \A n \in T : m <= n
<1> DEFINE Less == {p \in Nat \X Nat : p[1] < p[2]}
<1>1. IsWellFoundedOn(Less, Nat)
  BY NatLessThanWellFounded DEF OpToRel
<1>2. PICK m \in T : \A n \in T : <<n, m>> \notin Less
  BY <1>1, WFMin
<1>3. ASSUME NEW n \in T PROVE m <= n
  <2>1. <<n, m>> \notin Less
    BY <1>2
  <2>2. ~(n < m)
    BY <2>1
  <2> QED
    BY <2>2
<1> QED
  BY <1>3

\* What checkConsent answers is on file, covers the host and is in force.
LEMMA Checked ==
  ASSUME ConsentInv, NEW host, CheckConsent(host) # NoConsent
  PROVE  /\ CheckConsent(host) \in consents
         /\ host \in HostsOf[CheckConsent(host).range] /\ InForce(CheckConsent(host))
<1> DEFINE hit == {c \in consents : host \in HostsOf[c.range] /\ InForce(c)}
<1>1. hit # {} /\ CheckConsent(host) = CHOOSE c \in hit : \A d \in hit : c.id <= d.id
  BY DEF CheckConsent
<1>2. Ids(hit) \subseteq Nat /\ Ids(hit) # {}
  BY <1>1 DEF ConsentInv, NewIds, Seen, Ids, Given
<1>3. PICK m \in Ids(hit) : \A n \in Ids(hit) : m <= n
  BY <1>2, LeastNat
<1>4. \E c \in hit : \A d \in hit : c.id <= d.id
  BY <1>3 DEF Ids
<1> QED
  BY <1>1, <1>4

LEMMA Elements ==
  ASSUME NEW S, NEW s \in Seq(S)
  PROVE  ToSet(s) \subseteq S
BY DEF ToSet

\* The prober asks for the jobs the consent permits, and for no others.
LEMMA AskedJobs ==
  ASSUME NEW consent, Ask(consent)
  PROVE  probes'.flying \cup ToSet(probes'.waiting) \subseteq JobsOf(consent)
<1> DEFINE S == JobsOf(consent)
           jobs == SetToSeq(S)
           first == IF Len(jobs) < Concurrency THEN Len(jobs) ELSE Concurrency
<1>1. IsFiniteSet(S)
  BY JobsFinite, FS_Subset DEF JobsOf
<1>2. jobs \in Seq(S) /\ first \in 0 .. Len(jobs)
  BY <1>1, Listing, DiscoverAssumption
<1>3. {jobs[i] : i \in 1 .. first} \subseteq S
  BY <1>2
<1>4. SubSeq(jobs, first + 1, Len(jobs)) \in Seq(S)
  BY <1>2
<1>5. ToSet(SubSeq(jobs, first + 1, Len(jobs))) \subseteq S
  BY <1>4, Elements
<1>6. probes'.flying = {jobs[i] : i \in 1 .. first} /\ probes'.waiting = SubSeq(jobs, first + 1, Len(jobs))
  BY DEF Ask, NoScan
<1> QED
  BY <1>3, <1>5, <1>6

\* A scan begins with a consent that was just looked up.
LEMMA ScanBegins ==
  ASSUME ConsentInv, [Next]_vars, run.at # "scan", run'.at = "scan"
  PROVE  LET c == CheckConsent(FirstOf[Cidr]) IN c # NoConsent /\ Scan(c)
<1> USE DEF ConsentInv, Shapes, RunShape
<1>1. CASE Check
  <2> DEFINE c == CheckConsent(FirstOf[Cidr])
  <2>1. CASE c # NoConsent /\ Scan(c)
    BY <2>1
  <2>2. CASE NextRange
    BY <2>2, RunNext
  <2>3. CASE run' = IdleRun
    BY <2>3 DEF IdleRun
  <2>4. CASE run' = [run EXCEPT !.at = "prompt", !.asked = network]
    <3>1. run'.at = "prompt"
      BY <2>4
    <3> QED
      BY <3>1
  <2> QED
    BY <1>1, <2>1, <2>2, <2>3, <2>4 DEF Check, EndRun
<1>2. CASE Recheck
  <2> DEFINE c == CheckConsent(FirstOf[Cidr])
  <2>1. CASE c # NoConsent /\ Scan(c)
    BY <2>1
  <2>2. CASE NextRange
    BY <2>2, RunNext
  <2>3. CASE EndRun
    BY <2>3 DEF EndRun, IdleRun
  <2> QED
    BY <1>2, <2>1, <2>2, <2>3 DEF Recheck
<1>3. CASE Reject \/ Read \/ Recorded \/ ScanDone \/ Write \/ Save \/ Approve
  <2>1. CASE Recorded
    BY <2>1, RunNext DEF Recorded
  <2>2. CASE Reject
    BY <2>2 DEF Reject, EndRun, IdleRun
  <2>3. CASE Read
    <3>1. CASE run' = [run EXCEPT !.at = "write", !.read = inventory]
      BY <3>1
    <3>2. CASE run' = IdleRun
      BY <3>2 DEF IdleRun
    <3> QED
      BY <2>3, <3>1, <3>2 DEF Read, EndRun
  <2>4. CASE ScanDone \/ Write \/ Save
    BY <2>4 DEF ScanDone, Write, Save
  <2>5. CASE Approve
    BY <2>5 DEF Approve
  <2> QED
    BY <1>3, <2>1, <2>2, <2>3, <2>4, <2>5
<1>4. CASE \E job \in Jobs : Resume(job) \/ Lookup(job) \/ RemovePlatform(job) \/ \E match \in BOOLEAN : Probed(job, match)
  BY <1>4 DEF Resume, Lookup, Probed, RemovePlatform
<1>5. CASE \/ \E r \in Ranges, b \in BOOLEAN : Start(r, b)
           \/ \E r \in Ranges : Revoke(r) \/ \E ports \in PortLists : Grant(r, ports)
  BY <1>5 DEF Start, IdleRun, Revoke, Grant
<1>6. ASSUME NEW b \in BOOLEAN, StartAll(b) PROVE FALSE
  <2>1. PICK list : run' = [IdleRun EXCEPT !.at = "check", !.prompts = b, !.todo = list]
    BY <1>6 DEF StartAll
  <2> QED
    BY <2>1 DEF IdleRun
<1>7. CASE GrantRead \/ GrantWrite \/ RevokeWrite \/ RemovePlatformWrite \/ Tick \/ \E n \in Networks : Move(n)
  BY <1>7 DEF GrantRead, GrantWrite, RevokeWrite, RemovePlatformWrite, Tick, Move
<1>8. CASE Crash
  BY <1>8 DEF Crash, EndRun, IdleRun
<1>9. CASE UNCHANGED vars
  BY <1>9 DEF vars
<1> QED
  BY <1>1, <1>2, <1>3, <1>4, <1>5, <1>6, <1>7, <1>8, <1>9 DEF Next, RunStep

LEMMA ScanApproved ==
  ASSUME ConsentInv, [Next]_vars, run.at # "scan", run'.at = "scan"
  PROVE  LET c == run'.consent
         IN  /\ c.id \in 1 .. left.ids /\ FirstOf[Cidr] \in HostsOf[c.range] /\ InForce(c)
             /\ "consents" \in torn \/ c.id \notin withdrawn
             /\ probes'.flying \cup ToSet(probes'.waiting) \subseteq HostsOf[Cidr] \X c.ports
<1> DEFINE c == CheckConsent(FirstOf[Cidr])
<1>1. c # NoConsent /\ Scan(c)
  BY ScanBegins
<1>2. run'.consent = c
  BY <1>1 DEF Scan, ConsentInv, Shapes, RunShape
<1>3. c \in consents /\ FirstOf[Cidr] \in HostsOf[c.range] /\ InForce(c)
  BY <1>1, Checked
<1>4. c.id \in Ids(consents)
  BY <1>3 DEF Ids
<1>5. c.id \in 1 .. left.ids /\ ("consents" \in torn \/ c.id \notin withdrawn)
  BY <1>4 DEF ConsentInv, NewIds, InFile, Seen, Given
<1>6. JobsOf(c) \subseteq HostsOf[Cidr] \X c.ports
  BY DEF JobsOf, Jobs
<1>7. probes'.flying \cup ToSet(probes'.waiting) \subseteq HostsOf[Cidr] \X c.ports
  BY <1>1, <1>6, AskedJobs DEF Scan
<1> QED
  BY <1>2, <1>3, <1>5, <1>7

(***************************************************************************)
(* discover and consent (cli/commands/discover.ts 269-322,                 *)
(* consent/manager.ts 178-278): whatever the operators answer, grant and   *)
(* revoke meanwhile, a scan begins under an entry that is on file, covers  *)
(* the range's first host, is for the network of the moment and has        *)
(* neither expired nor been withdrawn, and asks for no host outside the    *)
(* range and no port outside the entry.                                    *)
(***************************************************************************)
THEOREM ScansAreApproved == Spec => ScanIsApproved
<1>1. Init => ConsentInv
  BY DiscoverAssumption DEF Init, IdleRun, IdleOther, ConsentInv, Shapes, RunShape, OtherShape,
     NewIds, InFile, Seen, Ids, Distinct, Given
<1>2. ConsentInv /\ [Next]_vars =>
        [run.at # "scan" /\ run'.at = "scan" =>
           LET c == run'.consent
           IN  /\ c.id \in 1 .. left.ids /\ FirstOf[Cidr] \in HostsOf[c.range] /\ InForce(c)
               /\ "consents" \in torn \/ c.id \notin withdrawn
               /\ probes'.flying \cup ToSet(probes'.waiting) \subseteq HostsOf[Cidr] \X c.ports]_vars
  BY ScanApproved
<1> QED
  BY <1>1, <1>2, StepConsents, PTL DEF Spec, ScanIsApproved


-----------------------------------------------------------------------------
(***************************************************************************)
(* The inventory graph and its refresh.                                    *)
(***************************************************************************)

\* What the types leave open: the records are whole, and a write under way
\* is one of those pending.
Sound ==
  /\ TypeOK
  /\ DOMAIN cls = {"pc", "writes", "base"}
  /\ base # NoBase => base.entity \in DOMAIN writes
  /\ cls.base # NoBase => cls.base.entity \in DOMAIN cls.writes
  /\ pc = "idle" => NoSweep

\* What an entry of e may say: it was seen since it was stored, and it is
\* gone only if it was stored long ago.
Fit(entry, e) ==
  entry # Unknown =>
    /\ seen[e] <= entry.last_seen
    /\ entry.status = "gone" => seen[e] + GoneAfter <= clock

\* Whatever document is written back: what it says of e is fit, unless
\* `inventory classify` set e back.
UnseenAt(e) ==
  /\ Fit(graph[e], e)
  /\ base # NoBase =>
       Fit(base.doc[e], e) /\ (base.doc[e] = Unknown <=> graph[e] = Unknown)
  /\ pc = "mark" /\ e \in DOMAIN writes => Fit(writes[e], e)
  /\ graph[e] = Unknown =>
       e \notin DOMAIN cls.writes /\ (cls.base # NoBase => cls.base.doc[e] = Unknown)

UnseenInv ==
  /\ at <= clock /\ stamp <= clock
  /\ pc = "upsert" =>
       \A e \in DOMAIN writes : writes[e].status = "active" /\ writes[e].last_seen = stamp
  /\ \A e \in Entities \ clobbered : UnseenAt(e)

\* What an undisturbed sweep did to e: nothing, as long as its platform was
\* not enumerated; one upsert or one mark after that, which the diff against
\* prior will show.
DriftAt(e) ==
  /\ graph[e] # prior[e] \/ e \in DOMAIN writes => PlatformOf[e] \in ok
  /\ e \in DOMAIN writes => graph[e] = prior[e]
  /\ pc = "mark" /\ e \in DOMAIN writes =>
       graph[e] # Unknown /\ writes[e].image = graph[e].image
  /\ pc \in {"platforms", "list", "upsert"} /\ graph[e] # prior[e] =>
       graph[e].status = "active" /\ graph[e].last_seen = stamp
  /\ GoneEvent(e) \in owed =>
       /\ prior[e] # Unknown /\ prior[e].status # "gone"
       /\ graph[e] # Unknown /\ graph[e].status = "gone"
  /\ ImageEvent(e) \in owed =>
       prior[e] # Unknown /\ graph[e] # Unknown /\ graph[e].image # prior[e].image

Undisturbed ==
  /\ base # NoBase => base.doc = graph
  /\ pc = "enumerate" => graph = prior /\ ok = {}
  /\ pc # "enumerate" => at <= stamp
  /\ todo \cap ok = {} /\ (pc = "list" => here \subseteq todo)
  /\ pc = "save" => \A ev \in owed : ev \in events \/ Repeated(ev)
  /\ \A e \in Entities : DriftAt(e)

DriftInv == pc # "idle" /\ ~excused => Undisturbed

(***************************************************************************)
(* Entries and documents.                                                  *)
(***************************************************************************)
LEMMA EntryIs ==
  ASSUME NEW x \in Entries
  PROVE  /\ x = Entry(x.status, x.image, x.last_seen)
         /\ x.status \in {"active", "stale", "gone"} /\ x.image \in Images
         /\ x.last_seen \in 0 .. MaxClock /\ x # Unknown
BY DEF Entries, Entry, Unknown

LEMMA EntryMade ==
  ASSUME NEW s \in {"active", "stale", "gone"}, NEW i \in Images, NEW t \in 0 .. MaxClock
  PROVE  Entry(s, i, t) \in Entries
BY DEF Entries

LEMMA Statuses ==
  ASSUME NEW x \in Entries, NEW s \in {"active", "stale", "gone"}
  PROVE  /\ [x EXCEPT !.status = s] = Entry(s, x.image, x.last_seen)
         /\ [x EXCEPT !.status = s] \in Entries
<1>1. [x EXCEPT !.status = s] = Entry(s, x.image, x.last_seen)
  BY EntryIs DEF Entry
<1> QED  BY <1>1, EntryIs, EntryMade

LEMMA LastSeens ==
  ASSUME NEW x \in Entries, NEW t \in 0 .. MaxClock
  PROVE  /\ [x EXCEPT !.last_seen = t] = Entry(x.status, x.image, t)
         /\ [x EXCEPT !.last_seen = t] \in Entries
<1>1. [x EXCEPT !.last_seen = t] = Entry(x.status, x.image, t)
  BY EntryIs DEF Entry
<1> QED  BY <1>1, EntryIs, EntryMade

LEMMA Merges ==
  ASSUME NEW b, b.entity \in Entities, b.doc \in Documents, NEW x \in Entries
  PROVE  /\ Merge(b, x) \in Documents
         /\ Merge(b, x)[b.entity] = x
         /\ \A e \in Entities : e # b.entity => Merge(b, x)[e] = b.doc[e]
BY DEF Merge, Documents

LEMMA Events ==
  ASSUME NEW e, NEW f
  PROVE  /\ GoneEvent(e) # ImageEvent(f)
         /\ GoneEvent(e) = GoneEvent(f) => e = f
         /\ ImageEvent(e) = ImageEvent(f) => e = f
<1>1. GoneEvent(e).kind # ImageEvent(f).kind
  BY DEF GoneEvent, ImageEvent
<1>2. GoneEvent(e).entity = e /\ GoneEvent(f).entity = f
  BY DEF GoneEvent
<1>3. ImageEvent(e).entity = e /\ ImageEvent(f).entity = f
  BY DEF ImageEvent
<1> QED  BY <1>1, <1>2, <1>3

LEMMA NoBaseIs ==
  /\ NoBase = [entity |-> "none"]
  /\ NoWrite = [e \in {} |-> Unknown] /\ DOMAIN NoWrite = {}
BY DEF NoBase, NoWrite

LEMMA Ages ==
  ASSUME TypeOK, NEW x \in Entries
  PROVE  /\ StatusAfter(x) \in {"active", "stale", "gone"}
         /\ StatusAfter(x) = "gone" /\ x.status # "gone" => x.last_seen + GoneAfter <= at
         /\ x.last_seen >= at /\ x.status = "active" => StatusAfter(x) = "active"
         /\ x.status = "gone" => StatusAfter(x) = "gone"
<1>1. at \in Nat /\ x.last_seen \in Nat
  BY EntryIs, RefreshAssumption DEF TypeOK
<1>2. Age(x) = IF at > x.last_seen THEN at - x.last_seen ELSE 0
  BY DEF Age
<1>3. GoneAfter \in Nat /\ StaleAfter \in Nat /\ 0 < StaleAfter /\ 0 < GoneAfter
  BY RefreshAssumption
<1> QED  BY <1>1, <1>2, <1>3, EntryIs DEF StatusAfter

\* The sweep ends, one way or the other.
Ends == EndSweep /\ dedup' \in {dedup, NoKeys}
        /\ UNCHANGED <<clock, world, up, graph, cls, seen, clobbered>>

\* One drift event of a sweep is dealt with: it is a repetition, or it is seen
\* from now on, whether or not its observation could be saved.
Emits(ev) ==
  /\ pc = "save" /\ ev \in events /\ events' = events \ {ev}
  /\ \/ Repeated(ev) /\ dedup' = dedup /\ owed' = owed
     \/ dedup' = [dedup EXCEPT ![ev] = at + DedupWindow] /\ owed' \in {owed, owed \ {ev}}
  /\ UNCHANGED <<clock, world, up, graph, pc, at, stamp, todo, ok, here, prior, writes, base, cls,
                 seen, dark, excused, clobbered>>

\* Steps of the surroundings.
Outer ==
  \/ Advance \/ (\E e \in Entities : Change(e)) \/ (\E p \in Platforms : Outage(p))

LEMMA RefreshSteps ==
  ASSUME RefreshNext
  PROVE  \/ Outer \/ Ends
         \/ \E f \in Filters : Sweep(f)
         \/ Enumerate \/ PlatformDone \/ Reconcile \/ Diff
         \/ \E p \in Platforms : Connect(p) \/ ConnectFails(p) \/ List(p)
         \/ \E e \in Entities : \/ UpsertRead(e) \/ UpsertWrite(e) \/ UpsertFails(e)
                                \/ ClassifyRead(e) \/ ClassifyWrite(e)
         \/ \E ev \in events : Emits(ev)
         \/ Classify \/ ClassifyDone
<1>1. SweepDone \/ KillSweep \/ (\E e \in Entities : MarkFails(e)) => Ends
  BY DEF SweepDone, KillSweep, MarkFails, Ends
<1>2. ASSUME NEW ev \in events, SaveObservation(ev) \/ SaveFails(ev) \/ SkipDuplicate(ev)
      PROVE  Emits(ev)
  BY <1>2 DEF SaveObservation, SaveFails, SkipDuplicate, Emits, refreshHistory
<1> QED
  BY <1>1, <1>2 DEF RefreshNext, SweepStep, ClassifyStep, Environment, Outer

LEMMA NoKeysFit == NoKeys \in [EventSet -> 0 .. MaxClock + DedupWindow]
BY RefreshAssumption DEF NoKeys

LEMMA OuterSound ==
  ASSUME Sound, Outer
  PROVE  Sound'
<1>1. TypeOK'
  <2> USE RefreshAssumption
      DEF Sound, TypeOK, WritesOf, BaseOf, sweepVars, refreshHistory
  <2>1. CASE Advance
    <3>1. clock' \in 0 .. MaxClock
      BY <2>1 DEF Advance
    <3>2. UNCHANGED <<world, up, graph, sweepVars, dedup, cls, budget, refreshHistory>>
      BY <2>1 DEF Advance
    <3> QED  BY <3>1, <3>2
  <2>2. CASE \E e \in Entities : Change(e)
    <3>1. PICK e \in Entities : Change(e)
      BY <2>2
    <3>2. world' \in [Entities -> {Absent} \cup {Runs(i) : i \in Images}]
      BY <3>1 DEF Change
    <3> QED  BY <3>1, <3>2 DEF Change
  <2>3. CASE \E p \in Platforms : Outage(p)
    BY <2>3 DEF Outage
  <2> QED  BY <2>1, <2>2, <2>3 DEF Outer
<1>2. /\ DOMAIN cls' = {"pc", "writes", "base"}
      /\ base' # NoBase => base'.entity \in DOMAIN writes'
      /\ cls'.base # NoBase => cls'.base.entity \in DOMAIN cls'.writes
  BY NoBaseIs
  DEF Sound, TypeOK, sweepVars, refreshHistory, Outer, Advance, Change, Outage
<1>3. (pc = "idle" => NoSweep)'
  BY DEF Sound, NoSweep, sweepVars, refreshHistory, Outer, Advance, Change, Outage
<1> QED  BY <1>1, <1>2, <1>3 DEF Sound

LEMMA EndsSound ==
  ASSUME Sound, Ends
  PROVE  Sound'
<1>1. TypeOK'
  <2>1. 0 \in 0 .. MaxClock /\ FALSE \in BOOLEAN
    BY RefreshAssumption
  <2>2. [e \in Entities |-> Unknown] \in Documents
    BY DEF Documents
  <2> QED
    BY <2>1, <2>2, NoBaseIs, NoKeysFit DEF Sound, TypeOK, WritesOf, BaseOf, Ends, EndSweep
<1>2. /\ DOMAIN cls' = {"pc", "writes", "base"}
      /\ base' # NoBase => base'.entity \in DOMAIN writes'
      /\ cls'.base # NoBase => cls'.base.entity \in DOMAIN cls'.writes
  BY NoBaseIs DEF Sound, TypeOK, sweepVars, refreshHistory, Ends, EndSweep
<1>3. (pc = "idle" => NoSweep)'
  BY DEF Sound, NoSweep, sweepVars, refreshHistory, Ends, EndSweep
<1> QED  BY <1>1, <1>2, <1>3 DEF Sound

LEMMA SweepSound ==
  ASSUME Sound, NEW f \in Filters, Sweep(f)
  PROVE  Sound'
<1>1. TypeOK'
  BY RefreshAssumption, NoBaseIs, NoKeysFit
  DEF Sound, TypeOK, WritesOf, BaseOf, sweepVars, refreshHistory, Sweep,
      Snapshot, Filters
<1>2. /\ DOMAIN cls' = {"pc", "writes", "base"}
      /\ base' # NoBase => base'.entity \in DOMAIN writes'
      /\ cls'.base # NoBase => cls'.base.entity \in DOMAIN cls'.writes
  BY NoBaseIs
  DEF Sound, TypeOK, sweepVars, refreshHistory, Sweep, Snapshot, Filters
<1>3. (pc = "idle" => NoSweep)'
  BY DEF Sound, NoSweep, sweepVars, refreshHistory, Sweep, Snapshot, Filters
<1> QED  BY <1>1, <1>2, <1>3 DEF Sound

LEMMA EnumerateSound ==
  ASSUME Sound, Enumerate
  PROVE  Sound'
<1>1. TypeOK'
  BY RefreshAssumption, NoBaseIs
  DEF Sound, TypeOK, WritesOf, BaseOf, sweepVars, refreshHistory, Enumerate
<1>2. /\ DOMAIN cls' = {"pc", "writes", "base"}
      /\ base' # NoBase => base'.entity \in DOMAIN writes'
      /\ cls'.base # NoBase => cls'.base.entity \in DOMAIN cls'.writes
  BY NoBaseIs DEF Sound, TypeOK, sweepVars, refreshHistory, Enumerate
<1>3. (pc = "idle" => NoSweep)'
  BY DEF Sound, NoSweep, sweepVars, refreshHistory, Enumerate
<1> QED  BY <1>1, <1>2, <1>3 DEF Sound

LEMMA ConnectSound ==
  ASSUME Sound, NEW p \in Platforms, Connect(p)
  PROVE  Sound'
<1>1. TypeOK'
  BY RefreshAssumption, NoBaseIs
  DEF Sound, TypeOK, WritesOf, BaseOf, sweepVars, refreshHistory, Connect
<1>2. /\ DOMAIN cls' = {"pc", "writes", "base"}
      /\ base' # NoBase => base'.entity \in DOMAIN writes'
      /\ cls'.base # NoBase => cls'.base.entity \in DOMAIN cls'.writes
  BY NoBaseIs DEF Sound, TypeOK, sweepVars, refreshHistory, Connect
<1>3. (pc = "idle" => NoSweep)'
  BY DEF Sound, NoSweep, sweepVars, refreshHistory, Connect
<1> QED  BY <1>1, <1>2, <1>3 DEF Sound

LEMMA ConnectFailsSound ==
  ASSUME Sound, NEW p \in Platforms, ConnectFails(p)
  PROVE  Sound'
<1>1. TypeOK'
  BY RefreshAssumption, NoBaseIs
  DEF Sound, TypeOK, WritesOf, BaseOf, sweepVars, refreshHistory, ConnectFails
<1>2. /\ DOMAIN cls' = {"pc", "writes", "base"}
      /\ base' # NoBase => base'.entity \in DOMAIN writes'
      /\ cls'.base # NoBase => cls'.base.entity \in DOMAIN cls'.writes
  BY NoBaseIs DEF Sound, TypeOK, sweepVars, refreshHistory, ConnectFails
<1>3. (pc = "idle" => NoSweep)'
  BY DEF Sound, NoSweep, sweepVars, refreshHistory, ConnectFails
<1> QED  BY <1>1, <1>2, <1>3 DEF Sound

LEMMA ListSound ==
  ASSUME Sound, NEW p \in Platforms, List(p)
  PROVE  Sound'
<1>1. TypeOK'
  <2>1. PICK lost \in SUBSET Present(p) : List(p)!2!(lost)
    BY DEF List
  <2>2. ASSUME NEW e \in Present(p) PROVE e \in Entities /\ Sighting(e) \in Entries
    <3>1. \E i \in Images : world[e] = Runs(i)
      BY DEF Present, Sound, TypeOK, Absent
    <3>2. world[e].image \in Images
      BY <3>1 DEF Runs
    <3> QED  BY <3>2, EntryMade DEF Present, Sighting, Sound, TypeOK
  <2>3. WritesOf(writes')
    BY <2>1, <2>2 DEF WritesOf
  <2>4. dark' \subseteq Platforms
    BY <2>1 DEF Sound, TypeOK
  <2> QED
    BY <2>3, <2>4 DEF Sound, TypeOK, BaseOf, refreshHistory, List
<1>2. /\ DOMAIN cls' = {"pc", "writes", "base"}
      /\ base' # NoBase => base'.entity \in DOMAIN writes'
      /\ cls'.base # NoBase => cls'.base.entity \in DOMAIN cls'.writes
  BY NoBaseIs DEF Sound, TypeOK, sweepVars, refreshHistory, List
<1>3. (pc = "idle" => NoSweep)'
  BY DEF Sound, NoSweep, sweepVars, refreshHistory, List
<1> QED  BY <1>1, <1>2, <1>3 DEF Sound

LEMMA UpsertReadSound ==
  ASSUME Sound, NEW e \in Entities, UpsertRead(e)
  PROVE  Sound'
<1>1. TypeOK'
  BY RefreshAssumption, NoBaseIs
  DEF Sound, TypeOK, WritesOf, BaseOf, sweepVars, refreshHistory, UpsertRead
<1>2. /\ DOMAIN cls' = {"pc", "writes", "base"}
      /\ base' # NoBase => base'.entity \in DOMAIN writes'
      /\ cls'.base # NoBase => cls'.base.entity \in DOMAIN cls'.writes
  BY NoBaseIs DEF Sound, TypeOK, sweepVars, refreshHistory, UpsertRead
<1>3. (pc = "idle" => NoSweep)'
  BY DEF Sound, NoSweep, sweepVars, refreshHistory, UpsertRead
<1> QED  BY <1>1, <1>2, <1>3 DEF Sound

LEMMA UpsertWriteSound ==
  ASSUME Sound, NEW e \in Entities, UpsertWrite(e)
  PROVE  Sound'
<1>1. TypeOK'
  <2>1. /\ base.entity = e /\ e \in Entities /\ base.doc \in Documents
        /\ e \in DOMAIN writes /\ writes[e] \in Entries
    BY DEF UpsertWrite, Sound, TypeOK, BaseOf, WritesOf
  <2>2. graph' \in Documents
    BY <2>1, Merges DEF UpsertWrite
  <2>3. DOMAIN writes' \subseteq DOMAIN writes /\ \A x \in DOMAIN writes' : writes'[x] = writes[x]
    BY DEF UpsertWrite, Rest, Restrict
  <2>4. WritesOf(writes')
    BY <2>3 DEF WritesOf, Sound, TypeOK
  <2>5. seen' \in [Entities -> 0 .. MaxClock] /\ clobbered' \subseteq Entities
    BY DEF UpsertWrite, Sound, TypeOK
  <2>6. owed' \subseteq EventSet
    <3>1. Drift(e) \subseteq {GoneEvent(e), ImageEvent(e)}
      BY DEF Drift
    <3> QED  BY <3>1 DEF UpsertWrite, EventSet, Sound, TypeOK
  <2>7. UNCHANGED <<clock, world, up, pc, at, stamp, todo, ok, here, prior, events, dedup, cls, dark,
                  excused>>
    BY DEF UpsertWrite
  <2>8. base' = NoBase /\ (pc \notin {"upsert", "mark"} => DOMAIN writes' = {})
    BY <2>3 DEF UpsertWrite, Sound, TypeOK
  <2> QED
    BY <2>2, <2>4, <2>5, <2>6, <2>7, <2>8 DEF Sound, TypeOK, BaseOf
<1>2. /\ DOMAIN cls' = {"pc", "writes", "base"}
      /\ base' # NoBase => base'.entity \in DOMAIN writes'
      /\ cls'.base # NoBase => cls'.base.entity \in DOMAIN cls'.writes
  BY NoBaseIs
  DEF Sound, TypeOK, sweepVars, refreshHistory, UpsertWrite, Rest, Restrict
<1>3. (pc = "idle" => NoSweep)'
  BY DEF Sound, NoSweep, sweepVars, refreshHistory, UpsertWrite, Rest, Restrict
<1> QED  BY <1>1, <1>2, <1>3 DEF Sound

LEMMA UpsertFailsSound ==
  ASSUME Sound, NEW e \in Entities, UpsertFails(e)
  PROVE  Sound'
<1>1. TypeOK'
  BY RefreshAssumption, NoBaseIs
  DEF Sound, TypeOK, WritesOf, BaseOf, sweepVars, refreshHistory, UpsertFails,
      Rest, Restrict
<1>2. /\ DOMAIN cls' = {"pc", "writes", "base"}
      /\ base' # NoBase => base'.entity \in DOMAIN writes'
      /\ cls'.base # NoBase => cls'.base.entity \in DOMAIN cls'.writes
  BY NoBaseIs
  DEF Sound, TypeOK, sweepVars, refreshHistory, UpsertFails, Rest, Restrict
<1>3. (pc = "idle" => NoSweep)'
  BY DEF Sound, NoSweep, sweepVars, refreshHistory, UpsertFails, Rest, Restrict
<1> QED  BY <1>1, <1>2, <1>3 DEF Sound

LEMMA PlatformDoneSound ==
  ASSUME Sound, PlatformDone
  PROVE  Sound'
<1>1. TypeOK'
  BY RefreshAssumption, NoBaseIs
  DEF Sound, TypeOK, WritesOf, BaseOf, sweepVars, refreshHistory, PlatformDone
<1>2. /\ DOMAIN cls' = {"pc", "writes", "base"}
      /\ base' # NoBase => base'.entity \in DOMAIN writes'
      /\ cls'.base # NoBase => cls'.base.entity \in DOMAIN cls'.writes
  BY NoBaseIs DEF Sound, TypeOK, sweepVars, refreshHistory, PlatformDone
<1>3. (pc = "idle" => NoSweep)'
  BY DEF Sound, NoSweep, sweepVars, refreshHistory, PlatformDone
<1> QED  BY <1>1, <1>2, <1>3 DEF Sound

LEMMA ReconcileSound ==
  ASSUME Sound, Reconcile
  PROVE  Sound'
<1>1. TypeOK'
  <2>1. ASSUME NEW e \in Overdue
        PROVE  /\ e \in Entities
               /\ [graph[e] EXCEPT !.status = StatusAfter(graph[e])] \in Entries
    <3>1. e \in Entities /\ graph[e] \in Entries
      BY DEF Overdue, Reconciled, Known, Sound, TypeOK, Documents
    <3> QED  BY <3>1, Ages, Statuses DEF Sound
  <2>2. WritesOf(writes')
    BY <2>1 DEF WritesOf, Reconcile
  <2> QED
    BY <2>2 DEF Sound, TypeOK, BaseOf, refreshHistory, Reconcile
<1>2. /\ DOMAIN cls' = {"pc", "writes", "base"}
      /\ base' # NoBase => base'.entity \in DOMAIN writes'
      /\ cls'.base # NoBase => cls'.base.entity \in DOMAIN cls'.writes
  BY NoBaseIs DEF Sound, TypeOK, sweepVars, refreshHistory, Reconcile
<1>3. (pc = "idle" => NoSweep)'
  BY DEF Sound, NoSweep, sweepVars, refreshHistory, Reconcile
<1> QED  BY <1>1, <1>2, <1>3 DEF Sound

LEMMA DiffSound ==
  ASSUME Sound, Diff
  PROVE  Sound'
<1>1. TypeOK'
  <2>1. ASSUME NEW e \in Entities PROVE EventsOf(e, graph) \subseteq EventSet
    BY DEF EventsOf, EventSet
  <2>2. events' \subseteq EventSet
    BY <2>1 DEF Diff, Compared, Known
  <2>3. base = NoBase
    BY DEF Diff, Sound
  <2> QED
    BY <2>2, <2>3 DEF Sound, TypeOK, BaseOf, refreshHistory, Diff
<1>2. /\ DOMAIN cls' = {"pc", "writes", "base"}
      /\ base' # NoBase => base'.entity \in DOMAIN writes'
      /\ cls'.base # NoBase => cls'.base.entity \in DOMAIN cls'.writes
  BY NoBaseIs DEF Sound, TypeOK, sweepVars, refreshHistory, Diff
<1>3. (pc = "idle" => NoSweep)'
  BY DEF Sound, NoSweep, sweepVars, refreshHistory, Diff
<1> QED  BY <1>1, <1>2, <1>3 DEF Sound

LEMMA SaveSound ==
  ASSUME Sound, NEW ev \in events, Emits(ev)
  PROVE  Sound'
<1>1. TypeOK'
  <2>1. dedup' \in [EventSet -> 0 .. MaxClock + DedupWindow]
    <3>1. at + DedupWindow \in 0 .. MaxClock + DedupWindow
      BY RefreshAssumption DEF Sound, TypeOK
    <3> QED  BY <3>1 DEF Sound, TypeOK, Emits
  <2>2. events' \subseteq EventSet /\ owed' \subseteq EventSet
    BY DEF Sound, TypeOK, Emits
  <2> QED
    BY <2>1, <2>2 DEF Sound, TypeOK, WritesOf, BaseOf, Emits
<1>2. /\ DOMAIN cls' = {"pc", "writes", "base"}
      /\ base' # NoBase => base'.entity \in DOMAIN writes'
      /\ cls'.base # NoBase => cls'.base.entity \in DOMAIN cls'.writes
  BY NoBaseIs DEF Sound, TypeOK, sweepVars, refreshHistory, Emits
<1>3. (pc = "idle" => NoSweep)'
  BY DEF Sound, NoSweep, sweepVars, refreshHistory, Emits
<1> QED  BY <1>1, <1>2, <1>3 DEF Sound

LEMMA ClassifySound ==
  ASSUME Sound, Classify
  PROVE  Sound'
<1>1. TypeOK'
  <2>1. ASSUME NEW e \in Recognised \cap Known(graph)
        PROVE  e \in Entities /\ [graph[e] EXCEPT !.last_seen = clock] \in Entries
    <3>1. e \in Entities /\ graph[e] \in Entries
      BY DEF Known, Sound, TypeOK, Documents
    <3> QED  BY <3>1, LastSeens DEF Sound, TypeOK
  <2>2. WritesOf(cls'.writes) /\ BaseOf(cls'.base)
    BY <2>1 DEF WritesOf, BaseOf, Classify
  <2> QED
    BY <2>2 DEF Sound, TypeOK, sweepVars, refreshHistory, Classify
<1>2. /\ DOMAIN cls' = {"pc", "writes", "base"}
      /\ base' # NoBase => base'.entity \in DOMAIN writes'
      /\ cls'.base # NoBase => cls'.base.entity \in DOMAIN cls'.writes
  BY NoBaseIs DEF Sound, TypeOK, sweepVars, refreshHistory, Classify
<1>3. (pc = "idle" => NoSweep)'
  BY DEF Sound, NoSweep, sweepVars, refreshHistory, Classify
<1> QED  BY <1>1, <1>2, <1>3 DEF Sound

LEMMA ClassifyReadSound ==
  ASSUME Sound, NEW e \in Entities, ClassifyRead(e)
  PROVE  Sound'
<1>1. TypeOK'
  BY RefreshAssumption, NoBaseIs
  DEF Sound, TypeOK, WritesOf, BaseOf, sweepVars, refreshHistory, ClassifyRead
<1>2. /\ DOMAIN cls' = {"pc", "writes", "base"}
      /\ base' # NoBase => base'.entity \in DOMAIN writes'
      /\ cls'.base # NoBase => cls'.base.entity \in DOMAIN cls'.writes
  BY NoBaseIs DEF Sound, TypeOK, sweepVars, refreshHistory, ClassifyRead
<1>3. (pc = "idle" => NoSweep)'
  BY DEF Sound, NoSweep, sweepVars, refreshHistory, ClassifyRead
<1> QED  BY <1>1, <1>2, <1>3 DEF Sound

LEMMA ClassifyWriteSound ==
  ASSUME Sound, NEW e \in Entities, ClassifyWrite(e)
  PROVE  Sound'
<1>1. TypeOK'
  <2>1. /\ cls.base.entity = e /\ e \in Entities /\ cls.base.doc \in Documents
        /\ e \in DOMAIN cls.writes /\ cls.writes[e] \in Entries
    BY DEF ClassifyWrite, Sound, TypeOK, BaseOf, WritesOf
  <2>2. graph' \in Documents
    BY <2>1, Merges DEF ClassifyWrite
  <2>3. cls'.base = NoBase /\ cls'.writes = Restrict(cls.writes, DOMAIN cls.writes \ {e})
    BY DEF ClassifyWrite, Sound
  <2>4. WritesOf(cls'.writes)
    BY <2>3 DEF WritesOf, Sound, TypeOK, Restrict
  <2>5. clobbered' \subseteq Entities /\ excused' \in BOOLEAN
    BY DEF ClassifyWrite, Sound, TypeOK
  <2> QED
    BY <2>2, <2>3, <2>4, <2>5
    DEF Sound, TypeOK, BaseOf, sweepVars, ClassifyWrite
<1>2. /\ DOMAIN cls' = {"pc", "writes", "base"}
      /\ base' # NoBase => base'.entity \in DOMAIN writes'
      /\ cls'.base # NoBase => cls'.base.entity \in DOMAIN cls'.writes
  BY NoBaseIs DEF Sound, TypeOK, sweepVars, refreshHistory, ClassifyWrite
<1>3. (pc = "idle" => NoSweep)'
  BY DEF Sound, NoSweep, sweepVars, refreshHistory, ClassifyWrite
<1> QED  BY <1>1, <1>2, <1>3 DEF Sound

LEMMA ClassifyDoneSound ==
  ASSUME Sound, ClassifyDone
  PROVE  Sound'
<1>1. TypeOK'
  BY RefreshAssumption, NoBaseIs
  DEF Sound, TypeOK, WritesOf, BaseOf, sweepVars, refreshHistory, ClassifyDone,
      Idle
<1>2. /\ DOMAIN cls' = {"pc", "writes", "base"}
      /\ base' # NoBase => base'.entity \in DOMAIN writes'
      /\ cls'.base # NoBase => cls'.base.entity \in DOMAIN cls'.writes
  BY NoBaseIs DEF Sound, TypeOK, sweepVars, refreshHistory, ClassifyDone, Idle
<1>3. (pc = "idle" => NoSweep)'
  BY DEF Sound, NoSweep, sweepVars, refreshHistory, ClassifyDone, Idle
<1> QED  BY <1>1, <1>2, <1>3 DEF Sound

LEMMA OuterUnseen ==
  ASSUME Sound, Sound', UnseenInv, Outer
  PROVE  UnseenInv'
<1>1. at' <= clock' /\ stamp' <= clock'
  BY RefreshAssumption
  DEF Sound, TypeOK, UnseenInv, sweepVars, refreshHistory, Outer, Advance, Change,
      Outage
<1>2. pc' = "upsert" =>
        \A x \in DOMAIN writes' : writes'[x].status = "active" /\ writes'[x].last_seen = stamp'
  BY DEF Sound, TypeOK, UnseenInv, sweepVars, refreshHistory, Outer, Advance, Change,
     Outage
<1>3. ASSUME NEW x \in Entities \ clobbered' PROVE UnseenAt(x)'
  BY RefreshAssumption
  DEF Sound, TypeOK, UnseenInv, UnseenAt, Fit, sweepVars, refreshHistory, Outer, Advance,
      Change, Outage
<1> QED  BY <1>1, <1>2, <1>3 DEF UnseenInv

LEMMA EndsUnseen ==
  ASSUME Sound, Sound', UnseenInv, Ends
  PROVE  UnseenInv'
<1>1. at' <= clock' /\ stamp' <= clock'
  BY RefreshAssumption
  DEF Sound, TypeOK, UnseenInv, sweepVars, refreshHistory, Ends, EndSweep
<1>2. pc' = "upsert" =>
        \A x \in DOMAIN writes' : writes'[x].status = "active" /\ writes'[x].last_seen = stamp'
  BY DEF Sound, TypeOK, UnseenInv, sweepVars, refreshHistory, Ends, EndSweep
<1>3. ASSUME NEW x \in Entities \ clobbered' PROVE UnseenAt(x)'
  BY RefreshAssumption
  DEF Sound, TypeOK, UnseenInv, UnseenAt, Fit, sweepVars, refreshHistory, Ends,
      EndSweep
<1> QED  BY <1>1, <1>2, <1>3 DEF UnseenInv

LEMMA SweepUnseen ==
  ASSUME Sound, Sound', UnseenInv, NEW f \in Filters, Sweep(f)
  PROVE  UnseenInv'
<1>1. at' <= clock' /\ stamp' <= clock'
  BY RefreshAssumption
  DEF Sound, TypeOK, UnseenInv, sweepVars, refreshHistory, Sweep, Snapshot,
      Filters
<1>2. pc' = "upsert" =>
        \A x \in DOMAIN writes' : writes'[x].status = "active" /\ writes'[x].last_seen = stamp'
  BY DEF Sound, TypeOK, UnseenInv, sweepVars, refreshHistory, Sweep, Snapshot,
     Filters
<1>3. ASSUME NEW x \in Entities \ clobbered' PROVE UnseenAt(x)'
  BY RefreshAssumption
  DEF Sound, TypeOK, UnseenInv, UnseenAt, Fit, sweepVars, refreshHistory, Sweep,
      Snapshot, Filters
<1> QED  BY <1>1, <1>2, <1>3 DEF UnseenInv

LEMMA EnumerateUnseen ==
  ASSUME Sound, Sound', UnseenInv, Enumerate
  PROVE  UnseenInv'
<1>1. at' <= clock' /\ stamp' <= clock'
  BY RefreshAssumption
  DEF Sound, TypeOK, UnseenInv, sweepVars, refreshHistory, Enumerate
<1>2. pc' = "upsert" =>
        \A x \in DOMAIN writes' : writes'[x].status = "active" /\ writes'[x].last_seen = stamp'
  BY DEF Sound, TypeOK, UnseenInv, sweepVars, refreshHistory, Enumerate
<1>3. ASSUME NEW x \in Entities \ clobbered' PROVE UnseenAt(x)'
  BY RefreshAssumption
  DEF Sound, TypeOK, UnseenInv, UnseenAt, Fit, sweepVars, refreshHistory, Enumerate
<1> QED  BY <1>1, <1>2, <1>3 DEF UnseenInv

LEMMA ConnectUnseen ==
  ASSUME Sound, Sound', UnseenInv, NEW p \in Platforms, Connect(p)
  PROVE  UnseenInv'
<1>1. at' <= clock' /\ stamp' <= clock'
  BY RefreshAssumption
  DEF Sound, TypeOK, UnseenInv, sweepVars, refreshHistory, Connect
<1>2. pc' = "upsert" =>
        \A x \in DOMAIN writes' : writes'[x].status = "active" /\ writes'[x].last_seen = stamp'
  BY DEF Sound, TypeOK, UnseenInv, sweepVars, refreshHistory, Connect
<1>3. ASSUME NEW x \in Entities \ clobbered' PROVE UnseenAt(x)'
  BY RefreshAssumption
  DEF Sound, TypeOK, UnseenInv, UnseenAt, Fit, sweepVars, refreshHistory, Connect
<1> QED  BY <1>1, <1>2, <1>3 DEF UnseenInv

LEMMA ConnectFailsUnseen ==
  ASSUME Sound, Sound', UnseenInv, NEW p \in Platforms, ConnectFails(p)
  PROVE  UnseenInv'
<1>1. at' <= clock' /\ stamp' <= clock'
  BY RefreshAssumption
  DEF Sound, TypeOK, UnseenInv, sweepVars, refreshHistory, ConnectFails
<1>2. pc' = "upsert" =>
        \A x \in DOMAIN writes' : writes'[x].status = "active" /\ writes'[x].last_seen = stamp'
  BY DEF Sound, TypeOK, UnseenInv, sweepVars, refreshHistory, ConnectFails
<1>3. ASSUME NEW x \in Entities \ clobbered' PROVE UnseenAt(x)'
  BY RefreshAssumption
  DEF Sound, TypeOK, UnseenInv, UnseenAt, Fit, sweepVars, refreshHistory, ConnectFails
<1> QED  BY <1>1, <1>2, <1>3 DEF UnseenInv

LEMMA ListUnseen ==
  ASSUME Sound, Sound', UnseenInv, NEW p \in Platforms, List(p)
  PROVE  UnseenInv'
<1>0. PICK lost \in SUBSET Present(p) : List(p)!2!(lost)
  BY DEF List
<1>1. at' <= clock' /\ stamp' <= clock'
  BY DEF UnseenInv, List
<1>2. \A x \in DOMAIN writes' : writes'[x].status = "active" /\ writes'[x].last_seen = stamp'
  BY <1>0 DEF Sighting, Entry, List
<1>3. ASSUME NEW x \in Entities \ clobbered' PROVE UnseenAt(x)'
  BY DEF UnseenInv, UnseenAt, Fit, List
<1> QED  BY <1>1, <1>2, <1>3 DEF UnseenInv

LEMMA UpsertReadUnseen ==
  ASSUME Sound, Sound', UnseenInv, NEW e \in Entities, UpsertRead(e)
  PROVE  UnseenInv'
<1>1. at' <= clock' /\ stamp' <= clock'
  BY RefreshAssumption
  DEF Sound, TypeOK, UnseenInv, sweepVars, refreshHistory, UpsertRead
<1>2. pc' = "upsert" =>
        \A x \in DOMAIN writes' : writes'[x].status = "active" /\ writes'[x].last_seen = stamp'
  BY DEF Sound, TypeOK, UnseenInv, sweepVars, refreshHistory, UpsertRead
<1>3. ASSUME NEW x \in Entities \ clobbered' PROVE UnseenAt(x)'
  BY RefreshAssumption
  DEF Sound, TypeOK, UnseenInv, UnseenAt, Fit, sweepVars, refreshHistory, UpsertRead
<1> QED  BY <1>1, <1>2, <1>3 DEF UnseenInv

LEMMA UpsertWriteUnseen ==
  ASSUME Sound, Sound', UnseenInv, NEW e \in Entities, UpsertWrite(e)
  PROVE  UnseenInv'
<1>0. /\ base.entity = e /\ e \in Entities /\ base.doc \in Documents /\ base # NoBase
      /\ e \in DOMAIN writes /\ writes[e] \in Entries
  BY DEF UpsertWrite, Sound, TypeOK, BaseOf, WritesOf
<1>1. /\ at' <= clock' /\ stamp' <= clock' /\ base' = NoBase /\ UNCHANGED <<pc, stamp, clock, cls>>
      /\ pc \in {"upsert", "mark"}
  BY <1>0 DEF UnseenInv, UpsertWrite, Sound, TypeOK
<1>2. /\ DOMAIN writes' \subseteq DOMAIN writes
      /\ \A x \in DOMAIN writes' : writes'[x] = writes[x] /\ x # e
  BY DEF UpsertWrite, Rest, Restrict
<1>3. /\ graph'[e] = writes[e] /\ writes[e] # Unknown
      /\ \A x \in Entities : x # e => graph'[x] = base.doc[x]
  BY <1>0, Merges, EntryIs DEF UpsertWrite
<1>4. /\ \A x \in Entities : x # e => seen'[x] = seen[x]
      /\ pc = "upsert" => seen'[e] = stamp /\ clobbered' = clobbered \ {e}
      /\ pc = "mark" => seen' = seen /\ clobbered' = clobbered
  BY DEF UpsertWrite, Sound, TypeOK
<1>5. ASSUME NEW x \in Entities \ clobbered', x # e PROVE UnseenAt(x)'
  <2>1. UnseenAt(x) /\ seen'[x] = seen[x] /\ graph'[x] = base.doc[x] /\ clock' = clock
    BY <1>1, <1>3, <1>4, <1>5 DEF UnseenInv
  <2>2. Fit(graph[x], x)'
    BY <1>0, <2>1 DEF UnseenAt, Fit
  <2>3. (pc = "mark" /\ x \in DOMAIN writes => Fit(writes[x], x))'
    BY <1>1, <1>2, <2>1 DEF UnseenAt, Fit
  <2>4. (graph[x] = Unknown =>
           x \notin DOMAIN cls.writes /\ (cls.base # NoBase => cls.base.doc[x] = Unknown))'
    BY <1>0, <1>1, <2>1 DEF UnseenAt
  <2> QED  BY <1>1, <2>2, <2>3, <2>4 DEF UnseenAt
<1>6. ASSUME e \notin clobbered' PROVE UnseenAt(e)'
  <2>1. Fit(graph[e], e)'
    <3>1. CASE pc = "upsert"
      <4>1. writes[e].status = "active" /\ writes[e].last_seen = stamp /\ seen'[e] = stamp
        BY <1>0, <1>4, <3>1 DEF UnseenInv
      <4>2. stamp <= stamp
        BY RefreshAssumption DEF Sound, TypeOK
      <4> QED  BY <1>3, <4>1, <4>2 DEF Fit
    <3>2. CASE pc = "mark"
      <4>1. Fit(writes[e], e) /\ seen' = seen /\ clock' = clock
        BY <1>0, <1>1, <1>4, <1>6, <3>2 DEF UnseenInv, UnseenAt
      <4> QED  BY <1>3, <4>1 DEF Fit
    <3> QED  BY <1>1, <3>1, <3>2
  <2> QED  BY <1>1, <1>2, <1>3, <2>1 DEF UnseenAt
<1>7. pc' = "upsert" =>
        \A x \in DOMAIN writes' : writes'[x].status = "active" /\ writes'[x].last_seen = stamp'
  BY <1>1, <1>2 DEF UnseenInv
<1> QED  BY <1>1, <1>5, <1>6, <1>7 DEF UnseenInv

LEMMA UpsertFailsUnseen ==
  ASSUME Sound, Sound', UnseenInv, NEW e \in Entities, UpsertFails(e)
  PROVE  UnseenInv'
<1>1. at' <= clock' /\ stamp' <= clock'
  BY RefreshAssumption
  DEF Sound, TypeOK, UnseenInv, sweepVars, refreshHistory, UpsertFails, Rest,
      Restrict
<1>2. pc' = "upsert" =>
        \A x \in DOMAIN writes' : writes'[x].status = "active" /\ writes'[x].last_seen = stamp'
  BY DEF Sound, TypeOK, UnseenInv, sweepVars, refreshHistory, UpsertFails, Rest,
     Restrict
<1>3. ASSUME NEW x \in Entities \ clobbered' PROVE UnseenAt(x)'
  BY RefreshAssumption
  DEF Sound, TypeOK, UnseenInv, UnseenAt, Fit, sweepVars, refreshHistory, UpsertFails,
      Rest, Restrict
<1> QED  BY <1>1, <1>2, <1>3 DEF UnseenInv

LEMMA PlatformDoneUnseen ==
  ASSUME Sound, Sound', UnseenInv, PlatformDone
  PROVE  UnseenInv'
<1>1. at' <= clock' /\ stamp' <= clock'
  BY RefreshAssumption
  DEF Sound, TypeOK, UnseenInv, sweepVars, refreshHistory, PlatformDone
<1>2. pc' = "upsert" =>
        \A x \in DOMAIN writes' : writes'[x].status = "active" /\ writes'[x].last_seen = stamp'
  BY DEF Sound, TypeOK, UnseenInv, sweepVars, refreshHistory, PlatformDone
<1>3. ASSUME NEW x \in Entities \ clobbered' PROVE UnseenAt(x)'
  BY RefreshAssumption
  DEF Sound, TypeOK, UnseenInv, UnseenAt, Fit, sweepVars, refreshHistory, PlatformDone
<1> QED  BY <1>1, <1>2, <1>3 DEF UnseenInv

LEMMA ReconcileUnseen ==
  ASSUME Sound, Sound', UnseenInv, Reconcile
  PROVE  UnseenInv'
<1>1. /\ at' <= clock' /\ stamp' <= clock' /\ pc' = "mark"
      /\ UNCHANGED <<clock, at, graph, base, cls, seen, clobbered>>
  BY DEF UnseenInv, Reconcile, refreshHistory
<1>2. ASSUME NEW x \in Entities \ clobbered', x \in DOMAIN writes' PROVE Fit(writes[x], x)'
  <2>1. /\ x \in Overdue /\ x \in Entities \ clobbered
        /\ writes'[x] = [graph[x] EXCEPT !.status = StatusAfter(graph[x])]
    BY <1>1, <1>2 DEF Reconcile
  <2>2. graph[x] \in Entries /\ StatusAfter(graph[x]) # graph[x].status
    BY <2>1 DEF Overdue, Reconciled, Known, Sound, TypeOK, Documents
  <2>3. writes'[x] = Entry(StatusAfter(graph[x]), graph[x].image, graph[x].last_seen)
    BY <2>1, <2>2, Ages, Statuses DEF Sound
  <2>4. writes'[x].status = StatusAfter(graph[x]) /\ writes'[x].last_seen = graph[x].last_seen
    BY <2>3 DEF Entry
  <2>5. seen[x] <= graph[x].last_seen
    BY <2>1, <2>2, EntryIs DEF UnseenInv, UnseenAt, Fit
  <2>6. StatusAfter(graph[x]) = "gone" => graph[x].last_seen + GoneAfter <= at
    BY <2>2, Ages, EntryIs DEF Sound
  <2>7. /\ seen[x] \in Nat /\ graph[x].last_seen \in Nat /\ at \in Nat /\ clock \in Nat
        /\ GoneAfter \in Nat
    BY <2>1, <2>2, EntryIs, RefreshAssumption DEF Sound, TypeOK
  <2>8. StatusAfter(graph[x]) = "gone" => seen[x] + GoneAfter <= clock
    BY <2>5, <2>6, <2>7 DEF UnseenInv
  <2> QED  BY <1>1, <2>4, <2>5, <2>8 DEF Fit
<1>3. ASSUME NEW x \in Entities \ clobbered' PROVE UnseenAt(x)'
  <2>1. UnseenAt(x)
    BY <1>1, <1>3 DEF UnseenInv
  <2> QED  BY <1>1, <1>2, <1>3, <2>1 DEF UnseenAt, Fit
<1> QED  BY <1>1, <1>3 DEF UnseenInv

LEMMA DiffUnseen ==
  ASSUME Sound, Sound', UnseenInv, Diff
  PROVE  UnseenInv'
<1>1. at' <= clock' /\ stamp' <= clock'
  BY RefreshAssumption
  DEF Sound, TypeOK, UnseenInv, sweepVars, refreshHistory, Diff
<1>2. pc' = "upsert" =>
        \A x \in DOMAIN writes' : writes'[x].status = "active" /\ writes'[x].last_seen = stamp'
  BY DEF Sound, TypeOK, UnseenInv, sweepVars, refreshHistory, Diff
<1>3. ASSUME NEW x \in Entities \ clobbered' PROVE UnseenAt(x)'
  BY RefreshAssumption
  DEF Sound, TypeOK, UnseenInv, UnseenAt, Fit, sweepVars, refreshHistory, Diff
<1> QED  BY <1>1, <1>2, <1>3 DEF UnseenInv

LEMMA SaveUnseen ==
  ASSUME Sound, Sound', UnseenInv, NEW ev \in events, Emits(ev)
  PROVE  UnseenInv'
<1>1. at' <= clock' /\ stamp' <= clock'
  BY RefreshAssumption
  DEF Sound, TypeOK, UnseenInv, sweepVars, refreshHistory, Emits
<1>2. pc' = "upsert" =>
        \A x \in DOMAIN writes' : writes'[x].status = "active" /\ writes'[x].last_seen = stamp'
  BY DEF Sound, TypeOK, UnseenInv, sweepVars, refreshHistory, Emits
<1>3. ASSUME NEW x \in Entities \ clobbered' PROVE UnseenAt(x)'
  BY RefreshAssumption
  DEF Sound, TypeOK, UnseenInv, UnseenAt, Fit, sweepVars, refreshHistory, Emits
<1> QED  BY <1>1, <1>2, <1>3 DEF UnseenInv

LEMMA ClassifyUnseen ==
  ASSUME Sound, Sound', UnseenInv, Classify
  PROVE  UnseenInv'
<1>1. /\ at' <= clock' /\ stamp' <= clock'
      /\ UNCHANGED <<clock, pc, stamp, graph, base, writes, seen, clobbered>>
  BY DEF UnseenInv, Classify, sweepVars, refreshHistory
<1>2. cls'.base = NoBase /\ DOMAIN cls'.writes \subseteq Known(graph)
  BY DEF Classify
<1>3. ASSUME NEW x \in Entities \ clobbered' PROVE UnseenAt(x)'
  <2>1. UnseenAt(x)
    BY <1>1, <1>3 DEF UnseenInv
  <2>2. graph[x] = Unknown => x \notin DOMAIN cls'.writes
    BY <1>2 DEF Known
  <2> QED  BY <1>1, <1>2, <2>1, <2>2 DEF UnseenAt, Fit
<1> QED  BY <1>1, <1>3 DEF UnseenInv

LEMMA ClassifyReadUnseen ==
  ASSUME Sound, Sound', UnseenInv, NEW e \in Entities, ClassifyRead(e)
  PROVE  UnseenInv'
<1>1. at' <= clock' /\ stamp' <= clock'
  BY RefreshAssumption
  DEF Sound, TypeOK, UnseenInv, sweepVars, refreshHistory, ClassifyRead
<1>2. pc' = "upsert" =>
        \A x \in DOMAIN writes' : writes'[x].status = "active" /\ writes'[x].last_seen = stamp'
  BY DEF Sound, TypeOK, UnseenInv, sweepVars, refreshHistory, ClassifyRead
<1>3. ASSUME NEW x \in Entities \ clobbered' PROVE UnseenAt(x)'
  BY RefreshAssumption
  DEF Sound, TypeOK, UnseenInv, UnseenAt, Fit, sweepVars, refreshHistory, ClassifyRead
<1> QED  BY <1>1, <1>2, <1>3 DEF UnseenInv

LEMMA ClassifyWriteUnseen ==
  ASSUME Sound, Sound', UnseenInv, NEW e \in Entities, ClassifyWrite(e)
  PROVE  UnseenInv'
<1>0. /\ cls.base.entity = e /\ cls.base # NoBase /\ e \in DOMAIN cls.writes
      /\ cls.base.doc \in Documents /\ cls.writes[e] \in Entries
  BY DEF ClassifyWrite, Sound, TypeOK, BaseOf, WritesOf
<1>1. /\ at' <= clock' /\ stamp' <= clock'
      /\ UNCHANGED <<clock, pc, stamp, base, writes, seen>>
  BY DEF UnseenInv, ClassifyWrite, sweepVars
<1>2. /\ graph' = Merge(cls.base, cls.writes[e])
      /\ clobbered' = clobbered \cup {x \in Entities : SetBack(graph', x)}
  BY DEF ClassifyWrite
<1>3. cls'.base = NoBase /\ DOMAIN cls'.writes \subseteq DOMAIN cls.writes
  BY DEF ClassifyWrite, Sound, Restrict
<1>4. ASSUME NEW x \in Entities \ clobbered' PROVE UnseenAt(x)'
  <2>1. UnseenAt(x) /\ ~SetBack(graph', x)
    BY <1>2, <1>4 DEF UnseenInv
  <2>2. CASE graph[x] = Unknown
    <3>1. x # e /\ graph'[x] = Unknown
      <4>1. x \notin DOMAIN cls.writes /\ cls.base.doc[x] = Unknown
        BY <1>0, <2>1, <2>2 DEF UnseenAt
      <4>2. x # e
        BY <1>0, <4>1
      <4>3. \A y \in Entities : y # e => Merge(cls.base, cls.writes[e])[y] = cls.base.doc[y]
        BY <1>0, Merges
      <4> QED
        BY <1>2, <4>1, <4>2, <4>3
    <3> QED  BY <1>1, <1>3, <2>1, <2>2, <3>1 DEF UnseenAt, Fit
  <2>3. CASE graph[x] # Unknown
    <3>1. /\ graph'[x] # Unknown /\ graph'[x].status = graph[x].status
          /\ ~(graph'[x].last_seen < graph[x].last_seen)
      BY <2>1, <2>3 DEF SetBack
    <3>2. graph[x] \in Entries /\ graph'[x] \in Entries
      BY <2>3, <3>1 DEF Sound, TypeOK, Documents
    <3>3. graph[x].last_seen \in Nat /\ graph'[x].last_seen \in Nat /\ seen[x] \in Nat
      <4>1. graph[x].last_seen \in Nat /\ graph'[x].last_seen \in Nat
        BY <3>2, EntryIs, RefreshAssumption
      <4>2. seen[x] \in Nat
        BY RefreshAssumption DEF Sound, TypeOK
      <4> QED
        BY <4>1, <4>2
    <3>4. Fit(graph[x], x)'
      BY <1>1, <2>1, <2>3, <3>1, <3>3 DEF UnseenAt, Fit
    <3> QED  BY <1>1, <2>1, <2>3, <3>1, <3>4 DEF UnseenAt, Fit
  <2> QED  BY <2>2, <2>3
<1>5. (pc = "upsert" =>
         \A x \in DOMAIN writes : writes[x].status = "active" /\ writes[x].last_seen = stamp)'
  BY <1>1 DEF UnseenInv
<1> QED  BY <1>1, <1>4, <1>5 DEF UnseenInv

LEMMA ClassifyDoneUnseen ==
  ASSUME Sound, Sound', UnseenInv, ClassifyDone
  PROVE  UnseenInv'
<1>1. /\ at' <= clock' /\ stamp' <= clock'
      /\ UNCHANGED <<clock, pc, stamp, graph, base, writes, seen, clobbered>>
  BY DEF UnseenInv, ClassifyDone, sweepVars, refreshHistory
<1>2. cls'.base = NoBase /\ cls'.writes = NoWrite /\ DOMAIN NoWrite = {}
  BY NoBaseIs DEF ClassifyDone, Idle
<1>3. ASSUME NEW x \in Entities \ clobbered' PROVE UnseenAt(x)'
  <2>1. UnseenAt(x)
    BY <1>1, <1>3 DEF UnseenInv
  <2> QED  BY <1>1, <1>2, <2>1 DEF UnseenAt, Fit
<1> QED  BY <1>1, <1>3 DEF UnseenInv

LEMMA OuterDrift ==
  ASSUME Sound, Sound', UnseenInv, UnseenInv', DriftInv, Outer
  PROVE  DriftInv'
<1> SUFFICES ASSUME pc' # "idle", ~excused' PROVE Undisturbed'
  BY DEF DriftInv
<1>0. pc # "idle" /\ ~excused => Undisturbed
  BY DEF DriftInv
<1>1. ASSUME NEW x \in Entities PROVE DriftAt(x)'
  BY <1>0
  DEF Sound, TypeOK, Undisturbed, DriftAt, sweepVars, refreshHistory, Outer, Advance,
      Change, Outage
<1>2. Undisturbed'
  BY <1>0, <1>1
  DEF Sound, TypeOK, Undisturbed, Repeated, sweepVars, refreshHistory, Outer, Advance, Change,
      Outage
<1> QED  BY <1>2

LEMMA SweepDrift ==
  ASSUME Sound, Sound', UnseenInv, UnseenInv', DriftInv, NEW f \in Filters, Sweep(f)
  PROVE  DriftInv'
<1> SUFFICES ASSUME pc' # "idle", ~excused' PROVE Undisturbed'
  BY DEF DriftInv
<1>0. pc # "idle" /\ ~excused => Undisturbed
  BY DEF DriftInv
<1>1. /\ pc' = "enumerate" /\ prior' = graph /\ todo' = f
      /\ UNCHANGED <<graph, ok, owed, writes, base>>
  BY DEF Sweep, Snapshot, refreshHistory
<1>2. ok = {} /\ owed = {} /\ DOMAIN writes = {} /\ base = NoBase
  BY NoBaseIs DEF Sweep, Sound, NoSweep
<1> QED  BY <1>1, <1>2 DEF Undisturbed, DriftAt

LEMMA EnumerateDrift ==
  ASSUME Sound, Sound', UnseenInv, UnseenInv', DriftInv, Enumerate
  PROVE  DriftInv'
<1> SUFFICES ASSUME pc' # "idle", ~excused' PROVE Undisturbed'
  BY DEF DriftInv
<1>0. pc # "idle" /\ ~excused => Undisturbed
  BY DEF DriftInv
<1>1. /\ pc = "enumerate" /\ pc' = "platforms" /\ stamp' = clock /\ at' = at
      /\ UNCHANGED <<graph, ok, owed, writes, base, prior, todo, excused>>
  BY DEF Enumerate, refreshHistory
<1>2. Undisturbed /\ at <= clock
  BY <1>0, <1>1 DEF UnseenInv
<1> QED  BY <1>1, <1>2 DEF Undisturbed, DriftAt

LEMMA ConnectDrift ==
  ASSUME Sound, Sound', UnseenInv, UnseenInv', DriftInv, NEW p \in Platforms, Connect(p)
  PROVE  DriftInv'
<1> SUFFICES ASSUME pc' # "idle", ~excused' PROVE Undisturbed'
  BY DEF DriftInv
<1>0. pc # "idle" /\ ~excused => Undisturbed
  BY DEF DriftInv
<1>1. ASSUME NEW x \in Entities PROVE DriftAt(x)'
  BY <1>0 DEF Sound, TypeOK, Undisturbed, DriftAt, sweepVars, refreshHistory, Connect
<1>2. Undisturbed'
  BY <1>0, <1>1 DEF Sound, TypeOK, Undisturbed, sweepVars, refreshHistory, Connect
<1> QED  BY <1>2

LEMMA ConnectFailsDrift ==
  ASSUME Sound, Sound', UnseenInv, UnseenInv', DriftInv, NEW p \in Platforms, ConnectFails(p)
  PROVE  DriftInv'
<1> SUFFICES ASSUME pc' # "idle", ~excused' PROVE Undisturbed'
  BY DEF DriftInv
<1>0. pc # "idle" /\ ~excused => Undisturbed
  BY DEF DriftInv
<1>1. ASSUME NEW x \in Entities PROVE DriftAt(x)'
  BY <1>0
  DEF Sound, TypeOK, Undisturbed, DriftAt, sweepVars, refreshHistory, ConnectFails
<1>2. Undisturbed'
  BY <1>0, <1>1 DEF Sound, TypeOK, Undisturbed, sweepVars, refreshHistory, ConnectFails
<1> QED  BY <1>2

LEMMA ListDrift ==
  ASSUME Sound, Sound', UnseenInv, UnseenInv', DriftInv, NEW p \in Platforms, List(p)
  PROVE  DriftInv'
<1> SUFFICES ASSUME pc' # "idle", ~excused' PROVE Undisturbed'
  BY DEF DriftInv
<1>0. pc # "idle" /\ ~excused => Undisturbed
  BY DEF DriftInv
<1>1. PICK lost \in SUBSET Present(p) : List(p)!2!(lost)
  BY DEF List
<1>2. /\ pc = "list" /\ here = {p} /\ todo' = todo \ {p} /\ ok' = ok \cup {p}
      /\ here' = {} /\ pc' = "upsert" /\ DOMAIN writes = {} /\ base = NoBase
      /\ UNCHANGED <<graph, at, stamp, prior, base, owed, excused>>
  BY DEF List, Sound, TypeOK
<1>3. Undisturbed
  BY <1>0, <1>2
<1>4. ASSUME NEW x \in Entities PROVE DriftAt(x)'
  <2>1. x \in DOMAIN writes' => PlatformOf[x] = p
    BY <1>1 DEF Present
  <2>2. p \notin ok
    BY <1>2, <1>3 DEF Undisturbed
  <2> QED  BY <1>2, <1>3, <2>1, <2>2 DEF Undisturbed, DriftAt
<1> QED  BY <1>2, <1>3, <1>4 DEF Undisturbed

LEMMA UpsertReadDrift ==
  ASSUME Sound, Sound', UnseenInv, UnseenInv', DriftInv, NEW e \in Entities, UpsertRead(e)
  PROVE  DriftInv'
<1> SUFFICES ASSUME pc' # "idle", ~excused' PROVE Undisturbed'
  BY DEF DriftInv
<1>0. pc # "idle" /\ ~excused => Undisturbed
  BY DEF DriftInv
<1>1. ASSUME NEW x \in Entities PROVE DriftAt(x)'
  BY <1>0
  DEF Sound, TypeOK, Undisturbed, DriftAt, sweepVars, refreshHistory, UpsertRead
<1>2. Undisturbed'
  BY <1>0, <1>1 DEF Sound, TypeOK, Undisturbed, sweepVars, refreshHistory, UpsertRead
<1> QED  BY <1>2

LEMMA UpsertWriteDrift ==
  ASSUME Sound, Sound', UnseenInv, UnseenInv', DriftInv, NEW e \in Entities, UpsertWrite(e)
  PROVE  DriftInv'
<1> SUFFICES ASSUME pc' # "idle", ~excused' PROVE Undisturbed'
  BY DEF DriftInv
<1>0. pc # "idle" /\ ~excused => Undisturbed
  BY DEF DriftInv
<1>1. /\ base.entity = e /\ e \in Entities /\ base.doc \in Documents /\ base # NoBase
      /\ e \in DOMAIN writes /\ writes[e] \in Entries
  BY DEF UpsertWrite, Sound, TypeOK, BaseOf, WritesOf
<1>2. /\ base' = NoBase /\ pc \in {"upsert", "mark"}
      /\ UNCHANGED <<pc, at, stamp, todo, ok, here, prior, excused>>
  BY <1>1 DEF UpsertWrite, Sound, TypeOK
<1>3. Undisturbed
  BY <1>0, <1>2
<1>4. /\ DOMAIN writes' \subseteq DOMAIN writes
      /\ \A x \in DOMAIN writes' : writes'[x] = writes[x] /\ x # e
  BY DEF UpsertWrite, Rest, Restrict
<1>5. /\ graph'[e] = writes[e] /\ writes[e] # Unknown
      /\ \A x \in Entities : x # e => graph'[x] = graph[x]
  BY <1>1, <1>3, Merges, EntryIs DEF UpsertWrite, Undisturbed
<1>6. owed' = owed \cup Drift(e) /\ Drift(e) \subseteq {GoneEvent(e), ImageEvent(e)}
  BY DEF UpsertWrite, Drift
<1>7. DriftAt(e) /\ graph[e] = prior[e] /\ PlatformOf[e] \in ok
  BY <1>1, <1>3 DEF Undisturbed, DriftAt
<1>8. ASSUME NEW x \in Entities, x # e PROVE DriftAt(x)'
  <2>1. DriftAt(x)
    BY <1>3 DEF Undisturbed
  <2>2. GoneEvent(x) \notin Drift(e) /\ ImageEvent(x) \notin Drift(e)
    BY <1>6, <1>8, Events
  <2> QED  BY <1>2, <1>4, <1>5, <1>6, <1>8, <2>1, <2>2 DEF DriftAt
<1>9. DriftAt(e)'
  <2>1. GoneEvent(e) \notin owed /\ ImageEvent(e) \notin owed
    BY <1>7 DEF DriftAt
  <2>2. GoneEvent(e) \in owed' =>
          /\ prior[e] # Unknown /\ prior[e].status # "gone" /\ writes[e].status = "gone"
    BY <1>6, <1>7, <2>1, Events DEF Drift
  <2>3. ImageEvent(e) \in owed' => prior[e] # Unknown /\ writes[e].image # prior[e].image
    BY <1>6, <1>7, <2>1, Events DEF Drift
  <2>4. pc = "upsert" => writes[e].status = "active" /\ writes[e].last_seen = stamp
    BY <1>1 DEF UnseenInv
  <2> QED  BY <1>2, <1>4, <1>5, <1>7, <2>2, <2>3, <2>4 DEF DriftAt
<1> QED  BY <1>2, <1>3, <1>8, <1>9 DEF Undisturbed

LEMMA UpsertFailsDrift ==
  ASSUME Sound, Sound', UnseenInv, UnseenInv', DriftInv, NEW e \in Entities, UpsertFails(e)
  PROVE  DriftInv'
<1> SUFFICES ASSUME pc' # "idle", ~excused' PROVE Undisturbed'
  BY DEF DriftInv
<1>0. pc # "idle" /\ ~excused => Undisturbed
  BY DEF DriftInv
<1>1. ASSUME NEW x \in Entities PROVE DriftAt(x)'
  BY <1>0
  DEF Sound, TypeOK, Undisturbed, DriftAt, sweepVars, refreshHistory, UpsertFails,
      Rest, Restrict
<1>2. Undisturbed'
  BY <1>0, <1>1
  DEF Sound, TypeOK, Undisturbed, sweepVars, refreshHistory, UpsertFails, Rest,
      Restrict
<1> QED  BY <1>2

LEMMA PlatformDoneDrift ==
  ASSUME Sound, Sound', UnseenInv, UnseenInv', DriftInv, PlatformDone
  PROVE  DriftInv'
<1> SUFFICES ASSUME pc' # "idle", ~excused' PROVE Undisturbed'
  BY DEF DriftInv
<1>0. pc # "idle" /\ ~excused => Undisturbed
  BY DEF DriftInv
<1>1. ASSUME NEW x \in Entities PROVE DriftAt(x)'
  BY <1>0
  DEF Sound, TypeOK, Undisturbed, DriftAt, sweepVars, refreshHistory, PlatformDone
<1>2. Undisturbed'
  BY <1>0, <1>1 DEF Sound, TypeOK, Undisturbed, sweepVars, refreshHistory, PlatformDone
<1> QED  BY <1>2

LEMMA ReconcileDrift ==
  ASSUME Sound, Sound', UnseenInv, UnseenInv', DriftInv, Reconcile
  PROVE  DriftInv'
<1> SUFFICES ASSUME pc' # "idle", ~excused' PROVE Undisturbed'
  BY DEF DriftInv
<1>0. pc # "idle" /\ ~excused => Undisturbed
  BY DEF DriftInv
<1>1. /\ pc = "platforms" /\ todo = {} /\ pc' = "mark" /\ DOMAIN writes = {} /\ base = NoBase
      /\ UNCHANGED <<graph, at, stamp, todo, ok, here, prior, base, owed, excused>>
  BY DEF Reconcile, Sound, TypeOK, refreshHistory
<1>2. Undisturbed
  BY <1>0, <1>1
<1>3. ASSUME NEW x \in Entities PROVE DriftAt(x)'
  <2>1. DriftAt(x)
    BY <1>2 DEF Undisturbed
  <2>2. ASSUME x \in DOMAIN writes'
        PROVE  /\ PlatformOf[x] \in ok /\ graph[x] = prior[x] /\ graph[x] # Unknown
               /\ writes'[x].image = graph[x].image
    <3>1. /\ x \in Overdue
          /\ writes'[x] = [graph[x] EXCEPT !.status = StatusAfter(graph[x])]
      BY <2>2 DEF Reconcile
    <3>2. /\ graph[x] # Unknown /\ PlatformOf[x] \in ok /\ graph[x] \in Entries
          /\ StatusAfter(graph[x]) # graph[x].status
      BY <3>1 DEF Overdue, Reconciled, Known, Sound, TypeOK, Documents
    <3>3. writes'[x] = Entry(StatusAfter(graph[x]), graph[x].image, graph[x].last_seen)
      BY <3>1, <3>2, Ages, Statuses DEF Sound
    <3>4. ASSUME graph[x] # prior[x] PROVE FALSE
      <4>1. graph[x].status = "active" /\ graph[x].last_seen >= at
        BY <1>1, <1>2, <2>1, <3>4, RefreshAssumption
        DEF DriftAt, Undisturbed, Sound, TypeOK
      <4> QED  BY <3>2, <4>1, Ages DEF Sound
    <3> QED  BY <3>2, <3>3, <3>4 DEF Entry
  <2> QED  BY <1>1, <2>1, <2>2 DEF DriftAt
<1> QED  BY <1>1, <1>2, <1>3 DEF Undisturbed

LEMMA DiffDrift ==
  ASSUME Sound, Sound', UnseenInv, UnseenInv', DriftInv, Diff
  PROVE  DriftInv'
<1> SUFFICES ASSUME pc' # "idle", ~excused' PROVE Undisturbed'
  BY DEF DriftInv
<1>0. pc # "idle" /\ ~excused => Undisturbed
  BY DEF DriftInv
<1>1. /\ pc = "mark" /\ pc' = "save"
      /\ events' = UNION {EventsOf(e, graph) : e \in Compared(graph)}
      /\ UNCHANGED <<graph, at, stamp, todo, ok, here, prior, writes, base, owed, excused>>
  BY DEF Diff, refreshHistory
<1>2. Undisturbed /\ DOMAIN writes = {}
  BY <1>0, <1>1 DEF Diff
<1>3. ASSUME NEW ev \in owed PROVE ev \in events'
  <2>1. PICK e \in Entities : ev = GoneEvent(e) \/ ev = ImageEvent(e)
    BY DEF Sound, TypeOK, EventSet
  <2>2. DriftAt(e)
    BY <1>2 DEF Undisturbed
  <2>3. e \in Compared(graph)
    BY <2>1, <2>2 DEF DriftAt, Compared, Known
  <2>4. ev \in EventsOf(e, graph)
    BY <2>1, <2>2, Events DEF DriftAt, EventsOf
  <2> QED  BY <1>1, <2>3, <2>4
<1> QED  BY <1>1, <1>2, <1>3 DEF Undisturbed, DriftAt

LEMMA SaveDrift ==
  ASSUME Sound, Sound', UnseenInv, UnseenInv', DriftInv, NEW ev \in events, Emits(ev)
  PROVE  DriftInv'
<1> SUFFICES ASSUME pc' # "idle", ~excused' PROVE Undisturbed'
  BY DEF DriftInv
<1>1. Undisturbed /\ pc = "save" /\ pc' = pc
  BY DEF DriftInv, Emits
<1>2. ASSUME NEW x \in Entities PROVE DriftAt(x)'
  BY <1>1 DEF Undisturbed, DriftAt, Emits
<1>3. ASSUME NEW o \in owed' PROVE o \in events' \/ Repeated(o)'
  <2>1. o \in EventSet /\ ev \in EventSet /\ dedup \in [EventSet -> Nat] /\ at \in Nat
    BY RefreshAssumption DEF Sound, TypeOK, Emits
  <2>2. (o \in events \/ Repeated(o)) /\ at' = at /\ events' = events \ {ev}
    BY <1>1 DEF Undisturbed, Emits
  <2>3. CASE Repeated(ev) /\ dedup' = dedup
    BY <2>2, <2>3 DEF Repeated
  <2>4. CASE dedup' = [dedup EXCEPT ![ev] = at + DedupWindow]
    <3>1. Repeated(ev)'
      BY <2>1, <2>2, <2>4, RefreshAssumption DEF Repeated
    <3>2. o # ev => Repeated(o)' = Repeated(o)
      BY <2>1, <2>2, <2>4 DEF Repeated
    <3> QED  BY <2>2, <3>1, <3>2
  <2> QED  BY <2>3, <2>4 DEF Emits
<1> QED  BY <1>1, <1>2, <1>3 DEF Undisturbed, Emits

LEMMA ClassifyDrift ==
  ASSUME Sound, Sound', UnseenInv, UnseenInv', DriftInv, Classify
  PROVE  DriftInv'
<1> SUFFICES ASSUME pc' # "idle", ~excused' PROVE Undisturbed'
  BY DEF DriftInv
<1>0. pc # "idle" /\ ~excused => Undisturbed
  BY DEF DriftInv
<1>1. ASSUME NEW x \in Entities PROVE DriftAt(x)'
  BY <1>0 DEF Sound, TypeOK, Undisturbed, DriftAt, sweepVars, refreshHistory, Classify
<1>2. Undisturbed'
  BY <1>0, <1>1 DEF Sound, TypeOK, Undisturbed, Repeated, sweepVars, refreshHistory, Classify
<1> QED  BY <1>2

LEMMA ClassifyReadDrift ==
  ASSUME Sound, Sound', UnseenInv, UnseenInv', DriftInv, NEW e \in Entities, ClassifyRead(e)
  PROVE  DriftInv'
<1> SUFFICES ASSUME pc' # "idle", ~excused' PROVE Undisturbed'
  BY DEF DriftInv
<1>0. pc # "idle" /\ ~excused => Undisturbed
  BY DEF DriftInv
<1>1. ASSUME NEW x \in Entities PROVE DriftAt(x)'
  BY <1>0
  DEF Sound, TypeOK, Undisturbed, DriftAt, sweepVars, refreshHistory, ClassifyRead
<1>2. Undisturbed'
  BY <1>0, <1>1 DEF Sound, TypeOK, Undisturbed, Repeated, sweepVars, refreshHistory, ClassifyRead
<1> QED  BY <1>2

LEMMA ClassifyWriteDrift ==
  ASSUME Sound, Sound', UnseenInv, UnseenInv', DriftInv, NEW e \in Entities, ClassifyWrite(e)
  PROVE  DriftInv'
<1> SUFFICES ASSUME pc' # "idle", ~excused' PROVE Undisturbed'
  BY DEF DriftInv
<1>0. pc # "idle" /\ ~excused => Undisturbed
  BY DEF DriftInv
<1>1. ASSUME NEW x \in Entities PROVE DriftAt(x)'
  BY <1>0
  DEF Sound, TypeOK, Undisturbed, DriftAt, sweepVars, refreshHistory, ClassifyWrite
<1>2. Undisturbed'
  BY <1>0, <1>1
  DEF Sound, TypeOK, Undisturbed, sweepVars, refreshHistory, ClassifyWrite
<1> QED  BY <1>2

LEMMA ClassifyDoneDrift ==
  ASSUME Sound, Sound', UnseenInv, UnseenInv', DriftInv, ClassifyDone
  PROVE  DriftInv'
<1> SUFFICES ASSUME pc' # "idle", ~excused' PROVE Undisturbed'
  BY DEF DriftInv
<1>0. pc # "idle" /\ ~excused => Undisturbed
  BY DEF DriftInv
<1>1. ASSUME NEW x \in Entities PROVE DriftAt(x)'
  BY <1>0
  DEF Sound, TypeOK, Undisturbed, DriftAt, sweepVars, refreshHistory, ClassifyDone,
      Idle
<1>2. Undisturbed'
  BY <1>0, <1>1
  DEF Sound, TypeOK, Undisturbed, Repeated, sweepVars, refreshHistory, ClassifyDone, Idle
<1> QED  BY <1>2

-----------------------------------------------------------------------------

RefreshInv == Sound /\ UnseenInv /\ DriftInv

LEMMA SoundStep ==
  ASSUME Sound, RefreshNext
  PROVE  Sound'
BY RefreshSteps, OuterSound, EndsSound, SweepSound, EnumerateSound, ConnectSound,
   ConnectFailsSound, ListSound, UpsertReadSound, UpsertWriteSound, UpsertFailsSound,
   PlatformDoneSound, ReconcileSound, DiffSound, SaveSound, ClassifySound,
   ClassifyReadSound, ClassifyWriteSound, ClassifyDoneSound

LEMMA UnseenStep ==
  ASSUME Sound, Sound', UnseenInv, RefreshNext
  PROVE  UnseenInv'
BY RefreshSteps, OuterUnseen, EndsUnseen, SweepUnseen, EnumerateUnseen, ConnectUnseen,
   ConnectFailsUnseen, ListUnseen, UpsertReadUnseen, UpsertWriteUnseen, UpsertFailsUnseen,
   PlatformDoneUnseen, ReconcileUnseen, DiffUnseen, SaveUnseen, ClassifyUnseen,
   ClassifyReadUnseen, ClassifyWriteUnseen, ClassifyDoneUnseen

LEMMA DriftStep ==
  ASSUME Sound, Sound', UnseenInv, UnseenInv', DriftInv, RefreshNext
  PROVE  DriftInv'
<1>1. Ends => DriftInv'
  BY DEF Ends, EndSweep, DriftInv
<1> QED
  BY <1>1, RefreshSteps, OuterDrift, SweepDrift, EnumerateDrift, ConnectDrift,
     ConnectFailsDrift, ListDrift, UpsertReadDrift, UpsertWriteDrift, UpsertFailsDrift,
     PlatformDoneDrift, ReconcileDrift, DiffDrift, SaveDrift, ClassifyDrift, ClassifyReadDrift,
     ClassifyWriteDrift, ClassifyDoneDrift

LEMMA RefreshInvariant == RefreshSpec => []RefreshInv
<1>1. RefreshInit => RefreshInv
  <2> SUFFICES ASSUME RefreshInit PROVE RefreshInv
    OBVIOUS
  <2>1. 0 \in 0 .. MaxClock /\ 0 <= clock
    BY RefreshAssumption DEF RefreshInit
  <2>2. [e \in Entities |-> Unknown] \in Documents
    BY DEF Documents
  <2>3. Runs(FirstImage) \in {Runs(i) : i \in Images}
    BY RefreshAssumption
  <2>4. /\ cls = [pc |-> "idle", writes |-> NoWrite, base |-> NoBase]
        /\ DOMAIN cls = {"pc", "writes", "base"} /\ cls.writes = NoWrite /\ cls.base = NoBase
    BY DEF RefreshInit, Idle
  <2>5. TypeOK
    BY <2>1, <2>2, <2>3, <2>4, NoBaseIs, NoKeysFit
    DEF RefreshInit, NoSweep, TypeOK, WritesOf, BaseOf
  <2>6. Sound
    BY <2>4, <2>5 DEF Sound, RefreshInit, NoSweep
  <2>7. UnseenInv
    BY <2>1, <2>4, NoBaseIs DEF RefreshInit, NoSweep, UnseenInv, UnseenAt, Fit
  <2> QED  BY <2>6, <2>7 DEF RefreshInv, DriftInv, RefreshInit, NoSweep
<1>2. RefreshInv /\ UNCHANGED refreshVars => RefreshInv'
  BY DEF RefreshInv, Sound, TypeOK, NoSweep, UnseenInv, UnseenAt, Fit, DriftInv,
     Undisturbed, DriftAt, Repeated, refreshVars, sweepVars, refreshHistory
<1>3. RefreshInv /\ RefreshNext => RefreshInv'
  BY SoundStep, UnseenStep, DriftStep DEF RefreshInv
<1>4. RefreshInv /\ [RefreshNext]_(refreshVars) => RefreshInv'
  BY <1>2, <1>3
<1> QED  BY <1>1, <1>4, PTL DEF RefreshSpec

(***************************************************************************)
(* The graph is well-formed; what it calls gone was not stored by an       *)
(* enumeration for GoneAfter, unless `inventory classify` set it back; and *)
(* a sweep that ends without another writer has saved all the drift it     *)
(* caused, except what its engine has tried to save within the window.     *)
(***************************************************************************)
THEOREM TheGraphIsTrue == RefreshSpec => []GraphIsTrue
<1>1. RefreshInv => GraphIsTrue
  <2> SUFFICES ASSUME RefreshInv PROVE GraphIsTrue
    OBVIOUS
  <2>1. TypeOK
    BY DEF RefreshInv, Sound
  <2>2. GoneMeansUnseen
    BY DEF RefreshInv, UnseenInv, UnseenAt, Fit, GoneMeansUnseen
  <2>3. DriftIsSaved
    BY DEF RefreshInv, DriftInv, Undisturbed, DriftIsSaved
  <2> QED  BY <2>1, <2>2, <2>3 DEF GraphIsTrue
<1> QED  BY <1>1, RefreshInvariant, PTL

(***************************************************************************)
(* A sweep that nobody disturbs writes only what it was asked about and    *)
(* could connect to.                                                       *)
(***************************************************************************)
THEOREM OthersStayUntouched == RefreshSpec => OthersUntouched
<1> DEFINE A == pc # "idle" /\ ~excused /\ cls' = cls =>
                  \A e \in Entities : graph'[e] # graph[e] => PlatformOf[e] \in ok
<1>1. RefreshInv /\ [RefreshNext]_(refreshVars) => [A]_(refreshVars)
  <2> SUFFICES ASSUME RefreshInv, RefreshNext, pc # "idle", ~excused, cls' = cls,
                      NEW x \in Entities, graph'[x] # graph[x]
               PROVE  PlatformOf[x] \in ok
    OBVIOUS
  <2>1. Undisturbed /\ Sound
    BY DEF RefreshInv, DriftInv
  <2>2. \/ \E e \in Entities : UpsertWrite(e)
        \/ \E e \in Entities : ClassifyWrite(e)
    BY RefreshSteps
    DEF Outer, Advance, Change, Outage, Ends, Sweep, Enumerate,
        PlatformDone, Reconcile, Diff, Connect, ConnectFails, List,
        UpsertRead, UpsertFails, ClassifyRead, Emits,
        Classify, ClassifyDone
  <2>3. ASSUME NEW e \in Entities, UpsertWrite(e) PROVE PlatformOf[x] \in ok
    <3>1. /\ base.entity = e /\ base.doc \in Documents /\ base # NoBase
          /\ e \in DOMAIN writes /\ writes[e] \in Entries /\ base.doc = graph
      BY <2>1, <2>3
      DEF UpsertWrite, Sound, TypeOK, BaseOf, WritesOf, Undisturbed
    <3>2. x = e
      BY <2>3, <3>1, Merges DEF UpsertWrite
    <3> QED  BY <2>1, <3>1, <3>2 DEF Undisturbed, DriftAt
  <2>4. ASSUME NEW e \in Entities, ClassifyWrite(e) PROVE FALSE
    <3>1. cls.base # NoBase /\ cls'.base = NoBase
      BY <2>1, <2>4 DEF ClassifyWrite, Sound
    <3> QED  BY <3>1
  <2> QED  BY <2>2, <2>3, <2>4
<1> QED  BY <1>1, RefreshInvariant, PTL DEF RefreshSpec, OthersUntouched

=============================================================================
