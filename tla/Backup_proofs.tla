---------------------------- MODULE Backup_proofs ----------------------------
(***************************************************************************)
(* Theorems about Backup, for any number of backup and restore commands,   *)
(* of older entries and of damaged artifacts.                              *)
(***************************************************************************)
EXTENDS Backup, TLAPS

RunPcs == {"new", "dump", "locate", "sum", "read", "open", "write", "rename", "done", "failed"}
Files == {"none", "tmp", "main", "gone"}
RunRecs == [pc : RunPcs, entry : Entries, base : SUBSET Entries, file : Files,
            crossed : BOOLEAN, overlapped : BOOLEAN]
RestorePcs == {"new", "verify", "gate", "exec", "copy", "copying", "restart", "done", "failed"}
RestoreRecs == [pc : RestorePcs, entry : Entries, wrote : Content, rewritten : BOOLEAN,
                met : BOOLEAN]
FileOK(f) == f \in {Missing, Empty, Torn} \/ (f = Manifest(f.has) /\ f.has \subseteq Entries)

\* TypeOK by these names.
LEMMA Types ==
  TypeOK <=> /\ disk \in [Paths -> Content] /\ latest \in Runs \cup {Old}
             /\ FileOK(main) /\ FileOK(tmp)
             /\ run \in [Runs -> RunRecs] /\ restore \in [Restores -> RestoreRecs]
             /\ service \in BOOLEAN \X BOOLEAN /\ spoils \in 0 .. MaxSpoils
<1>1. service \in BOOLEAN \X BOOLEAN <=> up \in BOOLEAN /\ half \in BOOLEAN
  BY DEF service
<1> QED
  BY <1>1, Zenon DEF TypeOK, FileOK, RunRecs, RunPcs, Files, RestoreRecs, RestorePcs

\* The same of the next state.
LEMMA TypesPrimed ==
  TypeOK' <=> /\ disk' \in [Paths -> Content] /\ latest' \in Runs \cup {Old}
              /\ FileOK(main') /\ FileOK(tmp')
              /\ run' \in [Runs -> RunRecs] /\ restore' \in [Restores -> RestoreRecs]
              /\ service' \in BOOLEAN \X BOOLEAN /\ spoils' \in 0 .. MaxSpoils
<1>1. service' \in BOOLEAN \X BOOLEAN <=> up' \in BOOLEAN /\ half' \in BOOLEAN
  BY DEF service
<1> QED
  BY <1>1, Zenon DEF TypeOK, FileOK, RunRecs, RunPcs, Files, RestoreRecs, RestorePcs

\* What the service is made of.
LEMMA ServiceParts ==
  /\ TypeOK => up \in BOOLEAN /\ half \in BOOLEAN
  /\ UNCHANGED service <=> up' = up /\ half' = half
  /\ up' \in BOOLEAN /\ half' \in BOOLEAN <=> service' \in BOOLEAN \X BOOLEAN
BY DEF service, TypeOK

LEMMA Contents ==
  /\ Absent \in Content /\ Spoiled \in Content /\ NoSum \in Content
  /\ \A r \in Runs \cup {Old} : Whole(r) \in Content /\ Part(r) \in Content
BY DEF Absent, Spoiled, NoSum, Content, Whole, Part

LEMMA EntryFields ==
  ASSUME NEW e \in Entries
  PROVE  /\ e.of \in Runs \cup {Old} /\ e.kind \in Kinds /\ e.path \in Paths /\ e.sum \in Content
         /\ e.way \in UNION {Ways(k) : k \in Kinds} /\ e.sig \in {"valid", "bad", "none"}
BY DEF Entries

LEMMA RunFields ==
  ASSUME NEW x \in RunRecs
  PROVE  /\ x.pc \in RunPcs /\ x.entry \in Entries /\ x.base \subseteq Entries /\ x.file \in Files
         /\ x.crossed \in BOOLEAN /\ x.overlapped \in BOOLEAN
BY DEF RunRecs

LEMMA RestoreFields ==
  ASSUME NEW x \in RestoreRecs
  PROVE  /\ x.pc \in RestorePcs /\ x.entry \in Entries /\ x.wrote \in Content /\ x.rewritten \in BOOLEAN
         /\ x.met \in BOOLEAN
BY DEF RestoreRecs

LEMMA OldEntries ==
  ASSUME NEW sig \in FirstSigs \cup {"none"}
  PROVE  OldEntry(sig) \in Entries
<1>1. "command" \in Ways("named") /\ "named" \in Kinds
  BY DEF Ways, Kinds
<1>2. "command" \in UNION {Ways(k) : k \in Kinds}
  BY <1>1
<1>3. sig \in {"valid", "bad", "none"}
  BY BackupAssumption
<1>4. OldEntry(sig) = [of |-> Old, kind |-> "named", way |-> "command", path |-> Old, sum |-> NoSum, sig |-> sig]
  BY DEF OldEntry
<1> QED
  BY <1>1, <1>2, <1>3, <1>4, Contents DEF Entries, Paths

LEMMA ManifestOK ==
  ASSUME NEW es \in SUBSET Entries
  PROVE  /\ FileOK(Manifest(es)) /\ Manifest(es).has = es
         /\ Manifest(es) \notin {Missing, Empty, Torn}
BY DEF FileOK, Manifest, Missing, Empty, Torn

LEMMA FileKinds ==
  /\ FileOK(Missing) /\ FileOK(Empty) /\ FileOK(Torn)
  /\ Missing # Empty /\ Missing # Torn /\ Empty # Torn
  /\ Missing.has = {} /\ Empty.has = {} /\ Torn.has = {}
  /\ Missing \notin Unreadable
BY DEF FileOK, Missing, Empty, Torn, Unreadable

LEMMA FileHas ==
  ASSUME NEW f, FileOK(f)
  PROVE  f.has \subseteq Entries
BY FileKinds DEF FileOK

-----------------------------------------------------------------------------
LEMMA InitTypes == Init => TypeOK
<1> SUFFICES ASSUME Init PROVE TypeOK
  OBVIOUS
<1>1. disk \in [Paths -> Content]
  BY Contents DEF Init
<1>2. FileOK(main)
  <2>1. CASE main = Missing
    BY <2>1, FileKinds
  <2>2. ASSUME NEW sig \in FirstSigs, main = Manifest({OldEntry(sig)}) PROVE FileOK(main)
    BY <2>2, OldEntries, ManifestOK
  <2> QED
    BY <2>1, <2>2 DEF Init
<1>3. FileOK(tmp)
  BY FileKinds DEF Init
<1>4. [pc |-> "new", entry |-> OldEntry("none"), base |-> {}, file |-> "none",
       crossed |-> FALSE, overlapped |-> FALSE] \in RunRecs
  BY OldEntries DEF RunRecs, RunPcs, Files
<1>5. [pc |-> "new", entry |-> OldEntry("none"), wrote |-> Absent, rewritten |-> FALSE,
       met |-> FALSE] \in RestoreRecs
  BY OldEntries, Contents DEF RestoreRecs, RestorePcs
<1>6. run \in [Runs -> RunRecs] /\ restore \in [Restores -> RestoreRecs]
  BY <1>4, <1>5 DEF Init
<1>7. latest \in Runs \cup {Old} /\ service \in BOOLEAN \X BOOLEAN
  BY DEF Init, service
<1>8. spoils \in 0 .. MaxSpoils
  BY BackupAssumption DEF Init
<1> QED
  BY <1>1, <1>2, <1>3, <1>6, <1>7, <1>8, Types

-----------------------------------------------------------------------------
(***************************************************************************)
(* What each action does, field by field.  The lemmas on the invariants    *)
(* use these facts and not the actions.                                    *)
(***************************************************************************)
LEMMA Replace ==
  ASSUME NEW S, NEW T, NEW f \in [S -> T], NEW r \in S, NEW new \in T, NEW g,
         g = [f EXCEPT ![r] = new]
  PROVE  /\ g \in [S -> T] /\ g[r] = new
         /\ \A q \in S \ {r} : g[q] = f[q]
OBVIOUS

\* Another record that differs in one history variable.
Crosses(x, y, b) ==
  /\ y.pc = x.pc /\ y.entry = x.entry /\ y.base = x.base /\ y.file = x.file
  /\ y.overlapped = x.overlapped /\ (y.crossed <=> x.crossed \/ b)
Overlaps(x, y, b) ==
  /\ y.pc = x.pc /\ y.entry = x.entry /\ y.base = x.base /\ y.file = x.file
  /\ y.crossed = x.crossed /\ (y.overlapped <=> x.overlapped \/ b)
Rewrites(x, y, b) ==
  /\ y.pc = x.pc /\ y.entry = x.entry /\ y.wrote = x.wrote
  /\ y.met = x.met /\ (y.rewritten <=> x.rewritten \/ b)
Meets(x, y, b) ==
  /\ y.pc = x.pc /\ y.entry = x.entry /\ y.wrote = x.wrote
  /\ y.rewritten = x.rewritten /\ (y.met <=> x.met \/ b)

LEMMA CrossedRecord ==
  ASSUME NEW x \in RunRecs, NEW b \in BOOLEAN
  PROVE  /\ [x EXCEPT !.crossed = @ \/ b] \in RunRecs
         /\ Crosses(x, [x EXCEPT !.crossed = @ \/ b], b)
<1> DEFINE c == x.crossed \/ b
<1>1. c \in BOOLEAN
  BY DEF RunRecs
<1>2. [x EXCEPT !.crossed = @ \/ b] = [x EXCEPT !.crossed = c]
  OBVIOUS
<1> HIDE DEF c
<1>3. [x EXCEPT !.crossed = c] \in RunRecs
  BY <1>1 DEF RunRecs
<1>4. [x EXCEPT !.crossed = c].crossed = c
  BY DEF RunRecs
<1>5. [x EXCEPT !.crossed = c].crossed <=> x.crossed \/ b
  BY <1>4, <1>1 DEF c
<1> QED
  BY <1>2, <1>3, <1>5 DEF Crosses, RunRecs

LEMMA OverlappedRecord ==
  ASSUME NEW x \in RunRecs, NEW b \in BOOLEAN
  PROVE  /\ [x EXCEPT !.overlapped = @ \/ b] \in RunRecs
         /\ Overlaps(x, [x EXCEPT !.overlapped = @ \/ b], b)
<1> DEFINE c == x.overlapped \/ b
<1>1. c \in BOOLEAN
  BY DEF RunRecs
<1>2. [x EXCEPT !.overlapped = @ \/ b] = [x EXCEPT !.overlapped = c]
  OBVIOUS
<1> HIDE DEF c
<1>3. [x EXCEPT !.overlapped = c] \in RunRecs
  BY <1>1 DEF RunRecs
<1>4. [x EXCEPT !.overlapped = c].overlapped = c
  BY DEF RunRecs
<1>5. [x EXCEPT !.overlapped = c].overlapped <=> x.overlapped \/ b
  BY <1>4, <1>1 DEF c
<1> QED
  BY <1>2, <1>3, <1>5 DEF Overlaps, RunRecs

LEMMA RewrittenRecord ==
  ASSUME NEW x \in RestoreRecs, NEW b \in BOOLEAN
  PROVE  /\ [x EXCEPT !.rewritten = @ \/ b] \in RestoreRecs
         /\ Rewrites(x, [x EXCEPT !.rewritten = @ \/ b], b)
<1> DEFINE c == x.rewritten \/ b
<1>1. c \in BOOLEAN
  BY DEF RestoreRecs
<1>2. [x EXCEPT !.rewritten = @ \/ b] = [x EXCEPT !.rewritten = c]
  OBVIOUS
<1> HIDE DEF c
<1>3. [x EXCEPT !.rewritten = c] \in RestoreRecs
  BY <1>1 DEF RestoreRecs
<1>4. [x EXCEPT !.rewritten = c].rewritten = c
  BY DEF RestoreRecs
<1>5. [x EXCEPT !.rewritten = c].rewritten <=> x.rewritten \/ b
  BY <1>4, <1>1 DEF c
<1> QED
  BY <1>2, <1>3, <1>5 DEF Rewrites, RestoreRecs

LEMMA MetRecord ==
  ASSUME NEW x \in RestoreRecs, NEW b \in BOOLEAN
  PROVE  /\ [x EXCEPT !.met = @ \/ b] \in RestoreRecs
         /\ Meets(x, [x EXCEPT !.met = @ \/ b], b)
<1> DEFINE c == x.met \/ b
<1>1. c \in BOOLEAN
  BY DEF RestoreRecs
<1>2. [x EXCEPT !.met = @ \/ b] = [x EXCEPT !.met = c]
  OBVIOUS
<1> HIDE DEF c
<1>3. [x EXCEPT !.met = c] \in RestoreRecs
  BY <1>1 DEF RestoreRecs
<1>4. [x EXCEPT !.met = c].met = c
  BY DEF RestoreRecs
<1>5. [x EXCEPT !.met = c].met <=> x.met \/ b
  BY <1>4, <1>1 DEF c
<1> QED
  BY <1>2, <1>3, <1>5 DEF Meets, RestoreRecs

LEMMA PutEffect ==
  ASSUME TypeOK, NEW p \in Paths, NEW c \in Content, Put(p, c)
  PROVE  /\ disk' \in [Paths -> Content] /\ disk'[p] = c
         /\ \A q \in Paths \ {p} : disk'[q] = disk[q]
         /\ restore' \in [Restores -> RestoreRecs]
         /\ \A s \in Restores :
              Rewrites(restore[s], restore'[s], Verified(s) /\ restore[s].entry.path = p)
<1>1. disk \in [Paths -> Content] /\ restore \in [Restores -> RestoreRecs]
  BY Types
<1>2. disk' = [disk EXCEPT ![p] = c]
  BY DEF Put
<1>3. disk' \in [Paths -> Content] /\ disk'[p] = c /\ \A q \in Paths \ {p} : disk'[q] = disk[q]
  BY <1>1, <1>2, Replace
<1>4. ASSUME NEW s \in Restores
      PROVE  /\ restore'[s] \in RestoreRecs
             /\ Rewrites(restore[s], restore'[s], Verified(s) /\ restore[s].entry.path = p)
  <2>1. PICK x \in RestoreRecs : x = restore[s]
    BY <1>1
  <2>2. PICK b \in BOOLEAN : b <=> (Verified(s) /\ restore[s].entry.path = p)
    OBVIOUS
  <2>3. restore'[s] = [x EXCEPT !.rewritten = @ \/ b]
    BY <2>1, <2>2 DEF Put
  <2>4. restore'[s] \in RestoreRecs /\ Rewrites(x, restore'[s], b)
    BY <2>3, RewrittenRecord
  <2> QED
    BY <2>1, <2>2, <2>4 DEF Rewrites
<1>5. restore' = [s \in Restores |-> restore'[s]]
  BY DEF Put
<1>6. restore' \in [Restores -> RestoreRecs]
  BY <1>4, <1>5
<1> QED
  BY <1>3, <1>4, <1>6

\* The entry that a driver starts with.
StartPath(k, r) == IF k = "fixed" THEN Fixed ELSE r

LEMMA StartEntry ==
  ASSUME NEW r \in Runs, NEW k \in Kinds, NEW w \in Ways(k), NEW p \in {r, Fixed}
  PROVE  [of |-> r, kind |-> k, way |-> w, path |-> p, sum |-> NoSum, sig |-> "valid"] \in Entries
BY Contents DEF Entries, Paths

LEMMA DumpEffect ==
  ASSUME TypeOK, NEW r \in Runs, NEW k \in Kinds, NEW w \in Ways(k), Dump(r, k, w)
  PROVE  /\ TypeOK' /\ Put(StartPath(k, r), Part(r)) /\ k # "snapshot"
         /\ run[r].pc = "new" /\ run'[r].pc = "dump"
         /\ run'[r].entry.of = r /\ run'[r].entry.kind = k /\ run'[r].entry.path = StartPath(k, r)
         /\ run'[r].base = run[r].base /\ run'[r].file = run[r].file
         /\ run'[r].overlapped = run[r].overlapped
         /\ run'[r].crossed <=> Dumping(k) # {}
         /\ \A q \in Runs \ {r} : Crosses(run[q], run'[q], q \in Dumping(k))
         /\ UNCHANGED <<latest, main, tmp, service, spoils>>
<1> DEFINE p == StartPath(k, r)
           e == [of |-> r, kind |-> k, way |-> w, path |-> p, sum |-> NoSum, sig |-> "valid"]
<1>1. run \in [Runs -> RunRecs]
  BY Types
<1>2. /\ run[r].pc = "new" /\ k # "snapshot" /\ Put(p, Part(r))
      /\ run' = [q \in Runs |->
            IF q = r THEN [run[r] EXCEPT !.pc = "dump", !.entry = e, !.crossed = Dumping(k) # {}]
            ELSE [run[q] EXCEPT !.crossed = @ \/ q \in Dumping(k)]]
      /\ UNCHANGED <<latest, main, tmp, service, spoils>>
  BY DEF Dump, StartPath
<1>3. e \in Entries
  BY StartEntry DEF StartPath
<1>4. e.of = r /\ e.kind = k /\ e.path = p
  OBVIOUS
<1>5. p \in Paths /\ Part(r) \in Content
  BY Contents DEF StartPath, Paths
<1> HIDE DEF e, p
<1>6. PICK x \in RunRecs : x = run[r]
  BY <1>1
<1>7. PICK d \in BOOLEAN : d <=> Dumping(k) # {}
  OBVIOUS
<1>8. run'[r] = [x EXCEPT !.pc = "dump", !.entry = e, !.crossed = d]
  BY <1>2, <1>6, <1>7
<1>9. /\ run'[r] \in RunRecs /\ run'[r].pc = "dump" /\ run'[r].entry = e /\ run'[r].crossed = d
      /\ run'[r].base = x.base /\ run'[r].file = x.file /\ run'[r].overlapped = x.overlapped
  BY <1>8, <1>3 DEF RunRecs, RunPcs
<1>10. ASSUME NEW q \in Runs, q # r
       PROVE  run'[q] \in RunRecs /\ Crosses(run[q], run'[q], q \in Dumping(k))
  <2>1. PICK y \in RunRecs : y = run[q]
    BY <1>1
  <2>2. PICK b \in BOOLEAN : b <=> q \in Dumping(k)
    OBVIOUS
  <2>3. run'[q] = [y EXCEPT !.crossed = @ \/ b]
    BY <1>2, <1>10, <2>1, <2>2
  <2>4. run'[q] \in RunRecs /\ Crosses(y, run'[q], b)
    BY <2>3, CrossedRecord
  <2> QED
    BY <2>1, <2>2, <2>4 DEF Crosses
<1>11. run' = [q \in Runs |-> run'[q]]
  BY <1>2
<1>12. run' \in [Runs -> RunRecs]
  BY <1>9, <1>10, <1>11
<1>13. disk' \in [Paths -> Content] /\ restore' \in [Restores -> RestoreRecs]
  BY <1>2, <1>5, PutEffect
<1>14. TypeOK'
  BY <1>2, <1>12, <1>13, Types, TypesPrimed
<1> QED
  BY <1>2, <1>4, <1>6, <1>7, <1>9, <1>10, <1>14 DEF p

\* A step that changes the record of one command and nothing of the others.
Alone(r) == \A q \in Runs \ {r} : run'[q] = run[q]

\* After a step in the dump: entry and pc are all that changes.
SameAppend(x, y) ==
  /\ y.base = x.base /\ y.file = x.file /\ y.overlapped = x.overlapped /\ y.crossed = x.crossed

LEMMA PcChange ==
  ASSUME TypeOK, NEW r \in Runs, NEW l \in RunPcs, run' = [run EXCEPT ![r].pc = l]
  PROVE  /\ run' \in [Runs -> RunRecs] /\ Alone(r)
         /\ run'[r].pc = l /\ run'[r].entry = run[r].entry /\ SameAppend(run[r], run'[r])
<1>1. run \in [Runs -> RunRecs]
  BY Types
<1>2. PICK x \in RunRecs : x = run[r]
  BY <1>1
<1> DEFINE new == [x EXCEPT !.pc = l]
<1>3. run' = [run EXCEPT ![r] = new]
  BY <1>2
<1>4. /\ new \in RunRecs /\ new.pc = l /\ new.entry = x.entry /\ SameAppend(x, new)
  BY DEF RunRecs, SameAppend
<1> HIDE DEF new
<1>5. run' \in [Runs -> RunRecs] /\ run'[r] = new /\ \A q \in Runs \ {r} : run'[q] = run[q]
  BY <1>1, <1>3, <1>4, Replace
<1> QED
  BY <1>2, <1>4, <1>5 DEF Alone

LEMMA DumpedEffect ==
  ASSUME TypeOK, NEW r \in Runs, Dumped(r)
  PROVE  /\ TypeOK' /\ Alone(r)
         /\ \E p \in Paths : \E c \in Dumps(r) :
               p = run[r].entry.path /\ c \in Content /\ Put(p, c)
         /\ run[r].pc = "dump"
         /\ run'[r].pc = (IF run[r].entry.kind \in {"named", "piped"} THEN "sum" ELSE "locate")
         /\ run'[r].entry = run[r].entry /\ SameAppend(run[r], run'[r])
         /\ latest' = (IF run[r].entry.kind = "newest" THEN r ELSE latest)
         /\ UNCHANGED <<main, tmp, service, spoils>>
<1>1. run \in [Runs -> RunRecs]
  BY Types
<1>2. /\ run[r].pc = "dump"
      /\ run' = [run EXCEPT ![r].pc = IF run[r].entry.kind \in {"named", "piped"}
                                      THEN "sum" ELSE "locate"]
      /\ latest' = (IF run[r].entry.kind = "newest" THEN r ELSE latest)
      /\ UNCHANGED <<main, tmp, service, spoils>>
  BY DEF Dumped
<1>3. PICK l \in RunPcs :
        l = IF run[r].entry.kind \in {"named", "piped"} THEN "sum" ELSE "locate"
  BY DEF RunPcs
<1>4. /\ run' \in [Runs -> RunRecs] /\ Alone(r)
      /\ run'[r].pc = l /\ run'[r].entry = run[r].entry /\ SameAppend(run[r], run'[r])
  <2>1. run' = [run EXCEPT ![r].pc = l]
    BY <1>2, <1>3
  <2> QED
    BY <2>1, PcChange
<1>5. PICK p \in Paths : p = run[r].entry.path
  <2>1. PICK x \in RunRecs : x = run[r]
    BY <1>1
  <2>2. PICK e \in Entries : e = x.entry
    BY RunFields
  <2> QED
    BY <2>1, <2>2, EntryFields
<1>6. PICK c \in Dumps(r) : Put(p, c)
  BY <1>5 DEF Dumped
<1>7. c \in Content
  BY <1>6, Contents DEF Dumps
<1>8. disk' \in [Paths -> Content] /\ restore' \in [Restores -> RestoreRecs]
  BY <1>6, <1>7, PutEffect
<1>9. latest' \in Runs \cup {Old}
  BY <1>2, Types
<1>10. TypeOK'
  BY <1>2, <1>4, <1>8, <1>9, Types, TypesPrimed
<1> QED
  BY <1>2, <1>3, <1>4, <1>5, <1>6, <1>7, <1>10

LEMMA NewestArePaths ==
  ASSUME TypeOK
  PROVE  Newest \subseteq Paths
BY Types DEF Newest, Paths

LEMMA LocateEffect ==
  ASSUME TypeOK, NEW r \in Runs, Locate(r)
  PROVE  /\ TypeOK' /\ Alone(r)
         /\ run[r].pc = "locate" /\ run'[r].pc = "sum"
         /\ run'[r].entry.of = run[r].entry.of /\ run'[r].entry.kind = run[r].entry.kind
         /\ run'[r].entry.path \in Located(r) /\ SameAppend(run[r], run'[r])
         /\ UNCHANGED <<disk, latest, main, tmp, restore, service, spoils>>
<1>1. run \in [Runs -> RunRecs]
  BY Types
<1>2. PICK p \in Located(r) :
        run' = [run EXCEPT ![r].pc = "sum", ![r].entry.path = p]
  BY DEF Locate
<1>3. p \in Paths
  BY NewestArePaths DEF Located, Paths
<1>4. PICK x \in RunRecs : x = run[r]
  BY <1>1
<1>5. PICK e \in Entries : e = x.entry
  BY RunFields
<1> DEFINE f == [e EXCEPT !.path = p]
           new == [x EXCEPT !.pc = "sum", !.entry = f]
<1>6. run' = [run EXCEPT ![r] = new]
  BY <1>2, <1>4, <1>5
<1>7. f \in Entries /\ f.of = e.of /\ f.kind = e.kind /\ f.path = p
  BY <1>3 DEF Entries
<1> HIDE DEF f
<1>8. new \in RunRecs /\ new.pc = "sum" /\ new.entry = f /\ SameAppend(x, new)
  BY <1>7 DEF RunRecs, RunPcs, SameAppend
<1> HIDE DEF new
<1>9. run' \in [Runs -> RunRecs] /\ run'[r] = new /\ \A q \in Runs \ {r} : run'[q] = run[q]
  BY <1>1, <1>6, <1>8, Replace
<1>10. /\ run[r].pc = "locate"
       /\ UNCHANGED <<disk, latest, main, tmp, restore, service, spoils>>
  BY DEF Locate
<1>11. TypeOK'
  BY <1>9, <1>10, Types, TypesPrimed
<1> QED
  BY <1>4, <1>5, <1>7, <1>8, <1>9, <1>10, <1>11 DEF Alone

LEMMA SumEffect ==
  ASSUME TypeOK, NEW r \in Runs, Sum(r)
  PROVE  /\ TypeOK' /\ Alone(r)
         /\ run[r].pc = "sum" /\ run'[r].pc = "read"
         /\ run'[r].entry.of = run[r].entry.of /\ run'[r].entry.kind = run[r].entry.kind
         /\ run'[r].entry.path = run[r].entry.path
         /\ run'[r].entry.sum \in {disk[run[r].entry.path], NoSum} /\ SameAppend(run[r], run'[r])
         /\ UNCHANGED <<disk, latest, main, tmp, restore, service, spoils>>
<1>1. run \in [Runs -> RunRecs] /\ disk \in [Paths -> Content]
  BY Types
<1>2. PICK x \in RunRecs : x = run[r]
  BY <1>1
<1>3. PICK e \in Entries : e = x.entry
  BY RunFields
<1>4. PICK c \in {disk[run[r].entry.path], NoSum} :
        run' = [run EXCEPT ![r].pc = "read", ![r].entry.sum = c]
  BY DEF Sum
<1>5. c \in Content
  <2>1. e.path \in Paths
    BY EntryFields
  <2> QED
    BY <1>1, <1>2, <1>3, <1>4, <2>1, Contents
<1> DEFINE f == [e EXCEPT !.sum = c]
           new == [x EXCEPT !.pc = "read", !.entry = f]
<1>6. run' = [run EXCEPT ![r] = new]
  BY <1>2, <1>3, <1>4
<1>7. f \in Entries /\ f.of = e.of /\ f.kind = e.kind /\ f.path = e.path /\ f.sum = c
  BY <1>5 DEF Entries
<1> HIDE DEF f
<1>8. new \in RunRecs /\ new.pc = "read" /\ new.entry = f /\ SameAppend(x, new)
  BY <1>7 DEF RunRecs, RunPcs, SameAppend
<1> HIDE DEF new
<1>9. run' \in [Runs -> RunRecs] /\ run'[r] = new /\ \A q \in Runs \ {r} : run'[q] = run[q]
  BY <1>1, <1>6, <1>8, Replace
<1>10. /\ run[r].pc = "sum"
       /\ UNCHANGED <<disk, latest, main, tmp, restore, service, spoils>>
  BY DEF Sum
<1>11. TypeOK'
  BY <1>9, <1>10, Types, TypesPrimed
<1> QED
  BY <1>2, <1>3, <1>4, <1>7, <1>8, <1>9, <1>10, <1>11 DEF Alone

LEMMA SnapshotEffect ==
  ASSUME TypeOK, NEW r \in Runs, Snapshot(r)
  PROVE  /\ TypeOK' /\ Alone(r)
         /\ run[r].pc = "new" /\ run'[r].pc = "read"
         /\ run'[r].entry.of = r /\ run'[r].entry.kind = "snapshot"
         /\ run'[r].entry.sum = NoSum /\ SameAppend(run[r], run'[r])
         /\ UNCHANGED <<disk, latest, main, tmp, restore, service, spoils>>
<1>1. run \in [Runs -> RunRecs]
  BY Types
<1>2. PICK x \in RunRecs : x = run[r]
  BY <1>1
<1> DEFINE f == [of |-> r, kind |-> "snapshot", way |-> "manual", path |-> r, sum |-> NoSum, sig |-> "valid"]
           new == [x EXCEPT !.pc = "read", !.entry = f]
<1>3. run' = [run EXCEPT ![r].pc = "read", ![r].entry = f]
  BY DEF Snapshot
<1>4. f \in Entries
  <2>1. "snapshot" \in Kinds /\ "manual" \in Ways("snapshot")
    BY DEF Kinds, Ways
  <2> QED
    BY <2>1, StartEntry
<1>5. f.of = r /\ f.kind = "snapshot" /\ f.sum = NoSum
  OBVIOUS
<1> HIDE DEF f
<1>6. run' = [run EXCEPT ![r] = new]
  BY <1>3, <1>2
<1>7. new \in RunRecs /\ new.pc = "read" /\ new.entry = f /\ SameAppend(x, new)
  BY <1>4 DEF RunRecs, RunPcs, SameAppend
<1> HIDE DEF new
<1>8. run' \in [Runs -> RunRecs] /\ run'[r] = new /\ \A q \in Runs \ {r} : run'[q] = run[q]
  BY <1>1, <1>6, <1>7, Replace
<1>9. /\ run[r].pc = "new"
      /\ UNCHANGED <<disk, latest, main, tmp, restore, service, spoils>>
  BY DEF Snapshot
<1>10. TypeOK'
  BY <1>8, <1>9, Types, TypesPrimed
<1> QED
  BY <1>2, <1>5, <1>7, <1>8, <1>9, <1>10 DEF Alone

LEMMA ReadManifestEffect ==
  ASSUME TypeOK, NEW r \in Runs, ReadManifest(r)
  PROVE  /\ TypeOK' /\ main \notin Unreadable
         /\ run[r].pc = "read" /\ run'[r].pc = "open"
         /\ run'[r].entry = run[r].entry /\ run'[r].base = main.has
         /\ run'[r].file = run[r].file /\ run'[r].crossed = run[r].crossed
         /\ (run'[r].overlapped <=> Appending # {})
         /\ \A q \in Runs \ {r} : Overlaps(run[q], run'[q], q \in Appending)
         /\ UNCHANGED <<disk, latest, main, tmp, restore, service, spoils>>
<1>1. run \in [Runs -> RunRecs] /\ FileOK(main)
  BY Types
<1>2. /\ run[r].pc = "read" /\ main \notin Unreadable
      /\ run' = [q \in Runs |->
           IF q = r THEN [run[r] EXCEPT !.pc = "open", !.base = main.has,
                                        !.overlapped = Appending # {}]
           ELSE [run[q] EXCEPT !.overlapped = @ \/ q \in Appending]]
      /\ UNCHANGED <<disk, latest, main, tmp, restore, service, spoils>>
  BY DEF ReadManifest
<1>3. PICK h \in SUBSET Entries : h = main.has
  <2>1. PICK m : m = main
    OBVIOUS
  <2> QED
    BY <1>1, <2>1, FileHas
<1>4. PICK x \in RunRecs : x = run[r]
  BY <1>1
<1>5. PICK d \in BOOLEAN : d <=> Appending # {}
  OBVIOUS
<1>6. run'[r] = [x EXCEPT !.pc = "open", !.base = h, !.overlapped = d]
  BY <1>2, <1>3, <1>4, <1>5
<1>7. /\ run'[r] \in RunRecs /\ run'[r].pc = "open" /\ run'[r].entry = x.entry /\ run'[r].base = h
      /\ run'[r].file = x.file /\ run'[r].crossed = x.crossed /\ run'[r].overlapped = d
  BY <1>6 DEF RunRecs, RunPcs
<1>8. ASSUME NEW q \in Runs, q # r
      PROVE  run'[q] \in RunRecs /\ Overlaps(run[q], run'[q], q \in Appending)
  <2>1. PICK y \in RunRecs : y = run[q]
    BY <1>1
  <2>2. PICK b \in BOOLEAN : b <=> q \in Appending
    OBVIOUS
  <2>3. run'[q] = [y EXCEPT !.overlapped = @ \/ b]
    BY <1>2, <1>8, <2>1, <2>2
  <2>4. run'[q] \in RunRecs /\ Overlaps(y, run'[q], b)
    BY <2>3, OverlappedRecord
  <2> QED
    BY <2>1, <2>2, <2>4 DEF Overlaps
<1>9. run' = [q \in Runs |-> run'[q]]
  BY <1>2
<1>10. run' \in [Runs -> RunRecs]
  BY <1>7, <1>8, <1>9
<1>11. TypeOK'
  BY <1>2, <1>10, Types, TypesPrimed
<1> QED
  BY <1>2, <1>3, <1>4, <1>5, <1>7, <1>8, <1>11

LEMMA OpenTmpEffect ==
  ASSUME TypeOK, NEW r \in Runs, OpenTmp(r)
  PROVE  /\ TypeOK' /\ Alone(r) /\ tmp' = Empty
         /\ run[r].pc = "open" /\ run'[r].pc = "write" /\ run'[r].file = "tmp"
         /\ run'[r].entry = run[r].entry /\ run'[r].base = run[r].base
         /\ run'[r].crossed = run[r].crossed /\ run'[r].overlapped = run[r].overlapped
         /\ UNCHANGED <<disk, latest, main, restore, service, spoils>>
<1>1. run \in [Runs -> RunRecs]
  BY Types
<1>2. PICK x \in RunRecs : x = run[r]
  BY <1>1
<1> DEFINE new == [x EXCEPT !.pc = "write", !.file = "tmp"]
<1>3. /\ run[r].pc = "open" /\ tmp' = Empty
      /\ run' = [run EXCEPT ![r].pc = "write", ![r].file = "tmp"]
      /\ UNCHANGED <<disk, latest, main, restore, service, spoils>>
  BY DEF OpenTmp
<1>4. run' = [run EXCEPT ![r] = new]
  BY <1>2, <1>3
<1>5. /\ new \in RunRecs /\ new.pc = "write" /\ new.file = "tmp" /\ new.entry = x.entry
      /\ new.base = x.base /\ new.crossed = x.crossed /\ new.overlapped = x.overlapped
  BY DEF RunRecs, RunPcs, Files
<1> HIDE DEF new
<1>6. run' \in [Runs -> RunRecs] /\ run'[r] = new /\ \A q \in Runs \ {r} : run'[q] = run[q]
  BY <1>1, <1>4, <1>5, Replace
<1>7. TypeOK'
  BY <1>3, <1>6, FileKinds, Types, TypesPrimed
<1> QED
  BY <1>2, <1>3, <1>5, <1>6, <1>7 DEF Alone

\* What a write leaves in a file: the text, or the text with a tail.
LEMMA WrittenFile ==
  ASSUME NEW f, NEW es \in SUBSET Entries, NEW g \in Written(f, Manifest(es))
  PROVE  /\ FileOK(g) /\ (g = Manifest(es) \/ g = Torn)
         /\ (f = Empty => g = Manifest(es))
BY ManifestOK, FileKinds DEF Written

LEMMA NewManifestEntries ==
  ASSUME TypeOK, NEW r \in Runs
  PROVE  /\ run[r].base \cup {run[r].entry} \in SUBSET Entries
         /\ NewManifest(r) = Manifest(run[r].base \cup {run[r].entry})
<1>1. PICK x \in RunRecs : x = run[r]
  BY Types
<1>2. x.entry \in Entries /\ x.base \subseteq Entries
  BY RunFields
<1> QED
  BY <1>1, <1>2 DEF NewManifest

LEMMA WriteTmpEffect ==
  ASSUME TypeOK, NEW r \in Runs, WriteTmp(r)
  PROVE  /\ TypeOK' /\ Alone(r)
         /\ run[r].pc = "write" /\ run'[r].pc = "rename" /\ run'[r].file = "none"
         /\ run'[r].entry = run[r].entry /\ run'[r].base = {}
         /\ run'[r].crossed = run[r].crossed /\ run'[r].overlapped = run[r].overlapped
         /\ (tmp' = tmp \/ (run[r].file = "tmp" /\ (tmp' = NewManifest(r) \/ tmp' = Torn)))
         /\ (run[r].file = "tmp" /\ tmp = Empty => tmp' = NewManifest(r))
         /\ (main' = main \/ (run[r].file = "main" /\ (main' = NewManifest(r) \/ main' = Torn)))
         /\ UNCHANGED <<disk, latest, restore, service, spoils>>
<1>1. run \in [Runs -> RunRecs] /\ FileOK(main) /\ FileOK(tmp)
  BY Types
<1>2. PICK x \in RunRecs : x = run[r]
  BY <1>1
<1> DEFINE new == [x EXCEPT !.pc = "rename", !.file = "none", !.base = {}]
<1>3. /\ run[r].pc = "write"
      /\ run' = [run EXCEPT ![r].pc = "rename", ![r].file = "none", ![r].base = {}]
      /\ (run[r].file = "tmp" => tmp' \in Written(tmp, NewManifest(r)))
      /\ (run[r].file # "tmp" => tmp' = tmp)
      /\ (run[r].file = "main" => main' \in Written(main, NewManifest(r)))
      /\ (run[r].file # "main" => main' = main)
      /\ UNCHANGED <<disk, latest, restore, service, spoils>>
  BY DEF WriteTmp
<1>4. run' = [run EXCEPT ![r] = new]
  BY <1>2, <1>3
<1>5. /\ new \in RunRecs /\ new.pc = "rename" /\ new.file = "none" /\ new.entry = x.entry
      /\ new.base = {} /\ new.crossed = x.crossed /\ new.overlapped = x.overlapped
  BY DEF RunRecs, RunPcs, Files
<1> HIDE DEF new
<1>6. run' \in [Runs -> RunRecs] /\ run'[r] = new /\ \A q \in Runs \ {r} : run'[q] = run[q]
  BY <1>1, <1>4, <1>5, Replace
<1>7. PICK es \in SUBSET Entries : NewManifest(r) = Manifest(es)
  BY NewManifestEntries
<1>8. ASSUME run[r].file = "tmp"
      PROVE  /\ FileOK(tmp') /\ (tmp' = NewManifest(r) \/ tmp' = Torn)
             /\ (tmp = Empty => tmp' = NewManifest(r))
  <2>1. PICK f : f = tmp
    OBVIOUS
  <2>2. PICK g \in Written(f, Manifest(es)) : g = tmp'
    BY <1>3, <1>7, <1>8, <2>1
  <2> QED
    BY <1>7, <2>1, <2>2, WrittenFile
<1>9. ASSUME run[r].file = "main"
      PROVE  FileOK(main') /\ (main' = NewManifest(r) \/ main' = Torn)
  <2>1. PICK f : f = main
    OBVIOUS
  <2>2. PICK g \in Written(f, Manifest(es)) : g = main'
    BY <1>3, <1>7, <1>9, <2>1
  <2> QED
    BY <1>7, <2>2, WrittenFile
<1>10. FileOK(tmp') /\ FileOK(main')
  BY <1>1, <1>3, <1>8, <1>9
<1>11. TypeOK'
  BY <1>3, <1>6, <1>10, Types, TypesPrimed
<1> QED
  BY <1>2, <1>3, <1>5, <1>6, <1>8, <1>9, <1>11 DEF Alone

\* A command that fails: what it had read, and its file, are gone.
FailsAs(x, y) ==
  /\ y.pc = "failed" /\ y.entry = x.entry /\ y.base = {} /\ y.file = "none"
  /\ y.crossed = x.crossed /\ y.overlapped = x.overlapped

LEMMA FailsEffect ==
  ASSUME TypeOK, NEW r \in Runs, Fails(r)
  PROVE  run' \in [Runs -> RunRecs] /\ Alone(r) /\ FailsAs(run[r], run'[r])
<1>1. run \in [Runs -> RunRecs]
  BY Types
<1>2. PICK x \in RunRecs : x = run[r]
  BY <1>1
<1> DEFINE new == [x EXCEPT !.pc = "failed", !.base = {}, !.file = "none"]
<1>3. run' = [run EXCEPT ![r] = new]
  BY <1>2 DEF Fails
<1>4. new \in RunRecs /\ FailsAs(x, new)
  BY DEF RunRecs, RunPcs, Files, FailsAs
<1> HIDE DEF new
<1>5. run' \in [Runs -> RunRecs] /\ run'[r] = new /\ \A q \in Runs \ {r} : run'[q] = run[q]
  BY <1>1, <1>3, <1>4, Replace
<1> QED
  BY <1>2, <1>4, <1>5 DEF Alone

\* A rename found the temporary file, or failed.
RenameFound(r) ==
  /\ tmp # Missing /\ main' = tmp /\ tmp' = Missing
  /\ run'[r].pc = "done"
  /\ \A q \in Runs : /\ run'[q].entry = run[q].entry /\ run'[q].base = run[q].base
                     /\ run'[q].crossed = run[q].crossed /\ run'[q].overlapped = run[q].overlapped
  /\ \A q \in Runs \ {r} : run'[q].pc = run[q].pc /\ run'[q].file = Renamed(run[q].file)

RenameFailed(r) ==
  main' = main /\ tmp' = tmp /\ Alone(r) /\ FailsAs(run[r], run'[r])

LEMMA RenameEffect ==
  ASSUME TypeOK, NEW r \in Runs, Rename(r)
  PROVE  /\ TypeOK' /\ run[r].pc = "rename"
         /\ RenameFound(r) \/ RenameFailed(r)
         /\ UNCHANGED <<disk, latest, restore, service, spoils>>
<1>1. run \in [Runs -> RunRecs] /\ FileOK(main) /\ FileOK(tmp)
  BY Types
<1>2. run[r].pc = "rename" /\ UNCHANGED <<disk, latest, restore, service, spoils>>
  BY DEF Rename
<1>3. CASE tmp = Missing
  <2>1. Fails(r) /\ main' = main /\ tmp' = tmp
    BY <1>3 DEF Rename
  <2>2. run' \in [Runs -> RunRecs] /\ Alone(r) /\ FailsAs(run[r], run'[r])
    BY <2>1, FailsEffect
  <2>3. TypeOK'
    BY <1>2, <2>1, <2>2, Types, TypesPrimed
  <2> QED
    BY <1>2, <2>1, <2>2, <2>3 DEF RenameFailed
<1>4. CASE tmp # Missing
  <2>1. /\ main' = tmp /\ tmp' = Missing
        /\ run' = [q \in Runs |-> IF q = r THEN [run[r] EXCEPT !.pc = "done"]
                                  ELSE [run[q] EXCEPT !.file = Renamed(@)]]
    BY <1>4 DEF Rename
  <2>2. /\ run'[r] \in RunRecs /\ run'[r].pc = "done" /\ run'[r].entry = run[r].entry
        /\ SameAppend(run[r], run'[r])
    <3>1. PICK x \in RunRecs : x = run[r]
      BY <1>1
    <3>2. run'[r] = [x EXCEPT !.pc = "done"]
      BY <2>1, <3>1
    <3>3. /\ run'[r] \in RunRecs /\ run'[r].pc = "done" /\ run'[r].entry = x.entry
          /\ SameAppend(x, run'[r])
      BY <3>2 DEF RunRecs, RunPcs, SameAppend
    <3> QED
      BY <3>1, <3>3
  <2>3. ASSUME NEW q \in Runs, q # r
        PROVE  /\ run'[q] \in RunRecs /\ run'[q].pc = run[q].pc
               /\ run'[q].file = Renamed(run[q].file)
               /\ run'[q].entry = run[q].entry /\ run'[q].base = run[q].base
               /\ run'[q].crossed = run[q].crossed /\ run'[q].overlapped = run[q].overlapped
    <3>1. PICK y \in RunRecs : y = run[q]
      BY <1>1
    <3>2. PICK f \in Files : f = Renamed(y.file)
      BY RunFields DEF Renamed, Files
    <3>3. run'[q] = [y EXCEPT !.file = f]
      BY <2>1, <2>3, <3>1, <3>2
    <3>4. /\ run'[q] \in RunRecs /\ run'[q].pc = y.pc /\ run'[q].file = f
          /\ run'[q].entry = y.entry /\ run'[q].base = y.base
          /\ run'[q].crossed = y.crossed /\ run'[q].overlapped = y.overlapped
      BY <3>3 DEF RunRecs
    <3> QED
      BY <3>1, <3>2, <3>4
  <2>4. run' = [q \in Runs |-> run'[q]]
    BY <2>1
  <2>5. run' \in [Runs -> RunRecs]
    BY <2>2, <2>3, <2>4
  <2>6. TypeOK'
    BY <1>1, <1>2, <2>1, <2>5, FileKinds, Types, TypesPrimed
  <2>7. RenameFound(r)
    BY <1>4, <2>1, <2>2, <2>3 DEF RenameFound, SameAppend
  <2> QED
    BY <1>2, <2>6, <2>7
<1> QED
  BY <1>3, <1>4

LEMMA AbortEffect ==
  ASSUME TypeOK, NEW r \in Runs, Abort(r)
  PROVE  /\ TypeOK' /\ Alone(r)
         /\ run[r].pc \notin {"new", "done", "failed"}
         /\ FailsAs(run[r], run'[r])
         /\ (latest' = latest \/ (latest' = r /\ r \in Newest))
         /\ UNCHANGED <<disk, main, tmp, restore, service, spoils>>
<1>1. /\ run[r].pc \in {"dump", "locate", "sum", "read", "open", "write", "rename"}
      /\ Fails(r)
      /\ (latest' = latest \/ (latest' = r /\ r \in Newest))
      /\ UNCHANGED <<disk, main, tmp, restore, service, spoils>>
  BY DEF Abort
<1>2. run' \in [Runs -> RunRecs] /\ Alone(r) /\ FailsAs(run[r], run'[r])
  BY <1>1, FailsEffect
<1>3. latest' \in Runs \cup {Old}
  BY <1>1, Types
<1>4. TypeOK'
  BY <1>1, <1>2, <1>3, Types, TypesPrimed
<1> QED
  BY <1>1, <1>2, <1>4

-----------------------------------------------------------------------------
\* A restore step leaves the backup commands and the other restores alone.
OnlyThis(s) == \A t \in Restores \ {s} : restore'[t] = restore[t]

\* A step of a restore that changes its pc only.
Moves(s, l) ==
  /\ OnlyThis(s) /\ restore'[s].pc = l
  /\ restore'[s].entry = restore[s].entry /\ restore'[s].wrote = restore[s].wrote
  /\ restore'[s].rewritten = restore[s].rewritten /\ restore'[s].met = restore[s].met

LEMMA ToEffect ==
  ASSUME TypeOK, NEW s \in Restores, NEW l \in RestorePcs, To(s, l), RestoreFrame,
         service' \in BOOLEAN \X BOOLEAN
  PROVE  TypeOK' /\ Moves(s, l)
<1>1. restore \in [Restores -> RestoreRecs]
  BY Types
<1>2. PICK x \in RestoreRecs : x = restore[s]
  BY <1>1
<1> DEFINE new == [x EXCEPT !.pc = l]
<1>3. restore' = [restore EXCEPT ![s] = new]
  BY <1>2 DEF To
<1>4. /\ new \in RestoreRecs /\ new.pc = l /\ new.entry = x.entry /\ new.wrote = x.wrote
      /\ new.rewritten = x.rewritten /\ new.met = x.met
  BY DEF RestoreRecs
<1> HIDE DEF new
<1>5. /\ restore' \in [Restores -> RestoreRecs] /\ restore'[s] = new
      /\ \A t \in Restores \ {s} : restore'[t] = restore[t]
  BY <1>1, <1>3, <1>4, Replace
<1>6. TypeOK'
  BY <1>5, Types, TypesPrimed DEF RestoreFrame
<1> QED
  BY <1>2, <1>4, <1>5, <1>6 DEF Moves, OnlyThis

LEMMA PickEffect ==
  ASSUME TypeOK, NEW s \in Restores, Pick(s)
  PROVE  /\ TypeOK' /\ OnlyThis(s) /\ RestoreFrame /\ UNCHANGED service
         /\ restore[s].pc = "new" /\ restore'[s].pc = "verify"
         /\ restore'[s].entry \in main.has /\ restore'[s].wrote = restore[s].wrote
         /\ restore'[s].met = restore[s].met
<1>1. restore \in [Restores -> RestoreRecs] /\ FileOK(main)
  BY Types
<1>2. PICK e \in main.has :
        restore' = [restore EXCEPT ![s].pc = "verify", ![s].entry = e]
  BY DEF Pick
<1>3. e \in Entries
  <2>1. PICK m : m = main
    OBVIOUS
  <2> QED
    BY <1>1, <1>2, <2>1, FileHas
<1>4. PICK x \in RestoreRecs : x = restore[s]
  BY <1>1
<1> DEFINE new == [x EXCEPT !.pc = "verify", !.entry = e]
<1>5. restore' = [restore EXCEPT ![s] = new]
  BY <1>2, <1>4
<1>6. /\ new \in RestoreRecs /\ new.pc = "verify" /\ new.entry = e /\ new.wrote = x.wrote
      /\ new.met = x.met
  BY <1>3 DEF RestoreRecs, RestorePcs
<1> HIDE DEF new
<1>7. /\ restore' \in [Restores -> RestoreRecs] /\ restore'[s] = new
      /\ \A t \in Restores \ {s} : restore'[t] = restore[t]
  BY <1>1, <1>5, <1>6, Replace
<1>8. RestoreFrame /\ UNCHANGED service /\ restore[s].pc = "new"
  BY DEF Pick
<1>9. TypeOK'
  BY <1>7, <1>8, Types, TypesPrimed DEF RestoreFrame
<1> QED
  BY <1>2, <1>4, <1>6, <1>7, <1>8, <1>9 DEF OnlyThis

\* The steps that only move on or give up; a verification that passes is one.
LEMMA MoveEffect ==
  ASSUME TypeOK, NEW s \in Restores,
         Verify(s) \/ Gate(s) \/ Manual(s) \/ GiveUp(s)
  PROVE  /\ TypeOK' /\ RestoreFrame /\ UNCHANGED service
         /\ \/ Moves(s, "failed") /\ restore[s].pc \notin {"new", "done", "failed"}
            \/ Moves(s, "gate") /\ restore[s].pc = "verify" /\ EntryVerified(restore[s].entry)
            \/ Moves(s, "exec") /\ restore[s].pc = "gate"
<1>1. "failed" \in RestorePcs /\ "gate" \in RestorePcs /\ "exec" \in RestorePcs
  BY DEF RestorePcs
<1>2. RestoreFrame /\ UNCHANGED service
  <2>1. CASE GiveUp(s)
    BY <2>1, ServiceParts DEF GiveUp, LeftBy
  <2> QED
    BY <2>1 DEF Verify, Gate, Manual
<1>3. \/ To(s, "failed") /\ restore[s].pc \notin {"new", "done", "failed"}
      \/ To(s, "gate") /\ restore[s].pc = "verify" /\ EntryVerified(restore[s].entry)
      \/ To(s, "exec") /\ restore[s].pc = "gate"
  <2>1. CASE Verify(s)
    BY <2>1 DEF Verify, Stops
  <2>2. CASE Gate(s)
    BY <2>2 DEF Gate, Stops
  <2>3. CASE Manual(s)
    BY <2>3 DEF Manual, Stops
  <2>4. CASE GiveUp(s)
    BY <2>4 DEF GiveUp, Stops
  <2> QED
    BY <2>1, <2>2, <2>3, <2>4
<1>4. service' \in BOOLEAN \X BOOLEAN
  BY <1>2, Types
<1> QED
  BY <1>1, <1>2, <1>3, <1>4, ToEffect

LEMMA EntryPaths ==
  ASSUME TypeOK, NEW s \in Restores
  PROVE  restore[s].entry \in Entries /\ restore[s].entry.path \in Paths
<1>1. PICK x \in RestoreRecs : x = restore[s]
  BY Types
<1>2. PICK e \in Entries : e = x.entry
  BY RestoreFields
<1> QED
  BY <1>1, <1>2, EntryFields

LEMMA CutIsContent ==
  ASSUME NEW c \in Content
  PROVE  Cut(c) \in Content
<1>1. CASE c \in [by : Runs \cup {Old}, whole : BOOLEAN]
  BY <1>1 DEF Cut, Content
<1>2. CASE c \in {Absent, Spoiled}
  <2>1. Cut(c) = c
    BY <1>2 DEF Cut, Absent, Spoiled
  <2> QED
    BY <2>1
<1> QED
  BY <1>1, <1>2 DEF Content

\* A restore reads the artifact.
Writes(s, l, c) ==
  /\ OnlyThis(s) /\ restore'[s].pc = l /\ restore'[s].wrote = c
  /\ restore'[s].entry = restore[s].entry /\ restore'[s].rewritten = restore[s].rewritten
  /\ restore'[s].met = restore[s].met

WritesIt(s, l, c) == restore' = [restore EXCEPT ![s].pc = l, ![s].wrote = c]

LEMMA WriteEffect ==
  ASSUME TypeOK, NEW s \in Restores, NEW l \in RestorePcs, NEW c \in Content, RestoreFrame,
         WritesIt(s, l, c),
         service' \in BOOLEAN \X BOOLEAN
  PROVE  TypeOK' /\ Writes(s, l, c)
<1>1. restore \in [Restores -> RestoreRecs]
  BY Types
<1>2. PICK x \in RestoreRecs : x = restore[s]
  BY <1>1
<1> DEFINE new == [x EXCEPT !.pc = l, !.wrote = c]
<1>3. restore' = [restore EXCEPT ![s] = new]
  BY <1>2 DEF WritesIt
<1>4. /\ new \in RestoreRecs /\ new.pc = l /\ new.entry = x.entry /\ new.wrote = c
      /\ new.rewritten = x.rewritten /\ new.met = x.met
  BY DEF RestoreRecs
<1> HIDE DEF new
<1>5. /\ restore' \in [Restores -> RestoreRecs] /\ restore'[s] = new
      /\ \A t \in Restores \ {s} : restore'[t] = restore[t]
  BY <1>1, <1>3, <1>4, Replace
<1>6. TypeOK'
  BY <1>5, Types, TypesPrimed DEF RestoreFrame
<1> QED
  BY <1>2, <1>4, <1>5, <1>6 DEF Writes, OnlyThis

LEMMA CommandEffect ==
  ASSUME TypeOK, NEW s \in Restores, Command(s)
  PROVE  /\ TypeOK' /\ RestoreFrame /\ UNCHANGED service /\ restore[s].pc = "exec"
         /\ \E c \in Restorable(restore[s].entry) : Writes(s, "done", c)
<1>1. restore[s].pc = "exec" /\ RestoreFrame /\ UNCHANGED service
  BY DEF Command
<1>2. PICK c \in Restorable(restore[s].entry) :
        WritesIt(s, "done", c)
  BY DEF Command, WritesIt
<1>3. c \in Content
  <2>1. PICK d \in Content : d = disk[restore[s].entry.path]
    BY EntryPaths, Types
  <2> QED
    BY <1>2, <2>1, CutIsContent DEF Restorable
<1>4. "done" \in RestorePcs /\ service' \in BOOLEAN \X BOOLEAN
  BY <1>1, Types DEF RestorePcs
<1>5. TypeOK' /\ Writes(s, "done", c)
  BY <1>1, <1>2, <1>3, <1>4, WriteEffect
<1> QED
  BY <1>1, <1>2, <1>5

LEMMA StopEffect ==
  ASSUME TypeOK, NEW s \in Restores, Stop(s)
  PROVE  /\ TypeOK' /\ RestoreFrame /\ up' = FALSE /\ half' = half
         /\ restore[s].pc = "exec" /\ restore'[s].pc = "copy"
         /\ (restore'[s].met <=> Acting # {})
         /\ restore'[s].entry = restore[s].entry /\ restore'[s].wrote = restore[s].wrote
         /\ restore'[s].rewritten = restore[s].rewritten
         /\ \A t \in Restores \ {s} : Meets(restore[t], restore'[t], t \in Acting)
<1>1. restore \in [Restores -> RestoreRecs]
  BY Types
<1>2. /\ restore[s].pc = "exec" /\ RestoreFrame /\ up' = FALSE /\ half' = half
      /\ restore' = [t \in Restores |->
           IF t = s THEN [restore[s] EXCEPT !.pc = "copy", !.met = Acting # {}]
           ELSE [restore[t] EXCEPT !.met = @ \/ t \in Acting]]
  BY DEF Stop
<1>3. PICK x \in RestoreRecs : x = restore[s]
  BY <1>1
<1>4. PICK d \in BOOLEAN : d <=> Acting # {}
  OBVIOUS
<1>5. restore'[s] = [x EXCEPT !.pc = "copy", !.met = d]
  BY <1>2, <1>3, <1>4
<1>6. /\ restore'[s] \in RestoreRecs /\ restore'[s].pc = "copy"
      /\ restore'[s].met = d /\ restore'[s].entry = x.entry /\ restore'[s].wrote = x.wrote
      /\ restore'[s].rewritten = x.rewritten
  BY <1>5 DEF RestoreRecs, RestorePcs
<1>7. ASSUME NEW t \in Restores, t # s
      PROVE  restore'[t] \in RestoreRecs /\ Meets(restore[t], restore'[t], t \in Acting)
  <2>1. PICK y \in RestoreRecs : y = restore[t]
    BY <1>1
  <2>2. PICK b \in BOOLEAN : b <=> t \in Acting
    OBVIOUS
  <2>3. restore'[t] = [y EXCEPT !.met = @ \/ b]
    BY <1>2, <1>7, <2>1, <2>2
  <2>4. restore'[t] \in RestoreRecs /\ Meets(y, restore'[t], b)
    BY <2>3, MetRecord
  <2> QED
    BY <2>1, <2>2, <2>4 DEF Meets
<1>8. restore' = [t \in Restores |-> restore'[t]]
  BY <1>2
<1>9. restore' \in [Restores -> RestoreRecs]
  BY <1>6, <1>7, <1>8
<1>10. service' \in BOOLEAN \X BOOLEAN
  BY <1>2, ServiceParts
<1>11. TypeOK'
  BY <1>2, <1>9, <1>10, Types, TypesPrimed DEF RestoreFrame
<1> QED
  BY <1>2, <1>3, <1>4, <1>6, <1>7, <1>11

LEMMA CopyEffect ==
  ASSUME TypeOK, NEW s \in Restores, Copy(s)
  PROVE  /\ TypeOK' /\ RestoreFrame /\ Moves(s, "copying")
         /\ restore[s].pc = "copy" /\ half' = TRUE /\ up' = up
<1>1. /\ restore[s].pc = "copy" /\ To(s, "copying") /\ RestoreFrame
      /\ half' = TRUE /\ up' = up
  BY DEF Copy
<1>2. service' \in BOOLEAN \X BOOLEAN
  BY <1>1, ServiceParts
<1>3. "copying" \in RestorePcs
  BY DEF RestorePcs
<1> QED
  BY <1>1, <1>2, <1>3, ToEffect

LEMMA CopiedEffect ==
  ASSUME TypeOK, NEW s \in Restores, Copied(s)
  PROVE  /\ TypeOK' /\ RestoreFrame
         /\ Writes(s, "restart", disk[restore[s].entry.path])
         /\ restore[s].pc = "copying" /\ half' = FALSE /\ up' = up
<1>1. /\ restore[s].pc = "copying" /\ RestoreFrame /\ half' = FALSE /\ up' = up
      /\ restore' = [restore EXCEPT ![s].pc = "restart",
                                    ![s].wrote = disk[restore[s].entry.path]]
  BY DEF Copied
<1>2. service' \in BOOLEAN \X BOOLEAN
  BY <1>1, ServiceParts
<1>3. "restart" \in RestorePcs
  BY DEF RestorePcs
<1>4. PICK c \in Content : c = disk[restore[s].entry.path]
  BY EntryPaths, Types
<1>5. WritesIt(s, "restart", c)
  BY <1>1, <1>4 DEF WritesIt
<1>6. TypeOK' /\ Writes(s, "restart", c)
  BY <1>1, <1>2, <1>3, <1>5, WriteEffect
<1> QED
  BY <1>1, <1>4, <1>6

LEMMA RestartEffect ==
  ASSUME TypeOK, NEW s \in Restores, Restart(s)
  PROVE  /\ TypeOK' /\ RestoreFrame /\ Moves(s, "done")
         /\ restore[s].pc = "restart" /\ up' = TRUE /\ half' = half
<1>1. /\ restore[s].pc = "restart" /\ To(s, "done") /\ RestoreFrame
      /\ up' = TRUE /\ half' = half
  BY DEF Restart
<1>2. service' \in BOOLEAN \X BOOLEAN
  BY <1>1, ServiceParts
<1>3. "done" \in RestorePcs
  BY DEF RestorePcs
<1> QED
  BY <1>1, <1>2, <1>3, ToEffect

LEMMA SpoilEffect ==
  ASSUME TypeOK, NEW p \in Paths, Spoil(p)
  PROVE  TypeOK' /\ Put(p, Spoiled) /\ UNCHANGED <<latest, main, tmp, run, service>>
<1>1. /\ Put(p, Spoiled) /\ spoils < MaxSpoils /\ spoils' = spoils + 1
      /\ UNCHANGED <<latest, main, tmp, run, service>>
  BY DEF Spoil
<1>2. disk' \in [Paths -> Content] /\ restore' \in [Restores -> RestoreRecs]
  BY <1>1, Contents, PutEffect
<1>3. spoils' \in 0 .. MaxSpoils
  BY <1>1, BackupAssumption, Types
<1> QED
  BY <1>1, <1>2, <1>3, Types, TypesPrimed

-----------------------------------------------------------------------------
(***************************************************************************)
(* The service.  Two restores that act on it at once have met.  One that   *)
(* stopped the service and met no other finds it stopped until it starts   *)
(* it, and by then its copy is the last one made, and whole.               *)
(***************************************************************************)
IsActing(s) == restore[s].pc \in {"copy", "copying", "restart"}

ServiceInv ==
  /\ TypeOK
  /\ \A s, t \in Restores : IsActing(s) /\ IsActing(t) /\ s # t => restore[s].met
  /\ \A s \in Restores : restore[s].pc \in {"copy", "copying"} /\ up => restore[s].met
  /\ \A s \in Restores : restore[s].pc = "restart" /\ half => restore[s].met
  /\ NeverUpOnHalf

LEMMA ServiceInit == Init => ServiceInv
<1> SUFFICES ASSUME Init PROVE ServiceInv
  OBVIOUS
<1>1. half = FALSE /\ \A s \in Restores : restore[s].pc = "new"
  BY DEF Init
<1> QED
  BY <1>1, InitTypes DEF ServiceInv, IsActing, NeverUpOnHalf

\* A step that leaves the service, and the restores that act on it, alone.
LEMMA ServiceFrame ==
  ASSUME ServiceInv, TypeOK', UNCHANGED service,
         \A s \in Restores : /\ restore'[s].met = restore[s].met
                             /\ IsActing(s)' => restore'[s].pc = restore[s].pc
  PROVE  ServiceInv'
<1>1. up' = up /\ half' = half
  BY ServiceParts
<1>2. \A s \in Restores : IsActing(s)' => IsActing(s)
  BY DEF IsActing
<1>3. \A s, t \in Restores : IsActing(s)' /\ IsActing(t)' /\ s # t => restore'[s].met
  BY <1>2 DEF ServiceInv
<1>4. \A s \in Restores : restore'[s].pc \in {"copy", "copying"} /\ up' => restore'[s].met
  BY <1>1 DEF ServiceInv, IsActing
<1>5. \A s \in Restores : restore'[s].pc = "restart" /\ half' => restore'[s].met
  BY <1>1 DEF ServiceInv, IsActing
<1>6. NeverUpOnHalf'
  BY <1>1 DEF ServiceInv, NeverUpOnHalf
<1> QED
  BY <1>3, <1>4, <1>5, <1>6 DEF ServiceInv

LEMMA ServiceStop ==
  ASSUME ServiceInv, NEW s \in Restores, Stop(s)
  PROVE  ServiceInv'
<1>1. TypeOK
  BY DEF ServiceInv
<1>2. /\ TypeOK' /\ up' = FALSE /\ half' = half /\ restore[s].pc = "exec"
      /\ restore'[s].pc = "copy"
      /\ (restore'[s].met <=> Acting # {})
      /\ \A t \in Restores \ {s} : Meets(restore[t], restore'[t], t \in Acting)
  BY <1>1, StopEffect
<1>3. \A t \in Restores \ {s} :
        /\ restore'[t].pc = restore[t].pc
        /\ (restore[t].met => restore'[t].met) /\ (IsActing(t) => restore'[t].met)
  BY <1>2 DEF Meets, Acting, IsActing
<1>4. (\E t \in Restores : IsActing(t)) => restore'[s].met
  BY <1>2 DEF Acting, IsActing
<1>5. \A t, u \in Restores : IsActing(t)' /\ IsActing(u)' /\ t # u => restore'[t].met
  <2> SUFFICES ASSUME NEW t \in Restores, NEW u \in Restores, IsActing(t)', IsActing(u)', t # u
               PROVE  restore'[t].met
    OBVIOUS
  <2>1. CASE t = s
    BY <2>1, <1>3, <1>4 DEF IsActing
  <2>2. CASE t # s
    BY <2>2, <1>3 DEF IsActing
  <2> QED
    BY <2>1, <2>2
<1>6. \A t \in Restores : restore'[t].pc = "restart" => restore'[t].met
  BY <1>2, <1>3 DEF IsActing
<1> QED
  BY <1>2, <1>5, <1>6 DEF ServiceInv, NeverUpOnHalf

LEMMA ServiceCopy ==
  ASSUME ServiceInv, NEW s \in Restores, Copy(s)
  PROVE  ServiceInv'
<1>1. TypeOK
  BY DEF ServiceInv
<1>2. /\ TypeOK' /\ up' = up /\ restore[s].pc = "copy" /\ restore'[s].pc = "copying"
      /\ restore'[s].met = restore[s].met
      /\ \A t \in Restores \ {s} : restore'[t] = restore[t]
  BY <1>1, CopyEffect DEF Moves, OnlyThis
<1>3. \A t \in Restores : restore'[t].met = restore[t].met /\ (IsActing(t)' <=> IsActing(t))
  BY <1>2 DEF IsActing
<1>4. \A t, u \in Restores : IsActing(t)' /\ IsActing(u)' /\ t # u => restore'[t].met
  BY <1>3 DEF ServiceInv
<1>5. \A t \in Restores : restore'[t].pc \in {"copy", "copying"} /\ up' => restore'[t].met
  BY <1>2 DEF ServiceInv
<1>6. \A t \in Restores : restore'[t].pc = "restart" => restore'[t].met
  \* this one copies, so they have met
  <2> SUFFICES ASSUME NEW t \in Restores, restore'[t].pc = "restart" PROVE restore'[t].met
    OBVIOUS
  <2>1. t # s /\ IsActing(t)' /\ IsActing(s)'
    BY <1>2 DEF IsActing
  <2> QED
    BY <1>4, <2>1
<1>7. NeverUpOnHalf'
  BY <1>2 DEF ServiceInv, NeverUpOnHalf
<1> QED
  BY <1>2, <1>4, <1>5, <1>6, <1>7 DEF ServiceInv

LEMMA ServiceCopied ==
  ASSUME ServiceInv, NEW s \in Restores, Copied(s)
  PROVE  ServiceInv'
<1>1. TypeOK
  BY DEF ServiceInv
<1>2. /\ TypeOK' /\ up' = up /\ half' = FALSE
      /\ restore[s].pc = "copying" /\ restore'[s].pc = "restart"
      /\ restore'[s].met = restore[s].met
      /\ \A t \in Restores \ {s} : restore'[t] = restore[t]
  BY <1>1, CopiedEffect DEF Writes, OnlyThis
<1>3. \A t \in Restores : restore'[t].met = restore[t].met /\ (IsActing(t)' <=> IsActing(t))
  BY <1>2 DEF IsActing
<1>4. \A t, u \in Restores : IsActing(t)' /\ IsActing(u)' /\ t # u => restore'[t].met
  BY <1>3 DEF ServiceInv
<1>5. \A t \in Restores : restore'[t].pc \in {"copy", "copying"} /\ up' => restore'[t].met
  BY <1>2 DEF ServiceInv
<1> QED
  BY <1>2, <1>4, <1>5 DEF ServiceInv, NeverUpOnHalf

LEMMA ServiceRestart ==
  ASSUME ServiceInv, NEW s \in Restores, Restart(s)
  PROVE  ServiceInv'
<1>1. TypeOK
  BY DEF ServiceInv
<1>2. /\ TypeOK' /\ up' = TRUE /\ half' = half
      /\ restore[s].pc = "restart" /\ restore'[s].pc = "done"
      /\ restore'[s].met = restore[s].met
      /\ \A t \in Restores \ {s} : restore'[t] = restore[t]
  BY <1>1, RestartEffect DEF Moves, OnlyThis
<1>3. \A t, u \in Restores : IsActing(t)' /\ IsActing(u)' /\ t # u => restore'[t].met
  BY <1>2 DEF ServiceInv, IsActing
<1>4. \A t \in Restores : restore'[t].pc \in {"copy", "copying"} => restore'[t].met
  \* who copies while this one starts the service has met it
  BY <1>2 DEF ServiceInv, IsActing
<1>5. \A t \in Restores : restore'[t].pc = "restart" /\ half' => restore'[t].met
  BY <1>2 DEF ServiceInv
<1>6. NeverUpOnHalf'
  \* if part of a copy lies there, this one has met who copies
  BY <1>2 DEF ServiceInv, NeverUpOnHalf
<1> QED
  BY <1>2, <1>3, <1>4, <1>5, <1>6 DEF ServiceInv

LEMMA ServiceRestore ==
  ASSUME ServiceInv, NEW s \in Restores, RestoreStep(s)
  PROVE  ServiceInv'
<1>1. TypeOK
  BY DEF ServiceInv
<1>2. CASE Pick(s)
  BY <1>1, <1>2, PickEffect, ServiceFrame DEF IsActing, OnlyThis
<1>3. CASE Verify(s) \/ Gate(s) \/ Manual(s) \/ GiveUp(s)
  <2>1. /\ TypeOK' /\ UNCHANGED service /\ OnlyThis(s) /\ restore'[s].met = restore[s].met
        /\ restore'[s].pc \in {"failed", "gate", "exec"}
    BY <1>1, <1>3, MoveEffect DEF Moves
  <2> QED
    BY <2>1, ServiceFrame DEF IsActing, OnlyThis
<1>4. CASE Command(s)
  <2>1. /\ TypeOK' /\ UNCHANGED service /\ OnlyThis(s) /\ restore'[s].met = restore[s].met
        /\ restore'[s].pc = "done"
    BY <1>1, <1>4, CommandEffect DEF Writes
  <2> QED
    BY <2>1, ServiceFrame DEF IsActing, OnlyThis
<1> QED
  BY <1>2, <1>3, <1>4, ServiceStop, ServiceCopy, ServiceCopied, ServiceRestart DEF RestoreStep

-----------------------------------------------------------------------------
\* A backup command, and damage from outside, leave a restore alone, except
\* that they may replace the artifact that it has verified.
LEMMA PutLeavesRestores ==
  ASSUME TypeOK, NEW p \in Paths, NEW c \in Content, Put(p, c)
  PROVE  \A s \in Restores :
           /\ restore'[s].pc = restore[s].pc /\ restore'[s].entry = restore[s].entry
           /\ restore'[s].wrote = restore[s].wrote /\ restore'[s].met = restore[s].met
BY PutEffect DEF Rewrites

LEMMA DumpPut ==
  ASSUME TypeOK, NEW r \in Runs, NEW k \in Kinds, NEW w \in Ways(k), Dump(r, k, w)
  PROVE  \E p \in Paths : p = StartPath(k, r) /\ Put(p, Part(r)) /\ Part(r) \in Content
<1>1. StartPath(k, r) \in Paths
  BY DEF StartPath, Paths
<1> QED
  BY <1>1, DumpEffect, Contents

LEMMA BackupLeavesRestores ==
  ASSUME TypeOK, NEW r \in Runs, BackupStep(r)
  PROVE  /\ TypeOK' /\ UNCHANGED service
         /\ \A s \in Restores :
              /\ restore'[s].pc = restore[s].pc /\ restore'[s].entry = restore[s].entry
              /\ restore'[s].wrote = restore[s].wrote /\ restore'[s].met = restore[s].met
<1>1. ASSUME NEW k \in Kinds, NEW w \in Ways(k), Dump(r, k, w)
      PROVE  /\ TypeOK' /\ UNCHANGED service
             /\ \E p \in Paths : \E c \in Content : Put(p, c)
  BY <1>1, DumpEffect, DumpPut
<1>2. CASE Dumped(r)
  <2>1. TypeOK' /\ UNCHANGED service /\ \E p \in Paths : \E c \in Content : Put(p, c)
    BY <1>2, DumpedEffect
  <2> QED
    BY <2>1, PutLeavesRestores
<1>3. CASE Locate(r)
  BY <1>3, LocateEffect
<1>4. CASE Sum(r)
  BY <1>4, SumEffect
<1>5. CASE Snapshot(r)
  BY <1>5, SnapshotEffect
<1>6. CASE ReadManifest(r)
  BY <1>6, ReadManifestEffect
<1>7. CASE OpenTmp(r)
  BY <1>7, OpenTmpEffect
<1>8. CASE WriteTmp(r)
  BY <1>8, WriteTmpEffect
<1>9. CASE Rename(r)
  BY <1>9, RenameEffect
<1>10. CASE Abort(r)
  BY <1>10, AbortEffect
<1>11. CASE \E k \in Kinds : \E w \in Ways(k) : Dump(r, k, w)
  BY <1>1, <1>11, PutLeavesRestores
<1> QED
  BY <1>2, <1>3, <1>4, <1>5, <1>6, <1>7, <1>8, <1>9, <1>10, <1>11 DEF BackupStep

LEMMA SpoilLeavesRestores ==
  ASSUME TypeOK, NEW p \in Paths, Spoil(p)
  PROVE  /\ TypeOK' /\ UNCHANGED service
         /\ \A s \in Restores :
              /\ restore'[s].pc = restore[s].pc /\ restore'[s].entry = restore[s].entry
              /\ restore'[s].wrote = restore[s].wrote /\ restore'[s].met = restore[s].met
BY SpoilEffect, Contents, PutLeavesRestores

LEMMA StutterTypes == TypeOK /\ UNCHANGED vars => TypeOK'
BY Types, TypesPrimed DEF vars

LEMMA ServiceNext == ServiceInv /\ [Next]_vars => ServiceInv'
<1> SUFFICES ASSUME ServiceInv, [Next]_vars PROVE ServiceInv'
  OBVIOUS
<1>1. TypeOK
  BY DEF ServiceInv
<1>2. ASSUME NEW r \in Runs, BackupStep(r) PROVE ServiceInv'
  BY <1>1, <1>2, BackupLeavesRestores, ServiceFrame
<1>3. ASSUME NEW p \in Paths, Spoil(p) PROVE ServiceInv'
  BY <1>1, <1>3, SpoilLeavesRestores, ServiceFrame
<1>4. CASE UNCHANGED vars
  <2>1. TypeOK' /\ UNCHANGED service /\ restore' = restore
    BY <1>1, <1>4, StutterTypes DEF vars
  <2> QED
    BY <2>1, ServiceFrame
<1> QED
  BY <1>2, <1>3, <1>4, ServiceRestore DEF Next

(***************************************************************************)
(* The state keeps its shape (engine.ts, manifest-io.ts, restore.ts).      *)
(***************************************************************************)
THEOREM TypeCorrect == Spec => []TypeOK
<1>1. ServiceInv => TypeOK
  BY DEF ServiceInv
<1> QED
  BY ServiceInit, ServiceNext, <1>1, PTL DEF Spec

(***************************************************************************)
(* A service never runs on part of a copy (execRestore, restore.ts): while *)
(* one lies in its data directory, after a copy that failed or was killed  *)
(* too, the service is down, unless two restores of it acted at once.      *)
(***************************************************************************)
THEOREM NeverOnHalfACopy == Spec => []NeverUpOnHalf
<1>1. ServiceInv => NeverUpOnHalf
  BY DEF ServiceInv
<1> QED
  BY ServiceInit, ServiceNext, <1>1, PTL DEF Spec

-----------------------------------------------------------------------------
(***************************************************************************)
(* The manifest.  A command that appends and has met no other one is the   *)
(* only one that appends, and its temporary file is its own; what a done   *)
(* command has added is in the manifest, in a temporary file that is to    *)
(* become the manifest, and in what every other command has read of it.    *)
(***************************************************************************)
IsAppending(r) == run[r].pc \in {"open", "write", "rename"}
IsDone(r) == run[r].pc = "done" /\ ~run[r].overlapped

AppendsAlone(r) ==
  /\ \A q \in Runs : IsAppending(q) => q = r
  /\ run[r].pc = "write" => run[r].file = "tmp" /\ tmp = Empty
  /\ run[r].pc = "rename" => tmp \notin {Missing, Empty, Torn} /\ run[r].entry \in tmp.has

IsRecorded(r) ==
  /\ main \in Unreadable \/ run[r].entry \in main.has
  /\ tmp \in {Missing, Empty, Torn} \/ run[r].entry \in tmp.has
  /\ \A q \in Runs : run[q].pc \in {"open", "write"} => run[r].entry \in run[q].base

AppendInv ==
  /\ TypeOK
  /\ \A r \in Runs : IsAppending(r) /\ ~run[r].overlapped => AppendsAlone(r)
  /\ main \in Unreadable => \E r \in Runs : run[r].overlapped
  /\ \A r \in Runs : IsDone(r) => IsRecorded(r)

LEMMA AppendInit == Init => AppendInv
<1> SUFFICES ASSUME Init PROVE AppendInv
  OBVIOUS
<1>1. \A r \in Runs : run[r].pc = "new"
  BY DEF Init
<1>2. main \notin Unreadable
  <2>1. CASE main = Missing
    BY <2>1, FileKinds
  <2>2. ASSUME NEW sig \in FirstSigs, main = Manifest({OldEntry(sig)}) PROVE main \notin Unreadable
    BY <2>2, OldEntries, ManifestOK DEF Unreadable
  <2> QED
    BY <2>1, <2>2 DEF Init
<1> QED
  BY <1>1, <1>2, InitTypes DEF AppendInv, IsAppending, IsDone

SameWriter(x, y) ==
  /\ y.pc = x.pc /\ y.entry = x.entry /\ y.base = x.base /\ y.file = x.file
  /\ y.overlapped = x.overlapped

\* A step of a command that neither appends nor is done after it.
LEMMA AppendAside ==
  ASSUME AppendInv, TypeOK', NEW r \in Runs, main' = main, tmp' = tmp,
         \A q \in Runs \ {r} : SameWriter(run[q], run'[q]),
         run'[r].pc \notin {"open", "write", "rename", "done"},
         run[r].overlapped => run'[r].overlapped
  PROVE  AppendInv'
<1>1. \A q \in Runs : IsAppending(q)' => q # r /\ IsAppending(q) /\ SameWriter(run[q], run'[q])
  BY DEF IsAppending, SameWriter
<1>2. \A q \in Runs : IsDone(q)' => q # r /\ IsDone(q) /\ SameWriter(run[q], run'[q])
  BY DEF IsDone, SameWriter
<1>3. ASSUME NEW q \in Runs, IsAppending(q)', ~run'[q].overlapped
      PROVE  AppendsAlone(q)'
  <2>1. AppendsAlone(q) /\ SameWriter(run[q], run'[q])
    BY <1>1, <1>3 DEF AppendInv, SameWriter
  <2> QED
    BY <1>1, <2>1 DEF AppendsAlone, SameWriter
<1>4. main' \in Unreadable => \E q \in Runs : run'[q].overlapped
  BY DEF AppendInv, SameWriter
<1>5. ASSUME NEW q \in Runs, IsDone(q)'
      PROVE  IsRecorded(q)'
  <2>1. IsRecorded(q) /\ SameWriter(run[q], run'[q])
    BY <1>2, <1>5 DEF AppendInv
  <2> QED
    BY <1>1, <2>1 DEF IsRecorded, SameWriter, IsAppending
<1> QED
  BY <1>3, <1>4, <1>5 DEF AppendInv

LEMMA AppendFrame ==
  ASSUME AppendInv, TypeOK', main' = main, tmp' = tmp, run' = run
  PROVE  AppendInv'
BY DEF AppendInv, AppendsAlone, IsRecorded, IsAppending, IsDone

LEMMA AppendRead ==
  ASSUME AppendInv, NEW r \in Runs, ReadManifest(r)
  PROVE  AppendInv'
<1>1. TypeOK
  BY DEF AppendInv
<1>2. /\ TypeOK' /\ main \notin Unreadable /\ main' = main /\ tmp' = tmp
      /\ run[r].pc = "read" /\ run'[r].pc = "open"
      /\ run'[r].entry = run[r].entry /\ run'[r].base = main.has
      /\ (run'[r].overlapped <=> Appending # {})
      /\ \A q \in Runs \ {r} : Overlaps(run[q], run'[q], q \in Appending)
  BY <1>1, ReadManifestEffect
<1>3. \A q \in Runs \ {r} :
        /\ run'[q].pc = run[q].pc /\ run'[q].entry = run[q].entry /\ run'[q].base = run[q].base
        /\ (run[q].overlapped => run'[q].overlapped) /\ (IsAppending(q) => run'[q].overlapped)
        /\ (run'[q].overlapped => run[q].overlapped \/ IsAppending(q))
  BY <1>2 DEF Overlaps, Appending, IsAppending
<1>4. ~run'[r].overlapped => \A q \in Runs : ~IsAppending(q)
  BY <1>2 DEF Appending, IsAppending
<1>5. ASSUME NEW q \in Runs, IsAppending(q)', ~run'[q].overlapped
      PROVE  AppendsAlone(q)'
  <2>1. q = r
    BY <1>3, <1>5 DEF IsAppending
  <2>2. \A u \in Runs : IsAppending(u)' => u = r
    BY <1>3, <1>4, <1>5, <2>1 DEF IsAppending
  <2> QED
    BY <1>2, <2>1, <2>2 DEF AppendsAlone, IsAppending
<1>6. ASSUME NEW q \in Runs, IsDone(q)'
      PROVE  IsRecorded(q)'
  <2>1. q # r /\ IsDone(q)
    BY <1>2, <1>3, <1>6 DEF IsDone
  <2>2. IsRecorded(q) /\ run'[q].entry = run[q].entry
    BY <1>3, <2>1 DEF AppendInv
  <2>3. run[q].entry \in main.has
    BY <1>2, <2>2 DEF IsRecorded
  <2>4. \A u \in Runs : run'[u].pc \in {"open", "write"} => run[q].entry \in run'[u].base
    BY <1>2, <1>3, <2>2, <2>3 DEF IsRecorded
  <2> QED
    BY <1>2, <2>2, <2>4 DEF IsRecorded
<1> QED
  BY <1>2, <1>5, <1>6 DEF AppendInv, IsAppending

LEMMA AppendOpen ==
  ASSUME AppendInv, NEW r \in Runs, OpenTmp(r)
  PROVE  AppendInv'
<1>1. TypeOK
  BY DEF AppendInv
<1>2. /\ TypeOK' /\ tmp' = Empty /\ main' = main
      /\ run[r].pc = "open" /\ run'[r].pc = "write" /\ run'[r].file = "tmp"
      /\ run'[r].entry = run[r].entry /\ run'[r].base = run[r].base
      /\ run'[r].overlapped = run[r].overlapped
      /\ \A q \in Runs \ {r} : run'[q] = run[q]
  BY <1>1, OpenTmpEffect DEF Alone
<1>3. \A q \in Runs : (IsAppending(q)' <=> IsAppending(q)) /\ run'[q].entry = run[q].entry
                      /\ run'[q].base = run[q].base /\ run'[q].overlapped = run[q].overlapped
  BY <1>2 DEF IsAppending
<1>4. ASSUME NEW q \in Runs, IsAppending(q)', ~run'[q].overlapped
      PROVE  AppendsAlone(q)'
  <2>1. AppendsAlone(q)
    BY <1>3, <1>4 DEF AppendInv
  <2>2. q = r
    BY <1>2, <2>1 DEF AppendsAlone, IsAppending
  <2> QED
    BY <1>2, <1>3, <2>1, <2>2 DEF AppendsAlone
<1>5. ASSUME NEW q \in Runs, IsDone(q)'
      PROVE  IsRecorded(q)'
  <2>1. IsDone(q)
    BY <1>2, <1>5 DEF IsDone
  <2>2. IsRecorded(q)
    BY <2>1 DEF AppendInv
  <2> QED
    BY <1>2, <1>3, <2>2 DEF IsRecorded
<1>6. main' \in Unreadable => \E q \in Runs : run'[q].overlapped
  BY <1>2, <1>3 DEF AppendInv
<1> QED
  BY <1>2, <1>4, <1>5, <1>6 DEF AppendInv

\* The text that a writer writes holds its entry and what it had read.
LEMMA TextHas ==
  ASSUME TypeOK, NEW r \in Runs
  PROVE  /\ NewManifest(r).has = run[r].base \cup {run[r].entry}
         /\ NewManifest(r) \notin {Missing, Empty, Torn}
         /\ NewManifest(r) \notin Unreadable
<1>1. PICK es \in SUBSET Entries : /\ es = run[r].base \cup {run[r].entry}
                                   /\ NewManifest(r) = Manifest(es)
  BY NewManifestEntries
<1> QED
  BY <1>1, ManifestOK DEF Unreadable

LEMMA AppendWrite ==
  ASSUME AppendInv, NEW r \in Runs, WriteTmp(r)
  PROVE  AppendInv'
<1>1. TypeOK
  BY DEF AppendInv
<1>2. /\ TypeOK'
      /\ run[r].pc = "write" /\ run'[r].pc = "rename"
      /\ run'[r].entry = run[r].entry
      /\ run'[r].overlapped = run[r].overlapped
      /\ (tmp' = tmp \/ tmp' = NewManifest(r) \/ tmp' = Torn)
      /\ (run[r].file = "tmp" /\ tmp = Empty => tmp' = NewManifest(r))
      /\ (main' = main \/ (run[r].file = "main" /\ (main' = NewManifest(r) \/ main' = Torn)))
      /\ \A q \in Runs \ {r} : run'[q] = run[q]
  BY <1>1, WriteTmpEffect DEF Alone
<1>3. \A q \in Runs : (IsAppending(q)' <=> IsAppending(q)) /\ run'[q].entry = run[q].entry
                      /\ run'[q].overlapped = run[q].overlapped
  BY <1>2 DEF IsAppending
<1>4. IsAppending(r)
  BY <1>2 DEF IsAppending
<1>5. ASSUME NEW q \in Runs, IsAppending(q)', ~run'[q].overlapped
      PROVE  AppendsAlone(q)'
  <2>1. AppendsAlone(q)
    BY <1>3, <1>5 DEF AppendInv
  <2>2. q = r
    BY <1>4, <2>1 DEF AppendsAlone
  <2>3. tmp' = NewManifest(r)
    BY <1>2, <2>1, <2>2 DEF AppendsAlone
  <2>4. NewManifest(r) \notin {Missing, Empty, Torn} /\ run[r].entry \in NewManifest(r).has
    BY <1>1, TextHas
  <2> QED
    BY <1>2, <1>3, <2>1, <2>2, <2>3, <2>4 DEF AppendsAlone
<1>6. ~run[r].overlapped => main' = main
  BY <1>2, <1>4 DEF AppendInv, AppendsAlone
<1>7. main' \in Unreadable => \E q \in Runs : run'[q].overlapped
  BY <1>3, <1>6 DEF AppendInv
<1>8. ASSUME NEW q \in Runs, IsDone(q)'
      PROVE  IsRecorded(q)'
  <2>1. IsDone(q)
    BY <1>2, <1>8 DEF IsDone
  <2>2. IsRecorded(q)
    BY <2>1 DEF AppendInv
  <2>3. run[q].entry \in NewManifest(r).has
    BY <1>1, <1>2, <2>2, TextHas DEF IsRecorded
  <2>4. main' \in Unreadable \/ run[q].entry \in main'.has
    BY <1>2, <2>2, <2>3 DEF IsRecorded, Unreadable
  <2>5. tmp' \in {Missing, Empty, Torn} \/ run[q].entry \in tmp'.has
    BY <1>2, <2>2, <2>3 DEF IsRecorded
  <2>6. \A u \in Runs : run'[u].pc \in {"open", "write"} => run[q].entry \in run'[u].base
    BY <1>2, <2>2 DEF IsRecorded
  <2> QED
    BY <1>3, <2>4, <2>5, <2>6 DEF IsRecorded
<1> QED
  BY <1>2, <1>5, <1>7, <1>8 DEF AppendInv

LEMMA AppendRename ==
  ASSUME AppendInv, NEW r \in Runs, Rename(r)
  PROVE  AppendInv'
<1>1. TypeOK
  BY DEF AppendInv
<1>2. TypeOK' /\ run[r].pc = "rename" /\ (RenameFound(r) \/ RenameFailed(r))
  BY <1>1, RenameEffect
<1>3. CASE RenameFailed(r)
  BY <1>2, <1>3, AppendAside DEF RenameFailed, Alone, SameWriter, FailsAs
<1>4. CASE RenameFound(r)
  <2>1. /\ tmp # Missing /\ main' = tmp /\ tmp' = Missing /\ run'[r].pc = "done"
        /\ \A q \in Runs : /\ run'[q].entry = run[q].entry /\ run'[q].base = run[q].base
                           /\ run'[q].overlapped = run[q].overlapped
        /\ \A q \in Runs \ {r} : run'[q].pc = run[q].pc
    BY <1>4 DEF RenameFound
  <2>2. IsAppending(r) /\ \A q \in Runs : IsAppending(q)' => IsAppending(q) /\ q # r
    BY <1>2, <2>1 DEF IsAppending
  <2>3. ~run[r].overlapped => /\ AppendsAlone(r) /\ tmp \notin {Missing, Empty, Torn}
                             /\ run[r].entry \in tmp.has
    BY <1>2, <2>2 DEF AppendInv, AppendsAlone
  <2>4. ASSUME NEW q \in Runs, IsAppending(q)', ~run'[q].overlapped
        PROVE  FALSE
    \* it would append alone, and so be r
    BY <2>1, <2>2, <2>4 DEF AppendInv, AppendsAlone
  <2>5. main' \in Unreadable => \E q \in Runs : run'[q].overlapped
    BY <2>1, <2>3 DEF Unreadable
  <2>6. ASSUME NEW q \in Runs, IsDone(q)'
        PROVE  IsRecorded(q)'
    <3>1. CASE q = r
      <4>1. ~run[r].overlapped
        BY <2>1, <2>6, <3>1 DEF IsDone
      <4>2. run[r].entry \in tmp.has
        BY <2>3, <4>1
      <4>3. \A u \in Runs : ~IsAppending(u)'
        BY <2>2, <2>3, <4>1 DEF AppendsAlone
      <4> QED
        BY <2>1, <3>1, <4>2, <4>3 DEF IsRecorded, IsAppending
    <3>2. CASE q # r
      <4>1. IsDone(q)
        BY <2>1, <2>6, <3>2 DEF IsDone
      <4>2. IsRecorded(q)
        BY <4>1 DEF AppendInv
      <4>3. main' \in Unreadable \/ run[q].entry \in main'.has
        BY <2>1, <4>2 DEF IsRecorded, Unreadable
      <4> QED
        BY <2>1, <4>2, <4>3 DEF IsRecorded
    <3> QED
      BY <3>1, <3>2
  <2> QED
    BY <1>2, <2>4, <2>5, <2>6 DEF AppendInv
<1> QED
  BY <1>2, <1>3, <1>4

LEMMA AppendBackup ==
  ASSUME AppendInv, NEW r \in Runs, BackupStep(r)
  PROVE  AppendInv'
<1>1. TypeOK
  BY DEF AppendInv
<1>2. ASSUME NEW k \in Kinds, NEW w \in Ways(k), Dump(r, k, w)
      PROVE  AppendInv'
  <2>1. /\ TypeOK' /\ main' = main /\ tmp' = tmp /\ run'[r].pc = "dump"
        /\ run'[r].overlapped = run[r].overlapped
        /\ \A q \in Runs \ {r} : SameWriter(run[q], run'[q])
    BY <1>1, <1>2, DumpEffect DEF Crosses, SameWriter
  <2> QED
    BY <2>1, AppendAside
<1>3. CASE Dumped(r)
  <2>1. TypeOK' /\ main' = main /\ tmp' = tmp /\ Alone(r) /\ run'[r].pc \in {"sum", "locate"}
        /\ SameAppend(run[r], run'[r])
    BY <1>1, <1>3, DumpedEffect
  <2> QED
    BY <2>1, AppendAside DEF Alone, SameWriter, SameAppend
<1>4. CASE Locate(r)
  <2>1. TypeOK' /\ main' = main /\ tmp' = tmp /\ Alone(r) /\ run'[r].pc = "sum"
        /\ SameAppend(run[r], run'[r])
    BY <1>1, <1>4, LocateEffect
  <2> QED
    BY <2>1, AppendAside DEF Alone, SameWriter, SameAppend
<1>5. CASE Sum(r)
  <2>1. TypeOK' /\ main' = main /\ tmp' = tmp /\ Alone(r) /\ run'[r].pc = "read"
        /\ SameAppend(run[r], run'[r])
    BY <1>1, <1>5, SumEffect
  <2> QED
    BY <2>1, AppendAside DEF Alone, SameWriter, SameAppend
<1>6. CASE Snapshot(r)
  <2>1. TypeOK' /\ main' = main /\ tmp' = tmp /\ Alone(r) /\ run'[r].pc = "read"
        /\ SameAppend(run[r], run'[r])
    BY <1>1, <1>6, SnapshotEffect
  <2> QED
    BY <2>1, AppendAside DEF Alone, SameWriter, SameAppend
<1>7. CASE Abort(r)
  <2>1. TypeOK' /\ main' = main /\ tmp' = tmp /\ Alone(r) /\ FailsAs(run[r], run'[r])
    BY <1>1, <1>7, AbortEffect
  <2> QED
    BY <2>1, AppendAside DEF Alone, SameWriter, FailsAs
<1> QED
  BY <1>2, <1>3, <1>4, <1>5, <1>6, <1>7, AppendRead, AppendOpen, AppendWrite, AppendRename
     DEF BackupStep

\* A restore, and damage from outside, leave the manifest and the commands.
LEMMA RestoreLeavesBackups ==
  ASSUME TypeOK, NEW s \in Restores, RestoreStep(s)
  PROVE  TypeOK' /\ RestoreFrame
<1>1. CASE Pick(s)
  BY <1>1, PickEffect
<1>2. CASE Verify(s) \/ Gate(s) \/ Manual(s) \/ GiveUp(s)
  BY <1>2, MoveEffect
<1>3. CASE Command(s)
  BY <1>3, CommandEffect
<1>4. CASE Stop(s)
  BY <1>4, StopEffect
<1>5. CASE Copy(s)
  BY <1>5, CopyEffect
<1>6. CASE Copied(s)
  BY <1>6, CopiedEffect
<1>7. CASE Restart(s)
  BY <1>7, RestartEffect
<1> QED
  BY <1>1, <1>2, <1>3, <1>4, <1>5, <1>6, <1>7 DEF RestoreStep

LEMMA AppendNext == AppendInv /\ [Next]_vars => AppendInv'
<1> SUFFICES ASSUME AppendInv, [Next]_vars PROVE AppendInv'
  OBVIOUS
<1>1. TypeOK
  BY DEF AppendInv
<1>2. ASSUME NEW s \in Restores, RestoreStep(s) PROVE AppendInv'
  BY <1>1, <1>2, RestoreLeavesBackups, AppendFrame DEF RestoreFrame
<1>3. ASSUME NEW p \in Paths, Spoil(p) PROVE AppendInv'
  BY <1>1, <1>3, SpoilEffect, AppendFrame
<1>4. CASE UNCHANGED vars
  <2>1. TypeOK' /\ main' = main /\ tmp' = tmp /\ run' = run
    BY <1>1, <1>4, StutterTypes DEF vars
  <2> QED
    BY <2>1, AppendFrame
<1> QED
  BY <1>2, <1>3, <1>4, AppendBackup DEF Next

(***************************************************************************)
(* appendManifestEntry (manifest-io.ts) never leaves a half written        *)
(* manifest and never loses the entry of a backup that was reported as     *)
(* done, whatever command fails or is killed in whatever step, unless two  *)
(* commands appended at the same time.                                     *)
(***************************************************************************)
THEOREM DoneIsOnFile == Spec => []NothingLost
<1>1. AppendInv => NothingLost
  BY DEF AppendInv, NothingLost, IsDone, IsRecorded
<1> QED
  BY AppendInit, AppendNext, <1>1, PTL DEF Spec

-----------------------------------------------------------------------------
(***************************************************************************)
(* The entries.  While a command dumps, its artifact is its own unless the *)
(* dumps of two commands crossed; so the checksum it computes is of its    *)
(* own dump, and every copy of the entry, in the manifest, in a temporary  *)
(* file, in what another command has read or in a restore, says the same.  *)
(***************************************************************************)
IsDumping(r) == run[r].pc \in {"dump", "locate", "sum"}
Later == {"read", "open", "write", "rename", "done"}

\* What the checksum of an entry says; `was` are the records of the runs.
Kept(e, was) ==
  /\ e.of \notin Runs \/ e.kind = "snapshot" => e.sum = NoSum
  /\ e.of \in Runs /\ e.kind # "snapshot" =>
       \/ e.sum \in {NoSum, Spoiled}
       \/ e.sum = Whole(e.of)
       \/ e.kind = "piped" /\ e.sum = Part(e.of)
       \/ e.kind \in {"newest", "fixed"} /\ was[e.of].crossed

\* Two dumps of one driver that does not choose a name of its own.
Rivals(q, r) ==
  /\ IsDumping(q) /\ IsDumping(r) /\ run[q].entry.kind = run[r].entry.kind
  /\ run[r].entry.kind \in {"newest", "fixed"}

OwnPath(r) == StartPath(run[r].entry.kind, r)
Trusted(r) == run[r].entry.kind \in {"named", "piped"} \/ ~run[r].crossed

HoldsOwn(r) ==
  /\ run[r].entry.path = OwnPath(r)
  /\ \/ disk[OwnPath(r)] \in {Whole(r), Spoiled}
     \/ run[r].entry.kind = "piped" /\ disk[OwnPath(r)] = Part(r)
  /\ run[r].entry.kind = "newest" => latest = r

DumpOK(r) ==
  /\ run[r].pc = "new" => ~run[r].crossed
  /\ run[r].pc # "new" => run[r].entry.of = r
  /\ IsDumping(r) => run[r].entry.kind # "snapshot"
  /\ ~run[r].crossed => \A q \in Runs : Rivals(q, r) => q = r
  /\ run[r].pc = "dump" => run[r].entry.path = OwnPath(r)
  /\ run[r].pc = "locate" => run[r].entry.kind \notin {"named", "piped"}
  /\ run[r].pc \in {"locate", "sum"} /\ Trusted(r) => HoldsOwn(r)
  /\ run[r].pc \in Later => Kept(run[r].entry, run)

Sound ==
  /\ \A e \in main.has : Kept(e, run)
  /\ \A e \in tmp.has : Kept(e, run)
  /\ \A r \in Runs : \A e \in run[r].base : Kept(e, run)
  /\ \A s \in Restores : Kept(restore[s].entry, run)

EntryInv == TypeOK /\ (\A r \in Runs : DumpOK(r)) /\ Sound

LEMMA OldKept == \A sig, was : Kept(OldEntry(sig), was)
BY BackupAssumption DEF Kept, OldEntry

LEMMA EntryInit == Init => EntryInv
<1> SUFFICES ASSUME Init PROVE EntryInv
  OBVIOUS
<1>1. \A r \in Runs : run[r].pc = "new" /\ ~run[r].crossed /\ run[r].base = {}
  BY DEF Init
<1>2. \A r \in Runs : DumpOK(r)
  BY <1>1 DEF DumpOK, IsDumping, Rivals, Later
<1>3. \A e \in main.has : Kept(e, run)
  <2>1. CASE main = Missing
    BY <2>1, FileKinds
  <2>2. ASSUME NEW sig \in FirstSigs, main = Manifest({OldEntry(sig)})
        PROVE  \A e \in main.has : Kept(e, run)
    BY <2>2, OldEntries, ManifestOK, OldKept
  <2> QED
    BY <2>1, <2>2 DEF Init
<1>4. \A e \in tmp.has : Kept(e, run)
  BY FileKinds DEF Init
<1>5. \A s \in Restores : Kept(restore[s].entry, run)
  BY OldKept DEF Init
<1> QED
  BY <1>1, <1>2, <1>3, <1>4, <1>5, InitTypes DEF EntryInv, Sound

\* Crossed commands stay crossed.
CrossedStays == \A q \in Runs : run[q].crossed => run'[q].crossed

\* What the entries that are on file need of a step.
LEMMA SoundStep ==
  ASSUME Sound, CrossedStays,
         \A e \in main'.has : Kept(e, run), \A e \in tmp'.has : Kept(e, run),
         \A r \in Runs : \A e \in run'[r].base : Kept(e, run),
         \A s \in Restores : Kept(restore'[s].entry, run)
  PROVE  Sound'
<1>1. \A e : Kept(e, run) => Kept(e, run')
  <2> SUFFICES ASSUME NEW e, Kept(e, run) PROVE Kept(e, run')
    OBVIOUS
  <2> QED
    BY DEF Kept, CrossedStays
<1> QED
  BY <1>1 DEF Sound

\* A command q that another one's step leaves where it was.
LEMMA DumpOther ==
  ASSUME EntryInv, CrossedStays, NEW r \in Runs, NEW q \in Runs, q # r,
         \A u \in Runs \ {r} : run'[u].pc = run[u].pc /\ run'[u].entry = run[u].entry,
         run[q].pc = "new" => (run'[q].crossed => run[q].crossed),
         Rivals(r, q)' => run'[q].crossed,
         run[q].pc \in {"locate", "sum"} /\ Trusted(q)' =>
           \/ disk'[OwnPath(q)] = disk[OwnPath(q)]
           \/ disk'[OwnPath(q)] = Spoiled,
         run[q].pc \in {"locate", "sum"} /\ run[q].entry.kind = "newest" /\ ~run'[q].crossed
           => latest' = latest
  PROVE  DumpOK(q)'
<1>1. DumpOK(q) /\ run'[q].pc = run[q].pc /\ run'[q].entry = run[q].entry
      /\ (run[q].crossed => run'[q].crossed)
  BY DEF EntryInv, CrossedStays
<1>2. OwnPath(q)' = OwnPath(q) /\ (IsDumping(q)' <=> IsDumping(q))
  BY <1>1 DEF OwnPath, IsDumping
<1>3. Trusted(q)' => Trusted(q)
  BY <1>1 DEF Trusted
<1>4. ~run'[q].crossed => \A u \in Runs : Rivals(u, q)' => u = q
  BY <1>1 DEF DumpOK, Rivals, IsDumping
<1>5. run'[q].pc \in {"locate", "sum"} /\ Trusted(q)' => HoldsOwn(q)'
  <2> SUFFICES ASSUME run'[q].pc \in {"locate", "sum"}, Trusted(q)' PROVE HoldsOwn(q)'
    OBVIOUS
  <2>1. HoldsOwn(q)
    BY <1>1, <1>3 DEF DumpOK
  <2>2. run'[q].entry.kind = "newest" => latest' = q
    BY <1>1, <2>1 DEF HoldsOwn, Trusted
  <2> QED
    BY <1>1, <1>2, <2>1, <2>2 DEF HoldsOwn
<1>6. run'[q].pc \in Later => Kept(run'[q].entry, run')
  <2> SUFFICES ASSUME run'[q].pc \in Later PROVE Kept(run'[q].entry, run')
    OBVIOUS
  <2>1. Kept(run[q].entry, run)
    BY <1>1 DEF DumpOK
  <2> QED
    BY <1>1, <2>1 DEF Kept, CrossedStays
<1> QED
  BY <1>1, <1>2, <1>4, <1>5, <1>6 DEF DumpOK

\* A command that has its checksum, or fails.
LEMMA DumpLater ==
  ASSUME EntryInv, CrossedStays, NEW r \in Runs,
         run[r].pc # "new", run'[r].entry = run[r].entry,
         run'[r].pc \in Later \cup {"failed"},
         run'[r].pc \in Later => run[r].pc \in Later
  PROVE  DumpOK(r)'
<1>1. DumpOK(r)
  BY DEF EntryInv
<1>2. run'[r].pc \in Later => Kept(run'[r].entry, run')
  <2> SUFFICES ASSUME run'[r].pc \in Later PROVE Kept(run'[r].entry, run')
    OBVIOUS
  <2>1. Kept(run[r].entry, run)
    BY <1>1 DEF DumpOK
  <2> QED
    BY <2>1 DEF Kept, CrossedStays
<1>3. run'[r].pc \notin {"new", "dump", "locate", "sum"}
  BY DEF Later
<1> QED
  BY <1>1, <1>2, <1>3 DEF DumpOK, IsDumping, Rivals

\* The files and the restores keep their entries.
LEMMA SoundKeeps ==
  ASSUME EntryInv, CrossedStays, main' = main, tmp' = tmp,
         \A r \in Runs : run'[r].base \subseteq run[r].base,
         \A s \in Restores : restore'[s].entry = restore[s].entry
  PROVE  Sound'
<1>1. Sound
  BY DEF EntryInv
<1>2. \A e \in main'.has : Kept(e, run)
  BY <1>1 DEF Sound
<1>3. \A e \in tmp'.has : Kept(e, run)
  BY <1>1 DEF Sound
<1>4. \A r \in Runs : \A e \in run'[r].base : Kept(e, run)
  BY <1>1 DEF Sound
<1>5. \A s \in Restores : Kept(restore'[s].entry, run)
  BY <1>1 DEF Sound
<1> QED
  BY <1>1, <1>2, <1>3, <1>4, <1>5, SoundStep

LEMMA EntryDump ==
  ASSUME EntryInv, NEW r \in Runs, NEW k \in Kinds, NEW w \in Ways(k), Dump(r, k, w)
  PROVE  EntryInv'
<1>1. TypeOK /\ DumpOK(r)
  BY DEF EntryInv
<1>2. /\ TypeOK' /\ k # "snapshot" /\ run[r].pc = "new" /\ run'[r].pc = "dump"
      /\ run'[r].entry.of = r /\ run'[r].entry.kind = k /\ run'[r].entry.path = StartPath(k, r)
      /\ run'[r].base = run[r].base /\ (run'[r].crossed <=> Dumping(k) # {})
      /\ \A q \in Runs \ {r} : Crosses(run[q], run'[q], q \in Dumping(k))
      /\ UNCHANGED <<latest, main, tmp>>
  BY <1>1, DumpEffect
<1>3. PICK p \in Paths : p = StartPath(k, r) /\ Put(p, Part(r)) /\ Part(r) \in Content
  BY <1>1, DumpPut
<1>4. \A u \in Paths \ {p} : disk'[u] = disk[u]
  BY <1>1, <1>3, PutEffect
<1>5. \A q \in Runs \ {r} :
        /\ run'[q].pc = run[q].pc /\ run'[q].entry = run[q].entry /\ run'[q].base = run[q].base
        /\ (run[q].crossed => run'[q].crossed) /\ (q \in Dumping(k) => run'[q].crossed)
        /\ (run'[q].crossed => run[q].crossed \/ IsDumping(q))
  BY <1>2 DEF Crosses, Dumping, IsDumping
<1>6. CrossedStays
  BY <1>1, <1>2, <1>5 DEF CrossedStays, DumpOK
<1>7. ASSUME NEW q \in Runs, q # r
      PROVE  DumpOK(q)'
  <2>1. run[q].pc = "new" => (run'[q].crossed => run[q].crossed)
    BY <1>5, <1>7 DEF IsDumping
  <2>2. Rivals(r, q)' => run'[q].crossed
    BY <1>2, <1>5, <1>7 DEF Rivals, IsDumping, Dumping
  <2>3. run[q].pc \in {"locate", "sum"} /\ Trusted(q)' => disk'[OwnPath(q)] = disk[OwnPath(q)]
    <3> SUFFICES ASSUME run[q].pc \in {"locate", "sum"}, Trusted(q)'
                 PROVE  disk'[OwnPath(q)] = disk[OwnPath(q)]
      OBVIOUS
    <3>1. OwnPath(q) # p
      <4>1. ASSUME OwnPath(q) = p PROVE FALSE
        \* two dumps to the name that is used again
        <5>1. run[q].entry.kind = "fixed" /\ k = "fixed"
          BY <1>3, <1>7, <4>1, BackupAssumption DEF OwnPath, StartPath
        <5>2. q \in Dumping(k)
          BY <5>1 DEF Dumping
        <5> QED
          BY <1>5, <1>7, <5>1, <5>2 DEF Trusted
      <4> QED
        BY <4>1
    <3>2. OwnPath(q) \in Paths
      BY DEF OwnPath, StartPath, Paths
    <3> QED
      BY <1>4, <3>1, <3>2
  <2>4. latest' = latest
    BY <1>2
  <2> QED
    BY <1>5, <1>6, <1>7, <2>1, <2>2, <2>3, <2>4, DumpOther
<1>8. DumpOK(r)'
  <2>1. ~run'[r].crossed => \A q \in Runs : Rivals(q, r)' => q = r
    BY <1>2, <1>5 DEF Dumping, Rivals, IsDumping
  <2> QED
    BY <1>2, <2>1 DEF DumpOK, IsDumping, OwnPath, Later
<1>9. \A s \in Restores : restore'[s].entry = restore[s].entry
  BY <1>1, <1>3, PutLeavesRestores
<1>10. Sound'
  BY <1>2, <1>5, <1>6, <1>9, SoundKeeps
<1> QED
  BY <1>2, <1>7, <1>8, <1>10 DEF EntryInv

LEMMA EntryDumped ==
  ASSUME EntryInv, NEW r \in Runs, Dumped(r)
  PROVE  EntryInv'
<1>1. TypeOK /\ DumpOK(r)
  BY DEF EntryInv
<1>2. /\ TypeOK' /\ run[r].pc = "dump"
      /\ run'[r].pc = (IF run[r].entry.kind \in {"named", "piped"} THEN "sum" ELSE "locate")
      /\ run'[r].entry = run[r].entry /\ SameAppend(run[r], run'[r])
      /\ latest' = (IF run[r].entry.kind = "newest" THEN r ELSE latest)
      /\ UNCHANGED <<main, tmp>>
      /\ \A q \in Runs \ {r} : run'[q] = run[q]
  BY <1>1, DumpedEffect DEF Alone
<1>3. PICK p \in Paths, c \in Dumps(r) : p = run[r].entry.path /\ c \in Content /\ Put(p, c)
  BY <1>1, DumpedEffect
<1>4. disk'[p] = c /\ \A u \in Paths \ {p} : disk'[u] = disk[u]
  BY <1>1, <1>3, PutEffect
<1>5. p = OwnPath(r)
  BY <1>1, <1>2, <1>3 DEF DumpOK
<1>6. \A q \in Runs : run'[q].crossed = run[q].crossed /\ run'[q].base = run[q].base
  BY <1>2 DEF SameAppend
<1>7. CrossedStays
  BY <1>6 DEF CrossedStays
<1>8. IsDumping(r)
  BY <1>2 DEF IsDumping
<1>9. ASSUME NEW q \in Runs, q # r
      PROVE  DumpOK(q)'
  <2>1. Rivals(r, q) => run'[q].crossed
    BY <1>6, <1>9 DEF EntryInv, DumpOK
  <2>2. Rivals(r, q)' => Rivals(r, q)
    BY <1>2, <1>8, <1>9 DEF Rivals, IsDumping
  <2>3. run[q].pc \in {"locate", "sum"} => IsDumping(q)
    BY DEF IsDumping
  <2>4. run[q].pc \in {"locate", "sum"} /\ Trusted(q)' => disk'[OwnPath(q)] = disk[OwnPath(q)]
    <3> SUFFICES ASSUME run[q].pc \in {"locate", "sum"}, Trusted(q)'
                 PROVE  disk'[OwnPath(q)] = disk[OwnPath(q)]
      OBVIOUS
    <3>1. OwnPath(q) # p
      <4>1. ASSUME OwnPath(q) = p PROVE FALSE
        \* two dumps to the name that is used again
        <5>1. run[q].entry.kind = "fixed" /\ run[r].entry.kind = "fixed"
          BY <1>5, <1>9, <4>1, BackupAssumption DEF OwnPath, StartPath
        <5>2. Rivals(r, q)
          BY <1>8, <2>3, <5>1 DEF Rivals
        <5> QED
          BY <1>2, <1>9, <2>1, <5>1, <5>2 DEF Trusted
      <4> QED
        BY <4>1
    <3>2. OwnPath(q) \in Paths
      BY DEF OwnPath, StartPath, Paths
    <3> QED
      BY <1>4, <3>1, <3>2
  <2>5. run[q].pc \in {"locate", "sum"} /\ run[q].entry.kind = "newest" /\ ~run'[q].crossed
          => latest' = latest
    BY <1>2, <1>8, <2>1, <2>3 DEF Rivals
  <2>6. run[q].pc = "new" => (run'[q].crossed => run[q].crossed)
    BY <1>6
  <2> QED
    BY <1>2, <1>7, <1>9, <2>1, <2>2, <2>4, <2>5, <2>6, DumpOther
<1>10. DumpOK(r)'
  <2>1. OwnPath(r)' = OwnPath(r) /\ IsDumping(r)' /\ run'[r].pc \in {"locate", "sum"}
    BY <1>2 DEF OwnPath, IsDumping
  <2>2. HoldsOwn(r)'
    BY <1>2, <1>3, <1>4, <1>5, <2>1 DEF HoldsOwn, Dumps
  <2>3. \A q \in Runs \ {r} : Rivals(q, r)' => Rivals(q, r)
    BY <1>2, <1>8 DEF Rivals, IsDumping
  <2>4. ~run'[r].crossed => \A q \in Runs : Rivals(q, r)' => q = r
    BY <1>1, <1>6, <2>3 DEF DumpOK
  <2>5. run'[r].entry.of = r /\ run'[r].entry.kind # "snapshot"
    BY <1>1, <1>2, <1>8 DEF DumpOK
  <2>6. run'[r].pc = "locate" => run'[r].entry.kind \notin {"named", "piped"}
    BY <1>2
  <2> QED
    BY <2>1, <2>2, <2>4, <2>5, <2>6 DEF DumpOK, Later
<1>11. \A s \in Restores : restore'[s].entry = restore[s].entry
  BY <1>1, <1>3, PutLeavesRestores
<1>12. Sound'
  BY <1>2, <1>6, <1>7, <1>11, SoundKeeps
<1> QED
  BY <1>2, <1>9, <1>10, <1>12 DEF EntryInv

\* A step of r that touches no artifact, where no dump starts.
LEMMA OthersRest ==
  ASSUME EntryInv, CrossedStays, NEW r \in Runs, disk' = disk,
         \A u \in Runs \ {r} : /\ run'[u].pc = run[u].pc /\ run'[u].entry = run[u].entry
                               /\ run'[u].crossed = run[u].crossed,
         IsDumping(r)' => IsDumping(r) /\ run'[r].entry.kind = run[r].entry.kind,
         latest' = latest \/ (IsDumping(r) /\ run[r].entry.kind = "newest")
  PROVE  \A q \in Runs \ {r} : DumpOK(q)'
<1> SUFFICES ASSUME NEW q \in Runs, q # r PROVE DumpOK(q)'
  OBVIOUS
<1>1. Rivals(r, q) => run'[q].crossed
  BY DEF EntryInv, DumpOK
<1>2. Rivals(r, q)' => Rivals(r, q)
  BY DEF Rivals, IsDumping
<1>3. run[q].pc \in {"locate", "sum"} /\ run[q].entry.kind = "newest" /\ ~run'[q].crossed
        => latest' = latest
  BY <1>1 DEF Rivals, IsDumping
<1> QED
  BY <1>1, <1>2, <1>3, DumpOther

LEMMA EntryLocate ==
  ASSUME EntryInv, NEW r \in Runs, Locate(r)
  PROVE  EntryInv'
<1>1. TypeOK /\ DumpOK(r)
  BY DEF EntryInv
<1>2. /\ TypeOK' /\ run[r].pc = "locate" /\ run'[r].pc = "sum"
      /\ run'[r].entry.of = run[r].entry.of /\ run'[r].entry.kind = run[r].entry.kind
      /\ run'[r].entry.path \in Located(r) /\ SameAppend(run[r], run'[r])
      /\ UNCHANGED <<disk, latest, main, tmp, restore>>
      /\ \A q \in Runs \ {r} : run'[q] = run[q]
  BY <1>1, LocateEffect DEF Alone
<1>3. \A q \in Runs : run'[q].crossed = run[q].crossed /\ run'[q].base = run[q].base
  BY <1>2 DEF SameAppend
<1>4. CrossedStays
  BY <1>3 DEF CrossedStays
<1>5. IsDumping(r) /\ IsDumping(r)'
  BY <1>2 DEF IsDumping
<1>6. \A q \in Runs \ {r} : DumpOK(q)'
  BY <1>2, <1>4, <1>5, OthersRest
<1>7. DumpOK(r)'
  <2>1. OwnPath(r)' = OwnPath(r)
    BY <1>2 DEF OwnPath
  <2>2. run[r].entry.kind \notin {"snapshot", "named", "piped"} /\ run[r].entry.of = r
    BY <1>1, <1>2, <1>5 DEF DumpOK
  <2>3. Trusted(r)' => HoldsOwn(r)'
    <3> SUFFICES ASSUME Trusted(r)' PROVE HoldsOwn(r)'
      OBVIOUS
    <3>1. ~run[r].crossed
      BY <1>2, <1>3, <2>2 DEF Trusted
    <3>2. HoldsOwn(r)
      BY <1>1, <1>2, <3>1 DEF DumpOK, Trusted
    <3>3. CASE run[r].entry.kind = "newest"
      <4>1. \A q \in Runs : run[q].pc = "dump" /\ run[q].entry.kind = "newest" => q = r
        BY <1>1, <1>5, <3>1, <3>3 DEF DumpOK, Rivals, IsDumping
      <4>2. Newest = {r}
        BY <1>2, <3>2, <3>3, <4>1 DEF Newest, HoldsOwn
      <4>3. run'[r].entry.path = OwnPath(r)
        BY <1>2, <3>3, <4>2 DEF Located, OwnPath, StartPath
      <4> QED
        BY <1>2, <2>1, <3>2, <4>3 DEF HoldsOwn
    <3>4. CASE run[r].entry.kind # "newest"
      <4>1. PICK x \in RunRecs : x = run[r]
        BY <1>1, Types
      <4>2. run[r].entry.kind \in Kinds
        BY <4>1, RunFields, EntryFields
      <4>3. run[r].entry.kind = "fixed"
        BY <2>2, <3>4, <4>2 DEF Kinds
      <4>4. run'[r].entry.path = OwnPath(r)
        BY <1>2, <4>3 DEF Located, OwnPath, StartPath
      <4> QED
        BY <1>2, <2>1, <3>2, <4>4 DEF HoldsOwn
    <3> QED
      BY <3>3, <3>4
  <2>4. \A q \in Runs \ {r} : Rivals(q, r)' => Rivals(q, r)
    BY <1>2, <1>5 DEF Rivals, IsDumping
  <2>5. ~run'[r].crossed => \A q \in Runs : Rivals(q, r)' => q = r
    BY <1>1, <1>3, <2>4 DEF DumpOK
  <2> QED
    BY <1>2, <2>2, <2>3, <2>5 DEF DumpOK, Later
<1>8. Sound'
  BY <1>2, <1>3, <1>4, SoundKeeps
<1> QED
  BY <1>2, <1>6, <1>7, <1>8 DEF EntryInv

LEMMA EntrySum ==
  ASSUME EntryInv, NEW r \in Runs, Sum(r)
  PROVE  EntryInv'
<1>1. TypeOK /\ DumpOK(r)
  BY DEF EntryInv
<1>2. /\ TypeOK' /\ run[r].pc = "sum" /\ run'[r].pc = "read"
      /\ run'[r].entry.of = run[r].entry.of /\ run'[r].entry.kind = run[r].entry.kind
      /\ run'[r].entry.sum \in {disk[run[r].entry.path], NoSum} /\ SameAppend(run[r], run'[r])
      /\ UNCHANGED <<disk, latest, main, tmp, restore>>
      /\ \A q \in Runs \ {r} : run'[q] = run[q]
  BY <1>1, SumEffect DEF Alone
<1>3. \A q \in Runs : run'[q].crossed = run[q].crossed /\ run'[q].base = run[q].base
  BY <1>2 DEF SameAppend
<1>4. CrossedStays
  BY <1>3 DEF CrossedStays
<1>5. IsDumping(r) /\ ~IsDumping(r)'
  BY <1>2 DEF IsDumping
<1>6. \A q \in Runs \ {r} : DumpOK(q)'
  BY <1>2, <1>4, <1>5, OthersRest
<1>7. DumpOK(r)'
  <2>1. run[r].entry.of = r /\ run[r].entry.kind # "snapshot"
    BY <1>1, <1>2, <1>5 DEF DumpOK
  <2>2. Trusted(r) => \/ run'[r].entry.sum \in {NoSum, Whole(r), Spoiled}
                     \/ (run[r].entry.kind = "piped" /\ run'[r].entry.sum = Part(r))
    BY <1>1, <1>2 DEF DumpOK, HoldsOwn
  <2>3. run[r].entry.kind \in Kinds
    <3>1. PICK x \in RunRecs : x = run[r]
      BY <1>1, Types
    <3> QED
      BY <3>1, RunFields, EntryFields
  <2>4. Kept(run'[r].entry, run')
    BY <1>2, <1>3, <2>1, <2>2, <2>3 DEF Kept, Trusted, Kinds
  <2> QED
    BY <1>2, <1>5, <2>1, <2>4 DEF DumpOK, Rivals
<1>8. Sound'
  BY <1>2, <1>3, <1>4, SoundKeeps
<1> QED
  BY <1>2, <1>6, <1>7, <1>8 DEF EntryInv

LEMMA EntrySnapshot ==
  ASSUME EntryInv, NEW r \in Runs, Snapshot(r)
  PROVE  EntryInv'
<1>1. TypeOK /\ DumpOK(r)
  BY DEF EntryInv
<1>2. /\ TypeOK' /\ run[r].pc = "new" /\ run'[r].pc = "read"
      /\ run'[r].entry.of = r /\ run'[r].entry.kind = "snapshot"
      /\ run'[r].entry.sum = NoSum /\ SameAppend(run[r], run'[r])
      /\ UNCHANGED <<disk, latest, main, tmp, restore>>
      /\ \A q \in Runs \ {r} : run'[q] = run[q]
  BY <1>1, SnapshotEffect DEF Alone
<1>3. \A q \in Runs : run'[q].crossed = run[q].crossed /\ run'[q].base = run[q].base
  BY <1>2 DEF SameAppend
<1>4. CrossedStays
  BY <1>3 DEF CrossedStays
<1>5. ~IsDumping(r)'
  BY <1>2 DEF IsDumping
<1>6. \A q \in Runs \ {r} : DumpOK(q)'
  BY <1>2, <1>4, <1>5, OthersRest
<1>7. DumpOK(r)'
  BY <1>1, <1>2, <1>5 DEF DumpOK, Kept, Rivals
<1>8. Sound'
  BY <1>2, <1>3, <1>4, SoundKeeps
<1> QED
  BY <1>2, <1>6, <1>7, <1>8 DEF EntryInv

\* The steps after the checksum: the dumps are left alone.
LEMMA DumpsRest ==
  ASSUME EntryInv, NEW r \in Runs, disk' = disk,
         run[r].pc # "new", run'[r].pc \in Later \cup {"failed"},
         run'[r].pc \in Later => run[r].pc \in Later,
         run'[r].entry = run[r].entry, run'[r].crossed = run[r].crossed,
         \A u \in Runs \ {r} : /\ run'[u].pc = run[u].pc /\ run'[u].entry = run[u].entry
                               /\ run'[u].crossed = run[u].crossed,
         latest' = latest \/ (IsDumping(r) /\ run[r].entry.kind = "newest")
  PROVE  CrossedStays /\ \A q \in Runs : DumpOK(q)'
<1>1. CrossedStays
  BY DEF CrossedStays
<1>2. ~IsDumping(r)'
  BY DEF IsDumping, Later
<1>3. DumpOK(r)'
  BY <1>1, DumpLater
<1> QED
  BY <1>1, <1>2, <1>3, OthersRest

LEMMA EntryRead ==
  ASSUME EntryInv, NEW r \in Runs, ReadManifest(r)
  PROVE  EntryInv'
<1>1. TypeOK /\ Sound
  BY DEF EntryInv
<1>2. /\ TypeOK' /\ run[r].pc = "read" /\ run'[r].pc = "open"
      /\ run'[r].entry = run[r].entry /\ run'[r].base = main.has
      /\ run'[r].crossed = run[r].crossed
      /\ \A q \in Runs \ {r} : Overlaps(run[q], run'[q], q \in Appending)
      /\ UNCHANGED <<disk, latest, main, tmp, restore>>
  BY <1>1, ReadManifestEffect
<1>3. \A q \in Runs \ {r} : /\ run'[q].pc = run[q].pc /\ run'[q].entry = run[q].entry
                            /\ run'[q].crossed = run[q].crossed /\ run'[q].base = run[q].base
  BY <1>2 DEF Overlaps
<1>4. CrossedStays /\ \A q \in Runs : DumpOK(q)'
  BY <1>2, <1>3, DumpsRest DEF Later
<1>5. \A q \in Runs : \A e \in run'[q].base : Kept(e, run)
  BY <1>1, <1>2, <1>3 DEF Sound
<1>6. Sound'
  <2>1. \A e \in main'.has : Kept(e, run)
    BY <1>1, <1>2 DEF Sound
  <2>2. \A e \in tmp'.has : Kept(e, run)
    BY <1>1, <1>2 DEF Sound
  <2>3. \A s \in Restores : Kept(restore'[s].entry, run)
    BY <1>1, <1>2 DEF Sound
  <2> QED
    BY <1>1, <1>4, <1>5, <2>1, <2>2, <2>3, SoundStep
<1> QED
  BY <1>2, <1>4, <1>6 DEF EntryInv

LEMMA EntryOpen ==
  ASSUME EntryInv, NEW r \in Runs, OpenTmp(r)
  PROVE  EntryInv'
<1>1. TypeOK /\ Sound
  BY DEF EntryInv
<1>2. /\ TypeOK' /\ tmp' = Empty /\ run[r].pc = "open" /\ run'[r].pc = "write"
      /\ run'[r].entry = run[r].entry /\ run'[r].base = run[r].base
      /\ run'[r].crossed = run[r].crossed
      /\ UNCHANGED <<disk, latest, main, restore>>
      /\ \A q \in Runs \ {r} : run'[q] = run[q]
  BY <1>1, OpenTmpEffect DEF Alone
<1>3. CrossedStays /\ \A q \in Runs : DumpOK(q)'
  BY <1>2, DumpsRest DEF Later
<1>4. Sound'
  <2>1. \A e \in main'.has : Kept(e, run)
    BY <1>1, <1>2 DEF Sound
  <2>2. \A e \in tmp'.has : Kept(e, run)
    BY <1>2, FileKinds
  <2>3. \A s \in Restores : Kept(restore'[s].entry, run)
    BY <1>1, <1>2 DEF Sound
  <2>4. \A q \in Runs : \A e \in run'[q].base : Kept(e, run)
    BY <1>1, <1>2 DEF Sound
  <2> QED
    BY <1>1, <1>3, <2>1, <2>2, <2>3, <2>4, SoundStep
<1> QED
  BY <1>2, <1>3, <1>4 DEF EntryInv

LEMMA EntryWrite ==
  ASSUME EntryInv, NEW r \in Runs, WriteTmp(r)
  PROVE  EntryInv'
<1>1. TypeOK /\ Sound /\ DumpOK(r)
  BY DEF EntryInv
<1>2. /\ TypeOK' /\ run[r].pc = "write" /\ run'[r].pc = "rename"
      /\ run'[r].entry = run[r].entry /\ run'[r].base = {}
      /\ run'[r].crossed = run[r].crossed
      /\ (tmp' = tmp \/ tmp' = NewManifest(r) \/ tmp' = Torn)
      /\ (main' = main \/ main' = NewManifest(r) \/ main' = Torn)
      /\ UNCHANGED <<disk, latest, restore>>
      /\ \A q \in Runs \ {r} : run'[q] = run[q]
  BY <1>1, WriteTmpEffect DEF Alone
<1>3. CrossedStays /\ \A q \in Runs : DumpOK(q)'
  BY <1>2, DumpsRest DEF Later
<1>4. \A e \in NewManifest(r).has : Kept(e, run)
  <2>1. Kept(run[r].entry, run)
    BY <1>1, <1>2 DEF DumpOK, Later
  <2>2. \A e \in run[r].base : Kept(e, run)
    BY <1>1 DEF Sound
  <2> QED
    BY <1>1, <2>1, <2>2, TextHas
<1>5. \A e \in Torn.has : Kept(e, run)
  BY FileKinds
<1>6. Sound'
  <2>1. \A e \in main'.has : Kept(e, run)
    BY <1>1, <1>2, <1>4, <1>5 DEF Sound
  <2>2. \A e \in tmp'.has : Kept(e, run)
    BY <1>1, <1>2, <1>4, <1>5 DEF Sound
  <2>3. \A s \in Restores : Kept(restore'[s].entry, run)
    BY <1>1, <1>2 DEF Sound
  <2>4. \A q \in Runs : \A e \in run'[q].base : Kept(e, run)
    BY <1>1, <1>2 DEF Sound
  <2> QED
    BY <1>1, <1>3, <2>1, <2>2, <2>3, <2>4, SoundStep
<1> QED
  BY <1>2, <1>3, <1>6 DEF EntryInv

LEMMA EntryRename ==
  ASSUME EntryInv, NEW r \in Runs, Rename(r)
  PROVE  EntryInv'
<1>1. TypeOK /\ Sound
  BY DEF EntryInv
<1>2. /\ TypeOK' /\ run[r].pc = "rename" /\ (RenameFound(r) \/ RenameFailed(r))
      /\ UNCHANGED <<disk, latest, restore>>
  BY <1>1, RenameEffect
<1>3. /\ run'[r].pc \in {"done", "failed"}
      /\ \A q \in Runs \ {r} : run'[q].pc = run[q].pc
      /\ \A q \in Runs : /\ run'[q].entry = run[q].entry /\ run'[q].crossed = run[q].crossed
                         /\ run'[q].base \subseteq run[q].base
  <2>1. CASE RenameFound(r)
    BY <2>1 DEF RenameFound
  <2>2. CASE RenameFailed(r)
    BY <2>2 DEF RenameFailed, Alone, FailsAs
  <2> QED
    BY <1>2, <2>1, <2>2
<1>4. /\ (main' = main \/ main' = tmp)
      /\ (tmp' = tmp \/ tmp' = Missing)
  BY <1>2 DEF RenameFound, RenameFailed
<1>5. CrossedStays /\ \A q \in Runs : DumpOK(q)'
  BY <1>2, <1>3, DumpsRest DEF Later
<1>6. Sound'
  <2>1. \A e \in main'.has : Kept(e, run)
    BY <1>1, <1>4 DEF Sound
  <2>2. \A e \in tmp'.has : Kept(e, run)
    BY <1>1, <1>4, FileKinds DEF Sound
  <2>3. \A s \in Restores : Kept(restore'[s].entry, run)
    BY <1>1, <1>2 DEF Sound
  <2>4. \A q \in Runs : \A e \in run'[q].base : Kept(e, run)
    BY <1>1, <1>3 DEF Sound
  <2> QED
    BY <1>1, <1>5, <2>1, <2>2, <2>3, <2>4, SoundStep
<1> QED
  BY <1>2, <1>5, <1>6 DEF EntryInv

LEMMA EntryAbort ==
  ASSUME EntryInv, NEW r \in Runs, Abort(r)
  PROVE  EntryInv'
<1>1. TypeOK
  BY DEF EntryInv
<1>2. /\ TypeOK' /\ run[r].pc # "new" /\ FailsAs(run[r], run'[r])
      /\ (latest' = latest \/ (latest' = r /\ r \in Newest))
      /\ UNCHANGED <<disk, main, tmp, restore>>
      /\ \A q \in Runs \ {r} : run'[q] = run[q]
  BY <1>1, AbortEffect DEF Alone
<1>3. latest' = latest \/ (IsDumping(r) /\ run[r].entry.kind = "newest")
  BY <1>2 DEF Newest, IsDumping
<1>4. \A q \in Runs : run'[q].crossed = run[q].crossed /\ run'[q].base \subseteq run[q].base
  BY <1>2 DEF FailsAs
<1>5. CrossedStays /\ \A q \in Runs : DumpOK(q)'
  BY <1>2, <1>3, <1>4, DumpsRest DEF Later, FailsAs
<1>6. Sound'
  BY <1>2, <1>4, <1>5, SoundKeeps
<1> QED
  BY <1>2, <1>5, <1>6 DEF EntryInv

LEMMA EntryRestore ==
  ASSUME EntryInv, NEW s \in Restores, RestoreStep(s)
  PROVE  EntryInv'
<1>1. TypeOK /\ Sound
  BY DEF EntryInv
<1>2. TypeOK' /\ RestoreFrame
  BY <1>1, RestoreLeavesBackups
<1>3. \A t \in Restores \ {s} : restore'[t].entry = restore[t].entry
  <2>1. CASE Pick(s)
    BY <1>1, <2>1, PickEffect DEF OnlyThis
  <2>2. CASE Verify(s) \/ Gate(s) \/ Manual(s) \/ GiveUp(s)
    BY <1>1, <2>2, MoveEffect DEF Moves, OnlyThis
  <2>3. CASE Command(s)
    BY <1>1, <2>3, CommandEffect DEF Writes, OnlyThis
  <2>4. CASE Stop(s)
    BY <1>1, <2>4, StopEffect DEF Meets
  <2>5. CASE Copy(s)
    BY <1>1, <2>5, CopyEffect DEF Moves, OnlyThis
  <2>6. CASE Copied(s)
    BY <1>1, <2>6, CopiedEffect DEF Writes, OnlyThis
  <2>7. CASE Restart(s)
    BY <1>1, <2>7, RestartEffect DEF Moves, OnlyThis
  <2> QED
    BY <2>1, <2>2, <2>3, <2>4, <2>5, <2>6, <2>7 DEF RestoreStep
<1>4. restore'[s].entry = restore[s].entry \/ restore'[s].entry \in main.has
  <2>1. CASE Pick(s)
    BY <1>1, <2>1, PickEffect
  <2>2. CASE Verify(s) \/ Gate(s) \/ Manual(s) \/ GiveUp(s)
    BY <1>1, <2>2, MoveEffect DEF Moves
  <2>3. CASE Command(s)
    BY <1>1, <2>3, CommandEffect DEF Writes
  <2>4. CASE Stop(s)
    BY <1>1, <2>4, StopEffect
  <2>5. CASE Copy(s)
    BY <1>1, <2>5, CopyEffect DEF Moves
  <2>6. CASE Copied(s)
    BY <1>1, <2>6, CopiedEffect DEF Writes
  <2>7. CASE Restart(s)
    BY <1>1, <2>7, RestartEffect DEF Moves
  <2> QED
    BY <2>1, <2>2, <2>3, <2>4, <2>5, <2>6, <2>7 DEF RestoreStep
<1>5. /\ run' = run /\ disk' = disk /\ latest' = latest /\ main' = main /\ tmp' = tmp
  BY <1>2 DEF RestoreFrame
<1>6. \A r \in Runs : DumpOK(r)'
  BY <1>5 DEF EntryInv, DumpOK, IsDumping, Rivals, Trusted, HoldsOwn, OwnPath
<1>7. \A t \in Restores : Kept(restore'[t].entry, run)
  BY <1>1, <1>3, <1>4 DEF Sound
<1>8. Sound'
  BY <1>1, <1>5, <1>7 DEF Sound
<1> QED
  BY <1>2, <1>6, <1>8 DEF EntryInv

LEMMA EntrySpoil ==
  ASSUME EntryInv, NEW p \in Paths, Spoil(p)
  PROVE  EntryInv'
<1>1. TypeOK /\ Sound
  BY DEF EntryInv
<1>2. /\ TypeOK' /\ Put(p, Spoiled) /\ latest' = latest /\ main' = main /\ tmp' = tmp /\ run' = run
      /\ Spoiled \in Content
  BY <1>1, SpoilEffect, Contents
<1>3. disk'[p] = Spoiled /\ \A q \in Paths \ {p} : disk'[q] = disk[q]
  BY <1>1, <1>2, PutEffect
<1>4. \A s \in Restores : restore'[s].entry = restore[s].entry
  BY <1>1, <1>2, PutLeavesRestores
<1>5. ASSUME NEW r \in Runs PROVE DumpOK(r)'
  <2>1. DumpOK(r) /\ OwnPath(r)' = OwnPath(r) /\ (Trusted(r)' <=> Trusted(r))
    BY <1>2 DEF EntryInv, OwnPath, Trusted
  <2>2. OwnPath(r) \in Paths
    BY DEF OwnPath, StartPath, Paths
  <2>3. HoldsOwn(r) => HoldsOwn(r)'
    BY <1>2, <1>3, <2>1, <2>2 DEF HoldsOwn
  <2> QED
    BY <1>2, <2>1, <2>3 DEF DumpOK, IsDumping, Rivals
<1>6. Sound'
  BY <1>1, <1>2, <1>4 DEF Sound
<1> QED
  BY <1>2, <1>5, <1>6 DEF EntryInv

LEMMA EntryNext == EntryInv /\ [Next]_vars => EntryInv'
<1> SUFFICES ASSUME EntryInv, [Next]_vars PROVE EntryInv'
  OBVIOUS
<1>1. ASSUME NEW r \in Runs, BackupStep(r) PROVE EntryInv'
  BY <1>1, EntryDump, EntryDumped, EntryLocate, EntrySum, EntrySnapshot, EntryRead, EntryOpen,
     EntryWrite, EntryRename, EntryAbort DEF BackupStep
<1>2. CASE UNCHANGED vars
  <2>1. TypeOK'
    BY <1>2, StutterTypes DEF EntryInv
  <2>2. disk' = disk /\ latest' = latest /\ main' = main /\ tmp' = tmp /\ run' = run /\ restore' = restore
    BY <1>2 DEF vars
  <2>3. \A r \in Runs : DumpOK(r)'
    BY <2>2 DEF EntryInv, DumpOK, IsDumping, Rivals, Trusted, HoldsOwn, OwnPath
  <2>4. Sound'
    BY <2>2 DEF EntryInv, Sound
  <2> QED
    BY <2>1, <2>3, <2>4 DEF EntryInv
<1> QED
  BY <1>1, <1>2, EntryRestore, EntrySpoil DEF Next

(***************************************************************************)
(* A checksum in the manifest is that of the dump of the run that signed   *)
(* the entry (runBackup, engine.ts, and the drivers), or empty; of part of *)
(* it only where a pipeline hid that the dump broke off.  The exceptions   *)
(* are two dumps at once of a driver that does not choose the name of its  *)
(* file, and a file damaged before it was read.                            *)
(***************************************************************************)
THEOREM EntriesAreOwn == Spec => []EntryIsOwn
<1>1. EntryInv => EntryIsOwn
  BY DEF EntryInv, Sound, Kept, EntryIsOwn, Vouches
<1> QED
  BY EntryInit, EntryNext, <1>1, PTL DEF Spec

-----------------------------------------------------------------------------
(***************************************************************************)
(* The restores.  From the verification to the command that reads the file *)
(* the checksum of the entry is that of the artifact, unless the artifact  *)
(* was rewritten since; and what was written is what the checksum says.    *)
(***************************************************************************)
IsVerified(x) == x.pc \in {"gate", "exec", "copy", "copying"}

\* A restore x over the artifacts d.
AsVerified(x, d) ==
  IsVerified(x) /\ ~x.rewritten => x.entry.sum = NoSum \/ d[x.entry.path] = x.entry.sum
AsWritten(x) ==
  x.wrote # Absent =>
    \/ x.entry.sum = NoSum \/ x.rewritten \/ x.wrote = x.entry.sum
    \/ x.entry.way = "pipeline" /\ x.wrote = Cut(x.entry.sum)
RestoreOK(x, d) ==
  AsVerified(x, d) /\ AsWritten(x) /\ (x.pc = "new" => x.wrote = Absent)

RestoreInv == TypeOK /\ \A s \in Restores : RestoreOK(restore[s], disk)

LEMMA RestoreInit == Init => RestoreInv
<1> SUFFICES ASSUME Init PROVE RestoreInv
  OBVIOUS
<1>1. \A s \in Restores : restore[s].pc = "new" /\ restore[s].wrote = Absent
  BY DEF Init
<1> QED
  BY <1>1, InitTypes DEF RestoreInv, RestoreOK, AsVerified, AsWritten, IsVerified

LEMMA RestorePut ==
  ASSUME RestoreInv, TypeOK', NEW p \in Paths, NEW c \in Content, Put(p, c)
  PROVE  RestoreInv'
<1>1. TypeOK
  BY DEF RestoreInv
<1>2. /\ \A q \in Paths \ {p} : disk'[q] = disk[q]
      /\ \A s \in Restores :
           Rewrites(restore[s], restore'[s], Verified(s) /\ restore[s].entry.path = p)
  BY <1>1, PutEffect
<1>3. ASSUME NEW s \in Restores PROVE RestoreOK(restore'[s], disk')
  <2>1. RestoreOK(restore[s], disk)
    BY DEF RestoreInv
  <2>2. /\ restore'[s].pc = restore[s].pc /\ restore'[s].entry = restore[s].entry
        /\ restore'[s].wrote = restore[s].wrote
        /\ (restore[s].rewritten => restore'[s].rewritten)
        /\ (Verified(s) /\ restore[s].entry.path = p => restore'[s].rewritten)
    BY <1>2 DEF Rewrites
  <2>3. restore[s].entry.path \in Paths
    <3>1. PICK x \in RestoreRecs : x = restore[s]
      BY <1>1, Types
    <3>2. PICK e \in Entries : e = x.entry
      BY RestoreFields
    <3> QED
      BY <3>1, <3>2, EntryFields
  <2>4. AsVerified(restore'[s], disk')
    <3> SUFFICES ASSUME IsVerified(restore'[s]), ~restore'[s].rewritten
                 PROVE  \/ restore'[s].entry.sum = NoSum
                        \/ disk'[restore'[s].entry.path] = restore'[s].entry.sum
      BY DEF AsVerified
    <3>1. Verified(s) /\ IsVerified(restore[s]) /\ ~restore[s].rewritten
      BY <2>2 DEF Verified, IsVerified
    <3>2. restore[s].entry.path # p
      BY <2>2, <3>1
    <3>3. disk'[restore[s].entry.path] = disk[restore[s].entry.path]
      BY <1>2, <2>3, <3>2
    <3> QED
      BY <2>1, <2>2, <3>1, <3>3 DEF RestoreOK, AsVerified
  <2>5. AsWritten(restore'[s])
    BY <2>1, <2>2 DEF RestoreOK, AsWritten
  <2> QED
    BY <2>1, <2>2, <2>4, <2>5 DEF RestoreOK
<1> QED
  BY <1>3 DEF RestoreInv

LEMMA RestoreBackup ==
  ASSUME RestoreInv, NEW r \in Runs, BackupStep(r)
  PROVE  RestoreInv'
<1>1. TypeOK
  BY DEF RestoreInv
<1>2. TypeOK'
  BY <1>1, BackupLeavesRestores
<1>3. (\E p \in Paths : \E c \in Content : Put(p, c)) \/ (disk' = disk /\ restore' = restore)
  <2>1. CASE \E k \in Kinds : \E w \in Ways(k) : Dump(r, k, w)
    BY <1>1, <2>1, DumpPut
  <2>2. CASE Dumped(r)
    BY <1>1, <2>2, DumpedEffect
  <2>3. CASE Locate(r)
    BY <2>3 DEF Locate
  <2>4. CASE Sum(r)
    BY <2>4 DEF Sum
  <2>5. CASE Snapshot(r)
    BY <2>5 DEF Snapshot
  <2>6. CASE ReadManifest(r)
    BY <2>6 DEF ReadManifest
  <2>7. CASE OpenTmp(r)
    BY <2>7 DEF OpenTmp
  <2>8. CASE WriteTmp(r)
    BY <2>8 DEF WriteTmp
  <2>9. CASE Rename(r)
    BY <2>9 DEF Rename
  <2>10. CASE Abort(r)
    BY <2>10 DEF Abort
  <2> QED
    BY <2>1, <2>2, <2>3, <2>4, <2>5, <2>6, <2>7, <2>8, <2>9, <2>10 DEF BackupStep
<1> QED
  BY <1>2, <1>3, RestorePut DEF RestoreInv

LEMMA RestoreOwn ==
  ASSUME RestoreInv, NEW s \in Restores, RestoreStep(s)
  PROVE  RestoreInv'
<1>1. TypeOK /\ RestoreOK(restore[s], disk)
  BY DEF RestoreInv
<1>2. TypeOK' /\ disk' = disk
  BY <1>1, RestoreLeavesBackups DEF RestoreFrame
<1>3. \A t \in Restores \ {s} : RestoreOK(restore'[t], disk)
  <2>1. CASE Stop(s)
    <3>1. \A t \in Restores \ {s} : Meets(restore[t], restore'[t], t \in Acting)
      BY <1>1, <2>1, StopEffect
    <3> QED
      BY <3>1 DEF Meets, RestoreInv, RestoreOK, AsVerified, AsWritten, IsVerified
  <2>2. CASE ~Stop(s)
    <3>1. OnlyThis(s)
      BY <1>1, <2>2, PickEffect, MoveEffect, CommandEffect, CopyEffect, CopiedEffect,
         RestartEffect DEF RestoreStep, Moves, Writes
    <3> QED
      BY <3>1 DEF OnlyThis, RestoreInv
  <2> QED
    BY <2>1, <2>2
<1>4. RestoreOK(restore'[s], disk)
  <2>1. CASE Pick(s)
    <3>1. /\ restore[s].pc = "new" /\ restore'[s].pc = "verify"
          /\ restore'[s].wrote = restore[s].wrote
      BY <1>1, <2>1, PickEffect
    <3> QED
      BY <1>1, <3>1 DEF RestoreOK, AsVerified, AsWritten, IsVerified
  <2>2. CASE Verify(s) \/ Gate(s) \/ Manual(s) \/ GiveUp(s)
    <3>1. \/ Moves(s, "failed")
          \/ Moves(s, "gate") /\ EntryVerified(restore[s].entry)
          \/ Moves(s, "exec") /\ restore[s].pc = "gate"
      BY <1>1, <2>2, MoveEffect
    <3>2. /\ restore'[s].entry = restore[s].entry /\ restore'[s].wrote = restore[s].wrote
          /\ restore'[s].rewritten = restore[s].rewritten
          /\ restore'[s].pc \in {"failed", "gate", "exec"}
      BY <3>1 DEF Moves
    <3>3. AsVerified(restore'[s], disk)
      <4>1. CASE restore'[s].pc = "failed"
        BY <4>1 DEF AsVerified, IsVerified
      <4>2. CASE Moves(s, "gate") /\ EntryVerified(restore[s].entry)
        BY <3>2, <4>2 DEF AsVerified, EntryVerified, SumMatches
      <4>3. CASE restore[s].pc = "gate"
        BY <1>1, <3>2, <4>3 DEF RestoreOK, AsVerified, IsVerified
      <4> QED
        BY <3>1, <4>1, <4>2, <4>3 DEF Moves
    <3> QED
      BY <1>1, <3>2, <3>3 DEF RestoreOK, AsWritten
  <2>3. CASE Command(s)
    <3>1. PICK c \in Restorable(restore[s].entry) :
            restore[s].pc = "exec" /\ Writes(s, "done", c)
      BY <1>1, <2>3, CommandEffect
    <3>2. \/ restore[s].entry.sum = NoSum \/ restore[s].rewritten
          \/ disk[restore[s].entry.path] = restore[s].entry.sum
      BY <1>1, <3>1 DEF RestoreOK, AsVerified, IsVerified
    <3>3. AsWritten(restore'[s])
      BY <3>1, <3>2 DEF AsWritten, Writes, Restorable
    <3> QED
      BY <3>1, <3>3 DEF RestoreOK, AsVerified, IsVerified, Writes
  <2>4. CASE Stop(s)
    <3>1. /\ restore[s].pc = "exec" /\ restore'[s].pc = "copy"
          /\ restore'[s].wrote = restore[s].wrote
          /\ restore'[s].entry = restore[s].entry /\ restore'[s].rewritten = restore[s].rewritten
      BY <1>1, <2>4, StopEffect
    <3> QED
      BY <1>1, <3>1 DEF RestoreOK, AsVerified, AsWritten, IsVerified
  <2>5. CASE Copy(s)
    <3>1. restore[s].pc = "copy" /\ Moves(s, "copying")
      BY <1>1, <2>5, CopyEffect
    <3> QED
      BY <1>1, <3>1 DEF RestoreOK, AsVerified, AsWritten, IsVerified, Moves
  <2>6. CASE Copied(s)
    <3>1. restore[s].pc = "copying" /\ Writes(s, "restart", disk[restore[s].entry.path])
      BY <1>1, <2>6, CopiedEffect
    <3> QED
      BY <1>1, <3>1 DEF RestoreOK, AsVerified, AsWritten, IsVerified, Writes
  <2>7. CASE Restart(s)
    <3>1. Moves(s, "done")
      BY <1>1, <2>7, RestartEffect
    <3> QED
      BY <1>1, <3>1 DEF RestoreOK, AsVerified, AsWritten, IsVerified, Moves
  <2> QED
    BY <2>1, <2>2, <2>3, <2>4, <2>5, <2>6, <2>7 DEF RestoreStep
<1> QED
  BY <1>2, <1>3, <1>4 DEF RestoreInv

LEMMA RestoreNext == RestoreInv /\ [Next]_vars => RestoreInv'
<1> SUFFICES ASSUME RestoreInv, [Next]_vars PROVE RestoreInv'
  OBVIOUS
<1>1. TypeOK
  BY DEF RestoreInv
<1>2. ASSUME NEW p \in Paths, Spoil(p) PROVE RestoreInv'
  BY <1>1, <1>2, SpoilEffect, Contents, RestorePut
<1>3. CASE UNCHANGED vars
  <2>1. TypeOK' /\ disk' = disk /\ restore' = restore
    BY <1>1, <1>3, StutterTypes DEF vars
  <2> QED
    BY <2>1 DEF RestoreInv
<1> QED
  BY <1>2, <1>3, RestoreBackup, RestoreOwn DEF Next

(***************************************************************************)
(* A restore of an entry with a checksum wrote what was summed             *)
(* (reVerifyEntry and execRestore, restore.ts), and the entry vouches for  *)
(* it as EntriesAreOwn says; except for an artifact replaced after its     *)
(* verification and a restore pipeline that broke off.                     *)
(***************************************************************************)
THEOREM RestoresAreAsConfirmed == Spec => []RestoredAsConfirmed
<1>1. EntryInv /\ RestoreInv => RestoredAsConfirmed
  <2> SUFFICES ASSUME EntryInv, RestoreInv, NEW s \in Restores,
                      restore[s].wrote # Absent, restore[s].entry.sum # NoSum
               PROVE  /\ Vouches(restore[s].entry)
                      /\ \/ restore[s].wrote = restore[s].entry.sum
                         \/ restore[s].rewritten
                         \/ /\ restore[s].entry.way = "pipeline"
                            /\ restore[s].wrote = Cut(restore[s].entry.sum)
    BY DEF RestoredAsConfirmed
  <2>1. Kept(restore[s].entry, run)
    BY DEF EntryInv, Sound
  <2>2. Vouches(restore[s].entry)
    BY <2>1 DEF Kept, Vouches
  <2>3. AsWritten(restore[s])
    BY DEF RestoreInv, RestoreOK
  <2> QED
    BY <2>2, <2>3 DEF AsWritten
<1>2. Spec => []EntryInv
  BY EntryInit, EntryNext, PTL DEF Spec
<1>3. Spec => []RestoreInv
  BY RestoreInit, RestoreNext, PTL DEF Spec
<1> QED
  BY <1>1, <1>2, <1>3, PTL
=============================================================================
