------------------------------- MODULE Backup -------------------------------
(***************************************************************************)
(* The backup engine (backup/engine.ts), its manifest (manifest-io.ts) and *)
(* the restore runner (backup/restore.ts), as `backup run` and `backup     *)
(* restore` use them.  Every command is a process of its own, so the mutex *)
(* of manifest-io, which belongs to one process, never makes one command   *)
(* wait for another: what the commands share is the directory of artifacts *)
(* on the target's host, the manifest file and the service restored.       *)
(*                                                                         *)
(* A path stands for the run that writes it; the driver that lets its tool *)
(* overwrite (neo4j, one database here) writes the path Fixed.  The        *)
(* content of a file is the run that wrote it and whether it is complete,  *)
(* and a checksum is the content it was computed from.                     *)
(***************************************************************************)
EXTENDS Naturals

CONSTANTS Runs,            \* `backup run` commands
          Restores,        \* `backup restore` commands
          Old,             \* a backup older than the commands
          Fixed,           \* the path of the driver that overwrites
          FirstSigs,       \* hmacs the older entry may have in the manifest
          MaxSpoils        \* bound on artifacts damaged from outside

VARIABLES disk,      \* the artifact directory: what each path holds
          latest,    \* the newest complete file among those of vzdump
          main,      \* backup-manifest.json
          tmp,       \* backup-manifest.json.tmp
          run,       \* the backup commands
          restore,   \* the restore commands
          up,        \* the service that a restore stops and starts runs
          half,      \* what lies in its data directory is part of a copy
          spoils     \* artifacts damaged so far

service == <<up, half>>
vars == <<disk, latest, main, tmp, run, restore, service, spoils>>

Paths == Runs \cup {Old, Fixed}
Whole(r) == [by |-> r, whole |-> TRUE]
Part(r)  == [by |-> r, whole |-> FALSE]
Absent   == [by |-> "absent", whole |-> FALSE]
Spoiled  == [by |-> "spoiled", whole |-> FALSE]
Content  == [by : Runs \cup {Old}, whole : BOOLEAN] \cup {Absent, Spoiled}
NoSum    == Absent

Cut(c)   == [c EXCEPT !.whole = FALSE]

\* How a driver names its artifact: a name of its own (written by one command
\* or through `| gzip`), whatever file of the directory is the newest, a name
\* that is used again, or no file at all.
Kinds == {"named", "piped", "newest", "fixed", "snapshot"}

\* How the platform of an entry is restored (execRestore).
Ways(k) == CASE k = "snapshot" -> {"manual"}
             [] k = "named"    -> {"command", "service"}
             [] k = "piped"    -> {"pipeline"}
             [] OTHER          -> {"command"}

Entries == [of : Runs \cup {Old}, kind : Kinds, way : UNION {Ways(k) : k \in Kinds},
            path : Paths, sum : Content, sig : {"valid", "bad", "none"}]

OldEntry(sig) == [of |-> Old, kind |-> "named", way |-> "command",
                  path |-> Old, sum |-> NoSum, sig |-> sig]

\* A manifest file is missing, holds entries, or nothing yet, or the remains
\* of two writes into one file.
Manifest(es) == [is |-> "manifest", has |-> es]
Missing == [is |-> "missing", has |-> {}]
Empty == [is |-> "empty", has |-> {}]
Torn == [is |-> "torn", has |-> {}]
Unreadable == {Empty, Torn}

ASSUME BackupAssumption ==
    /\ Old # Fixed /\ {Old, Fixed} \cap Runs = {}
    /\ FirstSigs \subseteq {"bad", "none"}
    /\ MaxSpoils \in Nat

TypeOK ==
    /\ disk \in [Paths -> Content]
    /\ latest \in Runs \cup {Old}
    /\ \A f \in {main, tmp} :
          f \in {Missing, Empty, Torn} \/ (f = Manifest(f.has) /\ f.has \subseteq Entries)
    /\ run \in [Runs -> [pc : {"new", "dump", "locate", "sum", "read", "open", "write",
                               "rename", "done", "failed"},
                         entry : Entries, base : SUBSET Entries,
                         file : {"none", "tmp", "main", "gone"},
                         crossed : BOOLEAN, overlapped : BOOLEAN]]
    /\ restore \in [Restores -> [pc : {"new", "verify", "gate", "exec", "copy",
                                       "copying", "restart", "done", "failed"},
                                 entry : Entries, wrote : Content,
                                 rewritten : BOOLEAN, met : BOOLEAN]]
    /\ up \in BOOLEAN /\ half \in BOOLEAN
    /\ spoils \in 0..MaxSpoils

Init ==
    /\ disk = [p \in Paths |-> IF p = Old THEN Whole(Old) ELSE Absent]
    /\ latest = Old
    /\ main \in {Missing} \cup {Manifest({OldEntry(sig)}) : sig \in FirstSigs}
    /\ tmp = Missing
    /\ run = [r \in Runs |-> [pc |-> "new", entry |-> OldEntry("none"), base |-> {},
                              file |-> "none", crossed |-> FALSE, overlapped |-> FALSE]]
    /\ restore = [s \in Restores |-> [pc |-> "new", entry |-> OldEntry("none"),
                                      wrote |-> Absent, rewritten |-> FALSE, met |-> FALSE]]
    /\ up = TRUE /\ half = FALSE /\ spoils = 0

-----------------------------------------------------------------------------
(***************************************************************************)
(* The artifacts.  Writing one while a restore that verified it has not    *)
(* finished is what the history `rewritten` records.                       *)
(***************************************************************************)
Verified(s) == restore[s].pc \in {"gate", "exec", "copy", "copying"}

Put(p, c) ==
    /\ disk' = [disk EXCEPT ![p] = c]
    /\ restore' = [s \in Restores |->
         [restore[s] EXCEPT !.rewritten = @ \/ (Verified(s) /\ restore[s].entry.path = p)]]

Dumping(k) == {r \in Runs : /\ run[r].pc \in {"dump", "locate", "sum"}
                            /\ k \in {"newest", "fixed"} /\ run[r].entry.kind = k}
Appending == {r \in Runs : run[r].pc \in {"open", "write", "rename"}}

Fails(r) == run' = [run EXCEPT ![r].pc = "failed", ![r].base = {}, ![r].file = "none"]

\* The driver's command starts: pg_dump, cp, tar, zfs send, vzdump, ...
\* Dumps of two commands under way at once by one driver that does not name
\* its file are recorded as crossed.
Dump(r, k, w) ==
    LET p == IF k = "fixed" THEN Fixed ELSE r
        e == [of |-> r, kind |-> k, way |-> w, path |-> p, sum |-> NoSum, sig |-> "valid"]
    IN /\ run[r].pc = "new" /\ k # "snapshot"
       /\ Put(p, Part(r))
       /\ run' = [q \in Runs |->
            IF q = r THEN [run[r] EXCEPT !.pc = "dump", !.entry = e,
                                         !.crossed = Dumping(k) # {}]
            ELSE [run[q] EXCEPT !.crossed = @ \/ q \in Dumping(k)]]
       /\ UNCHANGED <<latest, main, tmp, service, spoils>>

\* What is there when the command reports success.  A pipeline reports only
\* that gzip succeeded: pg_dump or zfs send may have broken off.
Dumps(r) == IF run[r].entry.kind = "piped" THEN {Whole(r), Part(r)} ELSE {Whole(r)}

Dumped(r) ==
    /\ run[r].pc = "dump"
    /\ \E c \in Dumps(r) : Put(run[r].entry.path, c)
    /\ run' = [run EXCEPT ![r].pc = IF run[r].entry.kind \in {"named", "piped"}
                                    THEN "sum" ELSE "locate"]
    /\ latest' = IF run[r].entry.kind = "newest" THEN r ELSE latest
    /\ UNCHANGED <<main, tmp, service, spoils>>

\* `ls -t ... | head -1`: a dump that still writes may be the newest.
NewestOfAny == {latest} \cup {q \in Runs : disk[q] # Absent}  \* a bug: ls without -t
Newest == {latest} \cup {q \in Runs : run[q].pc = "dump" /\ run[q].entry.kind = "newest"}

Located(r) == IF run[r].entry.kind = "newest" THEN Newest ELSE {Fixed}

Locate(r) ==
    /\ run[r].pc = "locate"
    /\ \E p \in Located(r) :
         run' = [run EXCEPT ![r].pc = "sum", ![r].entry.path = p]
    /\ UNCHANGED <<disk, latest, main, tmp, restore, service, spoils>>

\* `sha256sum ... | awk`, empty when the artifact cannot be read, and
\* runBackup signs the entry it builds.
Sum(r) ==
    /\ run[r].pc = "sum"
    /\ \E sum \in {disk[run[r].entry.path], NoSum} :
         run' = [run EXCEPT ![r].pc = "read", ![r].entry.sum = sum]
    /\ UNCHANGED <<disk, latest, main, tmp, restore, service, spoils>>

\* The OpenSearch driver: no artifact and no checksum, and curl -s reports
\* success whatever the server answers.
Snapshot(r) ==
    /\ run[r].pc = "new"
    /\ run' = [run EXCEPT ![r].pc = "read",
                 ![r].entry = [of |-> r, kind |-> "snapshot", way |-> "manual",
                               path |-> r, sum |-> NoSum, sig |-> "valid"]]
    /\ UNCHANGED <<disk, latest, main, tmp, restore, service, spoils>>

-----------------------------------------------------------------------------
(***************************************************************************)
(* appendManifestEntry: read, open and truncate the temporary file, write, *)
(* rename.  A file opened by one process keeps being written by it when    *)
(* another process renames it: `file` follows its name.                    *)
(***************************************************************************)
ReadManifest(r) ==
    /\ run[r].pc = "read" /\ main \notin Unreadable
    /\ run' = [q \in Runs |->
         IF q = r THEN [run[r] EXCEPT !.pc = "open", !.base = main.has,
                                      !.overlapped = Appending # {}]
         ELSE [run[q] EXCEPT !.overlapped = @ \/ q \in Appending]]
    /\ UNCHANGED <<disk, latest, main, tmp, restore, service, spoils>>

OpenTmp(r) ==
    /\ run[r].pc = "open"
    /\ tmp' = Empty
    /\ run' = [run EXCEPT ![r].pc = "write", ![r].file = "tmp"]
    /\ UNCHANGED <<disk, latest, main, restore, service, spoils>>

NewManifestAlone(r) == Manifest({run[r].entry})         \* a bug: the old entries are dropped
NewManifest(r) == Manifest(run[r].base \cup {run[r].entry})

\* Over the content of another writer a shorter text leaves a tail.
Written(f, es) == IF f = Empty THEN {es} ELSE {es, Torn}

WriteTmp(r) ==
    /\ run[r].pc = "write"
    /\ run' = [run EXCEPT ![r].pc = "rename", ![r].file = "none", ![r].base = {}]
    /\ IF run[r].file = "tmp" THEN tmp' \in Written(tmp, NewManifest(r)) ELSE tmp' = tmp
    /\ IF run[r].file = "main" THEN main' \in Written(main, NewManifest(r)) ELSE main' = main
    /\ UNCHANGED <<disk, latest, restore, service, spoils>>

Renamed(f) == CASE f = "tmp" -> "main" [] f = "main" -> "gone" [] OTHER -> f

Rename(r) ==
    /\ run[r].pc = "rename"
    /\ IF tmp = Missing
       THEN Fails(r) /\ UNCHANGED <<main, tmp>>
       ELSE /\ main' = tmp /\ tmp' = Missing
            /\ run' = [q \in Runs |->
                 IF q = r THEN [run[r] EXCEPT !.pc = "done"]
                          ELSE [run[q] EXCEPT !.file = Renamed(@)]]
    /\ UNCHANGED <<disk, latest, restore, service, spoils>>

\* A step of the command fails, as reading an unreadable manifest does, or its
\* process is killed; what it has written stays.  A dump cut off may be the newest file of the directory.
Abort(r) ==
    /\ run[r].pc \in {"dump", "locate", "sum", "read", "open", "write", "rename"}
    /\ Fails(r)
    /\ latest' \in {latest} \cup {q \in {r} : q \in Newest}
    /\ UNCHANGED <<disk, main, tmp, restore, service, spoils>>

-----------------------------------------------------------------------------
(***************************************************************************)
(* backup restore <index>: the entry is read from the manifest, verified   *)
(* (dryRunRestore), approved (the data-affecting level of the gate) and    *)
(* restored (execRestore).                                                 *)
(***************************************************************************)
To(s, l) == restore' = [restore EXCEPT ![s].pc = l]
Stops(s) == To(s, "failed")
RestoreFrame == UNCHANGED <<disk, latest, main, tmp, run, spoils>>

Pick(s) ==
    /\ restore[s].pc = "new" /\ main \notin Unreadable
    /\ \E e \in main.has :
         restore' = [restore EXCEPT ![s].pc = "verify", ![s].entry = e]
    /\ RestoreFrame /\ UNCHANGED service

\* reVerifyEntry: an empty hmac and an empty checksum are not looked at.
SumMatchesAny(e) == TRUE                      \* a bug: the checksum is not compared
SumMatches(e) == e.sum = NoSum \/ disk[e.path] = e.sum
EntryVerified(e) == e.sig # "bad" /\ SumMatches(e)

Verify(s) ==
    /\ restore[s].pc = "verify"
    /\ IF EntryVerified(restore[s].entry) THEN To(s, "gate") ELSE Stops(s)
    /\ RestoreFrame /\ UNCHANGED service

\* verifyBackup reads the manifest again; no tampered entry, and one of the
\* platform; whether it is fresh enough, and the operator's CONFIRM, are
\* ApprovalGate's matter.
BackupOnFile(w) ==
    /\ main \notin Unreadable
    /\ \A e \in main.has : e.sig # "bad"
    /\ \E e \in main.has : e.way = w

Gate(s) ==
    /\ restore[s].pc = "gate"
    /\ IF BackupOnFile(restore[s].entry.way) THEN To(s, "exec") ELSE Stops(s)
    /\ RestoreFrame /\ UNCHANGED service

\* Platforms restored by one command, from the artifact as it is by then;
\* `gunzip -c ... | psql` also succeeds on what gunzip wrote before it failed.
Restorable(e) == IF e.way = "pipeline" THEN {disk[e.path], Cut(disk[e.path])}
                                       ELSE {disk[e.path]}

Command(s) ==
    /\ restore[s].pc = "exec" /\ restore[s].entry.way \in {"command", "pipeline"}
    /\ \E c \in Restorable(restore[s].entry) :
         restore' = [restore EXCEPT ![s].pc = "done", ![s].wrote = c]
    /\ RestoreFrame /\ UNCHANGED service

\* OpenSearch: the runbook is printed and the restore throws.
Manual(s) ==
    /\ restore[s].pc = "exec" /\ restore[s].entry.way = "manual"
    /\ Stops(s)
    /\ RestoreFrame /\ UNCHANGED service

\* Restores that act on the service at once are recorded as met.
Acting == {s \in Restores : restore[s].pc \in {"copy", "copying", "restart"}}

\* Redis: stop the service, copy the file, start the service.
Stop(s) ==
    /\ restore[s].pc = "exec" /\ restore[s].entry.way = "service"
    /\ restore' = [t \in Restores |->
         IF t = s THEN [restore[s] EXCEPT !.pc = "copy", !.met = Acting # {}]
         ELSE [restore[t] EXCEPT !.met = @ \/ t \in Acting]]
    /\ up' = FALSE /\ half' = half
    /\ RestoreFrame

Copy(s) ==
    /\ restore[s].pc = "copy"
    /\ To(s, "copying")
    /\ half' = TRUE /\ up' = up
    /\ RestoreFrame

Copied(s) ==
    /\ restore[s].pc = "copying"
    /\ restore' = [restore EXCEPT ![s].pc = "restart",
                                  ![s].wrote = disk[restore[s].entry.path]]
    /\ half' = FALSE /\ up' = up
    /\ RestoreFrame

Restart(s) ==
    /\ restore[s].pc = "restart"
    /\ To(s, "done")
    /\ up' = TRUE /\ half' = half
    /\ RestoreFrame

\* A command on the host fails, the prompt is declined or times out, the
\* audit write fails, or the process is killed.  execRestore ends where it
\* is: a service that it has stopped is not started again.
StartedAfter(s) ==                            \* a bug: the start put into a finally
    up' = (up \/ restore[s].pc \in {"copy", "copying"})
LeftBy(s) == up' = up

GiveUp(s) ==
    /\ restore[s].pc \notin {"new", "done", "failed"}
    /\ Stops(s)
    /\ LeftBy(s) /\ half' = half
    /\ RestoreFrame

\* Something outside damages a finished artifact.
Spoil(p) ==
    /\ spoils < MaxSpoils
    /\ disk[p].whole
    /\ Put(p, Spoiled)
    /\ spoils' = spoils + 1
    /\ UNCHANGED <<latest, main, tmp, run, service>>

-----------------------------------------------------------------------------
BackupStep(r) ==
    \/ \E k \in Kinds : \E w \in Ways(k) : Dump(r, k, w)
    \/ Dumped(r) \/ Locate(r) \/ Sum(r) \/ Snapshot(r)
    \/ ReadManifest(r) \/ OpenTmp(r) \/ WriteTmp(r) \/ Rename(r)
    \/ Abort(r)

RestoreStep(s) ==
    \/ Pick(s) \/ Verify(s) \/ Gate(s)
    \/ Command(s) \/ Manual(s) \/ Stop(s) \/ Copy(s) \/ Copied(s) \/ Restart(s)
    \/ GiveUp(s)

Next ==
    \/ \E r \in Runs : BackupStep(r)
    \/ \E s \in Restores : RestoreStep(s)
    \/ \E p \in Paths : Spoil(p)

Spec == Init /\ [][Next]_vars

-----------------------------------------------------------------------------
(***************************************************************************)
(* manifest-io (lines 8-9) promises that no entry is lost.  What the       *)
(* rename gives, in whatever step a command is killed: the manifest is     *)
(* never half written, and a backup that was reported as done is in it,    *)
(* except where two commands, who do not share the mutex, appended at the  *)
(* same time.                                                              *)
(***************************************************************************)
NothingLost ==
    /\ TypeOK
    /\ IF main \in Unreadable
       THEN \E r \in Runs : run[r].overlapped
       ELSE \A r \in Runs : run[r].pc = "done" /\ ~run[r].overlapped
                               => run[r].entry \in main.has

(***************************************************************************)
(* What the checksum of an entry vouches for (engine.ts).  If it is not    *)
(* empty, it is that of what the entry's own run wrote, and of all of it   *)
(* unless a pipeline hid that the dump broke off.  For drivers that choose *)
(* the file name this is so whatever else runs; for those that look for    *)
(* the newest file, or write one name again, when they did not dump twice  *)
(* at a time.  (A file damaged before it was read is signed as it is.)     *)
(***************************************************************************)
Vouches(e) ==
    \/ e.sum \in {NoSum, Spoiled}
    \/ e.sum = Whole(e.of)
    \/ e.kind = "piped" /\ e.sum = Part(e.of)
    \/ e.kind \in {"newest", "fixed"} /\ run[e.of].crossed

EntryIsOwn ==
    main \in Unreadable \/
    \A e \in main.has : e.of \in Runs /\ e.kind # "snapshot" => Vouches(e)

(***************************************************************************)
(* What the operator confirms is what is written (restore.ts): a restore   *)
(* of an entry that has a checksum wrote the very content that was summed, *)
(* and that of the entry's own run as far as the entry vouches for it.     *)
(* The exceptions are an artifact replaced between the verification and    *)
(* the restore command, which reads the file again without verifying it,   *)
(* and a restore pipeline that broke off.                                  *)
(***************************************************************************)
RestoredAsConfirmed ==
    \A s \in Restores :
        LET e == restore[s].entry
        IN restore[s].wrote # Absent /\ e.sum # NoSum =>
             /\ Vouches(e)
             /\ \/ restore[s].wrote = e.sum
                \/ restore[s].rewritten
                \/ e.way = "pipeline" /\ restore[s].wrote = Cut(e.sum)

(***************************************************************************)
(* The service never runs on part of a copy (restore.ts, redis): it is     *)
(* stopped before the copy, a copy that fails or is killed leaves it       *)
(* stopped, and the next restore to start it has copied the whole file;    *)
(* unless two restores of it acted at once.  The price of the skipped      *)
(* start is that nothing but another restore brings the service back.      *)
(***************************************************************************)
NeverUpOnHalf == up /\ half => \E s \in Restores : restore[s].met
=============================================================================
