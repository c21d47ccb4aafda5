------------------------ MODULE CertAuthority_proofs ------------------------
(***************************************************************************)
(* Theorems about CertAuthority, for any number of platforms, processes,   *)
(* calls and failures.                                                     *)
(***************************************************************************)
EXTENDS CertAuthority, TLAPS

File == [key : Keys \cup {None}, pub : Keys \cup {None},
         cert : [key : Keys \cup {None}, serial : Nat], bare : Keys \cup {None},
         signed : [key : Keys \cup {None}, serial : Nat]]
Places == {"idle", "keygen", "renameCA", "list", "counter", "key", "bare", "serial", "count", "sign",
           "signed", "append", "drop", "renameKey", "renamePub", "renameCert"}
Ops == {"none", "init", "sign", "remove", "rotate"}
Call == [at : Places, op : Ops, platform : Platforms \cup {NoPlatform},
         key : Keys \cup {None}, old : Keys \cup {None}, serial : Nat]

\* What a call has in hand at each place of its way.
OnItsWay(call, fs) ==
  \/ call.at = "idle" /\ call.platform = NoPlatform /\ call.op = "none"
  \/ call.op = "init" /\ call.at \in {"keygen", "renameCA", "list", "counter"}
  \/ call.op = "sign" /\ call.at = "key" /\ call.platform \in Platforms /\ call.key \in Keys
  \/ /\ call.op = "sign" /\ call.at \in {"bare", "serial", "count", "sign", "signed"}
     /\ call.platform \in Platforms /\ fs[call.platform].pub \in Keys
  \/ /\ call.op = "remove" /\ call.platform \in Platforms
     /\ \/ call.at = "drop"
        \/ call.at = "append" /\ call.old \in Keys
  \/ /\ call.op = "rotate"
     /\ call.at \in {"serial", "count", "sign", "renameKey", "renamePub", "renameCert", "append"}
     /\ call.platform \in Platforms /\ call.key \in Keys /\ call.old \in Keys
     /\ fs[call.platform].pub \in Keys /\ fs[call.platform].cert.key \in Keys

\* A call as it begins, and a call that moves on.
NewCall(op, where, p, key, old) ==
  [Idle EXCEPT !.at = where, !.op = op, !.platform = p, !.key = key, !.old = old]
Placed(call, where) == [call EXCEPT !.at = where]

\* A key or a certificate is never without its public key.
Paired(file) ==
  /\ \/ file.key # None \/ file.bare # None
     \/ file.cert # NoCert \/ file.signed # NoCert
     => file.pub \in Keys
  /\ file.cert # NoCert => file.cert.key \in Keys
  /\ file.signed # NoCert => file.signed.key \in Keys

FilesInv ==
  /\ files \in [Platforms -> File] /\ calls \in [Callers -> Call]
  /\ \A p \in Platforms : Paired(files[p])
  /\ \A c \in Callers : OnItsWay(calls[c], files)

\* What is not in `files` or `calls`.
RestTyped ==
  /\ ca \in BOOLEAN /\ caBare \in BOOLEAN /\ counter \in Nat /\ begun \in 0 .. MaxCalls /\ faults \in 0 .. MaxFaults
  /\ revocations \subseteq Keys /\ retired \subseteq Keys
  /\ inventory \subseteq Platforms /\ dirty \subseteq Platforms /\ crossed \subseteq dirty
  /\ superseded \in [Platforms -> SUBSET Keys]
  /\ issued \in [Serials -> Nat] /\ raced \in BOOLEAN

\* No serial from the counter on is in a certificate; those about to be are
\* behind the counter, in no certificate yet and each held by one call.
SerialsInv ==
  ~raced =>
    /\ \A s \in Serials : issued[s] <= 1 /\ (s >= Stored => issued[s] = 0)
    /\ \A c \in Callers : At(c, "sign") =>
         /\ calls[c].serial < Stored
         /\ calls[c].serial \in Serials => issued[calls[c].serial] = 0
    /\ \A c, d \in Callers : At(c, "sign") /\ At(d, "sign") /\ c # d => calls[c].serial # calls[d].serial

IInv == FilesInv /\ RestTyped /\ SerialsInv

-----------------------------------------------------------------------------
LEMMA IdleFine == Idle \in Call /\ \A fs : OnItsWay(Idle, fs)
<1>1. Idle \in Call
  BY DEF Idle, Call, Places, Ops
<1>2. Idle.at = "idle" /\ Idle.platform = NoPlatform /\ Idle.op = "none"
  BY DEF Idle
<1> QED
  BY <1>1, <1>2 DEF OnItsWay

\* A step that changes one call and no file.
LEMMA OneCall ==
  ASSUME FilesInv, files' = files, NEW c \in Callers, NEW new \in Call,
         calls' = [calls EXCEPT ![c] = new], OnItsWay(new, files)
  PROVE  FilesInv'
BY DEF FilesInv

\* A step that changes the place of one call and no file.
LEMMA OnePlace ==
  ASSUME FilesInv, files' = files, NEW c \in Callers, NEW where \in Places, Go(c, where),
         OnItsWay(Placed(calls[c], where), files)
  PROVE  FilesInv'
<1>1. Placed(calls[c], where) \in Call
  BY DEF FilesInv, Call, Placed
<1>2. calls' = [calls EXCEPT ![c] = Placed(calls[c], where)]
  BY DEF Go, Placed
<1> QED
  BY <1>1, <1>2, OneCall

LEMMA OneReturns ==
  ASSUME FilesInv, files' = files, NEW c \in Callers, Return(c)
  PROVE  FilesInv'
BY OneCall, IdleFine DEF Return

\* A file that gets another pair or certificate keeps what calls rely on.
LEMMA OneFile ==
  ASSUME FilesInv, NEW p \in Platforms, NEW file \in File, Paired(file),
         files' = [files EXCEPT ![p] = file],
         files[p].pub \in Keys => file.pub \in Keys,
         files[p].cert.key \in Keys => file.cert.key \in Keys,
         NEW call \in Call, OnItsWay(call, files)
  PROVE  OnItsWay(call, files')
<1>1. \A q \in Platforms : /\ files[q].pub \in Keys => files'[q].pub \in Keys
                           /\ files[q].cert.key \in Keys => files'[q].cert.key \in Keys
  BY DEF FilesInv
<1> QED
  BY <1>1 DEF OnItsWay

LEMMA FileStep ==
  ASSUME FilesInv, NEW p \in Platforms, NEW file \in File, Paired(file),
         files' = [files EXCEPT ![p] = file],
         files[p].pub \in Keys => file.pub \in Keys,
         files[p].cert.key \in Keys => file.cert.key \in Keys,
         NEW c \in Callers, NEW new \in Call, OnItsWay(new, files'),
         calls' = [calls EXCEPT ![c] = new]
  PROVE  FilesInv'
<1>0. \A q \in Platforms : files'[q] = IF q = p THEN file ELSE files[q]
  BY DEF FilesInv
<1>1. files' \in [Platforms -> File] /\ calls' \in [Callers -> Call]
  <2>1. DOMAIN files' = Platforms /\ files' = [q \in Platforms |-> files'[q]]
    BY DEF FilesInv
  <2>2. \A q \in Platforms : files'[q] \in File
    BY <1>0 DEF FilesInv
  <2> HIDE DEF File
  <2> QED
    BY <2>1, <2>2 DEF FilesInv
<1>2. \A q \in Platforms : Paired(files'[q])
  BY <1>0 DEF FilesInv
<1>3. ASSUME NEW d \in Callers PROVE OnItsWay(calls'[d], files')
  <2>1. CASE d = c
    BY <2>1 DEF FilesInv
  <2>2. CASE d # c
    <3>1. calls'[d] = calls[d] /\ calls[d] \in Call /\ OnItsWay(calls[d], files)
      BY <2>2 DEF FilesInv
    <3> QED
      BY <3>1, OneFile
  <2> QED
    BY <2>1, <2>2
<1> QED
  BY <1>1, <1>2, <1>3 DEF FilesInv

\* A call that begins on a platform.
LEMMA BeginFine ==
  ASSUME FilesInv, RestTyped, files' = files, NEW c \in Callers, NEW p \in Platforms,
         NEW op \in Ops, NEW where \in Places, NEW old \in Keys \cup {None},
         Begin(c, p, op, where, old),
         \A key \in Keys : OnItsWay(NewCall(op, where, p, key, old), files)
  PROVE  FilesInv'
<1>1. begun + 1 \in Keys
  BY CertAuthorityAssumption DEF RestTyped, Begin, Keys
<1>2. NewCall(op, where, p, begun + 1, old) \in Call
  BY <1>1 DEF NewCall, Call, Idle
<1>3. NewCall(op, where, p, begun + 1, old)
      = [Idle EXCEPT !.at = where, !.op = op, !.platform = p, !.key = begun + 1, !.old = old]
  BY DEF NewCall
<1>4. calls' = [calls EXCEPT ![c] = NewCall(op, where, p, begun + 1, old)]
  BY <1>3 DEF Begin
<1> QED
  BY <1>1, <1>2, <1>4, OneCall

-----------------------------------------------------------------------------
LEMMA StepFiles == FilesInv /\ RestTyped /\ [Next]_vars => FilesInv'
<1> SUFFICES ASSUME FilesInv, RestTyped, [Next]_vars PROVE FilesInv'
  OBVIOUS
<1>1. CASE UNCHANGED <<files, calls>>
  BY <1>1 DEF FilesInv
<1>2. ASSUME NEW c \in Callers, NEW p \in Platforms, SignCall(c, p) PROVE FilesInv'
  <2>1. files[p].key # None => files[p].pub \in Keys
    BY DEF FilesInv, Paired
  <2>2. \A key \in Keys : OnItsWay(NewCall("sign", IF files[p].key = None THEN "key" ELSE "serial", p, key, None), files)
    BY <2>1 DEF OnItsWay, NewCall, Idle
  <2> QED
    BY <1>2, <2>2, BeginFine DEF Places, Ops, SignCall
<1>3. ASSUME NEW c \in Callers, NEW p \in Platforms, RemoveCall(c, p) PROVE FilesInv'
  <2>1. /\ files[p].cert.key \in Keys \cup {None}
        /\ files[p].cert # NoCert => files[p].cert.key \in Keys
    BY DEF FilesInv, File, Paired
  <2>2. \A key \in Keys : 
           OnItsWay(NewCall("remove", IF files[p].cert = NoCert THEN "drop" ELSE "append", p, key,
                            files[p].cert.key), files)
    BY <2>1 DEF OnItsWay, NewCall, Idle
  <2> QED
    BY <1>3, <2>1, <2>2, BeginFine DEF Places, Ops, RemoveCall
<1>4. ASSUME NEW c \in Callers, NEW p \in Platforms, RotateCall(c, p) PROVE FilesInv'
  <2>1. files[p].cert.key \in Keys /\ files[p].pub \in Keys
    BY <1>4 DEF FilesInv, Paired, RotateCall
  <2>2. \A key \in Keys : OnItsWay(NewCall("rotate", "serial", p, key, files[p].cert.key), files)
    BY <2>1 DEF OnItsWay, NewCall, Idle
  <2> QED
    BY <1>4, <2>1, <2>2, BeginFine DEF Places, Ops, RotateCall
<1>5. ASSUME NEW c \in Callers, InitCall(c) PROVE FilesInv'
  <2> DEFINE new == [Idle EXCEPT !.at = "keygen", !.op = "init"]
  <2>1. new \in Call /\ OnItsWay(new, files)
    BY DEF Idle, Call, OnItsWay, Places, Ops
  <2> QED
    BY <1>5, <2>1, OneCall DEF InitCall
<1>6. ASSUME NEW c \in Callers, InitKeygen(c) \/ RenameCA(c) \/ InitList(c) PROVE FilesInv'
  <2>1. calls[c] \in Call /\ calls[c].op = "init"
    BY <1>6 DEF FilesInv, OnItsWay, InitKeygen, RenameCA, InitList, At
  <2>2. \A where \in {"renameCA", "list", "counter"} : OnItsWay(Placed(calls[c], where), files)
    BY <2>1 DEF OnItsWay, Call, Placed
  <2> QED
    BY <1>6, <2>2, OnePlace DEF Places, InitKeygen, RenameCA, InitList
<1>7. ASSUME NEW c \in Callers, ReadSerial(c) PROVE FilesInv'
  <2> DEFINE new == [calls[c] EXCEPT !.at = "count", !.serial = Stored]
  <2>1. calls[c] \in Call /\ calls[c].at = "serial" /\ OnItsWay(calls[c], files) /\ Stored \in Nat
    BY <1>7 DEF FilesInv, ReadSerial, At, RestTyped, Stored
  <2>2. new \in Call /\ OnItsWay(new, files)
    BY <2>1 DEF OnItsWay, Call, Places
  <2>3. calls' = [calls EXCEPT ![c] = new]
    BY <1>7 DEF ReadSerial, FilesInv, Call
  <2> QED
    BY <1>7, <2>2, <2>3, OneCall DEF ReadSerial
<1>8. ASSUME NEW c \in Callers, WriteSerial(c) PROVE FilesInv'
  <2>1. calls[c] \in Call /\ calls[c].at = "count" /\ OnItsWay(calls[c], files)
    BY <1>8 DEF FilesInv, WriteSerial, At
  <2>2. OnItsWay(Placed(calls[c], "sign"), files)
    BY <2>1 DEF OnItsWay, Call, Placed
  <2> QED
    BY <1>8, <2>2, OnePlace DEF Places, WriteSerial
<1>9. ASSUME NEW c \in Callers, SignKeygen(c) PROVE FilesInv'
  <2> DEFINE p == calls[c].platform
             file == [files[p] EXCEPT !.bare = calls[c].key, !.pub = calls[c].key]
             new == [calls[c] EXCEPT !.at = "bare"]
  <2>1. calls[c] \in Call /\ calls[c].op = "sign" /\ p \in Platforms /\ calls[c].key \in Keys
    BY <1>9 DEF FilesInv, SignKeygen, At, OnItsWay
  <2>2. files[p] \in File /\ Paired(files[p])
    BY <2>1 DEF FilesInv
  <2>3. file \in File /\ Paired(file) /\ file.pub \in Keys /\ file.cert = files[p].cert
    BY <2>1, <2>2 DEF File, Paired
  <2>4. files' = [files EXCEPT ![p] = file]
    BY <1>9, <2>1, <2>2 DEF SignKeygen, File, FilesInv
  <2>5. files'[p].pub \in Keys
    BY <2>1, <2>3, <2>4 DEF FilesInv
  <2>6. new \in Call /\ OnItsWay(new, files')
    BY <2>1, <2>5 DEF Call, OnItsWay, Places
  <2>7. calls' = [calls EXCEPT ![c] = new]
    BY <1>9 DEF SignKeygen, Go
  <2> QED
    BY <2>1, <2>3, <2>4, <2>6, <2>7, FileStep
<1>20. ASSUME NEW c \in Callers, RenameBare(c) PROVE FilesInv'
  <2> DEFINE p == calls[c].platform
             file == IF files[p].bare = None THEN files[p]
                     ELSE [files[p] EXCEPT !.key = files[p].bare, !.bare = None]
             new == [calls[c] EXCEPT !.at = "serial"]
  <2>1. calls[c] \in Call /\ calls[c].op = "sign" /\ p \in Platforms /\ files[p].pub \in Keys
    BY <1>20 DEF FilesInv, RenameBare, At, OnItsWay
  <2>2. files[p] \in File /\ Paired(files[p])
    BY <2>1 DEF FilesInv
  <2>3. file \in File /\ file.pub = files[p].pub /\ file.cert = files[p].cert /\ file.signed = files[p].signed
    BY <2>2 DEF File
  <2>4. Paired(file)
    BY <2>1, <2>2, <2>3 DEF Paired
  <2>5. files' = [files EXCEPT ![p] = file]
    BY <1>20, <2>1, <2>2 DEF RenameBare, File, FilesInv
  <2>6. files'[p].pub \in Keys
    BY <2>1, <2>3, <2>5 DEF FilesInv
  <2>7. new \in Call /\ OnItsWay(new, files')
    BY <2>1, <2>6 DEF Call, OnItsWay, Places
  <2>8. calls' = [calls EXCEPT ![c] = new]
    BY <1>20 DEF RenameBare, Go
  <2> HIDE DEF file, new
  <2> QED
    BY <2>1, <2>3, <2>4, <2>5, <2>7, <2>8, FileStep
<1>10. ASSUME NEW c \in Callers, SignCert(c) PROVE FilesInv'
  <2> DEFINE p == calls[c].platform
             file == [files[p] EXCEPT !.signed = [key |-> files[p].pub, serial |-> calls[c].serial]]
             new == [calls[c] EXCEPT !.at = "signed"]
  <2>1. calls[c] \in Call /\ calls[c].op = "sign" /\ p \in Platforms /\ files[p].pub \in Keys
    BY <1>10 DEF FilesInv, SignCert, At, OnItsWay
  <2>2. files[p] \in File /\ Paired(files[p])
    BY <2>1 DEF FilesInv
  <2>3. /\ file \in File /\ Paired(file) /\ file.pub = files[p].pub
        /\ file.cert = files[p].cert /\ file.signed.key \in Keys
    BY <2>1, <2>2 DEF File, Paired, Call
  <2>4. files' = [files EXCEPT ![p] = file]
    BY <1>10, <2>1, <2>2 DEF SignCert, File, FilesInv
  <2>5. files'[p].pub \in Keys
    BY <2>1, <2>3, <2>4 DEF FilesInv
  <2>6. new \in Call /\ OnItsWay(new, files')
    BY <2>1, <2>5 DEF Call, OnItsWay, Places
  <2>7. calls' = [calls EXCEPT ![c] = new]
    BY <1>10 DEF SignCert, Go
  <2> HIDE DEF file, new
  <2> QED
    BY <2>1, <2>3, <2>4, <2>6, <2>7, FileStep
<1>21. ASSUME NEW c \in Callers, RenameSigned(c) PROVE FilesInv'
  <2> DEFINE p == calls[c].platform
             file == IF files[p].signed = NoCert THEN files[p]
                     ELSE [files[p] EXCEPT !.cert = files[p].signed, !.signed = NoCert]
  <2>1. calls[c] \in Call /\ p \in Platforms /\ files[p].pub \in Keys
    BY <1>21 DEF FilesInv, RenameSigned, At, OnItsWay
  <2>2. files[p] \in File /\ Paired(files[p])
    BY <2>1 DEF FilesInv
  <2>3. /\ file \in File /\ file.pub = files[p].pub
        /\ file.cert = files[p].cert \/ (file.cert = files[p].signed /\ files[p].signed # NoCert)
        /\ file.signed \in {NoCert, files[p].signed}
    BY <2>2 DEF File, NoCert
  <2>4. Paired(file) /\ (files[p].cert.key \in Keys => file.cert.key \in Keys)
    BY <2>1, <2>2, <2>3 DEF Paired
  <2>5. files' = [files EXCEPT ![p] = file]
    BY <1>21, <2>1, <2>2 DEF RenameSigned, File, FilesInv
  <2>6. calls' = [calls EXCEPT ![c] = Idle]
    BY <1>21 DEF RenameSigned, Return
  <2> HIDE DEF file
  <2> QED
    BY <2>1, <2>3, <2>4, <2>5, <2>6, FileStep, IdleFine
<1>11. ASSUME NEW c \in Callers, RemoveAppend(c) PROVE FilesInv'
  <2>1. calls[c] \in Call /\ calls[c].at = "append" /\ calls[c].op = "remove" /\ OnItsWay(calls[c], files)
    BY <1>11 DEF FilesInv, RemoveAppend, At
  <2>2. OnItsWay(Placed(calls[c], "drop"), files)
    BY <2>1 DEF OnItsWay, Call, Placed
  <2> QED
    BY <1>11, <2>2, OnePlace DEF Places, RemoveAppend
<1>12. ASSUME NEW c \in Callers, TempCert(c) PROVE FilesInv'
  <2>1. calls[c] \in Call /\ calls[c].at = "sign" /\ calls[c].op = "rotate" /\ OnItsWay(calls[c], files)
    BY <1>12 DEF FilesInv, TempCert, At
  <2>2. OnItsWay(Placed(calls[c], "renameKey"), files)
    BY <2>1 DEF OnItsWay, Call, Placed
  <2> QED
    BY <1>12, <2>2, OnePlace DEF Places, TempCert
<1>13. ASSUME NEW c \in Callers, NEW file, NEW where \in {"renamePub", "renameCert", "append"},
              calls[c].at \in {"renameKey", "renamePub", "renameCert"},
              file \in {[files[calls[c].platform] EXCEPT !.key = calls[c].key],
                        [files[calls[c].platform] EXCEPT !.pub = calls[c].key],
                        [files[calls[c].platform] EXCEPT
                           !.cert = [key |-> calls[c].key, serial |-> calls[c].serial]]},
              files' = [files EXCEPT ![calls[c].platform] = file], Go(c, where)
       PROVE  FilesInv'
  <2> DEFINE p == calls[c].platform
             new == [calls[c] EXCEPT !.at = where]
  <2>1. /\ calls[c] \in Call /\ calls[c].op = "rotate" /\ OnItsWay(calls[c], files)
        /\ p \in Platforms /\ calls[c].key \in Keys /\ calls[c].old \in Keys
        /\ files[p].pub \in Keys /\ files[p].cert.key \in Keys
    BY <1>13 DEF FilesInv, OnItsWay
  <2>2. files[p] \in File /\ Paired(files[p])
    BY <2>1 DEF FilesInv
  <2>3. file \in File /\ file.pub \in Keys /\ file.cert.key \in Keys /\ file.signed = files[p].signed
    BY <1>13, <2>1, <2>2 DEF File, Call
  <2>4. Paired(file)
    BY <2>2, <2>3 DEF Paired
  <2>5. files'[p].pub \in Keys /\ files'[p].cert.key \in Keys
    BY <1>13, <2>1, <2>3 DEF FilesInv
  <2>6. new \in Call /\ OnItsWay(new, files')
    BY <1>13, <2>1, <2>5 DEF Call, OnItsWay, Places
  <2>7. calls' = [calls EXCEPT ![c] = new]
    BY <1>13 DEF Go
  <2> QED
    BY <1>13, <2>1, <2>3, <2>4, <2>6, <2>7, FileStep
<1>14. ASSUME NEW c \in Callers, RenameKey(c) \/ RenamePub(c) \/ RenameCert(c) PROVE FilesInv'
  <2>1. calls[c].platform \in Platforms
    BY <1>14 DEF FilesInv, OnItsWay, RenameKey, RenamePub, RenameCert, At
  <2>2. files[calls[c].platform] \in File
    BY <2>1 DEF FilesInv
  <2>3. CASE RenameKey(c)
    <3>1. files' = [files EXCEPT ![calls[c].platform] = [files[calls[c].platform] EXCEPT !.key = calls[c].key]]
      BY <2>3 DEF RenameKey
    <3> QED
      BY <2>3, <3>1, <1>13 DEF RenameKey, At
  <2>4. CASE RenamePub(c)
    <3>1. files' = [files EXCEPT ![calls[c].platform] = [files[calls[c].platform] EXCEPT !.pub = calls[c].key]]
      BY <2>4 DEF RenamePub
    <3> QED
      BY <2>4, <3>1, <1>13 DEF RenamePub, At
  <2>5. CASE RenameCert(c)
    <3>1. files' = [files EXCEPT ![calls[c].platform] = [files[calls[c].platform] EXCEPT
                      !.cert = [key |-> calls[c].key, serial |-> calls[c].serial]]]
      BY <2>5 DEF RenameCert
    <3> QED
      BY <2>5, <3>1, <1>13 DEF RenameCert, At
  <2> QED
    BY <1>14, <2>3, <2>4, <2>5
<1>15. ASSUME NEW c \in Callers, InitCounter(c) \/ Drop(c) \/ RotateAppend(c) \/ StepFails(c)
                                 \/ RenameFails(c) \/ DropFails(c) \/ Crash(c)
       PROVE  FilesInv'
  BY <1>15, OneReturns DEF InitCounter, Drop, RotateAppend, StepFails, RenameFails, DropFails, Crash
<1>16. ASSUME NEW p \in Platforms, Rediscover(p) PROVE FilesInv'
  BY <1>1, <1>16 DEF Rediscover
<1>17. CASE UNCHANGED vars
  BY <1>1, <1>17 DEF vars
<1> QED
  BY <1>2, <1>3, <1>4, <1>5, <1>6, <1>7, <1>8, <1>9, <1>10, <1>11, <1>12, <1>14, <1>15, <1>16, <1>17,
     <1>20, <1>21
  DEF Next

-----------------------------------------------------------------------------
\* Platforms, keys and bounds of the remaining variables.
LEMMA BeginRest ==
  ASSUME RestTyped, NEW c \in Callers, NEW p \in Platforms, NEW op, NEW where, NEW old,
         Begin(c, p, op, where, old)
  PROVE  begun' \in 0 .. MaxCalls /\ dirty' \subseteq Platforms /\ crossed' \subseteq dirty'
<1>1. begun' \in 0 .. MaxCalls
  BY CertAuthorityAssumption DEF Begin, RestTyped
<1>2. /\ dirty' = IF Busy(p) THEN dirty \cup {p} ELSE dirty
      /\ crossed' = crossed \/ (crossed' = crossed \cup {p} /\ Busy(p))
  BY DEF Begin, Busy
<1> QED
  BY <1>1, <1>2 DEF RestTyped

LEMMA StepRest == FilesInv /\ RestTyped /\ [Next]_vars => RestTyped'
<1> SUFFICES ASSUME FilesInv, RestTyped, [Next]_vars PROVE RestTyped'
  OBVIOUS
<1>1. ASSUME NEW c \in Callers, NEW p \in Platforms, SignCall(c, p) \/ RemoveCall(c, p) \/ RotateCall(c, p)
      PROVE  RestTyped'
  <2>1. begun' \in 0 .. MaxCalls /\ dirty' \subseteq Platforms /\ crossed' \subseteq dirty'
    <3>1. CASE SignCall(c, p)
      BY <3>1, BeginRest DEF SignCall
    <3>2. CASE RemoveCall(c, p)
      BY <3>2, BeginRest DEF RemoveCall
    <3>3. CASE RotateCall(c, p)
      BY <3>3, BeginRest DEF RotateCall
    <3> QED
      BY <1>1, <3>1, <3>2, <3>3
  <2>2. UNCHANGED <<ca, caBare, counter, revocations, inventory, faults, issued, raced, superseded, retired>>
    BY <1>1 DEF SignCall, RemoveCall, RotateCall, authority
  <2> QED
    BY <2>1, <2>2 DEF RestTyped
<1>2. ASSUME NEW c \in Callers, InitCall(c) \/ InitKeygen(c) \/ RenameCA(c) PROVE RestTyped'
  <2>1. begun' \in 0 .. MaxCalls
    BY <1>2, CertAuthorityAssumption DEF InitCall, InitKeygen, RenameCA, RestTyped
  <2>2. ca' \in BOOLEAN /\ caBare' \in BOOLEAN
    <3>1. CASE InitCall(c)
      BY <3>1, Zenon DEF InitCall, authority, RestTyped
    <3>2. CASE InitKeygen(c)
      BY <3>2, Zenon DEF InitKeygen, RestTyped
    <3>3. CASE RenameCA(c)
      BY <3>3, Zenon DEF RenameCA, RestTyped
    <3> QED
      BY <1>2, <3>1, <3>2, <3>3
  <2>3. UNCHANGED <<counter, revocations, inventory, faults, issued, raced, dirty, crossed, superseded, retired>>
    BY <1>2 DEF InitCall, InitKeygen, RenameCA, history
  <2> QED
    BY <2>1, <2>2, <2>3 DEF RestTyped
<1>3. ASSUME NEW c \in Callers, InitList(c) PROVE RestTyped'
  BY <1>3 DEF InitList, RestTyped, authority
<1>4. ASSUME NEW c \in Callers, InitCounter(c) PROVE RestTyped'
  BY <1>4 DEF InitCounter, RestTyped, authority
<1>5. ASSUME NEW c \in Callers, WriteSerial(c) PROVE RestTyped'
  <2>1. calls[c].serial \in Nat
    BY DEF FilesInv, Call
  <2> QED
    BY <1>5, <2>1 DEF WriteSerial, RestTyped, authority
<1>6. ASSUME NEW c \in Callers, SignCert(c) \/ TempCert(c) PROVE RestTyped'
  <2>1. issued' \in [Serials -> Nat]
    BY <1>6 DEF SignCert, TempCert, Signs, RestTyped
  <2> QED
    BY <1>6, <2>1 DEF SignCert, TempCert, RestTyped, authority
<1>7. ASSUME NEW c \in Callers, RemoveAppend(c) \/ RotateAppend(c) PROVE RestTyped'
  <2>1. calls[c].old \in Keys
    BY <1>7 DEF FilesInv, OnItsWay, RemoveAppend, RotateAppend, At
  <2> QED
    BY <1>7, <2>1 DEF RemoveAppend, RotateAppend, RestTyped, history, authority
<1>8. ASSUME NEW c \in Callers, RenameCert(c) PROVE RestTyped'
  <2>1. calls[c].platform \in Platforms /\ files[calls[c].platform].cert.key \in Keys
    BY <1>8 DEF FilesInv, OnItsWay, RenameCert, At
  <2>2. superseded' \in [Platforms -> SUBSET Keys]
    BY <1>8, <2>1 DEF RenameCert, RestTyped
  <2> QED
    BY <1>8, <2>2 DEF RenameCert, RestTyped, authority
<1>9. ASSUME NEW c \in Callers, RenameFails(c) \/ Crash(c) PROVE RestTyped'
  <2>1. faults' \in 0 .. MaxFaults
    BY <1>9, CertAuthorityAssumption DEF RenameFails, Crash, Spend, RestTyped
  <2>2. calls[c].at \in {"renameKey", "renamePub", "renameCert"} \/ calls[c].op = "rotate"
        => calls[c].platform \in Platforms
    BY DEF FilesInv, OnItsWay
  <2>3. dirty' \subseteq Platforms /\ dirty \subseteq dirty'
    BY <1>9, <2>2 DEF RenameFails, Crash, RestTyped
  <2> QED
    BY <1>9, <2>1, <2>3 DEF RenameFails, Crash, RestTyped, authority
<1>10. ASSUME NEW c \in Callers, StepFails(c) \/ DropFails(c) PROVE RestTyped'
  <2>1. faults' \in 0 .. MaxFaults
    BY <1>10, CertAuthorityAssumption DEF StepFails, DropFails, Spend, RestTyped
  <2> QED
    BY <1>10, <2>1 DEF StepFails, DropFails, RestTyped, history, authority
<1>11. ASSUME NEW c \in Callers, \/ ReadSerial(c) \/ SignKeygen(c) \/ RenameBare(c) \/ RenameSigned(c)
                                 \/ Drop(c) \/ RenameKey(c) \/ RenamePub(c)
       PROVE  RestTyped'
  BY <1>11 DEF ReadSerial, SignKeygen, RenameBare, RenameSigned, Drop, RenameKey, RenamePub, RestTyped,
               history, authority
<1>12. ASSUME NEW p \in Platforms, Rediscover(p) PROVE RestTyped'
  BY <1>12 DEF Rediscover, RestTyped, history, authority
<1>13. CASE UNCHANGED vars
  BY <1>13 DEF vars, RestTyped, authority
<1> QED
  BY <1>1, <1>2, <1>3, <1>4, <1>5, <1>6, <1>7, <1>8, <1>9, <1>10, <1>11, <1>12, <1>13 DEF Next

-----------------------------------------------------------------------------
\* A step after which nobody else is about to sign.
LEMMA NoNewSigner ==
  ASSUME FilesInv, SerialsInv, counter' = counter, issued' = issued, raced' = raced,
         NEW c \in Callers, calls'[c].at # "sign", \A d \in Callers : d # c => calls'[d] = calls[d]
  PROVE  SerialsInv'
<1>1. \A d \in Callers : At(d, "sign")' => At(d, "sign") /\ calls'[d] = calls[d]
  BY DEF At
<1> QED
  BY <1>1 DEF SerialsInv, Stored

LEMMA Others ==
  ASSUME FilesInv, NEW c \in Callers, NEW new, calls' = [calls EXCEPT ![c] = new]
  PROVE  calls'[c] = new /\ \A d \in Callers : d # c => calls'[d] = calls[d]
BY DEF FilesInv

LEMMA OthersGo ==
  ASSUME FilesInv, NEW c \in Callers, NEW where, Go(c, where)
  PROVE  /\ calls'[c].at = where /\ calls'[c].serial = calls[c].serial
         /\ \A d \in Callers : d # c => calls'[d] = calls[d]
BY DEF FilesInv, Go, Call

LEMMA OthersBegin ==
  ASSUME FilesInv, NEW c \in Callers, NEW p, NEW op, NEW where, NEW old, Begin(c, p, op, where, old)
  PROVE  calls'[c].at = where /\ \A d \in Callers : d # c => calls'[d] = calls[d]
<1>1. calls' = [calls EXCEPT ![c] = NewCall(op, where, p, begun + 1, old)]
  BY DEF Begin, NewCall
<1>2. NewCall(op, where, p, begun + 1, old).at = where
  BY DEF NewCall, Idle
<1> QED
  BY <1>1, <1>2 DEF FilesInv

LEMMA OthersReturn ==
  ASSUME FilesInv, NEW c \in Callers, Return(c)
  PROVE  calls'[c].at = "idle" /\ \A d \in Callers : d # c => calls'[d] = calls[d]
BY DEF FilesInv, Return, Idle

\* The serial that is written is the counter's, and the counter moves on.
LEMMA CountSerials ==
  ASSUME FilesInv, RestTyped, SerialsInv, NEW c \in Callers, WriteSerial(c)
  PROVE  SerialsInv'
<1> SUFFICES ASSUME ~raced' PROVE SerialsInv'
  BY DEF SerialsInv
<1>1. ~raced /\ calls[c].serial = Stored /\ counter' = Stored + 1 /\ issued' = issued
  BY DEF WriteSerial
<1>2. Stored \in Nat /\ Stored' = Stored + 1
  BY <1>1 DEF RestTyped, Stored
<1>3. /\ calls'[c].serial = Stored
      /\ \A d \in Callers : d # c => calls'[d] = calls[d]
  BY <1>1, OthersGo DEF WriteSerial
<1>4. \A d \in Callers : calls[d].serial \in Nat
  BY DEF FilesInv, Call
<1>5. \A s \in Serials : issued[s] <= 1 /\ (s >= Stored => issued[s] = 0)
  BY <1>1 DEF SerialsInv
<1>6. \A d \in Callers : d # c /\ At(d, "sign")' => At(d, "sign") /\ calls'[d].serial = calls[d].serial
  BY <1>3 DEF At
<1>7. \A s \in Serials : issued'[s] <= 1 /\ (s >= Stored' => issued'[s] = 0)
  BY <1>1, <1>2, <1>5 DEF Serials
<1>8. ASSUME NEW d \in Callers, At(d, "sign")'
      PROVE  calls'[d].serial < Stored' /\ (calls'[d].serial \in Serials => issued'[calls'[d].serial] = 0)
  <2>1. CASE d = c
    BY <1>1, <1>2, <1>3, <1>5, <2>1
  <2>2. CASE d # c
    BY <1>1, <1>2, <1>4, <1>6, <1>8, <2>2 DEF SerialsInv
  <2> QED
    BY <2>1, <2>2
<1>9. ASSUME NEW d \in Callers, NEW e \in Callers, At(d, "sign")', At(e, "sign")', d # e
      PROVE  calls'[d].serial # calls'[e].serial
  <2>1. \A f \in Callers : f # c /\ At(f, "sign")' => calls'[f].serial < Stored
    BY <1>1, <1>6 DEF SerialsInv
  <2>2. CASE d # c /\ e # c
    BY <1>1, <1>6, <1>9, <2>2 DEF SerialsInv
  <2>3. CASE d = c
    BY <1>2, <1>3, <1>9, <2>1, <2>3
  <2>4. CASE e = c
    BY <1>2, <1>3, <1>9, <2>1, <2>4
  <2> QED
    BY <2>2, <2>3, <2>4
<1> QED
  BY <1>7, <1>8, <1>9 DEF SerialsInv

\* A certificate takes the serial its call holds.
LEMMA SignSerials ==
  ASSUME FilesInv, RestTyped, SerialsInv, NEW c \in Callers, At(c, "sign"), Signs(c),
         counter' = counter, raced' = raced, calls'[c].at # "sign",
         \A d \in Callers : d # c => calls'[d] = calls[d]
  PROVE  SerialsInv'
<1> SUFFICES ASSUME ~raced PROVE SerialsInv'
  BY DEF SerialsInv
<1> DEFINE n == calls[c].serial
<1>1. /\ n < Stored /\ (n \in Serials => issued[n] = 0) /\ n \in Nat
      /\ \A s \in Serials : issued[s] <= 1 /\ (s >= Stored => issued[s] = 0)
  BY DEF SerialsInv, FilesInv, Call
<1>2. \A s \in Serials : issued'[s] = IF s = n THEN issued[s] + 1 ELSE issued[s]
  BY DEF Signs, RestTyped
<1>3. Stored' = Stored /\ Stored \in Nat
  BY DEF Stored, RestTyped
<1>4. \A s \in Serials : issued'[s] <= 1 /\ (s >= Stored' => issued'[s] = 0)
  BY <1>1, <1>2, <1>3 DEF Serials, RestTyped
<1>5. \A d \in Callers : At(d, "sign")' => d # c /\ At(d, "sign") /\ calls'[d].serial = calls[d].serial /\ calls[d].serial # n
  BY DEF At, SerialsInv
<1>6. ASSUME NEW d \in Callers, At(d, "sign")'
      PROVE  calls'[d].serial < Stored' /\ (calls'[d].serial \in Serials => issued'[calls'[d].serial] = 0)
  BY <1>2, <1>3, <1>5, <1>6 DEF SerialsInv
<1>7. ASSUME NEW d \in Callers, NEW e \in Callers, At(d, "sign")', At(e, "sign")', d # e
      PROVE  calls'[d].serial # calls'[e].serial
  BY <1>5, <1>7 DEF SerialsInv
<1> QED
  BY <1>4, <1>6, <1>7 DEF SerialsInv

LEMMA StepSerials == FilesInv /\ RestTyped /\ SerialsInv /\ [Next]_vars => SerialsInv'
<1> SUFFICES ASSUME FilesInv, RestTyped, SerialsInv, [Next]_vars PROVE SerialsInv'
  OBVIOUS
<1>1. CASE UNCHANGED <<calls, counter, issued, raced>>
  BY <1>1 DEF SerialsInv, Stored, At
<1>2. ASSUME NEW c \in Callers, NEW p \in Platforms, SignCall(c, p) \/ RemoveCall(c, p) \/ RotateCall(c, p)
      PROVE  SerialsInv'
  <2>1. \E where \in {"key", "serial", "drop", "append"}, op \in Ops, old \in Keys \cup {None} :
           Begin(c, p, op, where, old)
    <3>1. files[p].cert.key \in Keys \cup {None}
      BY DEF FilesInv, File
    <3> QED
      BY <1>2, <3>1 DEF SignCall, RemoveCall, RotateCall, Ops
  <2>3. calls'[c].at # "sign" /\ \A d \in Callers : d # c => calls'[d] = calls[d]
    BY <2>1, OthersBegin
  <2>2. counter' = counter /\ issued' = issued /\ raced' = raced
    BY <1>2 DEF SignCall, RemoveCall, RotateCall
  <2> QED
    BY <2>2, <2>3, NoNewSigner
<1>3. ASSUME NEW c \in Callers, InitCall(c) \/ ReadSerial(c) PROVE SerialsInv'
  <2>1. calls'[c].at # "sign" /\ \A d \in Callers : d # c => calls'[d] = calls[d]
    BY <1>3 DEF InitCall, ReadSerial, FilesInv, Idle, Call
  <2>2. counter' = counter /\ issued' = issued /\ raced' = raced
    BY <1>3 DEF InitCall, ReadSerial, history
  <2> QED
    BY <2>1, <2>2, NoNewSigner
<1>4. ASSUME NEW c \in Callers, InitKeygen(c) \/ RenameCA(c) \/ InitList(c) \/ SignKeygen(c)
                                \/ RenameBare(c) \/ RemoveAppend(c) \/ RenameKey(c) \/ RenamePub(c) \/ RenameCert(c)
      PROVE  SerialsInv'
  <2>1. PICK where \in {"renameCA", "list", "counter", "bare", "serial", "drop",
                        "renamePub", "renameCert", "append"} : Go(c, where)
    BY <1>4 DEF InitKeygen, RenameCA, InitList, SignKeygen, RenameBare, RemoveAppend, RenameKey, RenamePub, RenameCert
  <2>2. calls'[c].at # "sign" /\ \A d \in Callers : d # c => calls'[d] = calls[d]
    BY <2>1, OthersGo
  <2>3. counter' = counter /\ issued' = issued /\ raced' = raced
    BY <1>4 DEF InitKeygen, RenameCA, InitList, SignKeygen, RenameBare, RemoveAppend, RenameKey, RenamePub,
                RenameCert, history
  <2> QED
    BY <2>2, <2>3, NoNewSigner
<1>5. ASSUME NEW c \in Callers, RenameSigned(c) \/ Drop(c) \/ RotateAppend(c) \/ StepFails(c) \/ RenameFails(c) \/ DropFails(c) \/ Crash(c)
      PROVE  SerialsInv'
  <2>1. Return(c)
    BY <1>5 DEF RenameSigned, Drop, RotateAppend, StepFails, RenameFails, DropFails, Crash
  <2>2. calls'[c].at # "sign" /\ \A d \in Callers : d # c => calls'[d] = calls[d]
    BY <2>1, OthersReturn
  <2>3. counter' = counter /\ issued' = issued /\ raced' = raced
    BY <1>5 DEF RenameSigned, Drop, RotateAppend, StepFails, RenameFails, DropFails, Crash, history
  <2> QED
    BY <2>2, <2>3, NoNewSigner
<1>6. ASSUME NEW c \in Callers, InitCounter(c) PROVE SerialsInv'
  <2>1. \A d \in Callers : At(d, "sign")' => At(d, "sign") /\ calls'[d] = calls[d]
    BY <1>6, OthersReturn DEF InitCounter, At
  <2>2. ~raced' => ~raced /\ Stored = 1 /\ Stored' = 1
    BY <1>6 DEF InitCounter, Stored
  <2> QED
    BY <1>6, <2>1, <2>2 DEF SerialsInv, InitCounter
<1>7. ASSUME NEW c \in Callers, SignCert(c) \/ TempCert(c) PROVE SerialsInv'
  <2>1. calls'[c].at # "sign" /\ \A d \in Callers : d # c => calls'[d] = calls[d]
    BY <1>7, OthersReturn, OthersGo DEF SignCert, TempCert
  <2>2. At(c, "sign") /\ Signs(c) /\ counter' = counter /\ raced' = raced
    BY <1>7 DEF SignCert, TempCert
  <2> QED
    BY <2>1, <2>2, SignSerials
<1>8. ASSUME NEW p \in Platforms, Rediscover(p) PROVE SerialsInv'
  BY <1>1, <1>8 DEF Rediscover, history
<1>9. CASE UNCHANGED vars
  BY <1>1, <1>9 DEF vars
<1> QED
  BY <1>2, <1>3, <1>4, <1>5, <1>6, <1>7, <1>8, <1>9, CountSerials DEF Next

-----------------------------------------------------------------------------
LEMMA Begins == Init => IInv
<1> SUFFICES ASSUME Init PROVE IInv
  OBVIOUS
<1>1. FilesInv
  <2>1. NoFiles \in File /\ Paired(NoFiles)
    BY DEF NoFiles, NoCert, None, File, Paired
  <2>2. files \in [Platforms -> File] /\ \A p \in Platforms : Paired(files[p])
    BY <2>1 DEF Init
  <2>3. calls \in [Callers -> Call] /\ \A c \in Callers : calls[c] = Idle
    BY IdleFine DEF Init
  <2> QED
    BY <2>2, <2>3, IdleFine DEF FilesInv
<1>2. RestTyped
  <2>1. counter \in Nat /\ begun \in 0 .. MaxCalls /\ faults \in 0 .. MaxFaults /\ issued \in [Serials -> Nat]
    BY CertAuthorityAssumption DEF Init
  <2>2. ca \in BOOLEAN /\ caBare \in BOOLEAN /\ raced \in BOOLEAN
    BY Zenon DEF Init
  <2>3. superseded \in [Platforms -> SUBSET Keys]
    BY DEF Init
  <2> QED
    BY <2>1, <2>2, <2>3 DEF Init, RestTyped
<1>3. SerialsInv
  BY DEF Init, SerialsInv, At, Idle
<1> QED
  BY <1>1, <1>2, <1>3 DEF IInv

LEMMA Implied == IInv => SerialsOnce
<1> SUFFICES ASSUME IInv PROVE SerialsOnce
  OBVIOUS
<1>1. \A c \in Callers : calls[c].platform \in Platforms \cup {NoPlatform}
  BY DEF IInv, FilesInv, Call
<1>2. TypeOK
  BY <1>1 DEF IInv, FilesInv, RestTyped, TypeOK, File
<1>3. ~raced => \A s \in Serials : issued[s] <= 1
  BY DEF IInv, SerialsInv
<1> QED
  BY <1>2, <1>3 DEF SerialsOnce

LEMMA Inductive == Spec => []IInv
<1>1. IInv /\ [Next]_vars => IInv'
  BY StepFiles, StepRest, StepSerials DEF IInv
<1> QED
  BY <1>1, Begins, PTL DEF Spec

(***************************************************************************)
(* nextSerial (ca/manager.ts 492-510): through failures, restarts and an   *)
(* initialisation cut short, each serial is put in one certificate, unless *)
(* two calls counted at once.                                              *)
(***************************************************************************)
THEOREM SerialsAreUnique == Spec => []SerialsOnce
BY Implied, Inductive, PTL

(***************************************************************************)
(* revokeKeys, rotateKey (ca/manager.ts 239-270, 322-447): a fingerprint   *)
(* leaves the revocation list only when the authority is set up.           *)
(***************************************************************************)
THEOREM RevocationsStay == Spec => RevokedForGood
<1>1. ASSUME [Next]_vars
      PROVE  revocations \subseteq revocations' \/ \E c \in Callers : InitList(c)
  <2>1. CASE UNCHANGED vars
    BY <2>1 DEF vars
  <2>2. ASSUME NEW p \in Platforms, Rediscover(p) PROVE revocations \subseteq revocations'
    BY <2>2 DEF Rediscover
  <2>3. ASSUME NEW c \in Callers, NEW p \in Platforms, SignCall(c, p) \/ RemoveCall(c, p) \/ RotateCall(c, p)
        PROVE  revocations \subseteq revocations'
    BY <2>3 DEF SignCall, RemoveCall, RotateCall
  <2>4. ASSUME NEW c \in Callers, \/ InitCall(c) \/ InitKeygen(c) \/ RenameCA(c) \/ InitCounter(c)
                                  \/ ReadSerial(c) \/ WriteSerial(c) \/ SignKeygen(c) \/ RenameBare(c)
                                  \/ SignCert(c) \/ RenameSigned(c)
        PROVE  revocations \subseteq revocations'
    BY <2>4 DEF InitCall, InitKeygen, RenameCA, InitCounter, ReadSerial, WriteSerial, SignKeygen, RenameBare,
                SignCert, RenameSigned
  <2>5. ASSUME NEW c \in Callers, \/ RemoveAppend(c) \/ Drop(c) \/ TempCert(c) \/ RenameKey(c) \/ RenamePub(c)
                                  \/ RenameCert(c) \/ RotateAppend(c) \/ StepFails(c) \/ RenameFails(c)
                                  \/ DropFails(c) \/ Crash(c)
        PROVE  revocations \subseteq revocations'
    BY <2>5 DEF RemoveAppend, Drop, TempCert, RenameKey, RenamePub, RenameCert, RotateAppend, StepFails,
                RenameFails, DropFails, Crash
  <2> QED
    BY <1>1, <2>1, <2>2, <2>3, <2>4, <2>5 DEF Next
<1>2. [Next]_vars => [revocations \subseteq revocations' \/ \E c \in Callers : InitList(c)]_vars
  BY <1>1
<1> QED
  BY <1>2, PTL DEF Spec, RevokedForGood

-----------------------------------------------------------------------------
(***************************************************************************)
(* Where nothing overlapped.  On a platform that is not dirty at most one  *)
(* call is under way, and what the files hold is told by how far it is.    *)
(***************************************************************************)
Matches(file) == file.bare = None /\ file.pub = file.key /\ file.cert.key \in {None, file.key}
Unnamed(file) ==
  file.key = None /\ file.pub = file.bare /\ file.cert = NoCert /\ file.signed = NoCert
Rests(file) == Matches(file) \/ Unnamed(file)
Withdrawn(file, revoked) == file.cert = NoCert \/ file.cert.key \in revoked

InStep(call, file, gone, revoked) ==
  \/ /\ call.op = "sign" /\ call.at \in {"key", "bare"}
     /\ Unnamed(file) /\ gone \subseteq revoked
  \/ /\ call.op \in {"sign", "rotate"} /\ call.at \in {"serial", "count", "sign", "renameKey"}
     /\ Matches(file) /\ gone \subseteq revoked
     /\ call.op = "rotate" => call.old = file.cert.key
  \/ /\ call.op = "sign" /\ call.at = "signed" /\ file.signed.key = file.key
     /\ Matches(file) /\ gone \subseteq revoked
  \/ /\ call.at = "renamePub" /\ call.old = file.cert.key /\ gone \subseteq revoked
     /\ file.key = call.key /\ file.bare = None
  \/ /\ call.at = "renameCert" /\ call.old = file.cert.key /\ gone \subseteq revoked
     /\ file.key = call.key /\ file.pub = call.key /\ file.bare = None
  \/ /\ call.op = "rotate" /\ call.at = "append" /\ Matches(file)
     /\ gone \subseteq revoked \cup {call.old}
  \/ /\ call.op = "remove" /\ call.at = "append" /\ Matches(file)
     /\ call.old = file.cert.key /\ gone \subseteq revoked
  \/ /\ call.op = "remove" /\ call.at = "drop" /\ Rests(file)
     /\ gone \subseteq revoked /\ Withdrawn(file, revoked)

On(c, p) == calls[c].platform = p
Sole(c, p) == On(c, p) /\ \A d \in Callers : On(d, p) => d = c

WholeAt(p) ==
  p \notin dirty =>
    \/ /\ ~Busy(p) /\ Rests(files[p]) /\ superseded[p] \subseteq revocations
       /\ p \notin inventory => Withdrawn(files[p], revocations)
    \/ /\ p \in inventory
       /\ \E c \in Callers : Sole(c, p) /\ InStep(calls[c], files[p], superseded[p], revocations)

WholeInv == \A p \in Platforms : WholeAt(p)

-----------------------------------------------------------------------------
\* A call that moves on keeps what it has in hand.
LEMMA Moved ==
  ASSUME FilesInv, NEW c \in Callers, NEW where, Go(c, where)
  PROVE  /\ calls'[c].at = where /\ calls'[c].op = calls[c].op
         /\ calls'[c].platform = calls[c].platform
         /\ calls'[c].key = calls[c].key /\ calls'[c].old = calls[c].old
         /\ \A d \in Callers : d # c => calls'[d] = calls[d]
BY DEF FilesInv, Go, Call

LEMMA Returned ==
  ASSUME FilesInv, NEW c \in Callers, Return(c)
  PROVE  /\ calls'[c].platform = NoPlatform /\ calls'[c].key = None /\ calls'[c].old = None
         /\ calls'[c].op = "none" /\ calls'[c].at = "idle"
         /\ \A d \in Callers : d # c => calls'[d] = calls[d]
BY DEF FilesInv, Return, Idle

LEMMA Begun ==
  ASSUME FilesInv, NEW c \in Callers, NEW p, NEW op, NEW where, NEW old, Begin(c, p, op, where, old)
  PROVE  /\ calls'[c].platform = p /\ calls'[c].key = begun + 1 /\ calls'[c].old = old
         /\ calls'[c].op = op /\ calls'[c].at = where
         /\ \A d \in Callers : d # c => calls'[d] = calls[d]
         /\ calls[c].platform = NoPlatform
<1>1. calls' = [calls EXCEPT ![c] = NewCall(op, where, p, begun + 1, old)]
  BY DEF Begin, NewCall
<1>2. /\ NewCall(op, where, p, begun + 1, old).platform = p
      /\ NewCall(op, where, p, begun + 1, old).key = begun + 1
      /\ NewCall(op, where, p, begun + 1, old).old = old
      /\ NewCall(op, where, p, begun + 1, old).op = op
      /\ NewCall(op, where, p, begun + 1, old).at = where
  BY DEF NewCall, Idle
<1>3. calls[c].platform = NoPlatform
  BY DEF FilesInv, OnItsWay, Begin, At
<1> QED
  BY <1>1, <1>2, <1>3 DEF FilesInv

\* More revocations spoil nothing.
LEMMA InStepGrows ==
  ASSUME NEW call, NEW file, NEW gone, NEW R, NEW S, R \subseteq S, InStep(call, file, gone, R)
  PROVE  InStep(call, file, gone, S)
BY DEF InStep, Withdrawn

\* The platforms a step is not about.
LEMMA WholeElsewhere ==
  ASSUME WholeInv, NEW q \in Platforms, NEW c \in Callers,
         calls[c].platform # q, calls'[c].platform # q,
         \A d \in Callers : d # c => calls'[d] = calls[d],
         files'[q] = files[q], superseded'[q] = superseded[q],
         q \in inventory' <=> q \in inventory,
         dirty \subseteq dirty', revocations \subseteq revocations'
  PROVE  WholeAt(q)'
<1> SUFFICES ASSUME q \notin dirty' PROVE WholeAt(q)'
  BY DEF WholeAt
<1>1. WholeAt(q) /\ q \notin dirty
  BY DEF WholeInv
<1>2. CASE /\ ~Busy(q) /\ Rests(files[q]) /\ superseded[q] \subseteq revocations
           /\ q \notin inventory => Withdrawn(files[q], revocations)
  <2>1. ~Busy(q)'
    BY <1>2 DEF Busy
  <2>2. Withdrawn(files[q], revocations) => Withdrawn(files[q], revocations')
    BY DEF Withdrawn
  <2> QED
    BY <1>2, <2>1, <2>2 DEF WholeAt
<1>3. CASE /\ q \in inventory
           /\ \E d \in Callers : Sole(d, q) /\ InStep(calls[d], files[q], superseded[q], revocations)
  <2>1. PICK d \in Callers : Sole(d, q) /\ InStep(calls[d], files[q], superseded[q], revocations)
    BY <1>3
  <2>2. d # c /\ calls'[d] = calls[d] /\ Sole(d, q)'
    BY <2>1 DEF Sole, On
  <2>3. InStep(calls'[d], files'[q], superseded'[q], revocations')
    BY <2>1, <2>2, InStepGrows
  <2> QED
    BY <1>3, <2>2, <2>3 DEF WholeAt
<1> QED
  BY <1>1, <1>2, <1>3 DEF WholeAt

\* A call moves on, or ends and leaves its platform at rest.
LEMMA WholeStep ==
  ASSUME FilesInv, WholeInv, NEW c \in Callers,
         calls'[c].platform \in {calls[c].platform, NoPlatform},
         \A d \in Callers : d # c => calls'[d] = calls[d],
         \A q \in Platforms : ~On(c, q) => /\ files'[q] = files[q] /\ superseded'[q] = superseded[q]
                                           /\ q \in inventory' <=> q \in inventory,
         dirty \subseteq dirty', revocations \subseteq revocations',
         \A p \in Platforms :
           /\ On(c, p) /\ p \in inventory /\ p \notin dirty'
           /\ InStep(calls[c], files[p], superseded[p], revocations)
           => \/ /\ calls'[c].platform = p /\ p \in inventory'
                 /\ InStep(calls'[c], files'[p], superseded'[p], revocations')
              \/ /\ calls'[c].platform = NoPlatform /\ Rests(files'[p])
                 /\ superseded'[p] \subseteq revocations'
                 /\ p \notin inventory' => Withdrawn(files'[p], revocations')
  PROVE  WholeInv'
<1> SUFFICES ASSUME NEW p \in Platforms, p \notin dirty' PROVE WholeAt(p)'
  BY DEF WholeInv, WholeAt
<1>1. p # NoPlatform
  BY CertAuthorityAssumption
<1>2. CASE ~On(c, p)
  BY <1>1, <1>2, WholeElsewhere DEF On
<1>3. CASE On(c, p)
  <2>1. WholeAt(p) /\ p \notin dirty /\ Busy(p)
    BY <1>3 DEF WholeInv, Busy, On
  <2>2. Sole(c, p) /\ p \in inventory /\ InStep(calls[c], files[p], superseded[p], revocations)
    BY <1>3, <2>1 DEF WholeAt, Sole
  <2>3. \A d \in Callers : d # c => ~On(d, p)'
    BY <2>2 DEF Sole, On
  <2>4. CASE /\ calls'[c].platform = p /\ p \in inventory'
             /\ InStep(calls'[c], files'[p], superseded'[p], revocations')
    <3>1. Sole(c, p)'
      BY <2>3, <2>4 DEF Sole, On
    <3> QED
      BY <2>4, <3>1 DEF WholeAt
  <2>5. CASE /\ calls'[c].platform = NoPlatform /\ Rests(files'[p])
             /\ superseded'[p] \subseteq revocations'
             /\ p \notin inventory' => Withdrawn(files'[p], revocations')
    <3>1. ~Busy(p)'
      BY <1>1, <2>3, <2>5 DEF Busy, On
    <3> QED
      BY <2>5, <3>1 DEF WholeAt
  <2> QED
    BY <1>3, <2>2, <2>4, <2>5
<1> QED
  BY <1>2, <1>3

\* A call begins on a platform at rest, or makes it dirty.
LEMMA WholeBegin ==
  ASSUME FilesInv, WholeInv, NEW c \in Callers, NEW p \in Platforms,
         SignCall(c, p) \/ RemoveCall(c, p) \/ RotateCall(c, p)
  PROVE  WholeInv'
<1>1. /\ files' = files /\ superseded' = superseded /\ inventory' = inventory
      /\ revocations' = revocations /\ p \in inventory
  BY DEF SignCall, RemoveCall, RotateCall
<1>2. PICK op, where, old :
        /\ Begin(c, p, op, where, old)
        /\ \/ op = "sign" /\ where = (IF files[p].key = None THEN "key" ELSE "serial")
           \/ /\ op = "remove" /\ old = files[p].cert.key
              /\ where = (IF files[p].cert = NoCert THEN "drop" ELSE "append")
           \/ op = "rotate" /\ where = "serial" /\ old = files[p].cert.key /\ files[p].cert # NoCert
  BY DEF SignCall, RemoveCall, RotateCall
<1>3. /\ calls'[c].platform = p /\ calls'[c].old = old
      /\ calls'[c].op = op /\ calls'[c].at = where
      /\ \A d \in Callers : d # c => calls'[d] = calls[d]
      /\ calls[c].platform = NoPlatform
  BY <1>2, Begun
<1>4. dirty' = IF Busy(p) THEN dirty \cup {p} ELSE dirty
  BY <1>2 DEF Begin
<1> SUFFICES ASSUME NEW q \in Platforms, q \notin dirty' PROVE WholeAt(q)'
  BY DEF WholeInv, WholeAt
<1>5. CASE q # p
  <2>1. calls[c].platform # q /\ dirty \subseteq dirty'
    BY <1>3, <1>4, CertAuthorityAssumption
  <2> QED
    BY <1>1, <1>3, <1>5, <2>1, WholeElsewhere
<1>6. CASE q = p
  <2>1. ~Busy(p) /\ p \notin dirty /\ WholeAt(p)
    BY <1>4, <1>6 DEF WholeInv
  <2>2. Rests(files[p]) /\ superseded[p] \subseteq revocations
    BY <2>1 DEF WholeAt, Busy, Sole, On
  <2>3. /\ files[p].key = None => Unnamed(files[p])
        /\ files[p].key # None \/ files[p].cert # NoCert => Matches(files[p])
    BY <2>2 DEF Rests, Matches, Unnamed, FilesInv, Paired, Keys, None
  <2>4. InStep(calls'[c], files[p], superseded[p], revocations)
    BY <1>2, <1>3, <2>2, <2>3 DEF InStep, Withdrawn
  <2>5. Sole(c, p)'
    BY <1>3, <2>1 DEF Sole, On, Busy
  <2> QED
    BY <1>1, <1>6, <2>4, <2>5 DEF WholeAt
<1> QED
  BY <1>5, <1>6

LEMMA WholeNext == FilesInv /\ RestTyped /\ WholeInv /\ [Next]_vars => WholeInv'
<1> SUFFICES ASSUME FilesInv, RestTyped, WholeInv, [Next]_vars PROVE WholeInv'
  OBVIOUS
<1>a. \A c \in Callers : calls[c] \in Call /\ OnItsWay(calls[c], files)
  BY DEF FilesInv
<1>1. CASE UNCHANGED vars
  BY <1>1 DEF vars, authority, WholeInv, WholeAt, Busy, Sole, On
<1>2. ASSUME NEW p \in Platforms, Rediscover(p) PROVE WholeInv'
  BY <1>2 DEF Rediscover, history, WholeInv, WholeAt, Busy, Sole, On
<1>3. ASSUME NEW c \in Callers, InitCall(c) PROVE WholeInv'
  <2>1. /\ calls[c].platform = NoPlatform /\ calls'[c].platform = NoPlatform
        /\ \A d \in Callers : d # c => calls'[d] = calls[d]
    BY <1>3, <1>a DEF InitCall, At, OnItsWay, Idle, FilesInv
  <2>2. \A q \in Platforms : q # NoPlatform
    BY CertAuthorityAssumption
  <2> QED
    BY <1>3, <2>1, <2>2, WholeElsewhere DEF InitCall, history, WholeInv
<1>4. ASSUME NEW c \in Callers, InitList(c), revocations # {} PROVE WholeInv'
  BY <1>4 DEF InitList, WholeInv, WholeAt
<1>5. ASSUME NEW c \in Callers, NEW where,
             \/ InitKeygen(c) /\ where = "renameCA"
             \/ RenameCA(c) /\ where = "list"
             \/ InitList(c) /\ revocations = {} /\ where = "counter"
             \/ WriteSerial(c) /\ where = "sign"
             \/ TempCert(c) /\ where = "renameKey"
      PROVE  WholeInv'
  <2>1. /\ files' = files /\ superseded' = superseded /\ inventory' = inventory
        /\ dirty' = dirty /\ revocations' = revocations /\ Go(c, where)
    BY <1>5 DEF InitKeygen, RenameCA, InitList, WriteSerial, TempCert, history
  <2>2. /\ calls'[c].at = where /\ calls'[c].op = calls[c].op
        /\ calls'[c].platform = calls[c].platform
        /\ calls'[c].key = calls[c].key /\ calls'[c].old = calls[c].old
        /\ \A d \in Callers : d # c => calls'[d] = calls[d]
    BY <2>1, Moved
  <2>3. \/ calls[c].op = "init" /\ calls[c].at \in {"keygen", "renameCA", "list"}
        \/ calls[c].at \in {"count", "sign"} /\ calls[c].op \in {"sign", "rotate"} /\ where \in {"sign", "renameKey"}
    BY <1>5, <1>a DEF InitKeygen, RenameCA, InitList, WriteSerial, TempCert, At, OnItsWay
  <2>4. \A p \in Platforms :
          InStep(calls[c], files[p], superseded[p], revocations)
            => InStep(calls'[c], files[p], superseded[p], revocations)
    BY <2>2, <2>3 DEF InStep
  <2> QED
    BY <2>1, <2>2, <2>4, WholeStep DEF On
<1>6. ASSUME NEW c \in Callers, ReadSerial(c) PROVE WholeInv'
  <2>1. /\ calls'[c].at = "count" /\ calls'[c].op = calls[c].op /\ calls[c].at = "serial"
        /\ calls'[c].platform = calls[c].platform
        /\ calls'[c].key = calls[c].key /\ calls'[c].old = calls[c].old
        /\ \A d \in Callers : d # c => calls'[d] = calls[d]
    BY <1>6 DEF ReadSerial, FilesInv, Call, At
  <2>2. /\ files' = files /\ superseded' = superseded /\ inventory' = inventory
        /\ dirty' = dirty /\ revocations' = revocations
    BY <1>6 DEF ReadSerial, history
  <2>3. \A p \in Platforms :
          InStep(calls[c], files[p], superseded[p], revocations)
            => InStep(calls'[c], files[p], superseded[p], revocations)
    BY <2>1 DEF InStep
  <2> QED
    BY <2>1, <2>2, <2>3, WholeStep DEF On
<1>7. ASSUME NEW c \in Callers, SignKeygen(c) PROVE WholeInv'
  <2> DEFINE p == calls[c].platform
  <2>1. p \in Platforms /\ files[p] \in File /\ calls[c].op = "sign" /\ calls[c].at = "key"
    BY <1>7, <1>a DEF SignKeygen, At, OnItsWay, FilesInv
  <2>2. /\ files'[p].bare = calls[c].key /\ files'[p].pub = calls[c].key
        /\ files'[p].key = files[p].key /\ files'[p].cert = files[p].cert
        /\ files'[p].signed = files[p].signed
        /\ \A q \in Platforms : ~On(c, q) => files'[q] = files[q]
    BY <1>7, <2>1 DEF SignKeygen, FilesInv, File, On
  <2>3. /\ superseded' = superseded /\ inventory' = inventory
        /\ dirty' = dirty /\ revocations' = revocations /\ Go(c, "bare")
    BY <1>7 DEF SignKeygen, history
  <2>4. /\ calls'[c].at = "bare" /\ calls'[c].op = "sign" /\ calls'[c].platform = p
        /\ \A d \in Callers : d # c => calls'[d] = calls[d]
    BY <2>1, <2>3, Moved
  <2>5. InStep(calls[c], files[p], superseded[p], revocations)
          => InStep(calls'[c], files'[p], superseded[p], revocations)
    BY <2>1, <2>2, <2>4 DEF InStep, Unnamed
  <2> QED
    BY <2>2, <2>3, <2>4, <2>5, WholeStep DEF On
<1>15. ASSUME NEW c \in Callers, RenameBare(c) PROVE WholeInv'
  <2> DEFINE p == calls[c].platform
  <2>1. /\ p \in Platforms /\ files[p] \in File /\ calls[c].op = "sign" /\ calls[c].at = "bare"
        /\ files[p].pub \in Keys
    BY <1>15, <1>a DEF RenameBare, At, OnItsWay, FilesInv
  <2>2. /\ files[p].bare # None => files'[p].key = files[p].bare /\ files'[p].bare = None
        /\ files'[p].pub = files[p].pub /\ files'[p].cert = files[p].cert
        /\ \A q \in Platforms : ~On(c, q) => files'[q] = files[q]
    BY <1>15, <2>1 DEF RenameBare, FilesInv, File, On
  <2>3. /\ superseded' = superseded /\ inventory' = inventory
        /\ dirty' = dirty /\ revocations' = revocations /\ Go(c, "serial")
    BY <1>15 DEF RenameBare, history
  <2>4. /\ calls'[c].at = "serial" /\ calls'[c].op = "sign" /\ calls'[c].platform = p
        /\ \A d \in Callers : d # c => calls'[d] = calls[d]
    BY <2>1, <2>3, Moved
  <2>5. NoCert.key = None /\ None \notin Keys
    BY DEF NoCert, None, Keys
  <2>6. InStep(calls[c], files[p], superseded[p], revocations)
          => InStep(calls'[c], files'[p], superseded[p], revocations)
    BY <2>1, <2>2, <2>4, <2>5 DEF InStep, Unnamed, Matches
  <2> QED
    BY <2>2, <2>3, <2>4, <2>6, WholeStep DEF On
<1>8. ASSUME NEW c \in Callers, SignCert(c) PROVE WholeInv'
  <2> DEFINE p == calls[c].platform
  <2>1. p \in Platforms /\ files[p] \in File /\ calls[c].op = "sign" /\ calls[c].at = "sign"
    BY <1>8, <1>a DEF SignCert, At, OnItsWay, FilesInv
  <2>2. /\ files'[p].key = files[p].key /\ files'[p].pub = files[p].pub
        /\ files'[p].bare = files[p].bare /\ files'[p].cert = files[p].cert
        /\ files'[p].signed.key = files[p].pub
        /\ \A q \in Platforms : ~On(c, q) => files'[q] = files[q]
    BY <1>8, <2>1 DEF SignCert, FilesInv, File, On
  <2>3. /\ superseded' = superseded /\ inventory' = inventory
        /\ dirty' = dirty /\ revocations' = revocations /\ Go(c, "signed")
    BY <1>8 DEF SignCert
  <2>4. /\ calls'[c].at = "signed" /\ calls'[c].op = "sign" /\ calls'[c].platform = p
        /\ \A d \in Callers : d # c => calls'[d] = calls[d]
    BY <2>1, <2>3, Moved
  <2>5. InStep(calls[c], files[p], superseded[p], revocations)
          => InStep(calls'[c], files'[p], superseded[p], revocations)
    BY <2>1, <2>2, <2>4 DEF InStep, Matches
  <2> QED
    BY <2>2, <2>3, <2>4, <2>5, WholeStep DEF On
<1>16. ASSUME NEW c \in Callers, RenameSigned(c) PROVE WholeInv'
  <2> DEFINE p == calls[c].platform
  <2>1. p \in Platforms /\ files[p] \in File /\ calls[c].op = "sign" /\ calls[c].at = "signed"
    BY <1>16, <1>a DEF RenameSigned, At, OnItsWay, FilesInv
  <2>2. /\ files'[p].key = files[p].key /\ files'[p].pub = files[p].pub
        /\ files'[p].bare = files[p].bare
        /\ files'[p].cert.key \in {files[p].cert.key, files[p].signed.key}
        /\ \A q \in Platforms : ~On(c, q) => files'[q] = files[q]
    BY <1>16, <2>1 DEF RenameSigned, FilesInv, File, On
  <2>3. /\ superseded' = superseded /\ inventory' = inventory
        /\ dirty' = dirty /\ revocations' = revocations /\ Return(c)
    BY <1>16 DEF RenameSigned, history
  <2>4. /\ calls'[c].platform = NoPlatform
        /\ \A d \in Callers : d # c => calls'[d] = calls[d]
    BY <2>3, Returned
  <2>5. InStep(calls[c], files[p], superseded[p], revocations)
          => Rests(files'[p]) /\ superseded[p] \subseteq revocations
    BY <2>1, <2>2 DEF InStep, Matches, Rests
  <2> QED
    BY <2>2, <2>3, <2>4, <2>5, WholeStep DEF On
<1>9. ASSUME NEW c \in Callers, RemoveAppend(c) PROVE WholeInv'
  <2>1. /\ calls[c].op = "remove" /\ calls[c].at = "append"
        /\ files' = files /\ superseded' = superseded /\ inventory' = inventory
        /\ dirty' = dirty /\ revocations' = revocations \cup {calls[c].old} /\ Go(c, "drop")
    BY <1>9 DEF RemoveAppend, At
  <2>2. /\ calls'[c].at = "drop" /\ calls'[c].op = "remove"
        /\ calls'[c].platform = calls[c].platform
        /\ \A d \in Callers : d # c => calls'[d] = calls[d]
    BY <2>1, Moved
  <2>3. \A p \in Platforms :
          InStep(calls[c], files[p], superseded[p], revocations)
            => InStep(calls'[c], files[p], superseded[p], revocations')
    BY <2>1, <2>2 DEF InStep, Withdrawn, Rests
  <2> QED
    BY <2>1, <2>2, <2>3, WholeStep DEF On
<1>10. ASSUME NEW c \in Callers, Drop(c) PROVE WholeInv'
  <2>1. /\ calls[c].at = "drop" /\ calls[c].op = "remove"
        /\ files' = files /\ superseded' = superseded /\ inventory' = inventory \ {calls[c].platform}
        /\ dirty' = dirty /\ revocations' = revocations /\ Return(c)
    BY <1>10, <1>a DEF Drop, At, history, OnItsWay
  <2>2. /\ calls'[c].platform = NoPlatform
        /\ \A d \in Callers : d # c => calls'[d] = calls[d]
    BY <2>1, Returned
  <2>3. \A p \in Platforms :
          InStep(calls[c], files[p], superseded[p], revocations)
            => /\ Rests(files[p]) /\ superseded[p] \subseteq revocations
               /\ Withdrawn(files[p], revocations)
    BY <2>1 DEF InStep
  <2> QED
    BY <2>1, <2>2, <2>3, WholeStep DEF On
<1>11. ASSUME NEW c \in Callers, RenameKey(c) \/ RenamePub(c) PROVE WholeInv'
  <2> DEFINE p == calls[c].platform
  <2>1. /\ p \in Platforms /\ files[p] \in File /\ calls[c].op = "rotate"
        /\ superseded' = superseded /\ inventory' = inventory
        /\ dirty' = dirty /\ revocations' = revocations
    BY <1>11, <1>a DEF RenameKey, RenamePub, At, OnItsWay, FilesInv, history
  <2>2. CASE RenameKey(c)
    <3>1. calls[c].at = "renameKey" /\ Go(c, "renamePub")
      BY <2>2 DEF RenameKey, At
    <3>2. /\ files'[p].key = calls[c].key /\ files'[p].cert = files[p].cert
          /\ files'[p].bare = files[p].bare
          /\ \A q \in Platforms : ~On(c, q) => files'[q] = files[q]
      BY <2>1, <2>2 DEF RenameKey, FilesInv, File, On
    <3>3. /\ calls'[c].at = "renamePub" /\ calls'[c].op = "rotate" /\ calls'[c].platform = p
          /\ calls'[c].key = calls[c].key /\ calls'[c].old = calls[c].old
          /\ \A d \in Callers : d # c => calls'[d] = calls[d]
      BY <2>1, <3>1, Moved
    <3>4. InStep(calls[c], files[p], superseded[p], revocations)
            => InStep(calls'[c], files'[p], superseded[p], revocations)
      BY <2>1, <3>1, <3>2, <3>3 DEF InStep, Matches
    <3> QED
      BY <2>1, <3>2, <3>3, <3>4, WholeStep DEF On
  <2>3. CASE RenamePub(c)
    <3>1. calls[c].at = "renamePub" /\ Go(c, "renameCert")
      BY <2>3 DEF RenamePub, At
    <3>2. /\ files'[p].key = files[p].key /\ files'[p].pub = calls[c].key
          /\ files'[p].cert = files[p].cert /\ files'[p].bare = files[p].bare
          /\ \A q \in Platforms : ~On(c, q) => files'[q] = files[q]
      BY <2>1, <2>3 DEF RenamePub, FilesInv, File, On
    <3>3. /\ calls'[c].at = "renameCert" /\ calls'[c].op = "rotate" /\ calls'[c].platform = p
          /\ calls'[c].key = calls[c].key /\ calls'[c].old = calls[c].old
          /\ \A d \in Callers : d # c => calls'[d] = calls[d]
      BY <2>1, <3>1, Moved
    <3>4. InStep(calls[c], files[p], superseded[p], revocations)
            => InStep(calls'[c], files'[p], superseded[p], revocations)
      BY <2>1, <3>1, <3>2, <3>3 DEF InStep, Matches
    <3> QED
      BY <2>1, <3>2, <3>3, <3>4, WholeStep DEF On
  <2> QED
    BY <1>11, <2>2, <2>3
<1>12. ASSUME NEW c \in Callers, RenameCert(c) PROVE WholeInv'
  <2> DEFINE p == calls[c].platform
  <2>1. p \in Platforms /\ files[p] \in File /\ calls[c].op = "rotate" /\ calls[c].at = "renameCert"
    BY <1>12, <1>a DEF RenameCert, At, OnItsWay, FilesInv
  <2>2. /\ files'[p].key = files[p].key /\ files'[p].pub = files[p].pub
        /\ files'[p].cert.key = calls[c].key /\ files'[p].bare = files[p].bare
        /\ \A q \in Platforms : ~On(c, q) => files'[q] = files[q]
    BY <1>12, <2>1 DEF RenameCert, FilesInv, File, On
  <2>3. /\ superseded'[p] = superseded[p] \cup {files[p].cert.key}
        /\ \A q \in Platforms : ~On(c, q) => superseded'[q] = superseded[q]
    BY <1>12, <2>1 DEF RenameCert, RestTyped, On
  <2>4. /\ inventory' = inventory /\ dirty' = dirty /\ revocations' = revocations /\ Go(c, "append")
    BY <1>12 DEF RenameCert
  <2>5. /\ calls'[c].at = "append" /\ calls'[c].op = "rotate" /\ calls'[c].platform = p
        /\ calls'[c].key = calls[c].key /\ calls'[c].old = calls[c].old
        /\ \A d \in Callers : d # c => calls'[d] = calls[d]
    BY <2>1, <2>4, Moved
  <2>6. InStep(calls[c], files[p], superseded[p], revocations)
          => InStep(calls'[c], files'[p], superseded'[p], revocations)
    BY <2>1, <2>2, <2>3, <2>5 DEF InStep, Matches
  <2> QED
    BY <2>2, <2>3, <2>4, <2>5, <2>6, WholeStep DEF On
<1>13. ASSUME NEW c \in Callers, RotateAppend(c) PROVE WholeInv'
  <2>1. /\ calls[c].at = "append" /\ calls[c].op = "rotate"
        /\ files' = files /\ superseded' = superseded /\ inventory' = inventory
        /\ dirty' = dirty /\ revocations' = revocations \cup {calls[c].old} /\ Return(c)
    BY <1>13 DEF RotateAppend, At, history
  <2>2. /\ calls'[c].platform = NoPlatform
        /\ \A d \in Callers : d # c => calls'[d] = calls[d]
    BY <2>1, Returned
  <2>3. \A p \in Platforms :
          InStep(calls[c], files[p], superseded[p], revocations)
            => Rests(files[p]) /\ superseded[p] \subseteq revocations'
    BY <2>1 DEF InStep, Rests
  <2> QED
    BY <2>1, <2>2, <2>3, WholeStep DEF On
<1>14. ASSUME NEW c \in Callers,
              InitCounter(c) \/ StepFails(c) \/ RenameFails(c) \/ DropFails(c) \/ Crash(c)
       PROVE  WholeInv'
  <2>1. /\ files' = files /\ superseded' = superseded /\ inventory' = inventory
        /\ dirty \subseteq dirty' /\ revocations' = revocations /\ Return(c)
    BY <1>14 DEF InitCounter, StepFails, RenameFails, DropFails, Crash, history
  <2>2. /\ calls'[c].platform = NoPlatform
        /\ \A d \in Callers : d # c => calls'[d] = calls[d]
    BY <2>1, Returned
  <2>3. \/ calls[c].platform \in dirty'
        \/ ~(calls[c].at \in {"renamePub", "renameCert"} \/ (calls[c].op = "rotate" /\ calls[c].at = "append"))
    BY <1>14, <1>a DEF InitCounter, StepFails, RenameFails, DropFails, Crash, At, OnItsWay
  <2>4. \A p \in Platforms :
          On(c, p) /\ p \notin dirty' /\ InStep(calls[c], files[p], superseded[p], revocations)
            => Rests(files[p]) /\ superseded[p] \subseteq revocations
    BY <2>3 DEF InStep, On, Rests
  <2> QED
    BY <2>1, <2>2, <2>4, WholeStep
<1> QED
  BY <1>1, <1>2, <1>3, <1>4, <1>5, <1>6, <1>7, <1>8, <1>9, <1>10, <1>11, <1>12, <1>13, <1>14, <1>15, <1>16, WholeBegin
  DEF Next

LEMMA WholeInit == Init => WholeInv
<1> SUFFICES ASSUME Init, NEW p \in Platforms PROVE WholeAt(p)
  BY DEF WholeInv
<1>1. Rests(files[p]) /\ superseded[p] \subseteq revocations /\ p \in inventory
  BY DEF Init, NoFiles, NoCert, Matches, Rests
<1>2. ~Busy(p)
  BY CertAuthorityAssumption DEF Init, Busy, Idle
<1> QED
  BY <1>1, <1>2 DEF WholeAt

(***************************************************************************)
(* rotateKey, revokeKeys and `inventory remove` (ca/manager.ts 239-270,    *)
(* 322-447): between calls that did not overlap, a platform's key, public  *)
(* key and certificate belong together, every key a rotation replaced is   *)
(* revoked and so is the certificate of a removed platform.                *)
(***************************************************************************)
THEOREM QuietPlatformsAreWhole == Spec => []RestIsWhole
<1>1. IInv /\ WholeInv /\ [Next]_vars => WholeInv'
  BY WholeNext DEF IInv
<1>2. WholeInv => RestIsWhole
  <2> SUFFICES ASSUME WholeInv, NEW p \in Platforms \ dirty, ~Busy(p)
               PROVE  /\ \/ files[p].bare = None /\ files[p].pub = files[p].key
                         \/ /\ files[p].key = None /\ files[p].pub = files[p].bare
                            /\ files[p].cert = NoCert /\ files[p].signed = NoCert
                      /\ files[p].cert.key \in {None, files[p].key}
                      /\ superseded[p] \subseteq revocations
                      /\ p \notin inventory => Listed(p) # "active"
    BY DEF RestIsWhole
  <2>1. /\ Rests(files[p]) /\ superseded[p] \subseteq revocations
        /\ p \notin inventory => Withdrawn(files[p], revocations)
    BY DEF WholeInv, WholeAt, Busy, Sole, On
  <2>2. NoCert.key = None
    BY DEF NoCert
  <2> QED
    BY <2>1, <2>2 DEF Rests, Matches, Unnamed, Withdrawn, Listed
<1> QED
  BY <1>1, <1>2, WholeInit, Inductive, PTL DEF Spec

-----------------------------------------------------------------------------
(***************************************************************************)
(* What is in force stays out of the revocation list.  A key is numbered   *)
(* by the call that makes it and stays with that call's platform.          *)
(***************************************************************************)
KeysOf(file) == {file.key, file.pub, file.cert.key, file.bare, file.signed.key}

Belongs(p, k) ==
  \/ k \in KeysOf(files[p])
  \/ \E c \in Callers : On(c, p) /\ k \in {calls[c].key, calls[c].old}

KeysInv ==
  /\ \A p \in Platforms, k \in Keys : Belongs(p, k) => k <= begun
  /\ \A k \in revocations : k <= begun
  /\ \A p, q \in Platforms, k \in Keys : Belongs(p, k) /\ Belongs(q, k) => p = q

\* A call whose new key is not yet in its certificate, or in its public key
\* if it signs.
Unspent(call) ==
  \/ call.op = "rotate" /\ call.at \in {"serial", "count", "sign", "renameKey", "renamePub", "renameCert"}
  \/ call.op = "sign" /\ call.at = "key"

\* A signing is alone on its platform, and no two calls make the same key.
ApartAt(p) ==
  \A c, d \in Callers : On(c, p) /\ On(d, p) /\ c # d =>
    calls[c].op # "sign" /\ calls[c].key # calls[d].key

\* A key still to be put in force is neither revoked nor about to be.
FreshAt(p) ==
  \A d \in Callers : On(d, p) /\ Unspent(calls[d]) =>
    /\ calls[d].key \notin revocations /\ calls[d].key # files[p].cert.key
    /\ \A c \in Callers : On(c, p) => calls[c].old # calls[d].key

\* What a rotation has replaced does not come back before it is revoked.
ReplacedAt(p) ==
  \A c \in Callers : On(c, p) /\ calls[c].op = "rotate" =>
    /\ calls[c].at \in {"renameCert", "append"} => files[p].pub # calls[c].old
    /\ calls[c].at = "append" => files[p].cert.key # calls[c].old

\* What a signing is about to rename is the certificate of the public key.
SignedAt(p) ==
  \A c \in Callers : On(c, p) /\ calls[c].at = "signed" => files[p].signed.key = files[p].pub

InForceAt(p) ==
  \A k \in {files[p].pub, files[p].cert.key} : k \in revocations => k \in retired

UncrossedAt(p) ==
  p \notin crossed => ApartAt(p) /\ FreshAt(p) /\ ReplacedAt(p) /\ SignedAt(p) /\ InForceAt(p)

UncrossedInv == \A p \in Platforms : UncrossedAt(p)

-----------------------------------------------------------------------------
LEMMA KeysInit == Init => KeysInv /\ UncrossedInv
<1> SUFFICES ASSUME Init PROVE KeysInv /\ UncrossedInv
  OBVIOUS
<1>1. /\ revocations = {}
      /\ \A p \in Platforms : /\ files[p].key = None /\ files[p].pub = None /\ files[p].cert.key = None
                                /\ files[p].bare = None /\ files[p].signed.key = None
      /\ \A p \in Platforms, c \in Callers : ~On(c, p)
  BY CertAuthorityAssumption DEF Init, NoFiles, NoCert, Idle, On
<1>2. \A k \in Keys : k # None
  BY DEF Keys, None
<1>3. \A p \in Platforms, k \in Keys : ~Belongs(p, k)
  BY <1>1, <1>2 DEF Belongs, KeysOf
<1>4. KeysInv
  BY <1>1, <1>3 DEF KeysInv
<1>5. UncrossedInv
  BY <1>1 DEF UncrossedInv, UncrossedAt, ApartAt, FreshAt, ReplacedAt, SignedAt, InForceAt
<1> QED
  BY <1>4, <1>5

\* A step that hands no platform a key it did not have, and revokes only keys
\* that a platform has.
LEMMA KeysStep ==
  ASSUME KeysInv, begun' = begun, revocations \subseteq Keys,
         \A p \in Platforms, k \in Keys : Belongs(p, k)' => Belongs(p, k),
         \A k \in revocations' : k \in revocations \/ (k \in Keys /\ \E p \in Platforms : Belongs(p, k))
  PROVE  KeysInv'
BY DEF KeysInv

\* What a step does to the files of one platform and to one call.
LEMMA BelongsStep ==
  ASSUME FilesInv, NEW c \in Callers, NEW p \in Platforms, NEW k \in Keys,
         \A d \in Callers : d # c => calls'[d] = calls[d],
         calls'[c].platform = p => /\ calls[c].platform = p
                                   /\ calls'[c].key \in {calls[c].key, None}
                                   /\ calls'[c].old \in {calls[c].old, None},
         \A x \in KeysOf(files'[p]) :
           \/ x \in KeysOf(files[p]) \cup {None}
           \/ On(c, p) /\ x = calls[c].key
  PROVE  Belongs(p, k)' => Belongs(p, k)
<1>1. k # None
  BY DEF Keys, None
<1>2. ASSUME NEW d \in Callers, On(d, p)', k \in {calls'[d].key, calls'[d].old}
      PROVE  On(d, p) /\ k \in {calls[d].key, calls[d].old}
  BY <1>1, <1>2 DEF On
<1>3. k \in KeysOf(files'[p]) => k \in KeysOf(files[p]) \/ (On(c, p) /\ k = calls[c].key)
  BY <1>1
<1> QED
  BY <1>2, <1>3 DEF Belongs, KeysOf

\* A call that begins makes one key, which no platform has.
LEMMA KeysBegin ==
  ASSUME FilesInv, RestTyped, KeysInv, NEW c \in Callers, NEW p \in Platforms,
         SignCall(c, p) \/ RemoveCall(c, p) \/ RotateCall(c, p)
  PROVE  KeysInv'
<1>1. PICK op, where, old :
        Begin(c, p, op, where, old) /\ old \in {None, files[p].cert.key}
  BY DEF SignCall, RemoveCall, RotateCall
<1>2. /\ calls'[c].platform = p /\ calls'[c].key = begun + 1 /\ calls'[c].old = old
      /\ \A d \in Callers : d # c => calls'[d] = calls[d]
  BY <1>1, Begun
<1>3. /\ files' = files /\ revocations' = revocations /\ begun' = begun + 1 /\ begun \in Nat
  BY <1>1 DEF SignCall, RemoveCall, RotateCall, Begin, RestTyped
<1>4. \A k \in Keys : k # None /\ k \in Nat
  BY CertAuthorityAssumption DEF Keys, None
<1>5. \A q \in Platforms, k \in Keys :
        Belongs(q, k)' => Belongs(q, k) \/ (q = p /\ k = begun + 1)
  BY <1>1, <1>2, <1>3, <1>4 DEF Belongs, On, KeysOf
<1>6. \A q \in Platforms, k \in Keys : Belongs(q, k) => k # begun + 1
  BY <1>3, <1>4 DEF KeysInv
<1>7. \A q \in Platforms, k \in Keys : Belongs(q, k)' => k <= begun'
  BY <1>3, <1>4, <1>5 DEF KeysInv
<1>8. \A k \in revocations' : k <= begun'
  BY <1>3, <1>4 DEF KeysInv, RestTyped
<1>9. \A q, r \in Platforms, k \in Keys : Belongs(q, k)' /\ Belongs(r, k)' => q = r
  BY <1>5, <1>6 DEF KeysInv
<1> QED
  BY <1>7, <1>8, <1>9 DEF KeysInv

\* Every step of a call that is under way, in one view: which places it
\* joins, and what it does to public keys, certificates and revocations.
CallSteps(c) ==
  \/ InitKeygen(c) \/ RenameCA(c) \/ InitList(c) \/ InitCounter(c) \/ ReadSerial(c) \/ WriteSerial(c)
  \/ SignKeygen(c) \/ RenameBare(c) \/ SignCert(c) \/ RenameSigned(c) \/ RemoveAppend(c) \/ Drop(c)
  \/ TempCert(c) \/ RenameKey(c) \/ RenamePub(c) \/ RenameCert(c) \/ RotateAppend(c)
  \/ StepFails(c) \/ RenameFails(c) \/ DropFails(c) \/ Crash(c)

LEMMA CallMoves ==
  ASSUME FilesInv, NEW c \in Callers, CallSteps(c)
  PROVE  /\ \A d \in Callers : d # c => calls'[d] = calls[d]
         /\ \/ /\ calls'[c].platform = NoPlatform
               /\ calls'[c].key = None /\ calls'[c].old = None
            \/ /\ calls'[c].platform = calls[c].platform /\ calls'[c].op = calls[c].op
               /\ calls'[c].key = calls[c].key /\ calls'[c].old = calls[c].old
<1>1. CASE ReadSerial(c)
  BY <1>1 DEF ReadSerial, FilesInv, Call
<1>2. CASE \E where \in Places : Go(c, where)
  BY <1>2, Moved
<1>3. CASE Return(c)
  BY <1>3, Returned
<1>4. ReadSerial(c) \/ (\E where \in Places : Go(c, where)) \/ Return(c)
  BY DEF CallSteps, InitKeygen, RenameCA, InitList, InitCounter, WriteSerial, SignKeygen, RenameBare,
         SignCert, RenameSigned, RemoveAppend, Drop, TempCert, RenameKey, RenamePub, RenameCert, RotateAppend, StepFails,
         RenameFails, DropFails, Crash, Places
<1> QED
  BY <1>1, <1>2, <1>3, <1>4

\* Where the keys of a file come from when a call writes or renames a part.
LEMMA KeysKept ==
  ASSUME NEW f \in File, NEW k, NEW n
  PROVE  /\ KeysOf([f EXCEPT !.bare = k, !.pub = k]) \subseteq KeysOf(f) \cup {k, None}
         /\ KeysOf([f EXCEPT !.key = f.bare, !.bare = None]) \subseteq KeysOf(f) \cup {k, None}
         /\ KeysOf([f EXCEPT !.signed = [key |-> f.pub, serial |-> n]]) \subseteq KeysOf(f) \cup {k, None}
         /\ KeysOf([f EXCEPT !.cert = f.signed, !.signed = NoCert]) \subseteq KeysOf(f) \cup {k, None}
         /\ KeysOf([f EXCEPT !.key = k]) \subseteq KeysOf(f) \cup {k, None}
         /\ KeysOf([f EXCEPT !.pub = k]) \subseteq KeysOf(f) \cup {k, None}
         /\ KeysOf([f EXCEPT !.cert = [key |-> k, serial |-> n]]) \subseteq KeysOf(f) \cup {k, None}
<1>1. KeysOf([f EXCEPT !.bare = k, !.pub = k]) \subseteq KeysOf(f) \cup {k, None}
  BY DEF KeysOf, File
<1>2. KeysOf([f EXCEPT !.key = f.bare, !.bare = None]) \subseteq KeysOf(f) \cup {k, None}
  BY DEF KeysOf, File
<1>3. KeysOf([f EXCEPT !.signed = [key |-> f.pub, serial |-> n]]) \subseteq KeysOf(f) \cup {k, None}
  BY DEF KeysOf, File
<1>4. KeysOf([f EXCEPT !.cert = f.signed, !.signed = NoCert]) \subseteq KeysOf(f) \cup {k, None}
  BY DEF KeysOf, File, NoCert
<1>5. KeysOf([f EXCEPT !.key = k]) \subseteq KeysOf(f) \cup {k, None}
  BY DEF KeysOf, File
<1>6. KeysOf([f EXCEPT !.pub = k]) \subseteq KeysOf(f) \cup {k, None}
  BY DEF KeysOf, File
<1>7. KeysOf([f EXCEPT !.cert = [key |-> k, serial |-> n]]) \subseteq KeysOf(f) \cup {k, None}
  BY DEF KeysOf, File
<1> QED
  BY <1>1, <1>2, <1>3, <1>4, <1>5, <1>6, <1>7

LEMMA FilesMove ==
  ASSUME FilesInv, NEW c \in Callers, CallSteps(c), NEW p \in Platforms
  PROVE  /\ \A x \in KeysOf(files'[p]) :
              \/ x \in KeysOf(files[p]) \cup {None}
              \/ On(c, p) /\ x = calls[c].key
         /\ ~On(c, p) => files'[p] = files[p]
<1>1. calls[c] \in Call /\ OnItsWay(calls[c], files) /\ files[p] \in File
  BY DEF FilesInv
<1>2. CASE \/ SignKeygen(c) \/ RenameBare(c) \/ SignCert(c) \/ RenameSigned(c)
            \/ RenameKey(c) \/ RenamePub(c) \/ RenameCert(c)
  <2> DEFINE r == calls[c].platform
  <2>1. r \in Platforms /\ files[r] \in File /\ (On(c, p) <=> p = r)
    BY <1>1, <1>2 DEF SignKeygen, RenameBare, SignCert, RenameSigned, RenameKey, RenamePub, RenameCert, At, OnItsWay, On, FilesInv
  <2>2. PICK file :
          /\ files' = [files EXCEPT ![r] = file]
          /\ file \in {files[r], [files[r] EXCEPT !.bare = calls[c].key, !.pub = calls[c].key],
                      [files[r] EXCEPT !.key = files[r].bare, !.bare = None],
                      [files[r] EXCEPT !.signed = [key |-> files[r].pub, serial |-> calls[c].serial]],
                      [files[r] EXCEPT !.cert = files[r].signed, !.signed = NoCert],
                      [files[r] EXCEPT !.key = calls[c].key], [files[r] EXCEPT !.pub = calls[c].key],
                      [files[r] EXCEPT !.cert = [key |-> calls[c].key, serial |-> calls[c].serial]]}
    <3>1. CASE SignKeygen(c) \/ SignCert(c)
      BY <2>1, <3>1 DEF SignKeygen, SignCert, FilesInv, File
    <3>2. CASE RenameBare(c)
      BY <2>1, <3>2 DEF RenameBare, FilesInv
    <3>3. CASE RenameSigned(c)
      BY <2>1, <3>3 DEF RenameSigned, FilesInv
    <3>4. CASE RenameKey(c) \/ RenamePub(c) \/ RenameCert(c)
      BY <2>1, <3>4 DEF RenameKey, RenamePub, RenameCert, FilesInv, File
    <3> QED
      BY <1>2, <3>1, <3>2, <3>3, <3>4
  <2>6. files'[r] = file /\ \A q \in Platforms : q # r => files'[q] = files[q]
    BY <2>1, <2>2 DEF FilesInv
  <2>3. KeysOf(file) \subseteq KeysOf(files[r]) \cup {calls[c].key, None}
    BY <2>1, <2>2, KeysKept
  <2>4. CASE p = r
    BY <2>1, <2>3, <2>4, <2>6
  <2>5. CASE p # r
    BY <2>1, <2>5, <2>6
  <2> QED
    BY <2>4, <2>5
<1>3. CASE files' = files
  BY <1>3
<1> QED
  BY <1>2, <1>3 DEF CallSteps, InitKeygen, RenameCA, InitList, InitCounter, ReadSerial, WriteSerial,
     RemoveAppend, Drop, TempCert, RotateAppend, StepFails, RenameFails, DropFails, Crash, history

\* Only the two appends revoke, and they revoke what they have read.
LEMMA RevocationsMove ==
  ASSUME FilesInv, NEW c \in Callers, CallSteps(c)
  PROVE  /\ \A k \in revocations' : \/ k \in revocations
                                    \/ /\ k = calls[c].old /\ k \in Keys /\ calls[c].at = "append"
                                       /\ calls[c].platform \in Platforms
         /\ retired \subseteq retired' /\ crossed' = crossed /\ begun' = begun
<1>1. OnItsWay(calls[c], files)
  BY DEF FilesInv
<1>2. CASE RemoveAppend(c) \/ RotateAppend(c)
  <2>1. calls[c].old \in Keys /\ calls[c].platform \in Platforms /\ calls[c].at = "append"
    BY <1>1, <1>2 DEF RemoveAppend, RotateAppend, At, OnItsWay
  <2> QED
    BY <1>2, <2>1 DEF RemoveAppend, RotateAppend, history
<1>3. CASE ~(RemoveAppend(c) \/ RotateAppend(c))
  BY <1>3 DEF CallSteps, InitKeygen, RenameCA, InitList, InitCounter, ReadSerial, WriteSerial, SignKeygen,
         RenameBare, SignCert, RenameSigned,
         Drop, TempCert, RenameKey, RenamePub, RenameCert, StepFails, RenameFails, DropFails, Crash, history
<1> QED
  BY <1>2, <1>3

LEMMA KeysCall ==
  ASSUME FilesInv, RestTyped, KeysInv, NEW c \in Callers, CallSteps(c)
  PROVE  KeysInv'
<1>1. ASSUME NEW p \in Platforms, NEW k \in Keys PROVE Belongs(p, k)' => Belongs(p, k)
  <2>1. calls'[c].platform = p => /\ calls[c].platform = p
                                  /\ calls'[c].key \in {calls[c].key, None}
                                  /\ calls'[c].old \in {calls[c].old, None}
    BY CallMoves, CertAuthorityAssumption
  <2>2. \A d \in Callers : d # c => calls'[d] = calls[d]
    BY CallMoves
  <2>3. \A x \in KeysOf(files'[p]) :
           \/ x \in KeysOf(files[p]) \cup {None}
           \/ On(c, p) /\ x = calls[c].key
    BY FilesMove
  <2> QED
    BY <2>1, <2>2, <2>3, BelongsStep
<1>2. \A k \in revocations' : k \in revocations \/ (k \in Keys /\ \E p \in Platforms : Belongs(p, k))
  BY RevocationsMove DEF Belongs, On
<1>3. begun' = begun /\ revocations \subseteq Keys
  BY RevocationsMove DEF RestTyped
<1> QED
  BY <1>1, <1>2, <1>3, KeysStep

-----------------------------------------------------------------------------
\* The platforms a call's step is not about.
LEMMA UncrossedElsewhere ==
  ASSUME FilesInv, KeysInv, UncrossedInv, NEW c \in Callers, CallSteps(c),
         NEW q \in Platforms, ~On(c, q)
  PROVE  UncrossedAt(q)'
<1>1. /\ \A d \in Callers : d # c => calls'[d] = calls[d]
      /\ calls'[c].platform # q
      /\ files'[q] = files[q]
      /\ retired \subseteq retired' /\ crossed' = crossed
  BY CallMoves, FilesMove, RevocationsMove, CertAuthorityAssumption DEF On
<1>2. \A d \in Callers : On(d, q)' => On(d, q) /\ calls'[d] = calls[d]
  BY <1>1 DEF On
<1>3. \A k \in Keys : k \in revocations' /\ Belongs(q, k) => k \in revocations
  <2>1. \A k \in Keys : k = calls[c].old /\ calls[c].platform \in Platforms => Belongs(calls[c].platform, k)
    BY DEF Belongs, On
  <2> QED
    BY <2>1, RevocationsMove DEF KeysInv, On
<1> SUFFICES ASSUME q \notin crossed PROVE UncrossedAt(q)'
  BY <1>1 DEF UncrossedAt
<1>4. ApartAt(q) /\ FreshAt(q) /\ ReplacedAt(q) /\ SignedAt(q) /\ InForceAt(q)
  BY DEF UncrossedInv, UncrossedAt
<1>5. ApartAt(q)'
  BY <1>2, <1>4 DEF ApartAt
<1>6. FreshAt(q)'
  <2>1. ASSUME NEW d \in Callers, On(d, q), Unspent(calls[d]) PROVE calls[d].key \in Keys /\ Belongs(q, calls[d].key)
    BY <2>1 DEF FilesInv, OnItsWay, Unspent, Belongs
  <2> QED
    BY <1>1, <1>2, <1>3, <1>4, <2>1 DEF FreshAt
<1>7. ReplacedAt(q)'
  BY <1>1, <1>2, <1>4 DEF ReplacedAt
<1>8. InForceAt(q)'
  <2>1. \A k \in {files[q].pub, files[q].cert.key} : k \in Keys => Belongs(q, k)
    BY DEF Belongs, KeysOf
  <2>2. \A k \in revocations' : k \in revocations \/ k \in Keys
    BY RevocationsMove
  <2> QED
    BY <1>1, <1>3, <1>4, <2>1, <2>2 DEF InForceAt
<1>9. SignedAt(q)'
  BY <1>1, <1>2, <1>4 DEF SignedAt
<1> QED
  BY <1>5, <1>6, <1>7, <1>8, <1>9 DEF UncrossedAt

\* Only a certificate that has just been signed is to be renamed.
LEMMA NotSigned ==
  ASSUME FilesInv, NEW c \in Callers, CallSteps(c), ~SignCert(c)
  PROVE  calls'[c].at # "signed"
<1>1. CASE ReadSerial(c)
  BY <1>1 DEF ReadSerial, FilesInv, Call
<1>2. CASE \E where \in Places \ {"signed"} : Go(c, where)
  BY <1>2, Moved
<1>3. CASE Return(c)
  BY <1>3, Returned
<1>4. ReadSerial(c) \/ (\E where \in Places \ {"signed"} : Go(c, where)) \/ Return(c)
  BY DEF CallSteps, InitKeygen, RenameCA, InitList, InitCounter, WriteSerial, SignKeygen, RenameBare,
         RenameSigned, RemoveAppend, Drop, TempCert, RenameKey, RenamePub, RenameCert, RotateAppend,
         StepFails, RenameFails, DropFails, Crash, Places
<1> QED
  BY <1>1, <1>2, <1>3, <1>4

\* What a call's step has to establish on its own platform.
LEMMA UncrossedOwn ==
  ASSUME FilesInv, KeysInv, UncrossedInv, NEW c \in Callers, CallSteps(c),
         \A p \in Platforms :
           On(c, p) /\ ApartAt(p) /\ FreshAt(p) /\ ReplacedAt(p) /\ SignedAt(p) /\ InForceAt(p)
           => FreshAt(p)' /\ ReplacedAt(p)' /\ InForceAt(p)'
  PROVE  UncrossedInv'
<1> SUFFICES ASSUME NEW p \in Platforms, p \notin crossed', On(c, p) PROVE UncrossedAt(p)'
  BY UncrossedElsewhere DEF UncrossedInv, UncrossedAt
<1>1. ApartAt(p) /\ FreshAt(p) /\ ReplacedAt(p) /\ SignedAt(p) /\ InForceAt(p)
  BY RevocationsMove DEF UncrossedInv, UncrossedAt
<1>2. ApartAt(p)'
  <2>1. \A d \in Callers : On(d, p)' => On(d, p) /\ calls'[d].op = calls[d].op /\ calls'[d].key = calls[d].key
    BY CallMoves, CertAuthorityAssumption DEF On
  <2> QED
    BY <1>1, <2>1 DEF ApartAt
<1>3. SignedAt(p)'
  <2>1. CASE SignCert(c)
    <3>1. files'[p].signed.key = files[p].pub /\ files'[p].pub = files[p].pub
      BY <2>1 DEF SignCert, FilesInv, File, On
    <3> QED
      BY <3>1 DEF SignedAt
  <2>2. CASE ~SignCert(c)
    <3> SUFFICES ASSUME NEW d \in Callers, On(d, p)', calls'[d].at = "signed" PROVE FALSE
      BY DEF SignedAt
    <3>1. d # c
      BY <2>2, NotSigned
    <3>2. calls'[d] = calls[d]
      BY <3>1, CallMoves
    <3>3. calls[d].op = "sign"
      BY <3>2 DEF FilesInv, OnItsWay
    <3> QED
      BY <1>1, <3>1, <3>2, <3>3 DEF ApartAt, On
  <2> QED
    BY <2>1, <2>2
<1> QED
  BY <1>1, <1>2, <1>3 DEF UncrossedAt

\* Steps that leave public keys and certificates alone and revoke nothing.
LEMMA UncrossedQuiet ==
  ASSUME FilesInv, KeysInv, UncrossedInv, NEW c \in Callers, CallSteps(c),
         \A p \in Platforms : files'[p].pub = files[p].pub /\ files'[p].cert.key = files[p].cert.key,
         revocations' \subseteq revocations,
         Unspent(calls'[c]) => Unspent(calls[c]),
         calls'[c].op = "rotate" => calls'[c].at \notin {"renameCert", "append"}
  PROVE  UncrossedInv'
<1> SUFFICES ASSUME NEW p \in Platforms, On(c, p),
                    ApartAt(p), FreshAt(p), ReplacedAt(p), InForceAt(p)
             PROVE  FreshAt(p)' /\ ReplacedAt(p)' /\ InForceAt(p)'
  BY UncrossedOwn
<1>1. \A d \in Callers : On(d, p)' => /\ On(d, p) /\ calls'[d].op = calls[d].op
                                      /\ calls'[d].key = calls[d].key /\ calls'[d].old = calls[d].old
                                      /\ d # c => calls'[d] = calls[d]
  BY CallMoves, CertAuthorityAssumption DEF On
<1>2. FreshAt(p)'
  BY <1>1 DEF FreshAt
<1>3. ReplacedAt(p)'
  BY <1>1 DEF ReplacedAt
<1>4. InForceAt(p)'
  BY RevocationsMove DEF InForceAt
<1> QED
  BY <1>2, <1>3, <1>4

\* The two appends.
LEMMA UncrossedAppend ==
  ASSUME FilesInv, KeysInv, UncrossedInv, NEW c \in Callers, RemoveAppend(c) \/ RotateAppend(c)
  PROVE  UncrossedInv'
<1>1. CallSteps(c)
  BY DEF CallSteps
<1> SUFFICES ASSUME NEW p \in Platforms, On(c, p),
                    ApartAt(p), FreshAt(p), ReplacedAt(p), InForceAt(p)
             PROVE  FreshAt(p)' /\ ReplacedAt(p)' /\ InForceAt(p)'
  BY <1>1, UncrossedOwn
<1>2. /\ calls[c].at = "append" /\ revocations' = revocations \cup {calls[c].old}
      /\ files' = files /\ retired \subseteq retired'
      /\ (calls[c].op = "remove" /\ calls[c].old \in retired') \/ calls[c].op = "rotate"
  BY DEF RemoveAppend, RotateAppend, At, history
<1>3. \A d \in Callers : On(d, p)' => /\ On(d, p) /\ calls'[d].op = calls[d].op
                                      /\ calls'[d].key = calls[d].key /\ calls'[d].old = calls[d].old
                                      /\ d # c => calls'[d] = calls[d]
  BY <1>1, CallMoves, CertAuthorityAssumption DEF On
<1>4. ~Unspent(calls'[c]) /\ calls'[c].op # "rotate"
  BY Moved, Returned DEF Unspent, RemoveAppend, RotateAppend
<1>5. FreshAt(p)'
  BY <1>2, <1>3, <1>4 DEF FreshAt
<1>6. ReplacedAt(p)'
  BY <1>2, <1>3, <1>4 DEF ReplacedAt
<1>7. InForceAt(p)'
  BY <1>2 DEF InForceAt, ReplacedAt
<1> QED
  BY <1>5, <1>6, <1>7

\* A signing is alone: its new key, or its certificate of the public key.
LEMMA UncrossedSign ==
  ASSUME FilesInv, KeysInv, UncrossedInv, NEW c \in Callers, SignKeygen(c) \/ RenameSigned(c)
  PROVE  UncrossedInv'
<1>1. CallSteps(c)
  BY DEF CallSteps
<1> SUFFICES ASSUME NEW p \in Platforms, On(c, p),
                    ApartAt(p), FreshAt(p), ReplacedAt(p), SignedAt(p), InForceAt(p)
             PROVE  FreshAt(p)' /\ ReplacedAt(p)' /\ InForceAt(p)'
  BY <1>1, UncrossedOwn
<1>2. calls[c].op = "sign" /\ files[p] \in File
  BY DEF SignKeygen, RenameSigned, At, FilesInv, OnItsWay
<1>3. \A d \in Callers : On(d, p) => d = c
  BY <1>2 DEF ApartAt
<1>4. \A d \in Callers : On(d, p)' => d = c
  BY <1>1, <1>3, CallMoves DEF On
<1>5. calls'[c].op # "rotate" /\ ~Unspent(calls'[c])
  BY <1>2, Moved, Returned DEF Unspent, SignKeygen, RenameSigned
<1>6. FreshAt(p)' /\ ReplacedAt(p)'
  BY <1>4, <1>5 DEF FreshAt, ReplacedAt
<1>7. InForceAt(p)'
  <2>1. revocations' = revocations /\ retired' = retired
    BY DEF SignKeygen, RenameSigned, history
  <2>2. CASE SignKeygen(c)
    <3>1. files'[p].pub = calls[c].key /\ files'[p].cert = files[p].cert
      BY <1>2, <2>2 DEF SignKeygen, FilesInv, File, On
    <3>2. calls[c].key \notin revocations
      BY <1>2, <2>2 DEF FreshAt, Unspent, SignKeygen, At
    <3> QED
      BY <2>1, <3>1, <3>2 DEF InForceAt
  <2>3. CASE RenameSigned(c)
    <3>1. files'[p].pub = files[p].pub /\ files'[p].cert.key \in {files[p].cert.key, files[p].signed.key}
      BY <1>2, <2>3 DEF RenameSigned, FilesInv, File, On
    <3>2. files[p].signed.key = files[p].pub
      BY <2>3 DEF SignedAt, RenameSigned, At
    <3> QED
      BY <2>1, <3>1, <3>2 DEF InForceAt
  <2> QED
    BY <2>2, <2>3
<1> QED
  BY <1>6, <1>7

\* The renames bring a fresh key into force.
LEMMA UncrossedRename ==
  ASSUME FilesInv, KeysInv, UncrossedInv, NEW c \in Callers, RenamePub(c) \/ RenameCert(c)
  PROVE  UncrossedInv'
<1>1. CallSteps(c)
  BY DEF CallSteps
<1> SUFFICES ASSUME NEW p \in Platforms, On(c, p),
                    ApartAt(p), FreshAt(p), ReplacedAt(p), InForceAt(p)
             PROVE  FreshAt(p)' /\ ReplacedAt(p)' /\ InForceAt(p)'
  BY <1>1, UncrossedOwn
<1>2. /\ calls[c].op = "rotate" /\ Unspent(calls[c]) /\ files[p] \in File
      /\ revocations' = revocations /\ retired' = retired
  BY DEF RenamePub, RenameCert, At, FilesInv, OnItsWay, Unspent, history
<1>3. /\ calls[c].key \notin revocations
      /\ \A d \in Callers : On(d, p) => calls[d].old # calls[c].key
  BY <1>2 DEF FreshAt
<1>4. \A d \in Callers : On(d, p)' => /\ On(d, p) /\ calls'[d].op = calls[d].op
                                      /\ calls'[d].key = calls[d].key /\ calls'[d].old = calls[d].old
                                      /\ d # c => calls'[d] = calls[d]
  BY <1>1, CallMoves, CertAuthorityAssumption DEF On
<1>5. CASE RenamePub(c)
  <2>1. files'[p].pub = calls[c].key /\ files'[p].cert = files[p].cert
    BY <1>2, <1>5 DEF RenamePub, FilesInv, File, On
  <2>2. calls'[c].at = "renameCert" /\ calls'[c].op = "rotate"
    BY <1>2, <1>5, Moved DEF RenamePub
  <2>3. FreshAt(p)'
    BY <1>2, <1>4, <2>1 DEF FreshAt
  <2>4. ReplacedAt(p)'
    BY <1>2, <1>3, <1>4, <2>1, <2>2 DEF ReplacedAt
  <2>5. InForceAt(p)'
    BY <1>2, <1>3, <2>1 DEF InForceAt
  <2> QED
    BY <2>3, <2>4, <2>5
<1>6. CASE RenameCert(c)
  <2>1. files'[p].pub = files[p].pub /\ files'[p].cert.key = calls[c].key
    BY <1>2, <1>6 DEF RenameCert, FilesInv, File, On
  <2>2. calls'[c].at = "append" /\ calls'[c].op = "rotate" /\ calls[c].at = "renameCert"
    BY <1>2, <1>6, Moved DEF RenameCert, At
  <2>3. ~Unspent(calls'[c])
    BY <2>2 DEF Unspent
  <2>4. FreshAt(p)'
    BY <1>2, <1>4, <2>1, <2>3 DEF FreshAt, ApartAt
  <2>5. ReplacedAt(p)'
    BY <1>2, <1>3, <1>4, <2>1, <2>2 DEF ReplacedAt
  <2>6. InForceAt(p)'
    BY <1>2, <1>3, <2>1 DEF InForceAt
  <2> QED
    BY <2>4, <2>5, <2>6
<1> QED
  BY <1>5, <1>6

LEMMA UncrossedCall ==
  ASSUME FilesInv, RestTyped, KeysInv, UncrossedInv, NEW c \in Callers, CallSteps(c)
  PROVE  UncrossedInv'
<1>1. CASE ReadSerial(c)
  <2>1. /\ calls'[c].at = "count" /\ calls'[c].op = calls[c].op /\ calls[c].at = "serial"
        /\ files' = files /\ revocations' = revocations
    BY <1>1 DEF ReadSerial, FilesInv, Call, At, history
  <2> QED
    BY <2>1, UncrossedQuiet DEF Unspent
<1>2. CASE InitKeygen(c) \/ RenameCA(c) \/ InitList(c) \/ WriteSerial(c) \/ TempCert(c)
  <2>1. PICK where :
          /\ Go(c, where)
          /\ \/ where \in {"renameCA", "list", "counter"}
             \/ where = "sign" /\ calls[c].at = "count"
             \/ where = "renameKey" /\ calls[c].at = "sign"
    BY <1>2 DEF InitKeygen, RenameCA, InitList, WriteSerial, TempCert, At
  <2>2. calls'[c].at = where /\ calls'[c].op = calls[c].op
    BY <2>1, Moved
  <2>3. files' = files /\ revocations' \subseteq revocations
    BY <1>2 DEF InitKeygen, RenameCA, InitList, WriteSerial, TempCert, history
  <2>4. Unspent(calls'[c]) => Unspent(calls[c])
    BY <2>1, <2>2 DEF Unspent
  <2> QED
    BY <2>1, <2>2, <2>3, <2>4, UncrossedQuiet
<1>3. CASE InitCounter(c) \/ Drop(c) \/ StepFails(c) \/ RenameFails(c) \/ DropFails(c) \/ Crash(c)
  <2>1. files' = files /\ revocations' = revocations /\ Return(c)
    BY <1>3 DEF InitCounter, Drop, StepFails, RenameFails, DropFails, Crash, history
  <2>2. calls'[c].op = "none"
    BY <2>1, Returned
  <2> QED
    BY <2>1, <2>2, UncrossedQuiet DEF Unspent
<1>4. CASE RenameKey(c)
  <2>1. calls'[c].at = "renamePub" /\ calls'[c].op = calls[c].op /\ calls[c].at = "renameKey"
    BY <1>4, Moved DEF RenameKey, At
  <2>2. \A p \in Platforms : files'[p].pub = files[p].pub /\ files'[p].cert.key = files[p].cert.key
    BY <1>4 DEF RenameKey, FilesInv, File
  <2>3. revocations' = revocations
    BY <1>4 DEF RenameKey
  <2> QED
    BY <2>1, <2>2, <2>3, UncrossedQuiet DEF Unspent
<1>5. CASE RenameBare(c) \/ SignCert(c)
  <2>1. /\ calls'[c].op = calls[c].op /\ calls[c].op = "sign" /\ calls'[c].at \in {"serial", "signed"}
    BY <1>5, Moved DEF RenameBare, SignCert, FilesInv, OnItsWay, At
  <2>2. \A p \in Platforms : files'[p].pub = files[p].pub /\ files'[p].cert.key = files[p].cert.key
    <3>1. CASE RenameBare(c)
      BY <3>1 DEF RenameBare, FilesInv, File
    <3>2. CASE SignCert(c)
      BY <3>2 DEF SignCert, FilesInv, File
    <3> QED
      BY <1>5, <3>1, <3>2
  <2>3. revocations' = revocations
    BY <1>5 DEF RenameBare, SignCert
  <2> QED
    BY <2>1, <2>2, <2>3, UncrossedQuiet DEF Unspent
<1> QED
  BY <1>1, <1>2, <1>3, <1>4, <1>5, UncrossedAppend, UncrossedSign, UncrossedRename DEF CallSteps

\* A call begins: alone if it or another signs, with a key of its own.
LEMMA UncrossedBegin ==
  ASSUME FilesInv, RestTyped, KeysInv, UncrossedInv, NEW c \in Callers, NEW p \in Platforms,
         SignCall(c, p) \/ RemoveCall(c, p) \/ RotateCall(c, p)
  PROVE  UncrossedInv'
<1>1. PICK op, where, old :
        /\ Begin(c, p, op, where, old) /\ old \in {None, files[p].cert.key}
        /\ where \notin {"renameCert", "append"} \/ op # "rotate"
        /\ where # "signed"
  BY DEF SignCall, RemoveCall, RotateCall
<1>2. /\ calls'[c].platform = p /\ calls'[c].key = begun + 1 /\ calls'[c].old = old
      /\ calls'[c].op = op /\ calls'[c].at = where
      /\ \A d \in Callers : d # c => calls'[d] = calls[d]
      /\ calls[c].platform = NoPlatform
  BY <1>1, Begun
<1>3. /\ files' = files /\ revocations' = revocations /\ retired' = retired /\ begun \in Nat
      /\ begun + 1 \in Keys
  BY <1>1, CertAuthorityAssumption DEF SignCall, RemoveCall, RotateCall, Begin, RestTyped, Keys
<1>4. crossed' = IF \E d \in Callers : On(d, p) /\ "sign" \in {op, calls[d].op}
                 THEN crossed \cup {p} ELSE crossed
  BY <1>1 DEF Begin, On
<1>5. \A k \in Keys : k # None /\ k \in Nat
  BY CertAuthorityAssumption DEF Keys, None
<1>6. \A q \in Platforms : ~Belongs(q, begun + 1)
  BY <1>3, <1>5 DEF KeysInv
<1>7. begun + 1 \notin revocations
  BY <1>3, <1>5 DEF KeysInv
<1> SUFFICES ASSUME NEW q \in Platforms, q \notin crossed' PROVE UncrossedAt(q)'
  BY DEF UncrossedInv, UncrossedAt
<1>8. ApartAt(q) /\ FreshAt(q) /\ ReplacedAt(q) /\ SignedAt(q) /\ InForceAt(q)
  BY <1>4 DEF UncrossedInv, UncrossedAt
<1>9. InForceAt(q)'
  BY <1>3, <1>8 DEF InForceAt
<1>10. CASE q # p
  <2>1. \A d \in Callers : On(d, q)' => On(d, q) /\ calls'[d] = calls[d]
    BY <1>2, <1>10 DEF On
  <2>2. ApartAt(q)' /\ FreshAt(q)'
    BY <1>3, <1>8, <2>1 DEF ApartAt, FreshAt
  <2>3. ReplacedAt(q)' /\ SignedAt(q)'
    BY <1>3, <1>8, <2>1 DEF ReplacedAt, SignedAt
  <2> QED
    BY <1>9, <2>2, <2>3 DEF UncrossedAt
<1>11. CASE q = p
  <2>1. \A d \in Callers : On(d, p)' => d = c \/ (d # c /\ On(d, p) /\ calls'[d] = calls[d])
    BY <1>2 DEF On
  <2>2. \A d \in Callers : On(d, p) => op # "sign" /\ calls[d].op # "sign"
    BY <1>4, <1>11
  <2>3. \A d \in Callers : On(d, p) => calls[d].key # begun + 1 /\ calls[d].old # begun + 1
    BY <1>6 DEF Belongs
  <2>4. /\ files[p].cert.key # begun + 1 /\ old # begun + 1
    BY <1>1, <1>3, <1>5, <1>6 DEF Belongs, KeysOf
  <2>5. ApartAt(p)'
    BY <1>2, <1>8, <1>11, <2>1, <2>2, <2>3 DEF ApartAt
  <2>6. FreshAt(p)'
    <3> SUFFICES ASSUME NEW d \in Callers, On(d, p)', Unspent(calls'[d])
                 PROVE  /\ calls'[d].key \notin revocations /\ calls'[d].key # files[p].cert.key
                        /\ \A e \in Callers : On(e, p)' => calls'[e].old # calls'[d].key
      BY <1>3 DEF FreshAt
    <3>1. CASE d = c
      BY <1>2, <1>7, <2>1, <2>3, <2>4, <3>1
    <3>2. CASE d # c
      <4>1. /\ On(d, p) /\ calls'[d] = calls[d] /\ calls[d].key \in Keys
        BY <2>1, <3>2 DEF FilesInv, OnItsWay, Unspent
      <4>2. /\ calls[d].key \notin revocations /\ calls[d].key # files[p].cert.key
            /\ \A e \in Callers : On(e, p) => calls[e].old # calls[d].key
        BY <1>8, <1>11, <4>1 DEF FreshAt
      <4>3. old # calls[d].key
        BY <1>1, <1>5, <4>1, <4>2
      <4> QED
        BY <1>2, <2>1, <4>1, <4>2, <4>3
    <3> QED
      BY <3>1, <3>2
  <2>7. ReplacedAt(p)'
    BY <1>1, <1>2, <1>3, <1>8, <1>11, <2>1 DEF ReplacedAt
  <2>8. SignedAt(p)'
    BY <1>1, <1>2, <1>3, <1>8, <1>11, <2>1 DEF SignedAt
  <2> QED
    BY <1>9, <1>11, <2>5, <2>6, <2>7, <2>8 DEF UncrossedAt
<1> QED
  BY <1>10, <1>11

LEMMA UncrossedNext ==
  FilesInv /\ RestTyped /\ KeysInv /\ UncrossedInv /\ [Next]_vars => KeysInv' /\ UncrossedInv'
<1> SUFFICES ASSUME FilesInv, RestTyped, KeysInv, UncrossedInv, [Next]_vars
             PROVE  KeysInv' /\ UncrossedInv'
  OBVIOUS
<1>1. CASE UNCHANGED <<files, calls, revocations, retired, crossed, begun>>
  BY <1>1 DEF KeysInv, Belongs, On, UncrossedInv, UncrossedAt, ApartAt, FreshAt, ReplacedAt, SignedAt, InForceAt
<1>2. ASSUME NEW p \in Platforms, Rediscover(p) PROVE KeysInv' /\ UncrossedInv'
  BY <1>1, <1>2 DEF Rediscover, history
<1>3. CASE UNCHANGED vars
  BY <1>1, <1>3 DEF vars
<1>4. ASSUME NEW c \in Callers, InitCall(c) PROVE KeysInv' /\ UncrossedInv'
  <2>1. /\ calls[c].platform = NoPlatform /\ calls'[c].platform = NoPlatform
        /\ calls'[c].key = None /\ calls'[c].old = None
        /\ \A d \in Callers : d # c => calls'[d] = calls[d]
        /\ files' = files /\ revocations' = revocations /\ retired' = retired /\ crossed' = crossed
        /\ begun' = begun + 1
    BY <1>4 DEF InitCall, At, OnItsWay, Idle, FilesInv, history
  <2>2. \A p \in Platforms, d \in Callers : On(d, p)' => On(d, p) /\ calls'[d] = calls[d]
    BY <2>1, CertAuthorityAssumption DEF On
  <2>3. \A p \in Platforms, k \in Keys : Belongs(p, k)' => Belongs(p, k)
    BY <2>1, <2>2 DEF Belongs
  <2>4. /\ begun \in Nat /\ revocations \subseteq Keys
        /\ \A k \in Keys : k \in Nat
    BY CertAuthorityAssumption DEF Keys, RestTyped
  <2>5. KeysInv'
    <3>1. \A k \in Keys : k <= begun => k <= begun'
      BY <2>1, <2>4
    <3>2. \A p \in Platforms, k \in Keys : Belongs(p, k)' => k <= begun'
      BY <2>3, <3>1 DEF KeysInv
    <3>3. \A k \in revocations' : k <= begun'
      BY <2>1, <2>4, <3>1 DEF KeysInv
    <3>4. \A p, q \in Platforms, k \in Keys : Belongs(p, k)' /\ Belongs(q, k)' => p = q
      BY <2>3 DEF KeysInv
    <3> QED
      BY <3>2, <3>3, <3>4 DEF KeysInv
  <2>6. UncrossedInv'
    BY <2>1, <2>2 DEF UncrossedInv, UncrossedAt, ApartAt, FreshAt, ReplacedAt, SignedAt, InForceAt
  <2> QED
    BY <2>5, <2>6
<1>5. ASSUME NEW c \in Callers, CallSteps(c) PROVE KeysInv' /\ UncrossedInv'
  BY <1>5, KeysCall, UncrossedCall
<1>6. ASSUME NEW c \in Callers, NEW p \in Platforms, SignCall(c, p) \/ RemoveCall(c, p) \/ RotateCall(c, p)
      PROVE  KeysInv' /\ UncrossedInv'
  BY <1>6, KeysBegin, UncrossedBegin
<1> QED
  BY <1>2, <1>3, <1>4, <1>5, <1>6 DEF Next, CallSteps

(***************************************************************************)
(* rotateKey (ca/manager.ts 322-447): however rotations and removals of a  *)
(* platform overlap and wherever one of them stops, the key of its         *)
(* certificate is not revoked, unless by `inventory remove` or beside a    *)
(* signing that overlapped.                                                *)
(***************************************************************************)
THEOREM NeededIsActive == Spec => []NeededStaysActive
<1>1. IInv /\ KeysInv /\ UncrossedInv /\ [Next]_vars => KeysInv' /\ UncrossedInv'
  BY UncrossedNext DEF IInv
<1>2. UncrossedInv => NeededStaysActive
  BY DEF UncrossedInv, UncrossedAt, InForceAt, NeededStaysActive, Listed
<1> QED
  BY <1>1, <1>2, KeysInit, Inductive, PTL DEF Spec
=============================================================================
