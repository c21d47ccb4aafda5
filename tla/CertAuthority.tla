--------------------------- MODULE CertAuthority ----------------------------
(***************************************************************************)
(* The SSH certificate authority (SSHCertificateManager) and the commands  *)
(* that drive it: `ca init`, `ca rotate` and `platform rotate-key`,        *)
(* `inventory remove`, `ca list`.  Each call runs in a process of its own  *)
(* and none takes a lock: the files are the only thing they share.         *)
(*                                                                         *)
(* A key pair is a number and its fingerprint is the number: the           *)
(* certificate of a key has the fingerprint of the key.  A certificate is  *)
(* its key and serial.  ssh-keygen writes under names of its own, which    *)
(* the code then renames; it asks before it overwrites a private key, and  *)
(* as nobody answers, the call goes no further.  What a rotation generates *)
(* has temporary names that concern nobody else.  The audit entries change *)
(* no file of the authority; the one whose failure ends a call early is    *)
(* that of a revocation.                                                   *)
(***************************************************************************)
EXTENDS Naturals, FiniteSets

CONSTANTS
  Platforms, Callers,
  NoPlatform,
  MaxCalls,    \* bound: calls ever made
  MaxFaults    \* bound: failed or killed calls

ASSUME CertAuthorityAssumption ==
  /\ NoPlatform \notin Platforms
  /\ {MaxCalls, MaxFaults} \subseteq Nat

VARIABLES
  ca,         \* homelab_ca.key exists
  caBare,     \* homelab_ca, not yet renamed, exists
  counter,    \* serial.counter; 0 when there is no file
  revocations,\* the fingerprints in revocation.list
  files,      \* <id>.key, <id>.pub and <id>.cert of each platform, and <id>
              \* and <id>-cert.pub as ssh-keygen leaves them
  inventory,  \* the platforms in the inventory
  calls,      \* what each process is doing
  begun, faults, \* calls made, and those that were hit by a fault
  \* history
  issued,     \* how often each serial was put in a certificate
  raced,      \* a serial was counted while another call counted one
  dirty,      \* platforms on which calls overlapped or a rotation was cut
              \* short, or whose revocations an initialisation erased
  crossed,    \* platforms on which a signing overlapped another call
  superseded, \* the keys a rotation has replaced, per platform
  retired     \* the keys revoked because their platform was removed

authority == <<ca, caBare>>
vars == <<authority, counter, revocations, files, inventory, calls, begun, faults,
          issued, raced, dirty, crossed, superseded, retired>>
history == <<issued, raced, dirty, crossed, superseded, retired>>

None == 0
Keys == 1 .. MaxCalls
Serials == 1 .. MaxCalls
NoCert == [key |-> None, serial |-> 0]
NoFiles == [key |-> None, pub |-> None, cert |-> NoCert, bare |-> None, signed |-> NoCert]
Idle == [at |-> "idle", op |-> "none", platform |-> NoPlatform, key |-> None, old |-> None, serial |-> 0]

Init ==
  /\ ca = FALSE /\ caBare = FALSE /\ counter = 0 /\ revocations = {}
  /\ files = [p \in Platforms |-> NoFiles]
  /\ inventory = Platforms
  /\ calls = [c \in Callers |-> Idle]
  /\ begun = 0 /\ faults = 0
  /\ issued = [s \in Serials |-> 0] /\ raced = FALSE /\ dirty = {} /\ crossed = {}
  /\ superseded = [p \in Platforms |-> {}] /\ retired = {}

At(c, where) == calls[c].at = where
Go(c, where) == calls' = [calls EXCEPT ![c].at = where]
Return(c) == calls' = [calls EXCEPT ![c] = Idle]
Busy(p) == \E c \in Callers : calls[c].platform = p

\* A call on a platform begins; an overlap with another is noted.  The key
\* pair the call may generate has the number of the call.
Begin(c, p, op, where, old) ==
  /\ At(c, "idle") /\ begun < MaxCalls
  /\ begun' = begun + 1
  /\ calls' = [calls EXCEPT ![c] = [Idle EXCEPT !.at = where, !.op = op, !.platform = p,
                                            !.key = begun + 1, !.old = old]]
  /\ dirty' = IF Busy(p) THEN dirty \cup {p} ELSE dirty
  /\ crossed' = IF \E d \in Callers : calls[d].platform = p /\ "sign" \in {op, calls[d].op}
                THEN crossed \cup {p} ELSE crossed


-----------------------------------------------------------------------------
(* initializeCA: key, empty revocation list, counter. *)

InitCall(c) ==
  /\ At(c, "idle") /\ ~ca /\ begun < MaxCalls
  /\ begun' = begun + 1
  /\ calls' = [calls EXCEPT ![c] = [Idle EXCEPT !.at = "keygen", !.op = "init"]]
  /\ UNCHANGED <<authority, counter, revocations, files, inventory, faults, history>>

InitKeygen(c) ==
  /\ At(c, "keygen") /\ ~caBare /\ Go(c, "renameCA")
  /\ caBare' = TRUE /\ ca' = ca
  /\ UNCHANGED <<counter, revocations, files, inventory, begun, faults, history>>

RenameCA(c) ==
  /\ At(c, "renameCA") /\ Go(c, "list")
  /\ ca' = (ca \/ caBare) /\ caBare' = FALSE
  /\ UNCHANGED <<counter, revocations, files, inventory, begun, faults, history>>

InitList(c) ==
  /\ At(c, "list") /\ revocations' = {} /\ Go(c, "counter")
  /\ dirty' = IF revocations = {} THEN dirty ELSE Platforms
  /\ UNCHANGED <<authority, counter, files, inventory, begun, faults, issued, raced, crossed, superseded, retired>>

InitCounter(c) ==
  /\ At(c, "counter") /\ counter' = 1 /\ Return(c)
  /\ raced' = (raced \/ counter # 0 \/ \E d \in Callers : At(d, "count"))
  /\ UNCHANGED <<authority, revocations, files, inventory, begun, faults, issued, dirty, crossed, superseded, retired>>

-----------------------------------------------------------------------------
(* nextSerial: read, then write. *)

\* A missing or unreadable counter counts as 1.
Stored == IF counter = 0 THEN 1 ELSE counter

ReadSerial(c) ==
  /\ At(c, "serial")
  /\ calls' = [calls EXCEPT ![c].at = "count", ![c].serial = Stored]
  /\ UNCHANGED <<authority, counter, revocations, files, inventory, begun, faults, history>>

\* Bug: the counter keeps the serial just handed out.
WriteSerialSame(c) ==
  /\ At(c, "count")
  /\ counter' = calls[c].serial /\ Go(c, "sign")
  /\ raced' = (raced \/ Stored # calls[c].serial)
  /\ UNCHANGED <<authority, revocations, files, inventory, begun, faults, issued, dirty, crossed, superseded, retired>>

WriteSerial(c) ==
  /\ At(c, "count")
  /\ counter' = calls[c].serial + 1 /\ Go(c, "sign")
  /\ raced' = (raced \/ Stored # calls[c].serial)
  /\ UNCHANGED <<authority, revocations, files, inventory, begun, faults, issued, dirty, crossed, superseded, retired>>

Signs(c) == issued' = [issued EXCEPT ![calls[c].serial] = @ + 1]

-----------------------------------------------------------------------------
(* signPlatformCert *)

SignCall(c, p) ==
  /\ ca /\ p \in inventory
  /\ Begin(c, p, "sign", IF files[p].key = None THEN "key" ELSE "serial", None)
  /\ UNCHANGED <<authority, counter, revocations, files, inventory, faults, issued, raced, superseded, retired>>

SignKeygen(c) ==
  /\ At(c, "key") /\ Go(c, "bare")
  /\ LET p == calls[c].platform
     IN  /\ files[p].bare = None
         /\ files' = [files EXCEPT ![p].bare = calls[c].key, ![p].pub = calls[c].key]
  /\ UNCHANGED <<authority, counter, revocations, inventory, begun, faults, history>>

\* If another call has renamed it there is nothing left to rename.
RenameBare(c) ==
  /\ At(c, "bare") /\ Go(c, "serial")
  /\ LET p == calls[c].platform
     IN  files' = IF files[p].bare = None THEN files
                  ELSE [files EXCEPT ![p].key = files[p].bare, ![p].bare = None]
  /\ UNCHANGED <<authority, counter, revocations, inventory, begun, faults, history>>

SignCert(c) ==
  /\ At(c, "sign") /\ calls[c].op = "sign" /\ Signs(c) /\ Go(c, "signed")
  /\ LET p == calls[c].platform
     IN  files' = [files EXCEPT ![p].signed = [key |-> files[p].pub, serial |-> calls[c].serial]]
  /\ UNCHANGED <<authority, counter, revocations, inventory, begun, faults, raced, dirty, crossed, superseded, retired>>

RenameSigned(c) ==
  /\ At(c, "signed") /\ Return(c)
  /\ LET p == calls[c].platform
     IN  files' = IF files[p].signed = NoCert THEN files
                  ELSE [files EXCEPT ![p].cert = files[p].signed, ![p].signed = NoCert]
  /\ UNCHANGED <<authority, counter, revocations, inventory, begun, faults, history>>

-----------------------------------------------------------------------------
(* `inventory remove`: revokeKeys, then the inventory entry. *)

RemoveCall(c, p) ==
  /\ p \in inventory
  /\ Begin(c, p, "remove", IF files[p].cert = NoCert THEN "drop" ELSE "append", files[p].cert.key)
  /\ UNCHANGED <<authority, counter, revocations, files, inventory, faults, issued, raced, superseded, retired>>

\* Bug: what the certificate holds now is not what was read; nothing is appended.
RemoveAppendNothing(c) ==
  /\ At(c, "append") /\ calls[c].op = "remove" /\ Go(c, "drop")
  /\ UNCHANGED <<authority, counter, revocations, files, inventory, begun, faults, history>>

RemoveAppend(c) ==
  /\ At(c, "append") /\ calls[c].op = "remove" /\ Go(c, "drop")
  /\ revocations' = revocations \cup {calls[c].old}
  /\ retired' = retired \cup {calls[c].old}
  /\ UNCHANGED <<authority, counter, files, inventory, begun, faults, issued, raced, dirty, crossed, superseded>>

Drop(c) ==
  /\ At(c, "drop") /\ Return(c)
  /\ inventory' = inventory \ {calls[c].platform}
  /\ UNCHANGED <<authority, counter, revocations, files, begun, faults, history>>

\* `discover` finds the platform again.
Rediscover(p) ==
  /\ p \notin inventory /\ inventory' = inventory \cup {p}
  /\ UNCHANGED <<authority, counter, revocations, files, calls, begun, faults, history>>

-----------------------------------------------------------------------------
(* rotateKey *)

\* Phase 1, the fingerprint that is to be revoked, and the key pair of phase
\* 2, which has a temporary name and concerns nobody else.
RotateCall(c, p) ==
  /\ ca /\ p \in inventory /\ files[p].cert # NoCert
  /\ Begin(c, p, "rotate", "serial", files[p].cert.key)
  /\ UNCHANGED <<authority, counter, revocations, files, inventory, faults, issued, raced, superseded, retired>>

TempCert(c) ==
  /\ At(c, "sign") /\ calls[c].op = "rotate" /\ Signs(c)
  /\ Go(c, "renameKey")
  /\ UNCHANGED <<authority, counter, revocations, files, inventory, begun, faults, raced, dirty, crossed, superseded, retired>>

\* Phase 3: the three renames.
RenameKey(c) ==
  /\ At(c, "renameKey") /\ Go(c, "renamePub")
  /\ files' = [files EXCEPT ![calls[c].platform].key = calls[c].key]
  /\ UNCHANGED <<authority, counter, revocations, inventory, begun, faults, history>>

RenamePub(c) ==
  /\ At(c, "renamePub") /\ Go(c, "renameCert")
  /\ files' = [files EXCEPT ![calls[c].platform].pub = calls[c].key]
  /\ UNCHANGED <<authority, counter, revocations, inventory, begun, faults, history>>

RenameCert(c) ==
  /\ At(c, "renameCert") /\ Go(c, "append")
  /\ LET p == calls[c].platform
     IN  /\ files' = [files EXCEPT ![p].cert = [key |-> calls[c].key, serial |-> calls[c].serial]]
         /\ superseded' = [superseded EXCEPT ![p] = @ \cup {files[p].cert.key}]
  /\ UNCHANGED <<authority, counter, revocations, inventory, begun, faults, issued, raced, dirty, crossed, retired>>

\* Bug: the list is written anew instead of appended to.
RotateAppendOver(c) ==
  /\ At(c, "append") /\ calls[c].op = "rotate" /\ Return(c)
  /\ revocations' = {calls[c].old}
  /\ UNCHANGED <<authority, counter, files, inventory, begun, faults, history>>

\* Phase 4: the old fingerprint.
RotateAppend(c) ==
  /\ At(c, "append") /\ calls[c].op = "rotate" /\ Return(c)
  /\ revocations' = revocations \cup {calls[c].old}
  /\ UNCHANGED <<authority, counter, files, inventory, begun, faults, history>>

-----------------------------------------------------------------------------
(* Failures. *)

Spend == faults < MaxFaults /\ faults' = faults + 1

\* ssh-keygen or a write fails; in phase 2 of a rotation the temporary files
\* are removed again.
StepFails(c) ==
  /\ calls[c].at \in {"keygen", "renameCA", "list", "counter", "key", "bare", "serial", "count", "sign", "signed"}
  /\ Spend /\ Return(c)
  /\ UNCHANGED <<authority, counter, revocations, files, inventory, begun, history>>

\* Bug: the old fingerprint is revoked although the renames were not finished.
RenameFailsRevokes(c) ==
  /\ calls[c].at \in {"renameKey", "renamePub", "renameCert"}
  /\ Spend /\ Return(c)
  /\ revocations' = revocations \cup {calls[c].old}
  /\ dirty' = dirty \cup {calls[c].platform}
  /\ UNCHANGED <<authority, counter, files, inventory, begun, issued, raced, crossed, superseded, retired>>

\* CRITICAL_ROTATION_PARTIAL: the call ends before phase 4.
RenameFails(c) ==
  /\ calls[c].at \in {"renameKey", "renamePub", "renameCert"}
  /\ Spend /\ Return(c)
  /\ dirty' = dirty \cup {calls[c].platform}
  /\ UNCHANGED <<authority, counter, revocations, files, inventory, begun, issued, raced, crossed, superseded, retired>>

\* The audit entry of a revocation, or the inventory, cannot be written.
DropFails(c) ==
  /\ At(c, "drop") /\ Spend /\ Return(c)
  /\ UNCHANGED <<authority, counter, revocations, files, inventory, begun, history>>

\* The process is killed.
Crash(c) ==
  /\ ~At(c, "idle") /\ Spend /\ Return(c)
  /\ dirty' = IF calls[c].op = "rotate" /\ calls[c].at \in {"renameKey", "renamePub", "renameCert", "append"}
              THEN dirty \cup {calls[c].platform} ELSE dirty
  /\ UNCHANGED <<authority, counter, revocations, files, inventory, begun, issued, raced, crossed, superseded, retired>>

Next ==
  \/ \E p \in Platforms : Rediscover(p)
  \/ \E c \in Callers, p \in Platforms : SignCall(c, p) \/ RemoveCall(c, p) \/ RotateCall(c, p)
  \/ \E c \in Callers :
       \/ InitCall(c) \/ InitKeygen(c) \/ RenameCA(c) \/ InitList(c) \/ InitCounter(c)
       \/ ReadSerial(c) \/ WriteSerial(c) \/ SignKeygen(c) \/ RenameBare(c)
       \/ SignCert(c) \/ RenameSigned(c)
       \/ RemoveAppend(c) \/ Drop(c)
       \/ TempCert(c) \/ RenameKey(c) \/ RenamePub(c) \/ RenameCert(c) \/ RotateAppend(c)
       \/ StepFails(c) \/ RenameFails(c) \/ DropFails(c) \/ Crash(c)

Spec == Init /\ [][Next]_vars

-----------------------------------------------------------------------------
\* What listCertificates reports of a platform.
Listed(p) ==
  IF files[p].cert = NoCert THEN "none"
  ELSE IF files[p].cert.key \in revocations THEN "revoked" ELSE "active"

\* Types.
TypeOK ==
  /\ ca \in BOOLEAN /\ caBare \in BOOLEAN /\ counter \in Nat /\ begun \in 0 .. MaxCalls /\ faults \in 0 .. MaxFaults
  /\ revocations \subseteq Keys /\ retired \subseteq Keys
  /\ files \in [Platforms -> [key : Keys \cup {None}, pub : Keys \cup {None},
                              cert : [key : Keys \cup {None}, serial : Nat],
                              bare : Keys \cup {None},
                              signed : [key : Keys \cup {None}, serial : Nat]]]
  /\ inventory \subseteq Platforms /\ dirty \subseteq Platforms /\ crossed \subseteq dirty
  /\ superseded \in [Platforms -> SUBSET Keys]
  /\ issued \in [Serials -> Nat] /\ raced \in BOOLEAN
  /\ \A c \in Callers : calls[c].platform \in Platforms \cup {NoPlatform}

\* nextSerial hands out each serial once, through failures and restarts and
\* after an initialisation cut short, as long as no two calls counted at once.
SerialsOnce == TypeOK /\ (~raced => \A s \in Serials : issued[s] <= 1)

\* rotateKey revokes only what is no longer needed: the certificate on disk
\* is listed active unless its platform was removed, however rotations and
\* removals overlap and wherever one of them stops.  (A signing beside a
\* rotation may bring the key of the rotation into force early.)
NeededStaysActive ==
  \A p \in Platforms \ crossed : Listed(p) = "revoked" => files[p].cert.key \in retired

\* What is left where no two calls overlapped, no rotation was cut short in its
\* renames and no late initialisation emptied the list: key, public key and
\* certificate belong together, whatever a rotation replaced is revoked, and
\* so is the certificate of a removed platform.  A signing killed between
\* ssh-keygen and the rename leaves the platform without a key; its public key
\* is then that of the private key not renamed, nothing was ever signed for it,
\* and nothing in force is lost.  (Such a platform stays without a certificate:
\* each later signing waits for ssh-keygen.  A certificate that was not renamed
\* may outlive its key; the next signing overwrites it before it renames.)
RestIsWhole ==
  \A p \in Platforms \ dirty : ~Busy(p) =>
    /\ \/ files[p].bare = None /\ files[p].pub = files[p].key
       \/ /\ files[p].key = None /\ files[p].pub = files[p].bare
          /\ files[p].cert = NoCert /\ files[p].signed = NoCert
    /\ files[p].cert.key \in {None, files[p].key}
    /\ superseded[p] \subseteq revocations
    /\ p \notin inventory => Listed(p) # "active"

\* Only an initialisation empties the revocation list (revokeKeys, rotateKey).
RevokedForGood == [][revocations \subseteq revocations' \/ \E c \in Callers : InitList(c)]_vars

=============================================================================
