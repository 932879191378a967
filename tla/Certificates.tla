---------------------------- MODULE Certificates ----------------------------
(***************************************************************************)
(* The server's certificate authority (internal/ws/ca) with the file that  *)
(* it keeps its root and its revocations in, the revocation check of a new *)
(* connection (hub.go), and the daily renewal of one agent's certificate   *)
(* (internal/ws/agent/renewal.go).                                         *)
(*                                                                         *)
(* Time is counted in days.  A certificate is its root, its serial number  *)
(* and the whole days that it is still valid for, -1 when it is expired.   *)
(***************************************************************************)
EXTENDS Integers

CONSTANTS
  None,
  CertValidity,   \* the days of a new certificate, 90 in the code
  RenewBelow,     \* the days below which it is renewed, 7 in the code
  MaxSerial,      \* bound on the serial numbers of a server process
  MaxRoots,       \* bound on the roots that are ever generated
  Faults          \* what the environment may do, a subset of AllFaults

(***************************************************************************)
(* crash    the server dies                                                *)
(* restart  the agent is restarted                                         *)
(* cut      the connection is lost, with the answer that is under way      *)
(* read     the file of the CA cannot be read                              *)
(* write    it cannot be written                                           *)
(* revoke   a certificate is revoked                                       *)
(***************************************************************************)
AllFaults == {"crash", "restart", "cut", "read", "write", "revoke"}

ASSUME CertificatesAssumption ==
  /\ CertValidity \in Nat /\ RenewBelow \in Nat
  /\ 0 < RenewBelow /\ RenewBelow < CertValidity
  /\ MaxSerial \in Nat /\ MaxSerial >= 2
  /\ MaxRoots \in Nat \ {0}
  /\ Faults \subseteq AllFaults
  /\ None \notin 0 .. MaxRoots /\ None \notin 0 .. MaxSerial

Serials == 1 .. MaxSerial

VARIABLES
  file, tmp,  \* ca.json and the temporary file beside it
  ca,         \* where the server is, with the root and serial in its memory
  cache,      \* CA.revoked: "true", "false", or not in the map
  rev,        \* where Revoke is, and for which serial
  check,      \* where the check of a new connection is
  disk, cert, \* the agent's certificate, in its file and in its TLS config
  ren,        \* where the renewal is
  linked,     \* the agent is connected
  revoked,    \* history: the serials whose Revoke returned without an error
  raced,      \* history: a check cached what Revoke had overtaken
  wiped,      \* history: the file was replaced without having been read
  reloaded,   \* history: the agent was restarted, and has not renewed since
  misses      \* history: the checks in a row that failed to renew

caVars == <<file, tmp, ca, cache, rev, revoked, raced, wiped>>
agentVars == <<disk, cert, ren, linked, reloaded, misses>>
vars == <<caVars, check, agentVars>>

Empty == [root |-> None, revoked |-> {}]
NoCheck == [pc |-> "idle", serial |-> None, stored |-> FALSE, late |-> FALSE]
Unknown == [s \in Serials |-> "unknown"]

Issue(root, serial) == [root |-> root, serial |-> serial, left |-> CertValidity - 1]

\* The first root was generated, and the agent was given a certificate.
Init ==
  /\ file = [root |-> 1, revoked |-> {}]
  /\ tmp = None
  /\ ca = [pc |-> "up", root |-> 1, serial |-> 2]
  /\ cache = Unknown
  /\ rev = [pc |-> "idle", serial |-> None]
  /\ check = NoCheck
  /\ disk = Issue(1, 2)
  /\ cert = Issue(1, 2)
  /\ ren = "sleep"
  /\ linked = FALSE
  /\ revoked = {}
  /\ raced = FALSE
  /\ wiped = FALSE
  /\ reloaded = FALSE
  /\ misses = 0

Files == [root: {None} \cup 1 .. MaxRoots, revoked: SUBSET Serials]

Certs == [root: 1 .. MaxRoots, serial: Serials, left: -1 .. CertValidity - 1]

StorageOK ==
  /\ file \in Files
  /\ tmp \in Files \cup {None}
  /\ revoked \subseteq Serials
  /\ wiped \in BOOLEAN

Server == [pc: {"down", "store", "up"}, root: {None} \cup 1 .. MaxRoots, serial: 0 .. MaxSerial]

Checks == [pc: {"idle", "read", "cache", "accepted", "refused"},
           serial: Serials \cup {None}, stored: BOOLEAN, late: BOOLEAN]

ServerOK ==
  /\ ca \in Server
  /\ ca.pc # "down" => ca.root # None
  /\ ca.pc = "up" => ca.serial > 0
  /\ cache \in [Serials -> {"unknown", "true", "false"}]
  /\ rev \in [pc: {"idle", "persist", "rename"}, serial: Serials \cup {None}]
  /\ check \in Checks
  /\ raced \in BOOLEAN

AgentOK ==
  /\ disk \in Certs /\ cert \in Certs
  /\ ren \in {"sleep", "check", "asked", "signed", "hung"}
  /\ linked \in BOOLEAN /\ reloaded \in BOOLEAN
  /\ misses \in 0 .. RenewBelow

TypeOK == StorageOK /\ ServerOK /\ AgentOK

-----------------------------------------------------------------------------
\* FileStorage.read, whose error callers take for an empty file.
Read(data) == data = file \/ ("read" \in Faults /\ data = Empty)

\* The file is written under a lock, which is held until the rename.
StorageLocked == ca.pc = "store" \/ rev.pc = "rename"

\* Mutant: the file is written in place.
WriteInPlace(data) ==
  /\ tmp' = data
  /\ file' = Empty

\* FileStorage.write, up to the rename.
Write(data) ==
  /\ tmp' = data
  /\ UNCHANGED file

Rename ==
  /\ file' = tmp
  /\ tmp' = None

\* Mutant: a file without a root is taken for one with a root.
HasRootAlways(data) == TRUE

HasRoot(data) == data.root # None

\* GenerateRoot finds the stored root, and the server signs its certificate.
LoadRoot ==
  /\ ca.pc = "down"
  /\ \E data \in {file, Empty} :
       /\ Read(data)
       /\ HasRoot(data)
       /\ ca' = [pc |-> "up", root |-> data.root, serial |-> 1]
  /\ cache' = Unknown
  /\ UNCHANGED <<file, tmp, rev, revoked, raced, wiped, check, agentVars>>

\* A root that nobody has seen before.
NewRoot ==
  LET used == {file.root, ca.root, cert.root, disk.root} \ {None}
  IN  1 + (CHOOSE r \in used \cup {0} : \A q \in used : q <= r)

\* Without one it makes a new one and stores it with what StoreRootCA reads.
GenerateRoot ==
  /\ ca.pc = "down"
  /\ \E first, data \in {file, Empty} :
       /\ Read(first) /\ Read(data)
       /\ ~HasRoot(first)
       /\ NewRoot <= MaxRoots
       /\ ca' = [pc |-> "store", root |-> NewRoot, serial |-> 0]
       /\ Write([data EXCEPT !.root = NewRoot])
       /\ wiped' = (wiped \/ file.root # None \/ data # file)
  /\ cache' = Unknown
  /\ UNCHANGED <<rev, revoked, raced, check, agentVars>>

\* The rename, without which the server does not start.
StoreRoot ==
  /\ ca.pc = "store"
  /\ \/ /\ Rename
        /\ ca' = [ca EXCEPT !.pc = "up", !.serial = 1]
     \/ /\ "write" \in Faults
        /\ tmp' = None
        /\ ca' = [ca EXCEPT !.pc = "down"]
        /\ UNCHANGED file
  /\ UNCHANGED <<cache, rev, revoked, raced, wiped, check, agentVars>>

-----------------------------------------------------------------------------
\* Revoke: the cache first, then the file.  The server's certificate, number 1,
\* is not revoked.
Revoke(s) ==
  /\ "revoke" \in Faults
  /\ s > 1
  /\ ca.pc = "up" /\ rev.pc = "idle"
  /\ cache' = [cache EXCEPT ![s] = "true"]
  /\ rev' = [pc |-> "persist", serial |-> s]
  /\ UNCHANGED <<file, tmp, ca, revoked, raced, wiped, check, agentVars>>

\* Mutant: the list is replaced by the one serial.
AddedAlone(data, s) == [data EXCEPT !.revoked = {s}]

Added(data, s) == [data EXCEPT !.revoked = @ \cup {s}]

RevokeReturns(ok) ==
  /\ rev' = [pc |-> "idle", serial |-> None]
  /\ revoked' = IF ok THEN revoked \cup {rev.serial} ELSE revoked

AddRevoked ==
  /\ rev.pc = "persist" /\ ~StorageLocked
  /\ \E data \in {file, Empty} :
       /\ Read(data)
       /\ IF rev.serial \in data.revoked
            THEN RevokeReturns(TRUE) /\ UNCHANGED <<file, tmp, wiped>>
            ELSE /\ Write(Added(data, rev.serial))
                 /\ wiped' = (wiped \/ data # file)
                 /\ rev' = [rev EXCEPT !.pc = "rename"]
                 /\ UNCHANGED revoked
  /\ UNCHANGED <<ca, cache, raced, check, agentVars>>

RenameRevoked ==
  /\ rev.pc = "rename"
  /\ \/ Rename /\ RevokeReturns(TRUE)
     \/ "write" \in Faults /\ tmp' = None /\ RevokeReturns(FALSE) /\ UNCHANGED file
  /\ UNCHANGED <<ca, cache, raced, wiped, check, agentVars>>

-----------------------------------------------------------------------------
\* The TLS handshake of an agent that is not connected: its certificate is of
\* the server's root and not expired.  IsRevoked looks into its cache.
Valid(c) == c.root = ca.root /\ c.left >= 0

Checked(c, pc, stored) == [c EXCEPT !.pc = pc, !.stored = stored]

Handshake ==
  /\ ca.pc = "up" /\ ~linked /\ check.pc \in {"idle", "refused"}
  /\ Valid(cert)
  /\ LET known == cache[cert.serial]
         c == [NoCheck EXCEPT !.serial = cert.serial, !.late = cert.serial \in revoked]
     IN  check' = [c EXCEPT !.pc = CASE known = "true" -> "refused"
                                     [] known = "false" -> "accepted"
                                     [] OTHER -> "read"]
  /\ UNCHANGED <<caVars, agentVars>>

\* A miss falls through to the file, where an error passes for no.
CheckReads ==
  /\ check.pc = "read" /\ ~StorageLocked
  /\ \E data \in {file, Empty} :
       /\ Read(data)
       /\ check' = Checked(check, "cache", check.serial \in data.revoked)
  /\ raced' = (raced \/ (check.serial \in file.revoked /\ ~check'.stored))
  /\ UNCHANGED <<file, tmp, ca, cache, rev, revoked, wiped, agentVars>>

\* The answer of the file is cached, over whatever is there by now.
CheckCaches ==
  /\ check.pc = "cache"
  /\ cache' = [cache EXCEPT ![check.serial] = IF check.stored THEN "true" ELSE "false"]
  /\ raced' = (raced \/ (cache[check.serial] = "true" /\ ~check.stored))
  /\ check' = [check EXCEPT !.pc = IF check.stored THEN "refused" ELSE "accepted"]
  /\ UNCHANGED <<file, tmp, ca, rev, revoked, wiped, agentVars>>

Accept ==
  /\ check.pc = "accepted"
  /\ check' = NoCheck
  /\ linked' = TRUE
  /\ UNCHANGED <<caVars, disk, cert, ren, reloaded, misses>>

-----------------------------------------------------------------------------
\* A day passes, which no request on a connection takes; the renewal looks once
\* a day, unless it still waits for an answer.
Day ==
  /\ ren \in {"sleep", "hung"}
  /\ ren' = IF ren = "sleep" THEN "check" ELSE ren
  /\ cert' = [cert EXCEPT !.left = IF @ = -1 THEN -1 ELSE @ - 1]
  /\ disk' = [disk EXCEPT !.left = IF @ = -1 THEN -1 ELSE @ - 1]
  /\ UNCHANGED <<caVars, check, linked, reloaded, misses>>

Failed == misses' = IF misses < RenewBelow THEN misses + 1 ELSE misses

Due == cert.left < RenewBelow

\* StartAutoRenew: nothing is due, or AutoRenew sends a request.
CheckCertExpiry ==
  /\ ren = "check"
  /\ \/ ~Due /\ ren' = "sleep" /\ misses' = 0
     \/ Due /\ linked /\ ren' = "asked" /\ UNCHANGED misses
     \/ Due /\ ~linked /\ ren' = "sleep" /\ Failed
  /\ UNCHANGED <<caVars, check, disk, cert, linked, reloaded>>

\* SignCSR: the serial counts from where this server process started.
SignCSR ==
  /\ ren = "asked"
  /\ ca.serial < MaxSerial
  /\ ca' = [ca EXCEPT !.serial = @ + 1]
  /\ ren' = "signed"
  /\ UNCHANGED <<file, tmp, cache, rev, revoked, raced, wiped, check, disk, cert, linked, reloaded, misses>>

\* The new certificate goes into the TLS config, and not into a file.
AutoRenew ==
  /\ ren = "signed"
  /\ cert' = Issue(ca.root, ca.serial)
  /\ reloaded' = FALSE
  /\ ren' = "sleep"
  /\ misses' = 0
  /\ UNCHANGED <<caVars, check, disk, linked>>

-----------------------------------------------------------------------------
\* The answer is lost, and nothing tells the renewal so.
Lost == IF ren \in {"asked", "signed"} THEN "hung" ELSE ren

Cut ==
  /\ "cut" \in Faults /\ linked
  /\ linked' = FALSE
  /\ ren' = Lost
  /\ UNCHANGED <<caVars, check, disk, cert, reloaded, misses>>

\* The agent starts again with the certificate of its file.
AgentRestarts ==
  /\ "restart" \in Faults
  /\ cert' = disk
  /\ reloaded' = TRUE
  /\ linked' = FALSE
  /\ ren' = "check"
  /\ misses' = 0
  /\ check' = NoCheck
  /\ UNCHANGED <<caVars, disk>>

Crash ==
  /\ "crash" \in Faults /\ ca.pc # "down"
  /\ ca' = [ca EXCEPT !.pc = "down", !.serial = 0]
  /\ cache' = Unknown
  /\ rev' = [pc |-> "idle", serial |-> None]
  /\ check' = NoCheck
  /\ linked' = FALSE
  /\ ren' = Lost
  /\ tmp' = None
  /\ UNCHANGED <<file, revoked, raced, wiped, disk, cert, reloaded, misses>>

Next ==
  \/ LoadRoot \/ GenerateRoot \/ StoreRoot
  \/ \E s \in Serials : Revoke(s)
  \/ AddRevoked \/ RenameRevoked
  \/ Handshake \/ CheckReads \/ CheckCaches \/ Accept
  \/ Day \/ CheckCertExpiry \/ SignCSR \/ AutoRenew
  \/ Cut \/ AgentRestarts \/ Crash

Spec == Init /\ [][Next]_vars

-----------------------------------------------------------------------------
(***************************************************************************)
(* A connection that is checked after Revoke returned is turned away,      *)
(* through crashes of the server and through the cache that they empty     *)
(* (ca.go:228-262, storage.go:80-133).  The exceptions: a check that read  *)
(* the file before Revoke wrote it, or could not read it, caches its "no"  *)
(* for as long as the server runs (ca.go:253-260), and a file that could   *)
(* not be read is replaced by one without the revocations                  *)
(* (storage.go:84-87).                                                     *)
(***************************************************************************)
RevokedRefused == check.pc = "accepted" /\ check.late => raced \/ wiped

(***************************************************************************)
(* A running agent always has a certificate that the server's root signed  *)
(* and that is not expired, through crashes of the server at any point and *)
(* through cuts (renewal.go:86-173, ca.go:70-163).  The exceptions: for    *)
(* RenewBelow days in a row it had no connection to renew over; it lost    *)
(* the connection that the answer was due on and waits for ever            *)
(* (client.go:163); it was restarted with the certificate of its file,     *)
(* which is never renewed; the root was replaced because the file could    *)
(* not be read (ca.go:72).                                                 *)
(***************************************************************************)
NeverLockedOut ==
  \/ ca.pc = "up" => Valid(cert)
  \/ misses >= RenewBelow
  \/ ren = "hung"
  \/ reloaded
  \/ wiped
=============================================================================
