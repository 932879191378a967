------------------------- MODULE CertificatesProofs -------------------------
(***************************************************************************)
(* Theorems about Certificates, for every validity and renewal threshold,  *)
(* any numbers of serials and roots and every combination of faults.       *)
(***************************************************************************)
EXTENDS Certificates, TLAPS

USE CertificatesAssumption

-----------------------------------------------------------------------------
(* The inductive invariant.                                                *)

(***************************************************************************)
(* Who is at work: nothing of the server outlives it, a renewal waits on a *)
(* connection, and whoever holds the lock of the file has written the      *)
(* temporary one.                                                          *)
(***************************************************************************)
Places ==
  /\ ca.pc # "up" => rev.pc = "idle" /\ check.pc = "idle" /\ ~linked
  /\ rev.pc # "idle" => rev.serial \in Serials
  /\ check.pc # "idle" => check.serial \in Serials
  /\ StorageLocked => tmp \in Files
  /\ ren \in {"asked", "signed"} => linked

\* The file that is about to be renamed keeps what the old one says, and a
\* revocation that is being stored is in it.
Replaces ==
  /\ StorageLocked => wiped \/ file.revoked \subseteq tmp.revoked
  /\ rev.pc = "rename" => wiped \/ tmp.root = file.root
  /\ rev.pc = "rename" => rev.serial \in tmp.revoked

(***************************************************************************)
(* A revocation that was acknowledged is in the file, and no "no" of the   *)
(* cache, or of a check on its way to the cache, contradicts it.           *)
(***************************************************************************)
Remembered ==
  /\ revoked \subseteq file.revoked \/ wiped
  /\ rev.pc # "idle" => cache[rev.serial] = "true" \/ raced
  /\ \A s \in revoked : cache[s] # "false" \/ raced \/ wiped
  /\ check.pc = "cache" /\ ~check.stored /\ check.serial \in revoked
       => cache[check.serial] = "true" \/ raced \/ wiped
  /\ check.pc # "idle" /\ check.late => check.serial \in revoked

\* As long as the file is not replaced blindly, there is one root.
OneRoot ==
  ~wiped =>
    /\ file.root # None
    /\ ca.pc # "store"
    /\ ca.pc = "up" => ca.root = file.root
    /\ cert.root = file.root \/ reloaded

\* Every day since the certificate became due was a missed renewal.
InTime ==
  \/ ren = "hung" \/ reloaded \/ misses = RenewBelow
  \/ cert.left >= RenewBelow - misses - (IF ren = "sleep" THEN 0 ELSE 1)

IInv == TypeOK /\ Places /\ Replaces /\ Remembered /\ RevokedRefused /\ OneRoot /\ InTime

-----------------------------------------------------------------------------
\* A new root is a number.
LEMMA NewRootType ==
  ASSUME TypeOK
  PROVE  NewRoot \in Nat \ {0}
<1> DEFINE used == {file.root, ca.root, cert.root, disk.root} \ {None}
           largest == CHOOSE r \in used \cup {0} : \A q \in used : q <= r
<1>1. used \subseteq Nat
  BY DEF TypeOK, StorageOK, ServerOK, Server, AgentOK, Certs, Files
<1>2. \E r \in used \cup {0} : \A q \in used : q <= r
  BY <1>1
<1>3. largest \in used \cup {0}
  BY <1>2
<1>4. NewRoot = 1 + largest
  BY DEF NewRoot
<1> HIDE DEF largest
<1>5. QED BY <1>1, <1>3, <1>4

-----------------------------------------------------------------------------
(* One lemma for each part of the invariant, one step for each action that *)
(* touches what the part speaks of.                                        *)

LEMMA StorageStep ==
  ASSUME IInv, Next
  PROVE  StorageOK'
<1> USE DEF IInv
<1>1. CASE GenerateRoot
  BY <1>1, NewRootType DEF GenerateRoot, HasRoot, Write, Empty, StorageOK, TypeOK, Places, Files
<1>2. CASE StoreRoot
  BY <1>2 DEF StoreRoot, Rename, StorageOK, TypeOK, Places, StorageLocked
<1>3. CASE AddRevoked
  <2>1. PICK data \in {file, Empty} : AddRevoked!2!(data)
    BY <1>3 DEF AddRevoked
  <2>2. data \in Files /\ rev.serial \in Serials
    BY <1>3 DEF AddRevoked, TypeOK, StorageOK, Places, Files, Empty
  <2>3. Added(data, rev.serial) \in Files
    BY <2>2 DEF Added, Files
  <2>4. QED BY <2>1, <2>2, <2>3 DEF StorageOK, TypeOK, Write, RevokeReturns
<1>4. CASE RenameRevoked
  BY <1>4 DEF RenameRevoked, Rename, RevokeReturns, StorageOK, TypeOK, Places, StorageLocked
<1>5. CASE Crash
  BY <1>5 DEF Crash, StorageOK, TypeOK
<1>6. CASE UNCHANGED <<file, tmp, revoked, wiped>>
  BY <1>6 DEF StorageOK, TypeOK
<1>7. QED BY <1>1, <1>2, <1>3, <1>4, <1>5, <1>6 DEF Next, LoadRoot, Revoke, Handshake,
               CheckReads, CheckCaches, Accept, Day, CheckCertExpiry, SignCSR, AutoRenew, Cut,
               AgentRestarts, caVars

LEMMA ServerStep ==
  ASSUME IInv, Next
  PROVE  ServerOK'
<1> USE DEF IInv
<1>1. CASE LoadRoot
  BY <1>1 DEF LoadRoot, Read, HasRoot, Empty, ServerOK, TypeOK, StorageOK, Places, Files,
       Unknown, Server
<1>2. CASE GenerateRoot
  <2>1. NewRoot \in 1 .. MaxRoots
    BY <1>2, NewRootType DEF GenerateRoot
  <2>2. ca' = [pc |-> "store", root |-> NewRoot, serial |-> 0]
    BY <1>2 DEF GenerateRoot
  <2>3. ca' \in Server /\ ca'.root # None
    BY <2>1, <2>2 DEF Server
  <2>4. QED BY <1>2, <2>2, <2>3 DEF GenerateRoot, Unknown, TypeOK, ServerOK
<1>3. CASE StoreRoot
  <2>1. CASE ca' = [ca EXCEPT !.pc = "up", !.serial = 1]
    <3>1. [pc |-> "up", root |-> ca.root, serial |-> 1] \in Server
      BY DEF TypeOK, ServerOK, Server
    <3>2. ca' = [pc |-> "up", root |-> ca.root, serial |-> 1]
      BY <2>1 DEF TypeOK, ServerOK, Server
    <3>3. QED BY <1>3, <3>1, <3>2 DEF StoreRoot, TypeOK, ServerOK
  <2>2. CASE ca' = [ca EXCEPT !.pc = "down"]
    <3>1. ca' \in Server /\ ca'.pc = "down"
      BY <2>2 DEF TypeOK, ServerOK, Server
    <3>2. QED BY <1>3, <3>1 DEF StoreRoot, TypeOK, ServerOK
  <2>3. QED BY <1>3, <2>1, <2>2 DEF StoreRoot
<1>4. ASSUME NEW s \in Serials, Revoke(s)
      PROVE  ServerOK'
  BY <1>4 DEF Revoke, ServerOK, TypeOK
<1>5. CASE AddRevoked
  <2>1. rev' \in [pc: {"idle", "persist", "rename"}, serial: Serials \cup {None}]
    BY <1>5 DEF AddRevoked, RevokeReturns, TypeOK, ServerOK
  <2>2. QED BY <1>5, <2>1 DEF AddRevoked, TypeOK, ServerOK
<1>6. CASE RenameRevoked
  BY <1>6 DEF RenameRevoked, RevokeReturns, ServerOK, TypeOK
<1>7. CASE Handshake
  <2>1. cert.serial \in Serials
    BY DEF TypeOK, AgentOK, Certs
  <2>2. check' \in Checks
    <3> DEFINE c == [NoCheck EXCEPT !.serial = cert.serial, !.late = cert.serial \in revoked]
    <3>1. (cert.serial \in revoked) \in BOOLEAN
      OBVIOUS
    <3>2. c \in Checks
      BY <2>1, <3>1 DEF NoCheck, Checks
    <3>3. QED BY <1>7, <3>2 DEF Handshake, Checks
  <2>3. QED BY <1>7, <2>2 DEF Handshake, caVars, TypeOK, ServerOK
<1>8. CASE CheckReads
  <2>1. PICK data \in {file, Empty} :
          check' = Checked(check, "cache", check.serial \in data.revoked)
    BY <1>8 DEF CheckReads
  <2>2. (check.serial \in data.revoked) \in BOOLEAN
    OBVIOUS
  <2>3. check' \in Checks
    BY <2>1, <2>2 DEF Checked, Checks, TypeOK, ServerOK
  <2>4. QED BY <1>8, <2>3 DEF CheckReads, TypeOK, ServerOK
<1>9. CASE CheckCaches
  BY <1>9 DEF CheckCaches, ServerOK, TypeOK, Checks
<1>10. CASE Accept
  BY <1>10 DEF Accept, NoCheck, ServerOK, TypeOK, Checks, caVars
<1>11. CASE SignCSR
  <2>1. ca' \in Server
    BY <1>11 DEF SignCSR, TypeOK, ServerOK, Server
  <2>2. ca'.pc = ca.pc /\ ca'.root = ca.root /\ ca'.serial > 0
    BY <1>11 DEF SignCSR, TypeOK, ServerOK, Server
  <2>3. QED BY <1>11, <2>1, <2>2 DEF SignCSR, TypeOK, ServerOK
<1>12. CASE AgentRestarts
  BY <1>12 DEF AgentRestarts, NoCheck, ServerOK, TypeOK, Checks, caVars
<1>13. CASE Crash
  <2>1. [pc |-> "down", root |-> ca.root, serial |-> 0] \in Server
    BY DEF TypeOK, ServerOK, Server
  <2>2. ca' = [pc |-> "down", root |-> ca.root, serial |-> 0]
    BY <1>13 DEF Crash, TypeOK, ServerOK, Server
  <2>3. QED BY <1>13, <2>1, <2>2 DEF Crash, NoCheck, Checks, Unknown, ServerOK, TypeOK
<1>14. CASE UNCHANGED <<ca, cache, rev, check, raced>>
  BY <1>14 DEF ServerOK, TypeOK
<1>15. QED BY <1>1, <1>2, <1>3, <1>4, <1>5, <1>6, <1>7, <1>8, <1>9, <1>10, <1>11, <1>12,
   <1>13, <1>14 DEF Next, Day, CheckCertExpiry, AutoRenew, Cut, caVars, agentVars

LEMMA AgentStep ==
  ASSUME IInv, Next
  PROVE  AgentOK'
<1> USE DEF IInv
<1>1. CASE Accept
  BY <1>1 DEF Accept, AgentOK, TypeOK
<1>2. CASE Day
  <2>1. \A c \in Certs : [c EXCEPT !.left = IF @ = -1 THEN -1 ELSE @ - 1] \in Certs
    BY DEF Certs
  <2>2. QED BY <1>2, <2>1 DEF Day, TypeOK, AgentOK
<1>3. CASE CheckCertExpiry
  BY <1>3 DEF CheckCertExpiry, Due, Failed, AgentOK, TypeOK
<1>4. CASE SignCSR
  BY <1>4 DEF SignCSR, AgentOK, TypeOK
<1>5. CASE AutoRenew
  <2>1. ca.root \in 1 .. MaxRoots /\ ca.serial \in Serials
    BY <1>5 DEF AutoRenew, Places, TypeOK, ServerOK, Server, Serials
  <2>2. Issue(ca.root, ca.serial) \in Certs
    BY <2>1 DEF Issue, Certs
  <2>3. misses' \in 0 .. RenewBelow
    BY <1>5 DEF AutoRenew
  <2>4. QED BY <1>5, <2>2, <2>3 DEF AutoRenew, TypeOK, AgentOK
<1>6. CASE Cut
  BY <1>6 DEF Cut, Lost, AgentOK, TypeOK
<1>7. CASE AgentRestarts
  <2>1. misses' \in 0 .. RenewBelow
    BY <1>7 DEF AgentRestarts
  <2>2. disk' \in Certs /\ cert' \in Certs
    BY <1>7 DEF AgentRestarts, TypeOK, AgentOK
  <2>3. QED BY <1>7, <2>1, <2>2 DEF AgentRestarts, AgentOK
<1>8. CASE Crash
  BY <1>8 DEF Crash, Lost, AgentOK, TypeOK
<1>9. CASE UNCHANGED <<disk, cert, ren, linked, reloaded, misses>>
  BY <1>9 DEF AgentOK, TypeOK
<1>10. QED BY <1>1, <1>2, <1>3, <1>4, <1>5, <1>6, <1>7, <1>8, <1>9 DEF Next, LoadRoot,
                GenerateRoot, StoreRoot, Revoke, AddRevoked, RenameRevoked, Handshake,
                CheckReads, CheckCaches, agentVars

LEMMA PlacesStep ==
  ASSUME IInv, Next
  PROVE  Places'
<1> USE DEF IInv
<1>1. CASE LoadRoot
  BY <1>1 DEF LoadRoot, Places, StorageLocked, agentVars
<1>2. CASE GenerateRoot
  <2>1. PICK first, data \in {file, Empty} : GenerateRoot!2!(first, data)
    BY <1>2 DEF GenerateRoot
  <2>2. data \in Files /\ NewRoot \in 1 .. MaxRoots
    BY <2>1, NewRootType DEF TypeOK, StorageOK, Files, Empty
  <2>3. [data EXCEPT !.root = NewRoot] \in Files
    BY <2>2 DEF Files
  <2>4. tmp' \in Files
    BY <2>1, <2>3 DEF Write
  <2>5. QED BY <1>2, <2>4 DEF GenerateRoot, Places, agentVars
<1>3. CASE StoreRoot
  BY <1>3 DEF StoreRoot, Places, StorageLocked, TypeOK, ServerOK, Server, AgentOK, agentVars
<1>4. ASSUME NEW s \in Serials, Revoke(s)
      PROVE  Places'
  BY <1>4 DEF Revoke, Places, StorageLocked, agentVars
<1>5. CASE AddRevoked
  BY <1>5 DEF AddRevoked, Added, Write, RevokeReturns, Empty, Places, StorageLocked, TypeOK,
       StorageOK, ServerOK, Files, agentVars
<1>6. CASE RenameRevoked
  BY <1>6 DEF RenameRevoked, RevokeReturns, Places, StorageLocked, agentVars
<1>7. CASE Handshake
  BY <1>7 DEF Handshake, Places, StorageLocked, TypeOK, AgentOK, Certs, caVars, agentVars
<1>8. CASE CheckReads
  BY <1>8 DEF CheckReads, Checked, Places, StorageLocked, agentVars
<1>9. CASE CheckCaches
  BY <1>9 DEF CheckCaches, Places, StorageLocked, agentVars
<1>10. CASE Accept
  BY <1>10 DEF Accept, NoCheck, Places, StorageLocked, caVars
<1>11. CASE Day
  BY <1>11 DEF Day, Places, StorageLocked, caVars
<1>12. CASE CheckCertExpiry
  BY <1>12 DEF CheckCertExpiry, Places, StorageLocked, caVars
<1>13. CASE SignCSR
  BY <1>13 DEF SignCSR, Places, StorageLocked
<1>14. CASE AutoRenew
  BY <1>14 DEF AutoRenew, Places, StorageLocked, caVars
<1>15. CASE Cut
  BY <1>15 DEF Cut, Lost, Places, StorageLocked, caVars
<1>16. CASE AgentRestarts
  BY <1>16 DEF AgentRestarts, NoCheck, Places, StorageLocked, caVars
<1>17. CASE Crash
  BY <1>17 DEF Crash, Lost, NoCheck, Places, StorageLocked
<1>18. QED BY <1>1, <1>2, <1>3, <1>4, <1>5, <1>6, <1>7, <1>8, <1>9, <1>10, <1>11, <1>12,
   <1>13, <1>14, <1>15, <1>16, <1>17 DEF Next

LEMMA ReplacesStep ==
  ASSUME IInv, Next
  PROVE  Replaces'
<1> USE DEF IInv
<1>1. CASE LoadRoot
  BY <1>1 DEF LoadRoot, Replaces, StorageLocked
<1>2. CASE GenerateRoot
  <2>1. PICK first, data \in {file, Empty} : GenerateRoot!2!(first, data)
    BY <1>2 DEF GenerateRoot
  <2>2. data \in Files
    BY DEF TypeOK, StorageOK, Files, Empty
  <2>3. [data EXCEPT !.root = NewRoot].revoked = data.revoked
    BY <2>2 DEF Files
  <2>4. rev'.pc = "idle"
    BY <1>2 DEF GenerateRoot, Places
  <2>5. QED BY <2>1, <2>3, <2>4 DEF Write, Replaces
<1>3. CASE StoreRoot
  BY <1>3 DEF StoreRoot, Replaces, Places, StorageLocked, TypeOK, ServerOK, Server
<1>4. ASSUME NEW s \in Serials, Revoke(s)
      PROVE  Replaces'
  BY <1>4 DEF Revoke, Replaces, StorageLocked
<1>5. CASE AddRevoked
  <2>1. PICK data \in {file, Empty} : AddRevoked!2!(data)
    BY <1>5 DEF AddRevoked
  <2>2. data \in Files /\ rev.serial \in Serials /\ ca.pc # "store"
    BY <1>5 DEF AddRevoked, TypeOK, StorageOK, Places, Files, Empty
  <2>3. /\ Added(data, rev.serial).revoked = data.revoked \cup {rev.serial}
        /\ Added(data, rev.serial).root = data.root
    BY <2>2 DEF Added
  <2>4. CASE rev.serial \in data.revoked
    BY <1>5, <2>1, <2>2, <2>4 DEF AddRevoked, RevokeReturns, Replaces, StorageLocked
  <2>5. CASE rev.serial \notin data.revoked
    <3>1. /\ tmp' = Added(data, rev.serial) /\ file' = file
          /\ wiped' = (wiped \/ data # file) /\ rev'.serial = rev.serial
      BY <1>5, <2>1, <2>5 DEF Write, TypeOK, ServerOK
    <3>2. QED BY <2>3, <3>1 DEF Replaces
  <2>6. QED BY <2>4, <2>5
<1>6. CASE RenameRevoked
  BY <1>6 DEF RenameRevoked, RevokeReturns, Replaces, Places, StorageLocked
<1>7. CASE SignCSR
  BY <1>7 DEF SignCSR, Replaces, StorageLocked
<1>8. CASE Crash
  BY <1>8 DEF Crash, Replaces, StorageLocked
<1>9. CASE UNCHANGED <<file, tmp, ca, rev, wiped>>
  BY <1>9 DEF Replaces, StorageLocked
<1>10. QED BY <1>1, <1>2, <1>3, <1>4, <1>5, <1>6, <1>7, <1>8, <1>9 DEF Next, Handshake,
                CheckReads, CheckCaches, Accept, Day, CheckCertExpiry, AutoRenew, Cut,
                AgentRestarts, caVars

LEMMA RememberedStep ==
  ASSUME IInv, Next
  PROVE  Remembered'
<1> USE DEF IInv
<1>1. CASE LoadRoot
  BY <1>1 DEF LoadRoot, Remembered, Places, TypeOK, StorageOK, Unknown
<1>2. CASE GenerateRoot
  BY <1>2 DEF GenerateRoot, Write, Remembered, Places, TypeOK, StorageOK, Unknown
<1>3. CASE StoreRoot
  BY <1>3 DEF StoreRoot, Rename, Remembered, Replaces, StorageLocked
<1>4. ASSUME NEW s \in Serials, Revoke(s)
      PROVE  Remembered'
  BY <1>4 DEF Revoke, Remembered, TypeOK, ServerOK
<1>5. CASE AddRevoked
  BY <1>5 DEF AddRevoked, Write, RevokeReturns, Empty, Remembered, TypeOK, StorageOK, ServerOK
<1>6. CASE RenameRevoked
  BY <1>6 DEF RenameRevoked, Rename, RevokeReturns, Remembered, Replaces, StorageLocked
<1>7. CASE Handshake
  BY <1>7 DEF Handshake, NoCheck, Remembered, caVars
<1>8. CASE CheckReads
  BY <1>8, ZenonT(60) DEF CheckReads, Read, Checked, Empty, Remembered, Places, Replaces, StorageLocked,
       TypeOK, StorageOK, ServerOK, Unknown, Files, Server, Checks, caVars, agentVars
<1>9. CASE CheckCaches
  BY <1>9 DEF CheckCaches, Remembered, Places, Replaces, StorageLocked, TypeOK, StorageOK,
       ServerOK, Unknown, Checks
<1>10. CASE Accept
  BY <1>10 DEF Accept, NoCheck, Remembered, caVars
<1>11. CASE AgentRestarts
  BY <1>11 DEF AgentRestarts, NoCheck, Remembered, caVars
<1>12. CASE Crash
  BY <1>12 DEF Crash, NoCheck, Remembered, TypeOK, StorageOK, Unknown
<1>13. CASE UNCHANGED <<file, cache, rev, check, revoked, raced, wiped>>
  BY <1>13 DEF Remembered
<1>14. QED BY <1>1, <1>2, <1>3, <1>4, <1>5, <1>6, <1>7, <1>8, <1>9, <1>10, <1>11, <1>12,
   <1>13 DEF Next, Day, CheckCertExpiry, SignCSR, AutoRenew, Cut, caVars, agentVars

LEMMA RefusedStep ==
  ASSUME IInv, Next
  PROVE  RevokedRefused'
<1> USE DEF IInv
<1>1. CASE GenerateRoot
  BY <1>1 DEF GenerateRoot, RevokedRefused
<1>2. CASE AddRevoked
  BY <1>2 DEF AddRevoked, RevokedRefused
<1>3. CASE Handshake
  BY <1>3 DEF Handshake, RevokedRefused, Remembered, TypeOK, ServerOK, caVars
<1>4. CASE CheckReads
  BY <1>4 DEF CheckReads, Checked, RevokedRefused
<1>5. CASE CheckCaches
  BY <1>5 DEF CheckCaches, RevokedRefused, Remembered, TypeOK, ServerOK, Checks
<1>6. CASE Accept
  BY <1>6 DEF Accept, NoCheck, RevokedRefused
<1>7. CASE AgentRestarts
  BY <1>7 DEF AgentRestarts, NoCheck, RevokedRefused
<1>8. CASE Crash
  BY <1>8 DEF Crash, NoCheck, RevokedRefused
<1>9. CASE UNCHANGED <<check, raced, wiped>>
  BY <1>9 DEF RevokedRefused
<1>10. QED BY <1>1, <1>2, <1>3, <1>4, <1>5, <1>6, <1>7, <1>8, <1>9 DEF Next, LoadRoot,
                StoreRoot, Revoke, RenameRevoked, Day, CheckCertExpiry, SignCSR, AutoRenew, Cut,
                caVars

LEMMA OneRootStep ==
  ASSUME IInv, Next
  PROVE  OneRoot'
<1> USE DEF IInv
<1>1. CASE LoadRoot
  BY <1>1 DEF LoadRoot, HasRoot, Empty, OneRoot, agentVars
<1>2. CASE GenerateRoot
  BY <1>2 DEF GenerateRoot, OneRoot
<1>3. CASE StoreRoot
  BY <1>3 DEF StoreRoot, OneRoot
<1>4. CASE AddRevoked
  BY <1>4 DEF AddRevoked, Write, OneRoot, agentVars
<1>5. CASE RenameRevoked
  BY <1>5 DEF RenameRevoked, Rename, OneRoot, Replaces, agentVars
<1>6. CASE Day
  BY <1>6 DEF Day, OneRoot, caVars
<1>7. CASE SignCSR
  BY <1>7 DEF SignCSR, OneRoot
<1>8. CASE AutoRenew
  BY <1>8 DEF AutoRenew, Issue, OneRoot, Places, caVars
<1>9. CASE AgentRestarts
  BY <1>9 DEF AgentRestarts, OneRoot, caVars
<1>10. CASE Crash
  BY <1>10 DEF Crash, OneRoot
<1>11. CASE UNCHANGED <<file, ca, cert, reloaded, wiped>>
  BY <1>11 DEF OneRoot
<1>12. QED BY <1>1, <1>2, <1>3, <1>4, <1>5, <1>6, <1>7, <1>8, <1>9, <1>10, <1>11 DEF Next,
                Revoke, Handshake, CheckReads, CheckCaches, Accept, CheckCertExpiry, Cut,
                caVars, agentVars

LEMMA InTimeStep ==
  ASSUME IInv, Next
  PROVE  InTime'
<1> USE DEF IInv
<1>1. CASE Day
  BY <1>1 DEF Day, InTime, TypeOK, AgentOK, Certs
<1>2. CASE CheckCertExpiry
  BY <1>2 DEF CheckCertExpiry, Due, Failed, InTime, TypeOK, AgentOK, Certs
<1>3. CASE SignCSR
  BY <1>3 DEF SignCSR, InTime
<1>4. CASE AutoRenew
  BY <1>4 DEF AutoRenew, Issue, InTime
<1>5. CASE Cut
  BY <1>5 DEF Cut, Lost, InTime
<1>6. CASE AgentRestarts
  BY <1>6 DEF AgentRestarts, InTime
<1>7. CASE Crash
  BY <1>7 DEF Crash, Lost, InTime
<1>8. CASE UNCHANGED <<ren, reloaded, misses, cert>>
  BY <1>8 DEF InTime
<1>9. QED BY <1>1, <1>2, <1>3, <1>4, <1>5, <1>6, <1>7, <1>8 DEF Next, LoadRoot, GenerateRoot,
               StoreRoot, Revoke, AddRevoked, RenameRevoked, Handshake, CheckReads, CheckCaches,
               Accept, agentVars

-----------------------------------------------------------------------------
LEMMA InvInit == Init => IInv
<1> SUFFICES ASSUME Init PROVE IInv
  OBVIOUS
<1>1. Issue(1, 2) \in Certs
  BY DEF Issue, Certs, Serials
<1>2. StorageOK
  <2>1. 1 \in 1 .. MaxRoots
    OBVIOUS
  <2>2. file \in Files
    BY <2>1 DEF Init, Files
  <2>3. tmp \in Files \cup {None} /\ revoked \subseteq Serials /\ wiped \in BOOLEAN
    BY DEF Init
  <2>4. QED BY <2>2, <2>3 DEF StorageOK
<1>3. ServerOK
  <2>1. 1 \in 1 .. MaxRoots /\ 1 # None /\ 2 \in 0 .. MaxSerial
    OBVIOUS
  <2>2. ca \in Server /\ ca.root # None /\ ca.serial > 0
    BY <2>1 DEF Init, Server
  <2>3. cache \in [Serials -> {"unknown", "true", "false"}]
    BY DEF Init, Unknown
  <2>4. rev \in [pc: {"idle", "persist", "rename"}, serial: Serials \cup {None}]
    BY DEF Init
  <2>5. check \in Checks /\ raced \in BOOLEAN
    BY DEF Init, Checks, NoCheck
  <2>6. QED BY <2>2, <2>3, <2>4, <2>5 DEF ServerOK
<1>4. misses \in 0 .. RenewBelow
  BY DEF Init
<1>5. AgentOK
  BY <1>1, <1>4 DEF Init, AgentOK
<1>6. Places /\ Replaces
  BY DEF Init, Places, Replaces, StorageLocked, NoCheck
<1>7. Remembered /\ RevokedRefused
  BY DEF Init, Remembered, RevokedRefused, NoCheck
<1>8. OneRoot
  BY DEF Init, OneRoot, Issue
<1>9. InTime
  BY DEF Init, InTime, Issue
<1>10. QED BY <1>2, <1>3, <1>5, <1>6, <1>7, <1>8, <1>9 DEF IInv, TypeOK

LEMMA InvStutter ==
  ASSUME IInv, UNCHANGED vars
  PROVE  IInv'
<1> USE DEF IInv, vars, caVars, agentVars
<1>1. StorageOK' /\ ServerOK'
  BY DEF TypeOK, StorageOK, ServerOK
<1>2. AgentOK'
  BY DEF TypeOK, AgentOK
<1>3. Places' /\ Replaces'
  BY DEF Places, Replaces, StorageLocked
<1>4. Remembered' /\ RevokedRefused'
  BY DEF Remembered, RevokedRefused
<1>5. OneRoot' /\ InTime'
  BY DEF OneRoot, InTime
<1>6. QED BY <1>1, <1>2, <1>3, <1>4, <1>5 DEF TypeOK

(***************************************************************************)
(* What the files, the cache, a revocation, a check and the renewal owe to *)
(* each other holds in every reachable state of the CA and the agent.      *)
(***************************************************************************)
THEOREM InvHolds == Spec => []IInv
<1>1. IInv /\ [Next]_vars => IInv'
  BY StorageStep, ServerStep, AgentStep, PlacesStep, ReplacesStep, RememberedStep, RefusedStep,
       OneRootStep, InTimeStep, InvStutter DEF IInv, TypeOK
<1>2. QED BY InvInit, <1>1, PTL DEF Spec

(***************************************************************************)
(* The files, the server's memory and the agent's certificates keep their  *)
(* types: no step renames a temporary file that is not there or hands out  *)
(* a certificate without a root.                                           *)
(***************************************************************************)
THEOREM TypeCorrect == Spec => []TypeOK
<1>1. IInv => TypeOK
  BY DEF IInv
<1>2. QED BY InvHolds, <1>1, PTL

(***************************************************************************)
(* For any number of serials: once Revoke has returned, no new connection  *)
(* with that serial is accepted, through crashes, restarts and failed      *)
(* writes at every point, unless a check overtook the revocation or the    *)
(* file was replaced without having been read.                             *)
(***************************************************************************)
THEOREM RevocationSound == Spec => []RevokedRefused
<1>1. IInv => RevokedRefused
  BY DEF IInv
<1>2. QED BY InvHolds, <1>1, PTL

(***************************************************************************)
(* For every validity and every threshold below it: a running agent always *)
(* has a certificate that is valid with the server, unless it missed       *)
(* RenewBelow checks in a row, waits for a lost answer, was restarted, or  *)
(* the root was replaced.                                                  *)
(***************************************************************************)
THEOREM AccessSound == Spec => []NeverLockedOut
<1>1. IInv => NeverLockedOut
  BY DEF IInv, TypeOK, AgentOK, Certs, OneRoot, InTime, NeverLockedOut, Valid
<1>2. QED BY InvHolds, <1>1, PTL
=============================================================================
