----------------------------- MODULE EnrolProofs -----------------------------
(***************************************************************************)
(* Proofs about module Enrol, for any number of bootstrap processes, key   *)
(* pairs, ports, invitations, faults and delays: what the files of a Relay *)
(* say is true, one invitation at most is open, and only faults lead into  *)
(* a dead end.                                                             *)
(*                                                                         *)
(* The profile is true because everything an attempt to join carries stays *)
(* of one piece: the claim on its way, the answer, and the key pair that   *)
(* the process holds are those of the attempt that waits, and Control      *)
(* registers the port of the claim it grants.  That no dead end comes      *)
(* without a fault rests on the lock: whoever prepares the directory holds *)
(* it, and what is unfinished is what its holder has still to do.          *)
(***************************************************************************)
EXTENDS Enrol, TLAPS

Working == {"key", "ca.key", "ca.der", "create", "init", "invite", "write"}
Joining == {"join", "wait", "key", "profile"}

BootRecord ==
    [pc : {"idle", "lock", "key", "ca.key", "ca.der", "create", "init", "invite", "write"},
     id : Invites \cup {0}]
ProcRecord ==
    [pc : {"off", "join", "wait", "key", "profile", "serving"},
     id : Invites \cup {0}, key : Keys \cup {None}, cert : Keys \cup {None}]
ClaimRecord == [id : Invites, key : Keys, port : Qad]
AnswerRecord == [key : Keys, ok : BOOLEAN, cert : Keys \cup {None}]
RelayRecord == [port : Qad]
ProfileRecord == [port : Qad, cert : Keys \cup {None}]

\* TypeOK, with names for its records.
Types ==
    /\ files \subseteq Files /\ db \in {"absent", "empty", "ready"}
    /\ invites \in [Invites -> {None, "pending", "claimed"}] /\ expired \subseteq Invites
    /\ relay = None \/ relay \in RelayRecord
    /\ join \in Invites \cup {0} /\ lock \in Boots \cup {None, "run"} /\ up \in BOOLEAN
    /\ boot \in [Boots -> BootRecord] /\ proc \in ProcRecord
    /\ opt \in Qad /\ qadKey \in Keys \cup {None}
    /\ profile = None \/ profile \in ProfileRecord
    /\ net \subseteq ClaimRecord /\ answers \subseteq AnswerRecord
    /\ faults \in 0 .. MaxFaults /\ delays \in 0 .. MaxDelays

\* Control's lock is with the process that works on the directory, or with the server;
\* no Relay is registered while an invitation waits to be written.
LockIsHeld ==
    /\ \A b \in Boots : boot[b].pc \in Working <=> lock = b
    /\ up <=> lock = "run"
    /\ up => db = "ready"
    /\ \A b \in Boots : boot[b].pc = "write" => boot[b].id \in Invites /\ relay = None

\* A process joins only without a profile, and serves only with one.
ProfileDecides ==
    /\ proc.pc \in Joining => profile = None /\ proc.id \in Invites
    /\ proc.pc = "serving" => profile # None

\* The claim and the answer of the attempt that waits are about its key and its port.
AttemptIsOfOnePiece ==
    /\ proc.pc = "wait" =>
         /\ \A c \in net : c.key = proc.key => c.port = opt
         /\ \A a \in answers : a.key = proc.key /\ a.ok =>
              relay # None /\ relay.port = opt /\ (opt # None => a.cert = proc.key)
    /\ proc.pc = "key" => opt # None /\ proc.cert = proc.key
    /\ proc.pc = "profile" /\ opt # None => qadKey = proc.cert

\* What bootstrap has done so far, in the order in which it does it.
BootInOrder ==
    \A b \in Boots :
        /\ boot[b].pc \in {"key", "ca.key", "ca.der", "create", "init"} => db # "ready"
        /\ boot[b].pc \in {"invite", "write"} => db = "ready"
        /\ boot[b].pc \in {"ca.key", "ca.der", "create", "init"} => "key" \in files
        /\ boot[b].pc \in {"ca.der", "create", "init"} => "ca.key" \in files
        /\ boot[b].pc \in {"create", "init"} => "ca.der" \in files

\* Without a fault: everybody agrees on the port,
PortsAgree ==
    /\ \A c \in net : c.port = opt
    /\ relay # None => relay.port = opt
    /\ profile # None => profile.port = opt

\* the directory is empty, complete, or being prepared,
DirectoryIsComplete ==
    /\ db # "ready" /\ files # {} =>
         \E b \in Boots : boot[b].pc \in {"ca.key", "ca.der", "create", "init"}
    /\ db = "ready" =>
         /\ files = Files
         /\ join # 0 \/ relay # None \/ \E b \in Boots : boot[b].pc \in {"invite", "write"}

\* and the invitation file, without which nobody joins, names an invitation that can be
\* claimed, until a new one is about to replace it.
FileIsGood ==
    /\ expired = {}
    /\ proc.id # 0 \/ net # {} \/ relay # None => join # 0
    /\ join # 0 => invites[join] # None \/ \E b \in Boots : boot[b].pc = "write"
    /\ \A b \in Boots : boot[b].pc = "write" => invites[boot[b].id] # None

Inv ==
    /\ Types /\ LockIsHeld /\ BootInOrder
    /\ ProfileDecides /\ AttemptIsOfOnePiece /\ KeyFitsCertificate /\ EnrolledIsRegistered
    /\ OneWayIn
    /\ faults = 0 => PortsAgree /\ DirectoryIsComplete /\ FileIsGood

-----------------------------------------------------------------------------
(* bootstrap.                                                              *)

\* A fault is counted.
LEMMA FaultCounts ==
    ASSUME Inv, faults < MaxFaults, faults' = faults + 1
    PROVE  faults' \in 0..MaxFaults /\ faults' # 0
<1> Types
  BY Zenon DEF Inv
<1>1. faults \in 0..MaxFaults
  BY Zenon DEF Types
<1>2. MaxFaults \in Nat
  BY Zenon, EnrolAssumption
<1>. QED
  BY <1>1, <1>2

\* What is known of a bootstrap process.
LEMMA BootFacts ==
    ASSUME Inv, NEW b \in Boots
    PROVE  /\ boot \in [Boots -> BootRecord] /\ boot[b] \in BootRecord
           /\ b # None /\ b # "run"
           /\ boot[b].pc \in {"idle", "lock"} \cup Working
           /\ boot[b].pc \in Working <=> lock = b
           /\ faults \in Nat
<1> Types /\ LockIsHeld
  BY Zenon DEF Inv
<1>1. boot \in [Boots -> BootRecord] /\ boot[b] \in BootRecord /\ faults \in 0..MaxFaults
  BY Zenon DEF Types
<1>2. boot[b].pc \in {"idle", "lock"} \cup Working
  BY Zenon, <1>1 DEF BootRecord, Working
<1>. QED
  BY <1>1, <1>2, EnrolAssumption DEF LockIsHeld

\* A process moves on.
LEMMA BootMoves ==
    ASSUME Inv, NEW b \in Boots, NEW pc \in {"idle", "lock"} \cup Working,
           boot' = [boot EXCEPT ![b].pc = pc]
    PROVE  /\ boot' \in [Boots -> BootRecord]
           /\ boot'[b].pc = pc /\ boot'[b].id = boot[b].id
           /\ \A c \in Boots \ {b} : boot'[c] = boot[c]
<1> DEFINE nb == [boot[b] EXCEPT !.pc = pc]
<1>1. boot \in [Boots -> BootRecord] /\ boot[b] \in BootRecord
  BY Zenon, BootFacts
<1>2. nb \in BootRecord /\ nb.pc = pc /\ nb.id = boot[b].id
  BY Zenon, <1>1 DEF BootRecord, Working
<1>3. boot' = [boot EXCEPT ![b] = nb]
  BY Zenon
<1> HIDE DEF nb
<1>. QED
  BY Zenon, <1>1, <1>2, <1>3

\* A process ends.
LEMMA BootEnds ==
    ASSUME Inv, NEW b \in Boots, boot' = [boot EXCEPT ![b] = Idle]
    PROVE  /\ boot' \in [Boots -> BootRecord] /\ boot'[b].pc = "idle" /\ boot'[b].id = 0
           /\ \A c \in Boots \ {b} : boot'[c] = boot[c]
<1>1. Idle \in BootRecord /\ Idle.pc = "idle" /\ Idle.id = 0
  BY Zenon DEF Idle, BootRecord
<1> HIDE DEF Idle
<1>. QED
  BY Zenon, <1>1, BootFacts

\* bootstrap does not touch what the Relay has or sends.
LEMMA NodeFrame ==
    ASSUME Inv, UNCHANGED <<relay, node, wire>>,
           Types', LockIsHeld', BootInOrder', OneWayIn',
           faults' = 0 => faults = 0 /\ DirectoryIsComplete' /\ FileIsGood'
    PROVE  Inv'
<1> /\ ProfileDecides /\ AttemptIsOfOnePiece /\ KeyFitsCertificate /\ EnrolledIsRegistered
    /\ (faults = 0 => PortsAgree)
  BY Zenon DEF Inv
<1>1. ProfileDecides' /\ AttemptIsOfOnePiece' /\ KeyFitsCertificate' /\ EnrolledIsRegistered'
  BY Zenon DEF node, wire, ProfileDecides, AttemptIsOfOnePiece, KeyFitsCertificate,
         EnrolledIsRegistered
<1>2. faults = 0 => PortsAgree'
  BY Zenon DEF node, wire, PortsAgree
<1>. QED
  BY Zenon, <1>1, <1>2 DEF Inv

\* Nothing is changed without the lock but the process's own place.
LEMMA BootBeginInv ==
    ASSUME Inv, NEW b \in Boots, BootBegin(b)
    PROVE  Inv'
<1> /\ Types /\ LockIsHeld /\ BootInOrder /\ OneWayIn
    /\ (faults = 0 => DirectoryIsComplete /\ FileIsGood)
  BY Zenon DEF Inv
<1>1. UNCHANGED <<store, lock, up, node, wire, bounds>> /\ boot' = [boot EXCEPT ![b].pc = "lock"]
      /\ boot[b].pc = "idle"
  BY Zenon DEF BootBegin
<1>2. /\ boot' \in [Boots -> BootRecord] /\ boot'[b].pc = "lock"
      /\ \A c \in Boots \ {b} : boot'[c] = boot[c]
  BY <1>1, BootMoves, Zenon
<1>3. \A c \in Boots : boot'[c] = boot[c] \/ (c = b /\ boot[c].pc \notin Working
      /\ boot'[c].pc \notin Working)
  BY Zenon, <1>1, <1>2 DEF Working
<1>4. Types'
  BY Zenon, <1>1, <1>2 DEF Types, store, disk, node, wire, bounds
<1>5. LockIsHeld' /\ BootInOrder' /\ OneWayIn'
  BY Zenon, <1>1, <1>3 DEF LockIsHeld, BootInOrder, OneWayIn, store, disk, Working
<1>6. faults = 0 => DirectoryIsComplete' /\ FileIsGood'
  BY Zenon, <1>1, <1>3 DEF DirectoryIsComplete, FileIsGood, store, disk, node, wire, bounds, Working
<1>. QED
  BY Zenon, <1>1, <1>4, <1>5, <1>6, NodeFrame DEF bounds, store, disk

\* The lock, with all of the state or none of it.
LEMMA BootLockInv ==
    ASSUME Inv, NEW b \in Boots, BootLock(b)
    PROVE  Inv'
<1> /\ Types /\ LockIsHeld /\ BootInOrder /\ OneWayIn
    /\ (faults = 0 => DirectoryIsComplete /\ FileIsGood)
  BY Zenon DEF Inv
<1>1. UNCHANGED <<store, up, node, wire, bounds>> /\ boot[b].pc = "lock"
  BY Zenon DEF BootLock
<1>2. CASE LockFree /\ Consistent /\ db # "empty"
  <2> DEFINE pc == IF db = "ready" THEN "invite" ELSE "key"
  <2>1. lock = None /\ lock' = b /\ boot' = [boot EXCEPT ![b].pc = pc]
    BY Zenon, <1>2 DEF BootLock, LockFree
  <2>2. pc \in {"invite", "key"} /\ pc \in Working /\ (pc = "invite" <=> db = "ready")
    BY Zenon DEF Working
  <2> HIDE DEF pc
  <2>3. /\ boot' \in [Boots -> BootRecord] /\ boot'[b].pc = pc
        /\ \A c \in Boots \ {b} : boot'[c] = boot[c]
    BY <2>1, <2>2, BootMoves, Zenon
  <2>4. \A c \in Boots : boot[c].pc \notin Working
    BY Zenon, <2>1, EnrolAssumption DEF LockIsHeld
  <2>5. Types'
    BY Zenon, <1>1, <2>1, <2>3 DEF Types, store, disk, node, wire, bounds
  <2>6. LockIsHeld'
    <3>1. ~up /\ lock' # "run"
      BY Zenon, <2>1, EnrolAssumption DEF LockIsHeld
    <3>. QED
      BY Zenon, <1>1, <3>1, <2>1, <2>2, <2>3, <2>4, EnrolAssumption
         DEF LockIsHeld, store, disk, Working
  <2>7. BootInOrder' /\ OneWayIn'
    BY Zenon, <1>1, <2>2, <2>3, <2>4 DEF BootInOrder, OneWayIn, store, disk, Working
  <2>8. faults = 0 => DirectoryIsComplete' /\ FileIsGood'
    BY Zenon, <1>1, <2>2, <2>3, <2>4
       DEF DirectoryIsComplete, FileIsGood, store, disk, node, wire, Working
  <2>. QED
    BY Zenon, <1>1, <2>5, <2>6, <2>7, <2>8, NodeFrame DEF bounds, store, disk
<1>3. CASE ~(LockFree /\ Consistent /\ db # "empty")
  <2>1. lock' = lock /\ boot' = [boot EXCEPT ![b] = Idle]
    BY Zenon, <1>3 DEF BootLock
  <2>2. /\ boot' \in [Boots -> BootRecord] /\ boot'[b].pc = "idle"
        /\ \A c \in Boots \ {b} : boot'[c] = boot[c]
    BY <2>1, BootEnds, Zenon
  <2>3. \A c \in Boots : boot'[c] = boot[c] \/ (c = b /\ boot[c].pc \notin Working
        /\ boot'[c].pc \notin Working)
    BY Zenon, <1>1, <2>2 DEF Working
  <2>4. Types'
    BY Zenon, <1>1, <2>1, <2>2 DEF Types, store, disk, node, wire, bounds
  <2>5. LockIsHeld' /\ BootInOrder' /\ OneWayIn'
    BY Zenon, <1>1, <2>1, <2>3 DEF LockIsHeld, BootInOrder, OneWayIn, store, disk, Working
  <2>6. faults = 0 => DirectoryIsComplete' /\ FileIsGood'
    BY Zenon, <1>1, <2>3 DEF DirectoryIsComplete, FileIsGood, store, disk, node, wire, Working
  <2>. QED
    BY Zenon, <1>1, <2>4, <2>5, <2>6, NodeFrame DEF bounds, store, disk
<1>. QED
  BY Zenon, <1>2, <1>3

\* The files, one after the other.
LEMMA BootFileInv ==
    ASSUME Inv, NEW b \in Boots, NEW f \in Files, BootFile(b, f)
    PROVE  Inv'
<1> Types /\ LockIsHeld /\ BootInOrder /\ OneWayIn /\ (faults = 0 => FileIsGood)
  BY Zenon DEF Inv
<1>1. /\ UNCHANGED <<db, invites, relay, expired, join, lock, up, node, wire, bounds>>
      /\ boot[b].pc = f /\ files' = files \cup {f}
  BY Zenon DEF BootFile
<1>2. PICK pc \in Working :
        /\ boot' = [boot EXCEPT ![b].pc = pc]
        /\ (f = "key" /\ pc = "ca.key") \/ (f = "ca.key" /\ pc = "ca.der") \/ (f = "ca.der" /\ pc = "create")
  <2>1. CASE f = "key"
    BY Zenon, <2>1 DEF BootFile, Working
  <2>2. CASE f = "ca.key"
    BY Zenon, <2>2 DEF BootFile, Working
  <2>3. CASE f = "ca.der"
    BY Zenon, <2>3 DEF BootFile, Working
  <2>. QED
    BY Zenon, <2>1, <2>2, <2>3 DEF Files
<1>3. /\ boot' \in [Boots -> BootRecord] /\ boot'[b].pc = pc /\ boot'[b].id = boot[b].id
      /\ \A c \in Boots \ {b} : boot'[c] = boot[c]
  BY <1>2, BootMoves, Zenon
<1>4. lock = b /\ \A c \in Boots \ {b} : boot[c].pc \notin Working
  BY Zenon, <1>1, <1>2 DEF Working, LockIsHeld
<1>5. Types'
  BY ZenonT(60), <1>1, <1>3 DEF Types, node, wire, bounds, Files
<1>6. LockIsHeld'
  BY Zenon, <1>1, <1>2, <1>3, <1>4 DEF LockIsHeld, Working
<1>7. BootInOrder'
  <2>1. db # "ready"
    BY Zenon, <1>1, <1>2 DEF BootInOrder
  <2>2. /\ "key" \in files'
        /\ pc \in {"ca.der", "create"} => "ca.key" \in files'
        /\ pc = "create" => "ca.der" \in files'
    BY Zenon, <1>1, <1>2 DEF BootInOrder
  <2>. QED
    BY Zenon, <1>1, <1>2, <1>3, <1>4, <2>1, <2>2 DEF BootInOrder, Working
<1>8. OneWayIn'
  BY Zenon, <1>1 DEF OneWayIn
<1>9. faults = 0 => DirectoryIsComplete' /\ FileIsGood'
  <2>1. db # "ready"
    BY Zenon, <1>1, <1>2 DEF BootInOrder
  <2>2. DirectoryIsComplete'
    BY Zenon, <1>1, <1>2, <1>3, <2>1 DEF DirectoryIsComplete
  <2>3. faults = 0 => FileIsGood'
    BY Zenon, <1>1, <1>2, <1>3, <1>4 DEF FileIsGood, node, wire, Working
  <2>. QED
    BY Zenon, <2>2, <2>3
<1>. QED
  BY Zenon, <1>1, <1>5, <1>6, <1>7, <1>8, <1>9, NodeFrame DEF bounds

\* The database, in two transactions.
LEMMA BootCreateInv ==
    ASSUME Inv, NEW b \in Boots, BootCreate(b)
    PROVE  Inv'
<1> Types /\ LockIsHeld /\ BootInOrder /\ OneWayIn /\ (faults = 0 => FileIsGood)
  BY Zenon DEF Inv
<1>1. UNCHANGED <<files, invites, relay, expired, join, lock, up, node, wire, bounds>>
  BY Zenon DEF BootCreate
<1>2. PICK pc \in Working :
        /\ boot' = [boot EXCEPT ![b].pc = pc]
        /\ \/ boot[b].pc = "create" /\ pc = "init" /\ db' = "empty"
           \/ boot[b].pc = "init" /\ pc = "invite" /\ db' = "ready"
  BY Zenon DEF BootCreate, Working
<1>3. /\ boot' \in [Boots -> BootRecord] /\ boot'[b].pc = pc /\ boot'[b].id = boot[b].id
      /\ \A c \in Boots \ {b} : boot'[c] = boot[c]
  BY <1>2, BootMoves, Zenon
<1>4. lock = b /\ ~up /\ \A c \in Boots \ {b} : boot[c].pc \notin Working
  BY Zenon, <1>2, BootFacts DEF Working, LockIsHeld
<1>5. files = Files
  BY Zenon, <1>2 DEF BootInOrder, Types, Files
<1>6. Types'
  BY Zenon, <1>1, <1>2, <1>3 DEF Types, node, wire, bounds
<1>7. LockIsHeld'
  BY Zenon, <1>1, <1>2, <1>3, <1>4 DEF LockIsHeld, Working
<1>8. BootInOrder'
  BY Zenon, <1>1, <1>2, <1>3, <1>4, <1>5 DEF BootInOrder, Working, Files
<1>9. OneWayIn'
  BY Zenon, <1>1 DEF OneWayIn
<1>10. faults = 0 => DirectoryIsComplete' /\ FileIsGood'
  <2>1. DirectoryIsComplete'
    BY Zenon, <1>1, <1>2, <1>3, <1>5 DEF DirectoryIsComplete
  <2>2. faults = 0 => FileIsGood'
    BY Zenon, <1>1, <1>2, <1>3, <1>4 DEF FileIsGood, node, wire, Working
  <2>. QED
    BY Zenon, <2>1, <2>2
<1>. QED
  BY Zenon, <1>1, <1>6, <1>7, <1>8, <1>9, <1>10, NodeFrame DEF bounds

\* A new invitation replaces the pending ones, unless a Relay is registered.
LEMMA BootInviteInv ==
    ASSUME Inv, NEW b \in Boots, BootInvite(b)
    PROVE  Inv'
<1> /\ Types /\ LockIsHeld /\ BootInOrder /\ OneWayIn
    /\ (faults = 0 => DirectoryIsComplete /\ FileIsGood)
  BY Zenon DEF Inv
<1>1. UNCHANGED <<files, db, relay, expired, join, up, node, wire, bounds>> /\ boot[b].pc = "invite"
  BY Zenon DEF BootInvite
<1>2. /\ lock = b /\ \A c \in Boots \ {b} : boot[c].pc \notin Working
      /\ ~up /\ db = "ready"
  BY Zenon, <1>1, BootFacts DEF Working, LockIsHeld, BootInOrder
<1>3. ASSUME NEW i \in Fresh, relay = None, invites' = [Superseded EXCEPT ![i] = "pending"],
             boot' = [boot EXCEPT ![b] = [pc |-> "write", id |-> i]], lock' = lock
      PROVE  Inv'
  <2> DEFINE nb == [pc |-> "write", id |-> i]
  <2>1. i \in Invites
    BY Zenon DEF Fresh
  <2>2. nb \in BootRecord /\ nb.pc = "write" /\ nb.id = i /\ boot' = [boot EXCEPT ![b] = nb]
    BY Zenon, <1>3, <2>1 DEF BootRecord
  <2> HIDE DEF nb
  <2>3. /\ boot' \in [Boots -> BootRecord] /\ boot'[b].pc = "write" /\ boot'[b].id = i
        /\ \A c \in Boots \ {b} : boot'[c] = boot[c]
    BY Zenon, <2>2, BootFacts
  <2>4. /\ invites' \in [Invites -> {None, "pending", "claimed"}] /\ invites'[i] = "pending"
        /\ \A j \in Invites \ {i} : invites'[j] # "pending"
    BY Zenon, <1>3, <2>1, EnrolAssumption DEF Superseded, Types
  <2>5. Types'
    BY Zenon, <1>1, <1>3, <2>3, <2>4 DEF Types, node, wire, bounds
  <2>6. LockIsHeld'
    BY Zenon, <1>1, <1>2, <1>3, <2>1, <2>3 DEF LockIsHeld, Working
  <2>7. BootInOrder'
    BY Zenon, <1>1, <1>2, <2>3 DEF BootInOrder, Working
  <2>8. OneWayIn'
    BY Zenon, <1>1, <1>3, <2>4 DEF OneWayIn
  <2>9. faults = 0 => DirectoryIsComplete' /\ FileIsGood'
    <3>1. faults = 0 => DirectoryIsComplete'
      BY Zenon, <1>1, <1>2, <2>3 DEF DirectoryIsComplete
    <3>2. invites'[i] # None
      BY Zenon, <2>4, EnrolAssumption
    <3>3. faults = 0 => FileIsGood'
      BY <1>1, <1>2, <2>3, <3>2 DEF FileIsGood, node, wire, Working
    <3>. QED
      BY Zenon, <3>1, <3>3
  <2>. QED
    BY Zenon, <1>1, <2>5, <2>6, <2>7, <2>8, <2>9, NodeFrame DEF bounds
<1>4. ASSUME relay # None, boot' = [boot EXCEPT ![b] = Idle], lock' = None, UNCHANGED invites
      PROVE  Inv'
  <2>1. /\ boot' \in [Boots -> BootRecord] /\ boot'[b].pc = "idle"
        /\ \A c \in Boots \ {b} : boot'[c] = boot[c]
    BY <1>4, BootEnds, Zenon
  <2>2. \A c \in Boots : boot'[c].pc \notin Working
    BY Zenon, <1>2, <2>1 DEF Working
  <2>3. Types'
    BY Zenon, <1>1, <1>4, <2>1 DEF Types, node, wire, bounds
  <2>4. LockIsHeld'
    BY Zenon, <1>1, <1>2, <1>4, <2>2, EnrolAssumption DEF LockIsHeld, Working
  <2>5. BootInOrder' /\ OneWayIn'
    BY Zenon, <1>1, <1>4, <2>2 DEF BootInOrder, OneWayIn, Working
  <2>6. faults = 0 => DirectoryIsComplete' /\ FileIsGood'
    BY Zenon, <1>1, <1>2, <1>4, <2>2 DEF DirectoryIsComplete, FileIsGood, node, wire, Working
  <2>. QED
    BY Zenon, <1>1, <2>3, <2>4, <2>5, <2>6, NodeFrame DEF bounds
<1>. QED
  BY Zenon, <1>3, <1>4 DEF BootInvite, NeedsInvite

\* The invitation file.
LEMMA BootWriteInv ==
    ASSUME Inv, NEW b \in Boots, BootWrite(b)
    PROVE  Inv'
<1> /\ Types /\ LockIsHeld /\ BootInOrder /\ OneWayIn
    /\ (faults = 0 => DirectoryIsComplete /\ FileIsGood)
  BY Zenon DEF Inv
<1>1. /\ UNCHANGED <<files, db, invites, relay, expired, up, node, wire, bounds>>
      /\ boot[b].pc = "write"
      /\ join' = boot[b].id /\ boot' = [boot EXCEPT ![b] = Idle] /\ lock' = None
  BY Zenon DEF BootWrite, disk
<1>2. /\ lock = b /\ \A c \in Boots \ {b} : boot[c].pc \notin Working
      /\ ~up /\ db = "ready" /\ join' \in Invites
  BY Zenon, <1>1, BootFacts DEF Working, LockIsHeld, BootInOrder
<1>3. /\ boot' \in [Boots -> BootRecord] /\ boot'[b].pc = "idle"
      /\ \A c \in Boots \ {b} : boot'[c] = boot[c]
  BY <1>1, BootEnds, Zenon
<1>4. \A c \in Boots : boot'[c].pc \notin Working
  BY Zenon, <1>2, <1>3 DEF Working
<1>5. Types'
  BY Zenon, <1>1, <1>2, <1>3 DEF Types, node, wire, bounds
<1>6. LockIsHeld'
  BY Zenon, <1>1, <1>2, <1>4, EnrolAssumption DEF LockIsHeld, Working
<1>7. BootInOrder' /\ OneWayIn'
  BY Zenon, <1>1, <1>4 DEF BootInOrder, OneWayIn, Working
<1>8. faults = 0 => DirectoryIsComplete' /\ FileIsGood'
  <2>1. join' # 0
    BY <1>2, EnrolAssumption DEF Invites
  <2>. QED
    BY Zenon, <1>1, <1>2, <1>4, <2>1 DEF DirectoryIsComplete, FileIsGood, node, wire, Working
<1>. QED
  BY Zenon, <1>1, <1>5, <1>6, <1>7, <1>8, NodeFrame DEF bounds

\* A crash frees the lock.
LEMMA BootCrashInv ==
    ASSUME Inv, NEW b \in Boots, BootCrash(b)
    PROVE  Inv'
<1> Types /\ LockIsHeld /\ BootInOrder /\ OneWayIn
  BY Zenon DEF Inv
<1>1. /\ UNCHANGED <<files, db, invites, relay, expired, join, up, node, wire, delays>>
      /\ boot' = [boot EXCEPT ![b] = Idle] /\ lock' = IF lock = b THEN None ELSE lock
      /\ faults < MaxFaults /\ faults' = faults + 1
  BY Zenon DEF BootCrash, Fault, store, disk
<1>2. faults' \in 0..MaxFaults /\ faults' # 0
  BY Zenon, <1>1, FaultCounts
<1>3. /\ boot' \in [Boots -> BootRecord] /\ boot'[b].pc = "idle"
      /\ \A c \in Boots \ {b} : boot'[c] = boot[c]
  BY <1>1, BootEnds, Zenon
<1>4. Types'
  BY Zenon, <1>1, <1>2, <1>3 DEF Types, node, wire
<1>5. LockIsHeld'
  BY <1>1, <1>3, EnrolAssumption DEF LockIsHeld, Working
<1>6. BootInOrder' /\ OneWayIn'
  BY Zenon, <1>1, <1>3 DEF BootInOrder, OneWayIn
<1>. QED
  BY Zenon, <1>1, <1>2, <1>4, <1>5, <1>6, NodeFrame

-----------------------------------------------------------------------------
(* as-control run.                                                         *)

\* What the state of the Relay and of the wire is made of.
LEMMA NodeFacts ==
    ASSUME Inv
    PROVE  /\ proc \in ProcRecord /\ opt \in Qad /\ qadKey \in Keys \cup {None}
           /\ profile = None \/ profile \in ProfileRecord
           /\ relay = None \/ relay \in RelayRecord
           /\ net \subseteq ClaimRecord /\ answers \subseteq AnswerRecord
           /\ join \in Invites \cup {0} /\ 0 \notin Invites
           /\ faults \in Nat /\ delays \in Nat /\ up \in BOOLEAN
<1> Types
  BY Zenon DEF Inv
<1>1. 0 \notin Invites
  BY EnrolAssumption DEF Invites
<1>2. faults \in Nat /\ delays \in Nat
  BY EnrolAssumption DEF Types
<1>. QED
  BY Zenon, <1>1, <1>2 DEF Types

\* The server takes the lock.
LEMMA RunInv ==
    ASSUME Inv, Run
    PROVE  Inv'
<1> /\ Types /\ LockIsHeld /\ BootInOrder /\ OneWayIn
    /\ (faults = 0 => DirectoryIsComplete /\ FileIsGood)
  BY Zenon DEF Inv
<1>1. /\ UNCHANGED <<store, boot, node, wire, bounds>> /\ lock = None /\ up' = TRUE /\ lock' = "run"
      /\ db = "ready" /\ db' = db
  BY Zenon DEF Run, store, disk
<1>2. \A b \in Boots : boot[b].pc \notin Working
  BY Zenon, <1>1, EnrolAssumption DEF LockIsHeld
<1>3. Types'
  BY Zenon, <1>1 DEF Types, store, disk, node, wire, bounds
<1>4. LockIsHeld'
  BY Zenon, <1>1, <1>2, EnrolAssumption DEF LockIsHeld, Working
<1>5. BootInOrder' /\ OneWayIn'
  BY Zenon, <1>1 DEF BootInOrder, OneWayIn, store, disk
<1>6. faults = 0 => DirectoryIsComplete' /\ FileIsGood'
  BY Zenon, <1>1 DEF DirectoryIsComplete, FileIsGood, store, disk, node, wire
<1>. QED
  BY Zenon, <1>1, <1>3, <1>4, <1>5, <1>6, NodeFrame DEF store, disk, bounds

\* The server stops, and requests are lost.
LEMMA RunStopsInv ==
    ASSUME Inv, RunStops
    PROVE  Inv'
<1> /\ LockIsHeld /\ BootInOrder /\ ProfileDecides /\ AttemptIsOfOnePiece /\ KeyFitsCertificate
    /\ EnrolledIsRegistered /\ OneWayIn
  BY Zenon DEF Inv
<1>1. /\ UNCHANGED <<store, boot, node, delays>> /\ up /\ up' = FALSE /\ lock' = None
      /\ net' = {} /\ answers' = {} /\ faults < MaxFaults /\ faults' = faults + 1
  BY Zenon DEF RunStops, Fault
<1>2. faults' \in 0..MaxFaults /\ faults' # 0
  BY Zenon, <1>1, FaultCounts
<1>3. lock = "run" /\ \A b \in Boots : boot[b].pc \notin Working
  BY Zenon, <1>1, EnrolAssumption DEF LockIsHeld
<1>4. Types'
  <2>1. UNCHANGED <<files, db, invites, expired, relay, join, boot, proc, opt, qadKey, profile, delays>>
    BY Zenon, <1>1 DEF store, disk, node
  <2>2. Types
    BY Zenon DEF Inv
  <2>3. net' = {} /\ answers' = {} /\ up' \in BOOLEAN /\ lock' = None
    BY Zenon, <1>1
  <2>. QED
    BY Zenon, <1>2, <2>1, <2>2, <2>3 DEF Types
<1>5. LockIsHeld'
  BY Zenon, <1>1, <1>3, EnrolAssumption DEF LockIsHeld, Working
<1>6. BootInOrder' /\ OneWayIn'
  BY Zenon, <1>1 DEF BootInOrder, OneWayIn, store, disk
<1>7. ProfileDecides' /\ AttemptIsOfOnePiece' /\ KeyFitsCertificate' /\ EnrolledIsRegistered'
  BY Zenon, <1>1
     DEF node, store, disk, ProfileDecides, AttemptIsOfOnePiece, KeyFitsCertificate,
         EnrolledIsRegistered
<1>. QED
  BY Zenon, <1>2, <1>4, <1>5, <1>6, <1>7 DEF Inv

\* A claim is answered, and the first one with a pending invitation registers the Relay.
LEMMA ClaimInv ==
    ASSUME Inv, NEW c \in net, Claim(c)
    PROVE  Inv'
<1> /\ Types /\ LockIsHeld /\ BootInOrder /\ ProfileDecides /\ AttemptIsOfOnePiece
    /\ KeyFitsCertificate /\ EnrolledIsRegistered /\ OneWayIn
  BY Zenon DEF Inv
<1>1. /\ UNCHANGED <<files, db, expired, join, lock, boot, up, node, bounds>>
      /\ up /\ net' = net \ {c}
  BY Zenon DEF Claim
<1>2. c.id \in Invites /\ c.key \in Keys /\ c.port \in Qad
  BY Zenon, NodeFacts DEF ClaimRecord
<1>3. \A b \in Boots : boot[b].pc \notin Working
  BY Zenon, <1>1, EnrolAssumption DEF LockIsHeld
<1> DEFINE ok == Valid(c) /\ (First(c) \/ Repeat(c))
           ans == Answer(c, ok)
<1>4. /\ ok \in BOOLEAN
      /\ answers' = IF proc.pc = "wait" /\ proc.key = c.key THEN {ans} ELSE answers
  <2>1. ok \in BOOLEAN
    BY Zenon
  <2>. QED
    BY Zenon, <2>1 DEF Claim
<1>5. ans \in AnswerRecord /\ ans.key = c.key /\ ans.ok = ok /\ (ok
      /\ c.port # None => ans.cert = c.key)
  BY Zenon, <1>2, <1>4 DEF Answer, AnswerRecord
<1>6. /\ relay' = None \/ relay' \in RelayRecord
      /\ invites' \in [Invites -> {None, "pending", "claimed"}]
      /\ relay # None => relay' = relay
      /\ \A i \in Invites : invites'[i] = invites[i] \/ (invites'[i] = "claimed" /\ invites[i] # None)
      /\ relay' # relay => relay' = [port |-> c.port] /\ invites[c.id] = "pending" /\ invites'[c.id] = "claimed"
      /\ invites' # invites => relay' # relay
      /\ ok => relay' # None /\ relay'.port = c.port
  <2>1. CASE Valid(c) /\ First(c)
    <3>1. /\ relay = None /\ invites[c.id] = "pending" /\ relay' = [port |-> c.port]
          /\ invites' = [invites EXCEPT ![c.id] = "claimed"]
      BY Zenon, <2>1 DEF Claim, First
    <3>2. relay' \in RelayRecord /\ relay'.port = c.port /\ relay' # None
      BY <1>2, <3>1, EnrolAssumption DEF Qad, RelayRecord
    <3>3. /\ invites \in [Invites -> {None, "pending", "claimed"}]
          /\ "pending" # None
      BY Zenon, EnrolAssumption DEF Types
    <3>. QED
      BY Zenon, <1>2, <3>1, <3>2, <3>3
  <2>2. CASE ~(Valid(c) /\ First(c))
    <3>1. UNCHANGED <<relay, invites>>
      BY Zenon, <2>2 DEF Claim
    <3>2. ok => relay # None /\ relay.port = c.port
      BY Zenon, <2>2 DEF Repeat
    <3>. QED
      BY Zenon, <3>1, <3>2 DEF Types
  <2>. QED
    BY Zenon, <2>1, <2>2
<1> HIDE DEF ok, ans
<1>7. Types'
  BY Zenon, <1>1, <1>4, <1>5, <1>6 DEF Types, node, bounds
<1>8. LockIsHeld' /\ BootInOrder'
  BY Zenon, <1>1, <1>3 DEF LockIsHeld, BootInOrder, Working
<1>9. OneWayIn'
  BY Zenon, <1>2, <1>6 DEF OneWayIn
<1>10. ProfileDecides' /\ KeyFitsCertificate' /\ EnrolledIsRegistered'
  BY Zenon, <1>1, <1>6 DEF node, ProfileDecides, KeyFitsCertificate, EnrolledIsRegistered
<1>11. AttemptIsOfOnePiece'
  <2>1. UNCHANGED <<proc, opt, qadKey>>
    BY Zenon, <1>1 DEF node
  <2>2. ASSUME proc.pc = "wait", NEW a \in answers', a.key = proc.key, a.ok
        PROVE  relay' # None /\ relay'.port = opt /\ (opt # None => a.cert = proc.key)
    <3>1. CASE a \in answers
      BY Zenon, <1>6, <2>2, <3>1 DEF AttemptIsOfOnePiece
    <3>2. CASE a \notin answers
      <4>1. a = ans /\ proc.key = c.key
        BY Zenon, <1>4, <2>2, <3>2
      <4>2. ok /\ c.port = opt
        BY Zenon, <1>5, <2>2, <4>1 DEF AttemptIsOfOnePiece
      <4>. QED
        BY Zenon, <1>5, <1>6, <4>1, <4>2
    <3>. QED
      BY Zenon, <3>1, <3>2
  <2>. QED
    BY Zenon, <1>1, <2>1, <2>2 DEF AttemptIsOfOnePiece
<1>12. faults = 0 => PortsAgree' /\ DirectoryIsComplete' /\ FileIsGood'
  <2> SUFFICES ASSUME faults = 0 PROVE PortsAgree' /\ DirectoryIsComplete' /\ FileIsGood'
    BY Zenon
  <2>1. PortsAgree /\ DirectoryIsComplete /\ FileIsGood /\ net # {}
    BY Zenon DEF Inv
  <2>2. PortsAgree'
    BY <1>1, <1>6, <2>1 DEF PortsAgree, node
  <2>3. join # 0
    BY Zenon, <2>1 DEF FileIsGood
  <2>4. DirectoryIsComplete'
    BY Zenon, <1>1, <2>1, <2>3 DEF DirectoryIsComplete
  <2>5. FileIsGood'
    <3>1. invites[join] # None /\ join \in Invites
      BY Zenon, NodeFacts, <1>3, <2>1, <2>3 DEF FileIsGood, Working
    <3>2. invites'[join] # None
      BY Zenon, <1>6, <3>1, EnrolAssumption
    <3>. QED
      BY Zenon, <1>1, <1>3, <2>1, <2>3, <3>2 DEF FileIsGood, node, Working
  <2>. QED
    BY Zenon, <2>2, <2>4, <2>5
<1>. QED
  BY Zenon, <1>1, <1>7, <1>8, <1>9, <1>10, <1>11, <1>12 DEF Inv, bounds

\* A Relay that serves reports its port.
LEMMA ReportPortInv ==
    ASSUME Inv, ReportPort
    PROVE  Inv'
<1> /\ Types /\ LockIsHeld /\ BootInOrder /\ ProfileDecides /\ AttemptIsOfOnePiece
    /\ KeyFitsCertificate /\ EnrolledIsRegistered /\ OneWayIn
    /\ (faults = 0 => PortsAgree /\ DirectoryIsComplete /\ FileIsGood)
  BY Zenon DEF Inv
<1>1. /\ UNCHANGED <<files, db, invites, expired, join, lock, boot, up, node, wire, bounds>>
      /\ up /\ proc.pc = "serving" /\ relay # None /\ relay' = [port |-> profile.port]
  BY Zenon DEF ReportPort
<1>2. profile # None /\ profile.port \in Qad
  BY Zenon, <1>1, NodeFacts DEF ProfileDecides, ProfileRecord
<1>3. relay' \in RelayRecord /\ relay' # None /\ relay'.port = profile.port
  BY <1>1, <1>2, EnrolAssumption DEF Qad, RelayRecord
<1>4. \A b \in Boots : boot[b].pc \notin Working
  BY Zenon, <1>1, EnrolAssumption DEF LockIsHeld
<1>5. Types'
  BY Zenon, <1>1, <1>3 DEF Types, node, wire, bounds
<1>6. LockIsHeld' /\ BootInOrder' /\ OneWayIn'
  BY Zenon, <1>1, <1>4 DEF LockIsHeld, BootInOrder, OneWayIn, Working
<1>7. ProfileDecides' /\ AttemptIsOfOnePiece' /\ KeyFitsCertificate' /\ EnrolledIsRegistered'
  BY Zenon, <1>1, <1>3
     DEF node, wire, ProfileDecides, AttemptIsOfOnePiece, KeyFitsCertificate,
         EnrolledIsRegistered
<1>8. faults = 0 => PortsAgree' /\ DirectoryIsComplete' /\ FileIsGood'
  BY Zenon, <1>1, <1>2, <1>3 DEF PortsAgree, DirectoryIsComplete, FileIsGood, node, wire
<1>. QED
  BY Zenon, <1>1, <1>5, <1>6, <1>7, <1>8 DEF Inv, bounds

-----------------------------------------------------------------------------
(* The Relay.                                                              *)

\* The Relay touches nothing of Control's.
LEMMA DirectoryFrame ==
    ASSUME Inv, UNCHANGED <<store, lock, boot, up>>, Types',
           ProfileDecides', AttemptIsOfOnePiece', KeyFitsCertificate', EnrolledIsRegistered',
           faults' = 0 => /\ faults = 0 /\ PortsAgree'
                          /\ proc'.id # 0 \/ net' # {} => join # 0
    PROVE  Inv'
<1> /\ LockIsHeld /\ BootInOrder /\ OneWayIn
    /\ (faults = 0 => DirectoryIsComplete /\ FileIsGood)
  BY Zenon DEF Inv
<1>1. LockIsHeld' /\ BootInOrder' /\ OneWayIn'
  BY Zenon DEF LockIsHeld, BootInOrder, OneWayIn, store, disk
<1>2. faults' = 0 => DirectoryIsComplete' /\ FileIsGood'
  BY Zenon DEF DirectoryIsComplete, FileIsGood, store, disk
<1>. QED
  BY Zenon, <1>1, <1>2 DEF Inv

\* A Relay with a profile starts from it.
LEMMA StartInv ==
    ASSUME Inv, Start
    PROVE  Inv'
<1> /\ Types /\ ProfileDecides /\ AttemptIsOfOnePiece /\ KeyFitsCertificate
    /\ EnrolledIsRegistered /\ (faults = 0 => PortsAgree /\ FileIsGood)
  BY Zenon DEF Inv
<1> DEFINE np == [proc EXCEPT !.pc = "serving"]
           nf == [profile EXCEPT !.port = opt]
<1>1. /\ UNCHANGED <<store, lock, boot, up, opt, qadKey, wire, bounds>>
      /\ proc.pc = "off" /\ profile # None /\ QadUsable /\ (opt = None <=> profile.port = None)
      /\ proc' = np /\ profile' = nf
  BY Zenon DEF Start
<1>2. np \in ProcRecord /\ np.pc = "serving" /\ np.id = proc.id
  BY Zenon, NodeFacts DEF ProcRecord
<1>3. nf \in ProfileRecord /\ nf.port = opt /\ nf.cert = profile.cert
  BY Zenon, NodeFacts, <1>1 DEF ProfileRecord
<1> HIDE DEF np, nf
<1>4. profile' # None
  BY Zenon, <1>1, <1>3, EnrolAssumption DEF Qad, ProfileRecord
<1>5. Types'
  BY Zenon, <1>1, <1>2, <1>3 DEF Types, store, disk, wire, bounds
<1>6. ProfileDecides' /\ AttemptIsOfOnePiece' /\ EnrolledIsRegistered'
  BY Zenon, <1>1, <1>2, <1>4
     DEF ProfileDecides, AttemptIsOfOnePiece, EnrolledIsRegistered, store, disk, Joining
<1>7. KeyFitsCertificate'
  BY Zenon, <1>1, <1>3 DEF KeyFitsCertificate
<1>8. faults' = 0 => /\ faults = 0 /\ PortsAgree'
                     /\ proc'.id # 0 \/ net' # {} => join # 0
  BY Zenon, <1>1, <1>2, <1>3 DEF PortsAgree, FileIsGood, store, disk, wire, bounds
<1>. QED
  BY Zenon, <1>1, <1>5, <1>6, <1>7, <1>8, DirectoryFrame

\* The invitation is read, and the claim sent with a new key pair.
LEMMA AttemptInv ==
    ASSUME Inv, ReadInvitation \/ SendClaim \/ Disconnected
    PROVE  Inv'
<1> /\ Types /\ ProfileDecides /\ AttemptIsOfOnePiece /\ KeyFitsCertificate
    /\ EnrolledIsRegistered /\ (faults = 0 => PortsAgree /\ FileIsGood)
  BY Zenon DEF Inv
<1>1. UNCHANGED <<store, lock, boot, up, opt, qadKey, profile, answers, bounds>>
  BY Zenon DEF ReadInvitation, SendClaim, Disconnected, wire
<1>2. UNCHANGED <<faults, relay, join>>
  BY Zenon, <1>1 DEF bounds, store, disk
<1>3. CASE ReadInvitation
  <2> DEFINE np == [proc EXCEPT !.pc = "join", !.id = join]
  <2>1. profile = None /\ join # 0 /\ proc' = np /\ net' = net
    BY Zenon, <1>3 DEF ReadInvitation, wire
  <2>2. np \in ProcRecord /\ np.pc = "join" /\ np.id = join
    BY Zenon, NodeFacts DEF ProcRecord
  <2> HIDE DEF np
  <2>3. Types'
    BY Zenon, <1>1, <2>1, <2>2 DEF Types, store, disk, bounds
  <2>4. ProfileDecides' /\ AttemptIsOfOnePiece' /\ EnrolledIsRegistered' /\ KeyFitsCertificate'
    BY Zenon, NodeFacts, <1>1, <2>1, <2>2
       DEF ProfileDecides, AttemptIsOfOnePiece, EnrolledIsRegistered, KeyFitsCertificate,
           Joining
  <2>5. faults' = 0 => faults = 0 /\ PortsAgree' /\ join # 0
    BY Zenon, <1>1, <1>2, <2>1 DEF PortsAgree
  <2>. QED
    BY Zenon, <1>1, <2>3, <2>4, <2>5, DirectoryFrame
<1>4. CASE Disconnected
  <2> DEFINE np == [proc EXCEPT !.pc = "join", !.key = None]
  <2>1. proc.pc = "wait" /\ proc' = np /\ net' = net
    BY Zenon, <1>4 DEF Disconnected, wire
  <2>2. np \in ProcRecord /\ np.pc = "join" /\ np.id = proc.id
    BY Zenon, NodeFacts DEF ProcRecord
  <2> HIDE DEF np
  <2>3. Types'
    BY Zenon, <1>1, <2>1, <2>2 DEF Types, store, disk, bounds
  <2>4. ProfileDecides' /\ AttemptIsOfOnePiece' /\ EnrolledIsRegistered' /\ KeyFitsCertificate'
    BY Zenon, <1>1, <1>2, <2>1, <2>2
       DEF ProfileDecides, AttemptIsOfOnePiece, EnrolledIsRegistered, KeyFitsCertificate,
           Joining
  <2>5. faults' = 0 => /\ faults = 0 /\ PortsAgree'
                       /\ proc'.id # 0 \/ net' # {} => join # 0
    BY <1>1, <1>2, <2>1, <2>2, Zenon DEF PortsAgree, FileIsGood
  <2>. QED
    BY Zenon, <1>1, <2>3, <2>4, <2>5, DirectoryFrame
<1>5. CASE SendClaim
  <2>1. PICK k \in Unused :
           /\ proc' = [proc EXCEPT !.pc = "wait", !.key = k]
           /\ net' = net \cup {[id |-> proc.id, key |-> k, port |-> opt]}
    BY <1>5, Zenon DEF SendClaim
  <2> DEFINE np == [proc EXCEPT !.pc = "wait", !.key = k]
             nc == [id |-> proc.id, key |-> k, port |-> opt]
  <2>2. k \in Keys /\ (\A c \in net : c.key # k) /\ (\A a \in answers : a.key # k)
    BY Zenon DEF Unused
  <2>3. proc.pc = "join" /\ profile = None /\ proc.id \in Invites
    BY <1>5, Zenon DEF SendClaim, ProfileDecides, Joining
  <2>4. np \in ProcRecord /\ np.pc = "wait" /\ np.id = proc.id /\ np.key = k
    BY Zenon, NodeFacts, <2>2 DEF ProcRecord
  <2>5. nc \in ClaimRecord /\ nc.key = k /\ nc.port = opt
    BY Zenon, NodeFacts, <2>2, <2>3 DEF ClaimRecord
  <2>6. proc' = np /\ net' = net \cup {nc}
    BY Zenon, <2>1
  <2> HIDE DEF np, nc
  <2>7. Types'
    <3>1. net' \subseteq ClaimRecord
      BY Zenon, NodeFacts, <2>5, <2>6
    <3>. QED
      BY Zenon, <1>1, <2>4, <2>6, <3>1 DEF Types, store, disk, bounds
  <2>8. ProfileDecides' /\ EnrolledIsRegistered' /\ KeyFitsCertificate'
    BY Zenon, <1>1, <1>2, <2>3, <2>4, <2>6
       DEF ProfileDecides, EnrolledIsRegistered, KeyFitsCertificate, Joining
  <2>9. AttemptIsOfOnePiece'
    BY Zenon, <1>1, <2>2, <2>4, <2>5, <2>6 DEF AttemptIsOfOnePiece
  <2>10. faults' = 0 => faults = 0 /\ PortsAgree' /\ join # 0
    BY Zenon, NodeFacts, <1>1, <1>2, <2>3, <2>5, <2>6 DEF PortsAgree, FileIsGood
  <2>. QED
    BY Zenon, <1>1, <2>7, <2>8, <2>9, <2>10, DirectoryFrame
<1>. QED
  BY Zenon, <1>3, <1>4, <1>5

\* A process that is gone takes part in nothing.
LEMMA OffFacts == Off \in ProcRecord /\ Off.pc = "off" /\ Off.id = 0
BY Zenon DEF Off, ProcRecord

\* The process ends: by itself, or by a crash.
LEMMA ProcEndsInv ==
    ASSUME Inv, UNCHANGED <<store, lock, boot, up, opt, qadKey, profile, net>>,
           proc' = Off, answers' \subseteq answers, faults' \in 0..MaxFaults, faults' >= faults,
           delays' \in 0..MaxDelays
    PROVE  Inv'
<1> /\ Types /\ ProfileDecides /\ AttemptIsOfOnePiece /\ KeyFitsCertificate
    /\ EnrolledIsRegistered /\ (faults = 0 => PortsAgree /\ FileIsGood)
  BY Zenon DEF Inv
<1> USE OffFacts
<1>1. Types'
  <2>1. answers' \subseteq AnswerRecord /\ proc' \in ProcRecord
    BY Zenon, NodeFacts
  <2>. QED
    BY Zenon, <2>1 DEF Types, store, disk
<1>2. ProfileDecides' /\ EnrolledIsRegistered' /\ KeyFitsCertificate' /\ AttemptIsOfOnePiece'
  BY Zenon DEF ProfileDecides, EnrolledIsRegistered, KeyFitsCertificate, AttemptIsOfOnePiece,
         Joining, store, disk
<1>3. faults' = 0 => faults = 0
  BY NodeFacts
<1>4. faults' = 0 => PortsAgree' /\ (proc'.id # 0 \/ net' # {} => join # 0)
  BY Zenon, <1>3 DEF PortsAgree, FileIsGood, store, disk
<1>. QED
  BY Zenon, <1>1, <1>2, <1>3, <1>4, DirectoryFrame

\* The three ways for it to end without an answer.
LEMMA RelayStopsInv ==
    ASSUME Inv, TimesOut \/ RelayCrash
    PROVE  Inv'
<1> Types
  BY Zenon DEF Inv
<1>1. UNCHANGED <<store, lock, boot, up, opt, qadKey, profile, net>> /\ proc' = Off
      /\ answers' \subseteq answers
  BY Zenon DEF TimesOut, RelayCrash
<1>2. faults \in 0..MaxFaults /\ delays \in 0..MaxDelays
  BY Zenon DEF Types
<1>3. \/ faults' = faults /\ delays < MaxDelays /\ delays' = delays + 1
      \/ delays' = delays /\ faults < MaxFaults /\ faults' = faults + 1
  BY Zenon DEF TimesOut, RelayCrash, Fault
<1>4. faults' \in 0..MaxFaults /\ faults' >= faults /\ delays' \in 0..MaxDelays
  BY <1>2, <1>3, EnrolAssumption
<1>. QED
  BY Zenon, <1>1, <1>4, ProcEndsInv

\* The answer is taken: the certificate is for the key the process holds.
LEMMA AnsweredInv ==
    ASSUME Inv, Answered
    PROVE  Inv'
<1> Types /\ ProfileDecides /\ AttemptIsOfOnePiece /\ (faults = 0 => PortsAgree /\ FileIsGood)
  BY Zenon DEF Inv
<1>1. UNCHANGED <<store, lock, boot, up, opt, qadKey, profile, net, faults, delays>>
      /\ proc.pc = "wait"
  BY Zenon DEF Answered, bounds
<1>2. PICK a \in answers :
        /\ a.key = proc.key /\ answers' = answers \ {a}
        /\ proc' = IF ~a.ok THEN Off
                   ELSE [proc EXCEPT !.pc = IF opt = None THEN "profile" ELSE "key", !.cert = a.cert]
  BY Zenon DEF Answered
<1>3. CASE ~a.ok
  <2>1. faults' \in 0..MaxFaults /\ faults' >= faults /\ delays' \in 0..MaxDelays
    BY <1>1 DEF Types
  <2>. QED
    BY Zenon, <1>1, <1>2, <1>3, <2>1, ProcEndsInv
<1>4. CASE a.ok
  <2> DEFINE pc == IF opt = None THEN "profile" ELSE "key"
             np == [proc EXCEPT !.pc = pc, !.cert = a.cert]
  <2>1. a \in AnswerRecord /\ a.cert \in Keys \cup {None}
    BY Zenon, NodeFacts DEF AnswerRecord
  <2>2. /\ np \in ProcRecord /\ np.pc = pc /\ np.id = proc.id /\ np.key = proc.key
        /\ np.cert = a.cert
        /\ (opt = None /\ pc = "profile") \/ (opt # None /\ pc = "key")
    BY Zenon, NodeFacts, <2>1 DEF ProcRecord
  <2>3. proc' = np
    BY Zenon, <1>2, <1>4
  <2>4. relay # None /\ relay.port = opt /\ (opt # None => a.cert = proc.key)
    BY Zenon, <1>1, <1>2, <1>4 DEF AttemptIsOfOnePiece
  <2>5. profile = None /\ proc.id \in Invites
    BY Zenon, <1>1 DEF ProfileDecides, Joining
  <2> HIDE DEF np, pc
  <2>6. Types'
    BY Zenon, <1>1, <1>2, <2>2, <2>3 DEF Types, store, disk
  <2>7. ProfileDecides' /\ AttemptIsOfOnePiece' /\ KeyFitsCertificate'
    BY Zenon, <1>1, <2>2, <2>3, <2>4, <2>5 DEF ProfileDecides, AttemptIsOfOnePiece, KeyFitsCertificate
  <2>8. EnrolledIsRegistered'
    BY Zenon, <1>1, <2>4, <2>5 DEF EnrolledIsRegistered, store, disk
  <2>9. faults' = 0 => /\ faults = 0 /\ PortsAgree'
                       /\ proc'.id # 0 \/ net' # {} => join # 0
    BY Zenon, <1>1, <2>2, <2>3 DEF PortsAgree, FileIsGood, store, disk
  <2>. QED
    BY Zenon, <1>1, <2>6, <2>7, <2>8, <2>9, DirectoryFrame
<1>. QED
  BY Zenon, <1>3, <1>4

\* The key is written, then the profile that makes it count.
LEMMA WriteInv ==
    ASSUME Inv, WriteQadKey \/ WriteProfile
    PROVE  Inv'
<1> /\ Types /\ ProfileDecides /\ AttemptIsOfOnePiece /\ EnrolledIsRegistered
    /\ (faults = 0 => PortsAgree /\ FileIsGood)
  BY Zenon DEF Inv
<1>1. UNCHANGED <<store, lock, boot, up, opt, net, answers, faults, delays>>
  BY Zenon DEF WriteQadKey, WriteProfile, wire, bounds
<1>2. UNCHANGED <<relay, join>>
  BY Zenon, <1>1 DEF store, disk
<1>3. CASE WriteQadKey
  <2> DEFINE np == [proc EXCEPT !.pc = "profile"]
  <2>1. proc.pc = "key" /\ qadKey' = proc.key /\ proc' = np /\ profile' = profile
    BY Zenon, <1>3 DEF WriteQadKey, KeyOnDisk
  <2>2. np \in ProcRecord /\ np.pc = "profile" /\ np.id = proc.id /\ np.cert = proc.cert
        /\ proc.key \in Keys \cup {None}
    BY Zenon, NodeFacts DEF ProcRecord
  <2> HIDE DEF np
  <2>3. profile = None /\ proc.id \in Invites /\ relay # None /\ relay.port = opt
        /\ proc.cert = proc.key
    BY Zenon, <2>1 DEF ProfileDecides, Joining, EnrolledIsRegistered, AttemptIsOfOnePiece
  <2>4. Types'
    BY Zenon, <1>1, <2>1, <2>2 DEF Types, store, disk
  <2>5. ProfileDecides' /\ AttemptIsOfOnePiece' /\ KeyFitsCertificate' /\ EnrolledIsRegistered'
    BY Zenon, <1>1, <1>2, <2>1, <2>2, <2>3
       DEF ProfileDecides, AttemptIsOfOnePiece, KeyFitsCertificate, EnrolledIsRegistered
  <2>6. faults' = 0 => /\ faults = 0 /\ PortsAgree'
                       /\ proc'.id # 0 \/ net' # {} => join # 0
    BY Zenon, <1>1, <1>2, <2>1, <2>2 DEF PortsAgree, FileIsGood
  <2>. QED
    BY Zenon, <1>1, <2>4, <2>5, <2>6, DirectoryFrame
<1>4. CASE WriteProfile
  <2> DEFINE nf == [port |-> opt, cert |-> proc.cert]
  <2>1. proc.pc = "profile" /\ profile' = nf /\ proc' = Off /\ qadKey' = qadKey
    BY Zenon, <1>4 DEF WriteProfile
  <2>2. nf \in ProfileRecord /\ nf.port = opt /\ nf.cert = proc.cert
    BY Zenon, NodeFacts DEF ProcRecord, ProfileRecord
  <2> HIDE DEF nf
  <2>3. relay # None /\ (opt # None => qadKey = proc.cert)
    BY Zenon, <2>1 DEF EnrolledIsRegistered, AttemptIsOfOnePiece
  <2>4. Types'
    BY Zenon, <1>1, <2>1, <2>2, OffFacts DEF Types, store, disk
  <2>5. ProfileDecides' /\ AttemptIsOfOnePiece' /\ KeyFitsCertificate' /\ EnrolledIsRegistered'
    BY Zenon, <1>1, <1>2, <2>1, <2>2, <2>3, OffFacts
       DEF ProfileDecides, AttemptIsOfOnePiece, KeyFitsCertificate, EnrolledIsRegistered, Joining
  <2>6. faults' = 0 => /\ faults = 0 /\ PortsAgree'
                       /\ proc'.id # 0 \/ net' # {} => join # 0
    BY Zenon, <1>1, <1>2, <2>1, <2>2, OffFacts DEF PortsAgree, FileIsGood
  <2>. QED
    BY Zenon, <1>1, <2>4, <2>5, <2>6, DirectoryFrame
<1>. QED
  BY Zenon, <1>3, <1>4

-----------------------------------------------------------------------------
\* Time and the operator: each counts as a fault.
LEMMA WorldInv ==
    ASSUME Inv, RemoveInvitation \/ ChangeOption \/ \E i \in Invites : Expire(i)
    PROVE  Inv'
<1> /\ Types /\ LockIsHeld /\ BootInOrder /\ ProfileDecides /\ AttemptIsOfOnePiece
    /\ KeyFitsCertificate /\ EnrolledIsRegistered /\ OneWayIn
  BY Zenon DEF Inv
<1>1. /\ UNCHANGED <<disk, lock, boot, up, proc, qadKey, profile, wire, delays>>
      /\ faults < MaxFaults /\ faults' = faults + 1
      /\ opt' \in Qad /\ (opt' # opt => proc.pc = "off")
      /\ expired' \subseteq Invites /\ join' \in Invites \cup {0}
  <2>1. CASE RemoveInvitation
    BY Zenon, <2>1 DEF RemoveInvitation, Fault, node, Types
  <2>2. CASE ChangeOption
    BY Zenon, <2>2 DEF ChangeOption, Fault, store, Types
  <2>3. ASSUME NEW i \in Invites, Expire(i) PROVE <1>1
    BY Zenon, <2>3 DEF Expire, Fault, node, Types
  <2>. QED
    BY Zenon, <2>1, <2>2, <2>3
<1>2. faults' \in 0..MaxFaults /\ faults' # 0
  BY Zenon, <1>1, FaultCounts
<1>3. Types'
  BY Zenon, <1>1, <1>2 DEF Types, disk, wire
<1>4. LockIsHeld' /\ BootInOrder' /\ OneWayIn'
  BY Zenon, <1>1 DEF LockIsHeld, BootInOrder, OneWayIn, disk
<1>5. ProfileDecides' /\ KeyFitsCertificate'
  BY Zenon, <1>1 DEF ProfileDecides, KeyFitsCertificate
<1>6. AttemptIsOfOnePiece' /\ EnrolledIsRegistered'
  BY Zenon, <1>1 DEF AttemptIsOfOnePiece, EnrolledIsRegistered, disk, wire
<1>. QED
  BY Zenon, <1>2, <1>3, <1>4, <1>5, <1>6 DEF Inv

\* There is nothing yet.
LEMMA InitInv == Init => Inv
<1> SUFFICES ASSUME Init PROVE Inv
  BY Zenon
<1>1. Idle \in BootRecord /\ Idle.pc = "idle" /\ boot = [b \in Boots |-> Idle]
  BY Zenon DEF Init, Idle, BootRecord
<1>2. /\ files = {} /\ db = "absent" /\ invites = [i \in Invites |-> None] /\ relay = None
      /\ expired = {} /\ join = 0 /\ lock = None /\ up = FALSE
      /\ proc = Off /\ opt \in Qad /\ qadKey = None /\ profile = None
      /\ net = {} /\ answers = {} /\ faults = 0 /\ delays = 0
  BY Zenon DEF Init
<1> HIDE DEF Idle
<1>3. boot \in [Boots -> BootRecord] /\ \A b \in Boots : boot[b].pc = "idle"
  BY Zenon, <1>1
<1>4. Types
  <2>1. faults \in 0..MaxFaults /\ delays \in 0..MaxDelays
    BY <1>2, EnrolAssumption
  <2>2. proc \in ProcRecord
    BY Zenon, <1>2, OffFacts
  <2>. QED
    BY Zenon, <1>2, <1>3, <2>1, <2>2 DEF Types
<1>5. LockIsHeld
  BY Zenon, <1>2, <1>3, EnrolAssumption DEF LockIsHeld, Working
<1>6. BootInOrder /\ DirectoryIsComplete /\ PortsAgree
  BY Zenon, <1>2, <1>3 DEF BootInOrder, DirectoryIsComplete, PortsAgree
<1>7. FileIsGood
  BY Zenon, <1>2, <1>3, OffFacts DEF FileIsGood
<1>8. ProfileDecides /\ AttemptIsOfOnePiece /\ KeyFitsCertificate /\ EnrolledIsRegistered
  BY Zenon, <1>2, OffFacts
     DEF ProfileDecides, AttemptIsOfOnePiece, KeyFitsCertificate, EnrolledIsRegistered, Joining
<1>9. OneWayIn
  BY Zenon, <1>2, EnrolAssumption DEF OneWayIn
<1>. QED
  BY Zenon, <1>4, <1>5, <1>6, <1>7, <1>8, <1>9 DEF Inv

\* Every step keeps the invariant.
LEMMA NextInv == Inv /\ [Next]_vars => Inv'
<1> SUFFICES ASSUME Inv, [Next]_vars PROVE Inv'
  BY Zenon
<1>1. ASSUME NEW b \in Boots, Boot(b) \/ BootCrash(b) PROVE Inv'
  BY Zenon, <1>1, BootBeginInv, BootLockInv, BootFileInv, BootCreateInv, BootInviteInv, BootWriteInv,
     BootCrashInv
     DEF Boot
<1>2. CASE Run \/ RunStops \/ ReportPort \/ \E c \in net : Claim(c)
  BY Zenon, <1>2, RunInv, RunStopsInv, ReportPortInv, ClaimInv
<1>3. CASE Relay \/ TimesOut \/ RelayCrash
  BY Zenon, <1>3, StartInv, AttemptInv, AnsweredInv, WriteInv, RelayStopsInv DEF Relay
<1>4. CASE RemoveInvitation \/ ChangeOption \/ \E i \in Invites : Expire(i)
  BY Zenon, <1>4, WorldInv
<1>5. CASE UNCHANGED vars
  <2>1. Types'
    BY Zenon, <1>5 DEF Inv, Types, vars, store, disk, node, wire, bounds
  <2>2. LockIsHeld' /\ BootInOrder' /\ OneWayIn'
    BY Zenon, <1>5 DEF Inv, LockIsHeld, BootInOrder, OneWayIn, vars, store, disk
  <2>3. faults = 0 => DirectoryIsComplete' /\ FileIsGood'
    BY Zenon, <1>5 DEF Inv, DirectoryIsComplete, FileIsGood, vars, store, disk, node, wire
  <2>. QED
    BY Zenon, <1>5, <2>1, <2>2, <2>3, NodeFrame DEF vars, store, disk, bounds
<1>. QED
  BY Zenon, <1>1, <1>2, <1>3, <1>4, <1>5 DEF Next

\* The invariant holds whatever crashes, expires or comes late during the first start.
THEOREM InvHolds == Spec => []Inv
BY InitInv, NextInv, PTL DEF Spec

\* Once a Relay has a profile, its qad.key is the key the certificate was issued for, and
\* Control has it registered (join_control, WriteQadKey before WriteProfile).
THEOREM ProfileStaysTrue == Spec => []ProfileIsTrue
<1>1. Inv => ProfileIsTrue
  BY Zenon DEF Inv, ProfileIsTrue, Types, TypeOK, BootRecord, ProcRecord, ClaimRecord, AnswerRecord,
         RelayRecord, ProfileRecord
<1>. QED
  BY <1>1, InvHolds, PTL

\* At most one invitation can be claimed, and none once a Relay is registered, however
\* often bootstrap runs or crashes.
THEOREM OneWayInForever == Spec => []OneWayIn
<1>1. Inv => OneWayIn
  BY Zenon DEF Inv
<1>. QED
  BY <1>1, InvHolds, PTL

\* Without a crash, an expiry, a removed file or a changed option no state is a dead end,
\* also when bootstraps race and answers come late.
THEOREM OnlyFaultsLeadAstray == Spec => []DeadEndsNeedFaults
<1>1. ASSUME Inv, faults = 0 PROVE ~DeadEnd
  <2>1. /\ LockIsHeld /\ PortsAgree /\ DirectoryIsComplete /\ FileIsGood
        /\ join \in Invites \cup {0} /\ 0 \notin Invites
    BY Zenon, <1>1, NodeFacts DEF Inv
  <2>2. (\E b \in Boots : boot[b].pc \in Working) => ~Quiet
    BY Zenon, <2>1 DEF LockIsHeld, Quiet
  <2>3. ~Incomplete
    BY Zenon, <2>1, <2>2 DEF Incomplete, DirectoryIsComplete, Working
  <2>4. (up \/ relay # None) => ~\E b \in Boots : boot[b].pc = "write"
    BY Zenon, <2>1, EnrolAssumption DEF LockIsHeld, Working
  <2>5. ~SpentFile
    BY Zenon, <2>1, <2>2 DEF SpentFile, Stale, FileIsGood, Working
  <2>6. ~LockedOut
    <3>1. up => db = "ready"
      BY Zenon, <1>1 DEF Inv, LockIsHeld
    <3>. QED
      BY Zenon, <2>1, <3>1, EnrolAssumption DEF LockedOut, LockIsHeld, DirectoryIsComplete, Working
  <2>7. ~Orphaned
    BY Zenon, <2>1, <2>4 DEF Orphaned, Stale, FileIsGood, PortsAgree
  <2>8. ~Misfit
    BY Zenon, <2>1 DEF Misfit, PortsAgree
  <2>. QED
    BY Zenon, <2>3, <2>5, <2>6, <2>7, <2>8 DEF DeadEnd
<1>2. Inv => DeadEndsNeedFaults
  BY Zenon, <1>1 DEF DeadEndsNeedFaults
<1>. QED
  BY <1>2, InvHolds, PTL
=============================================================================
