------------------------------- MODULE Enrol -------------------------------
(***************************************************************************)
(* First start of a deployment: as-control bootstrap prepares Control's    *)
(* state directory and the Relay's invitation file, as-control run serves  *)
(* it, as-relay run --join-if-needed claims the invitation and writes its  *)
(* QAD key and its profile.  Every file is replaced atomically; a crash    *)
(* may come between any two of them, and every command is started again.   *)
(***************************************************************************)
EXTENDS Naturals

CONSTANTS
    Boots,          \* bootstrap processes
    Keys,           \* QAD key pairs; a certificate is named by its key
    Ports,          \* public QAD ports
    MaxInvites,     \* bound: invitations ever created
    MaxFaults,      \* bound: crashes, expired or removed invitations, changed options
    MaxDelays,      \* bound: claims whose answer the Relay does not wait for
    None

ASSUME EnrolAssumption ==
    /\ "run" \notin Boots
    /\ None \notin Keys \cup Ports \cup Boots \cup {"run", "pending", "claimed"}
    /\ None \notin [port : Ports \cup {None}] \cup [port : Ports \cup {None}, cert : Keys \cup {None}]
    /\ MaxInvites \in Nat /\ MaxFaults \in Nat /\ MaxDelays \in Nat

VARIABLES
    files,      \* the files of Control's state directory that exist
    db,         \* control.db: absent, without its metadata row, or ready
    invites,    \* invitation -> its state in the database
    expired,    \* invitations past their time
    relay,      \* the Relay's record in the database: its QAD port
    join,       \* the invitation file
    lock,       \* holder of control.lock
    boot,       \* bootstrap process -> where it is, and the invitation it has created
    up,         \* as-control run is serving
    proc,       \* the Relay's process: where it is, its invitation, its key pair, its answer
    opt,        \* the QAD port in the Relay's options, None for --no-qad
    qadKey,     \* qad.key
    profile,    \* the Relay's control.json: QAD port and certificate
    net,        \* claims on their way to Control
    answers,    \* the answer on its way back, while somebody waits for it
    faults, delays

disk == <<files, db, invites, relay>>
store == <<disk, expired, join>>
node == <<proc, opt, qadKey, profile>>
wire == <<net, answers>>
bounds == <<faults, delays>>
vars == <<store, lock, boot, up, node, wire, bounds>>

Invites == 1 .. MaxInvites
Files == {"key", "ca.key", "ca.der"}
Qad == Ports \cup {None}
Idle == [pc |-> "idle", id |-> 0]
Off == [pc |-> "off", id |-> 0, key |-> None, cert |-> None]

TypeOK ==
    /\ files \subseteq Files /\ db \in {"absent", "empty", "ready"}
    /\ invites \in [Invites -> {None, "pending", "claimed"}] /\ expired \subseteq Invites
    /\ relay = None \/ relay \in [port : Qad]
    /\ join \in Invites \cup {0} /\ lock \in Boots \cup {None, "run"} /\ up \in BOOLEAN
    /\ boot \in [Boots -> [pc : {"idle", "lock", "key", "ca.key", "ca.der", "create", "init", "invite", "write"},
                           id : Invites \cup {0}]]
    /\ proc \in [pc : {"off", "join", "wait", "key", "profile", "serving"},
                 id : Invites \cup {0}, key : Keys \cup {None}, cert : Keys \cup {None}]
    /\ opt \in Qad /\ qadKey \in Keys \cup {None}
    /\ profile = None \/ profile \in [port : Qad, cert : Keys \cup {None}]
    /\ net \subseteq [id : Invites, key : Keys, port : Qad]
    /\ answers \subseteq [key : Keys, ok : BOOLEAN, cert : Keys \cup {None}]
    /\ faults \in 0 .. MaxFaults /\ delays \in 0 .. MaxDelays

Init ==
    /\ files = {} /\ db = "absent" /\ invites = [i \in Invites |-> None] /\ relay = None
    /\ expired = {} /\ join = 0 /\ lock = None /\ boot = [b \in Boots |-> Idle] /\ up = FALSE
    /\ proc = Off /\ opt \in Qad /\ qadKey = None /\ profile = None
    /\ net = {} /\ answers = {} /\ faults = 0 /\ delays = 0

Fault == faults < MaxFaults /\ faults' = faults + 1 /\ UNCHANGED delays

-----------------------------------------------------------------------------
(* as-control bootstrap.                                                   *)

Ca == {"ca.key", "ca.der"} \subseteq files
Prepared == files = Files /\ db # "absent" /\ join # 0

\* The check without the lock: a directory that looks prepared is left alone.
BootBegin(b) ==
    /\ boot[b].pc = "idle" /\ ~Prepared
    /\ boot' = [boot EXCEPT ![b].pc = "lock"]
    /\ UNCHANGED <<store, lock, up, node, wire, bounds>>

Consistent == ("key" \in files <=> db # "absent") /\ (db # "absent" <=> Ca)

LockFree_Shared == lock # "run"
LockFree == lock = None

\* With the lock: all of the state or none of it.
BootLock(b) ==
    /\ boot[b].pc = "lock"
    /\ IF LockFree /\ Consistent /\ db # "empty"
       THEN lock' = b /\ boot' = [boot EXCEPT ![b].pc = IF db = "ready" THEN "invite" ELSE "key"]
       ELSE boot' = [boot EXCEPT ![b] = Idle] /\ UNCHANGED lock
    /\ UNCHANGED <<store, up, node, wire, bounds>>

\* load_or_create_secret and load_or_create_relay_ca: one file after the other.
BootFile(b, f) ==
    /\ boot[b].pc = f /\ files' = files \cup {f}
    /\ boot' = [boot EXCEPT ![b].pc = CASE f = "key" -> "ca.key" [] f = "ca.key" -> "ca.der" [] f = "ca.der" -> "create"]
    /\ UNCHANGED <<db, invites, relay, expired, join, lock, up, node, wire, bounds>>

\* Database::create: the file with its tables in one transaction, the metadata row in the next.
BootCreate(b) ==
    /\ \/ boot[b].pc = "create" /\ db' = "empty" /\ boot' = [boot EXCEPT ![b].pc = "init"]
       \/ boot[b].pc = "init" /\ db' = "ready" /\ boot' = [boot EXCEPT ![b].pc = "invite"]
    /\ UNCHANGED <<files, invites, relay, expired, join, lock, up, node, wire, bounds>>

Superseded_None == invites
\* Pending Relay invitations make way for the new one.
Superseded == [i \in Invites |-> IF invites[i] = "pending" THEN None ELSE invites[i]]

NeedsInvite == relay = None

Fresh == {i \in Invites : invites[i] = None /\ i \notin expired /\ i # join /\ i # proc.id
                              /\ (\A c \in net : c.id # i) /\ (\A b \in Boots : boot[b].id # i)}

\* create_invite and apply_sync, unless a Relay is registered.
BootInvite(b) ==
    /\ boot[b].pc = "invite"
    /\ \/ \E i \in Fresh :
            /\ NeedsInvite /\ i = CHOOSE j \in Fresh : \A k \in Fresh : j <= k
            /\ invites' = [Superseded EXCEPT ![i] = "pending"]
            /\ boot' = [boot EXCEPT ![b] = [pc |-> "write", id |-> i]] /\ UNCHANGED lock
       \/ ~NeedsInvite /\ boot' = [boot EXCEPT ![b] = Idle] /\ lock' = None /\ UNCHANGED invites
    /\ UNCHANGED <<files, db, relay, expired, join, up, node, wire, bounds>>

BootWrite(b) ==
    /\ boot[b].pc = "write" /\ join' = boot[b].id
    /\ boot' = [boot EXCEPT ![b] = Idle] /\ lock' = None
    /\ UNCHANGED <<disk, expired, up, node, wire, bounds>>

BootCrash(b) ==
    /\ boot[b].pc # "idle" /\ Fault
    /\ boot' = [boot EXCEPT ![b] = Idle] /\ lock' = IF lock = b THEN None ELSE lock
    /\ UNCHANGED <<store, up, node, wire>>

Boot(b) == \/ BootBegin(b) \/ BootLock(b) \/ BootCreate(b) \/ BootInvite(b) \/ BootWrite(b)
           \/ \E f \in Files : BootFile(b, f)

-----------------------------------------------------------------------------
(* as-control run and its claim handler.                                   *)

\* open_exclusive and load_relay_ca.
Run ==
    /\ ~up /\ lock = None /\ db = "ready" /\ files = Files
    /\ up' = TRUE /\ lock' = "run"
    /\ UNCHANGED <<store, boot, node, wire, bounds>>

RunStops ==
    /\ up /\ Fault /\ up' = FALSE /\ lock' = None /\ net' = {} /\ answers' = {}
    /\ UNCHANGED <<store, boot, node>>

\* claim: the invitation is checked before anything changes; the holder of a claimed one may ask again.
Valid(c) == c.id \notin expired /\ invites[c.id] # None

Repeat_Refused(c) == FALSE
Repeat(c) == invites[c.id] = "claimed" /\ relay # None /\ relay.port = c.port
First(c) == invites[c.id] = "pending" /\ relay = None

\* issue_relay_tls_certificate: for the key of this request.
Answer(c, ok) == [key |-> c.key, ok |-> ok, cert |-> IF ok /\ c.port # None THEN c.key ELSE None]

Claim(c) ==
    /\ up /\ c \in net /\ net' = net \ {c}
    /\ IF Valid(c) /\ First(c)
       THEN relay' = [port |-> c.port] /\ invites' = [invites EXCEPT ![c.id] = "claimed"]
       ELSE UNCHANGED <<relay, invites>>
    /\ answers' = IF proc.pc = "wait" /\ proc.key = c.key
                  THEN {Answer(c, Valid(c) /\ (First(c) \/ Repeat(c)))} ELSE answers
    /\ UNCHANGED <<files, db, expired, join, lock, boot, up, node, bounds>>

\* The Relay's watch carries its public port.
ReportPort ==
    /\ up /\ proc.pc = "serving" /\ relay # None /\ relay.port # profile.port
    /\ relay' = [port |-> profile.port]
    /\ UNCHANGED <<files, db, invites, expired, join, lock, boot, up, node, wire, bounds>>

-----------------------------------------------------------------------------
(* as-relay run --join-if-needed.                                          *)

\* managed_qad_config: a key that does not fit its certificate stops the start.
QadUsable == profile.port = None \/ qadKey = profile.cert

\* An enrolled Relay starts from its profile; an explicit port may replace the port, not enable QAD or
\* disable it.
Start ==
    /\ proc.pc = "off" /\ profile # None /\ QadUsable /\ (opt = None <=> profile.port = None)
    /\ proc' = [proc EXCEPT !.pc = "serving"]
    /\ profile' = [profile EXCEPT !.port = opt]
    /\ UNCHANGED <<store, lock, boot, up, opt, qadKey, wire, bounds>>

\* join_from_file reads the invitation once.
ReadInvitation ==
    /\ proc.pc = "off" /\ profile = None /\ join # 0
    /\ proc' = [proc EXCEPT !.pc = "join", !.id = join]
    /\ UNCHANGED <<store, lock, boot, up, opt, qadKey, profile, wire, bounds>>

Unused == {k \in Keys : k # qadKey /\ (\A c \in net : c.key # k) /\ (\A a \in answers : a.key # k)}

\* join_control: a new key pair for every attempt; while Control is down it tries again.
SendClaim ==
    /\ proc.pc = "join" /\ up
    /\ \E k \in Unused :
          /\ k = CHOOSE j \in Unused : TRUE
          /\ proc' = [proc EXCEPT !.pc = "wait", !.key = k]
          /\ net' = net \cup {[id |-> proc.id, key |-> k, port |-> opt]}
    /\ UNCHANGED <<store, lock, boot, up, opt, qadKey, profile, answers, bounds>>

\* The connection is lost: join_from_file tries again, with the invitation it has.
Disconnected ==
    /\ proc.pc = "wait" /\ \A x \in net \cup answers : x.key # proc.key
    /\ proc' = [proc EXCEPT !.pc = "join", !.key = None]
    /\ UNCHANGED <<store, lock, boot, up, opt, qadKey, profile, wire, bounds>>

\* The timeout is not a transport error: the process ends.
TimesOut ==
    /\ proc.pc = "wait" /\ delays < MaxDelays /\ delays' = delays + 1
    /\ proc' = Off /\ answers' = {}
    /\ UNCHANGED <<store, lock, boot, up, opt, qadKey, profile, net, faults>>

Answered ==
    /\ proc.pc = "wait"
    /\ \E a \in answers :
          /\ a.key = proc.key /\ answers' = answers \ {a}
          /\ proc' = IF ~a.ok THEN Off
                     ELSE [proc EXCEPT !.pc = IF opt = None THEN "profile" ELSE "key", !.cert = a.cert]
    /\ UNCHANGED <<store, lock, boot, up, opt, qadKey, profile, net, bounds>>

KeyOnDisk_Kept == IF qadKey = None THEN proc.key ELSE qadKey
KeyOnDisk == proc.key

\* The key is written before the profile that makes it count.
WriteQadKey ==
    /\ proc.pc = "key" /\ qadKey' = KeyOnDisk /\ proc' = [proc EXCEPT !.pc = "profile"]
    /\ UNCHANGED <<store, lock, boot, up, opt, profile, wire, bounds>>

WriteProfile ==
    /\ proc.pc = "profile" /\ profile' = [port |-> opt, cert |-> proc.cert]
    /\ proc' = Off
    /\ UNCHANGED <<store, lock, boot, up, opt, qadKey, wire, bounds>>

RelayCrash ==
    /\ proc.pc # "off" /\ Fault /\ proc' = Off /\ answers' = {}
    /\ UNCHANGED <<store, lock, boot, up, opt, qadKey, profile, net>>

Relay == Start \/ ReadInvitation \/ SendClaim \/ Disconnected \/ Answered \/ WriteQadKey \/ WriteProfile

-----------------------------------------------------------------------------
(* The world: time, and an operator.                                       *)

Expire(i) ==
    /\ i \notin expired /\ invites[i] # None /\ Fault /\ expired' = expired \cup {i}
    /\ UNCHANGED <<disk, join, lock, boot, up, node, wire>>

RemoveInvitation ==
    /\ join # 0 /\ Fault /\ join' = 0
    /\ UNCHANGED <<disk, expired, lock, boot, up, node, wire>>

ChangeOption ==
    /\ proc.pc = "off" /\ Fault /\ opt' \in Qad \ {opt}
    /\ UNCHANGED <<store, lock, boot, up, proc, qadKey, profile, wire>>

Next == \/ \E b \in Boots : Boot(b) \/ BootCrash(b)
        \/ Run \/ RunStops \/ ReportPort \/ \E c \in net : Claim(c)
        \/ Relay \/ TimesOut \/ RelayCrash
        \/ RemoveInvitation \/ ChangeOption \/ \E i \in Invites : Expire(i)

\* Commands that stopped are started again; bootstrap does not keep the lock busy for ever.
Spec == /\ Init /\ [][Next]_vars
        /\ \A b \in Boots : WF_vars(Boot(b))
        /\ SF_vars(Run) /\ WF_vars(\E c \in net : Claim(c)) /\ WF_vars(ReportPort) /\ WF_vars(Relay)

-----------------------------------------------------------------------------
(* Safety.                                                                 *)

\* Once there is a profile with QAD, qad.key is the key its certificate was issued for, however many
\* attempts, late answers and crashes came before (join_control makes a new key for each attempt).
KeyFitsCertificate == profile # None /\ profile.port # None => qadKey = profile.cert

\* There is never more than one invitation a Relay could still claim, and none once a Relay is
\* registered, however often bootstrap ran or crashed.
OneWayIn ==
    /\ \A i, j \in Invites : invites[i] = "pending" /\ invites[j] = "pending" => i = j
    /\ relay # None => \A i \in Invites : invites[i] # "pending"

\* A profile is written only for a Relay that Control has registered, with the port it has asked for.
EnrolledIsRegistered ==
    /\ profile # None => relay # None
    /\ proc.pc \in {"key", "profile"} => relay # None /\ relay.port = opt

\* Together: the files that crashes and repeated attempts leave with the Relay are true of each other
\* and of Control's database.
ProfileIsTrue == TypeOK /\ KeyFitsCertificate /\ EnrolledIsRegistered

-----------------------------------------------------------------------------
(* Dead ends: states that starting the commands again does not leave.      *)

Quiet == lock \notin Boots

\* A crash of bootstrap between the first file and the metadata row.
Incomplete == Quiet /\ files # {} /\ db # "ready"

\* The file names an invitation that can no longer be claimed, and its presence ends bootstrap early.
Stale(i) == i # 0 /\ (i \in expired \/ invites[i] = None)
SpentFile == Quiet /\ db = "ready" /\ relay = None /\ Stale(join)

\* No file, and Control holds the lock bootstrap needs.
LockedOut == up /\ relay = None /\ join = 0

\* Registered, but the Relay has lost the answer and may not, or cannot, ask again.
Orphaned == relay # None /\ profile = None /\ (join = 0 \/ Stale(join) \/ relay.port # opt)

\* Options that do not fit the profile.
Misfit == profile # None /\ ~(opt = None <=> profile.port = None)

DeadEnd == Incomplete \/ SpentFile \/ LockedOut \/ Orphaned \/ Misfit

\* Without a crash, an expiry, a removed file or a changed option there is no dead end, even when two
\* bootstraps race and answers come late.
DeadEndsNeedFaults == faults = 0 => ~DeadEnd

\* The deployment comes up: the Relay serves in the end, with a port Control knows, unless it is in one
\* of the dead ends.
ComesUp == <>[](DeadEnd \/ (proc.pc = "serving" /\ relay.port = profile.port))

=============================================================================
