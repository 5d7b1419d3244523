--------------------------- MODULE RevocationSync ---------------------------
(***************************************************************************)
(* Relays that admit nodes by the credentials Control signed, and fetch    *)
(* Control's tombstones by relay revision (as-relay with /v1/relay/watch). *)
(*                                                                         *)
(* A Relay polls Control, one request at a time.  It merges the answer     *)
(* into its file, then swaps the index that on_connect reads, then         *)
(* disconnects the endpoints the answer revoked, and only then counts the  *)
(* version as its own; it may crash between any two of these.  Answers     *)
(* may be late or lost.  A Relay's clock runs ahead of Control's by skew:  *)
(* behind it, Control may drop a tombstone the Relay still needs.          *)
(*                                                                         *)
(* The relay server itself (iroh-relay) is not part of the repository: a   *)
(* connection it admitted is registered at once, and stays until the       *)
(* node, the Relay or a disconnect ends it.                                *)
(***************************************************************************)
EXTENDS Credentials

CONSTANTS
    Relays,
    Skews,         \* what a Relay's clock may be ahead of Control's
    MaxClockSkew   \* MAX_CLOCK_SKEW_SECS

ASSUME SkewAssumption == Skews \subseteq Nat /\ MaxClockSkew \in Nat

VARIABLES
    skew,       \* skew[r]: the Relay's clock minus Control's
    enrolled,   \* enrolled[r]: Control has the Relay registered
    up,         \* up[r]: the process runs
    disk,       \* disk[r]: revocations.json
    mem,        \* mem[r]: AdminState::current
    index,      \* index[r]: the index that on_connect reads
    poll,       \* poll[r]: where the poll loop stands
    conns,      \* conns[r]: the credentials behind the open connections
    closed,     \* closed[r]: AdminState::enrollment_revoked
    marker      \* marker[r]: the file enrollment-revoked exists

relayVars == <<skew, enrolled, up, disk, mem, index, poll, conns, closed, marker>>
syncVars == <<vars, relayVars>>

Clock(r) == now + skew[r]
File == [version : Nat, entries : [Keys -> Revocation \cup {None}]]
NoEntries == [k \in Keys |-> None]
Idle == [at |-> "idle"]

\* The credentials nodes may present: their own, or one they kept after removal.
Held == {[key |-> KeyOf(s), gen |-> live[s].gen, exp |-> live[s].exp] :
            s \in {t \in Subject : live[t] # None}}
        \cup {[key |-> KeyOf(d.subject), gen |-> d.gen, exp |-> d.exp] : d \in dead}

\* validate_credential, after the signature, audience and endpoint checks.
ValidCredential(r, c) ==
    /\ c.exp - Lifetime <= Clock(r) + MaxClockSkew
    /\ c.exp > Clock(r)
    /\ index[r][c.key] # None /\ index[r][c.key].exp > Clock(r) => c.gen > index[r][c.key].through

OnConnectAllows(r, c) == ~closed[r] /\ ValidCredential(r, c)

Connect(r, c) ==
    /\ up[r] /\ OnConnectAllows(r, c)
    /\ conns' = [conns EXCEPT ![r] = @ \cup {c}]
    /\ UNCHANGED <<vars, skew, enrolled, up, disk, mem, index, poll, closed, marker>>

Leave(r, c) ==
    /\ conns' = [conns EXCEPT ![r] = @ \ {c}]
    /\ UNCHANGED <<vars, skew, enrolled, up, disk, mem, index, poll, closed, marker>>

-----------------------------------------------------------------------------
PollSend(r) ==
    /\ up[r] /\ poll[r] = Idle
    /\ poll' = [poll EXCEPT ![r] = [at |-> "sent", known |-> mem[r].version]]
    /\ UNCHANGED <<vars, skew, enrolled, up, disk, mem, index, conns, closed, marker>>

\* Faulty form: the answer repeats the tombstones of the revision the Relay knows.
Delta_Overlapping(known) ==
    [k \in Keys |-> IF revocations[k] # None /\ revocations[k].rev >= known THEN revocations[k] ELSE None]

\* The tombstones newer than the revision the Relay knows.
Delta(known) ==
    [k \in Keys |-> IF revocations[k] # None /\ revocations[k].rev > known THEN revocations[k] ELSE None]

\* Faulty form: the long poll waits for one revision too many.
RelayWatchAnswer_OffByOne(r) ==
    /\ poll[r].at = "sent"
    /\ \/ /\ ~enrolled[r]
          /\ poll' = [poll EXCEPT ![r] = [at |-> "forbidden"]]
       \/ /\ enrolled[r] /\ relayRevision > poll[r].known + 1
          /\ poll' = [poll EXCEPT ![r] =
               [at |-> "answered", version |-> relayRevision, issued |-> now,
                delta |-> Delta(poll[r].known)]]
    /\ UNCHANGED <<vars, skew, enrolled, up, disk, mem, index, conns, closed, marker>>

\* relay_watch: a Relay that is not registered is forbidden; otherwise the answer
\* waits for a newer relay revision.
RelayWatchAnswer(r) ==
    /\ poll[r].at = "sent"
    /\ \/ /\ ~enrolled[r]
          /\ poll' = [poll EXCEPT ![r] = [at |-> "forbidden"]]
       \/ /\ enrolled[r] /\ relayRevision > poll[r].known
          /\ poll' = [poll EXCEPT ![r] =
               [at |-> "answered", version |-> relayRevision, issued |-> now,
                delta |-> Delta(poll[r].known)]]
    /\ UNCHANGED <<vars, skew, enrolled, up, disk, mem, index, conns, closed, marker>>

\* The request or its answer is lost, or times out without news.
PollFail(r) ==
    /\ poll[r].at \in {"sent", "answered", "forbidden"}
    /\ poll' = [poll EXCEPT ![r] = Idle]
    /\ UNCHANGED <<vars, skew, enrolled, up, disk, mem, index, conns, closed, marker>>

-----------------------------------------------------------------------------
Fresh(r, u) == Clock(r) - u.issued \in -MaxClockSkew..MaxClockSkew

Unexpired(r, entries) ==
    [k \in Keys |-> IF entries[k] # None /\ entries[k].exp > Clock(r) THEN entries[k] ELSE None]

\* The conflicts for which apply_revocation_update refuses an update.
Conflict(r, u) ==
    \/ u.version <= mem[r].version
    \/ \E k \in Keys : u.delta[k] # None /\
         \/ u.delta[k].rev <= mem[r].version
         \/ /\ Unexpired(r, mem[r].entries)[k] # None
            /\ u.delta[k].through < mem[r].entries[k].through

Merge(r, u) ==
    [version |-> u.version,
     entries |-> [k \in Keys |-> IF u.delta[k] # None THEN u.delta[k] ELSE Unexpired(r, mem[r].entries)[k]]]

\* The endpoints an update newly revokes.  Expired tombstones disconnect nobody.
Revoked(r, u) ==
    {k \in Keys : /\ u.delta[k] # None /\ u.delta[k].exp > Clock(r)
                  /\ Unexpired(r, index[r])[k] # None => index[r][k].through < u.delta[k].through}

ApplyRefuse(r) ==
    /\ poll[r].at = "answered"
    /\ ~Fresh(r, poll[r]) \/ Conflict(r, poll[r])
    /\ poll' = [poll EXCEPT ![r] = Idle]
    /\ UNCHANGED <<vars, skew, enrolled, up, disk, mem, index, conns, closed, marker>>

ApplyPersist(r) ==
    /\ poll[r].at = "answered"
    /\ Fresh(r, poll[r]) /\ ~Conflict(r, poll[r])
    /\ disk' = [disk EXCEPT ![r] = Merge(r, poll[r])]
    /\ poll' = [poll EXCEPT ![r] =
         [at |-> "persisted", next |-> Merge(r, poll[r]), kick |-> Revoked(r, poll[r])]]
    /\ UNCHANGED <<vars, skew, enrolled, up, mem, index, conns, closed, marker>>

ApplyStore(r) ==
    /\ poll[r].at = "persisted"
    /\ index' = [index EXCEPT ![r] = poll[r].next.entries]
    /\ poll' = [poll EXCEPT ![r] = [at |-> "stored", next |-> poll[r].next, kick |-> poll[r].kick]]
    /\ UNCHANGED <<vars, skew, enrolled, up, disk, mem, conns, closed, marker>>

\* Faulty form: the version is taken and nobody is disconnected.
ApplyDisconnect_Forgets(r) ==
    /\ poll[r].at = "stored"
    /\ mem' = [mem EXCEPT ![r] = poll[r].next]
    /\ poll' = [poll EXCEPT ![r] = Idle]
    /\ UNCHANGED <<vars, skew, enrolled, up, disk, index, conns, closed, marker>>

ApplyDisconnect(r) ==
    /\ poll[r].at = "stored"
    /\ conns' = [conns EXCEPT ![r] = {c \in @ : c.key \notin poll[r].kick}]
    /\ mem' = [mem EXCEPT ![r] = poll[r].next]
    /\ poll' = [poll EXCEPT ![r] = Idle]
    /\ UNCHANGED <<vars, skew, enrolled, up, disk, index, closed, marker>>

-----------------------------------------------------------------------------
\* `relay rm' on the Control host.
RemoveRelay(r) ==
    /\ enrolled[r]
    /\ PublishNodesAndRelays
    /\ enrolled' = [enrolled EXCEPT ![r] = FALSE]
    /\ UNCHANGED <<skew, now, live, dead, revocations, up, disk, mem, index, poll, conns, closed, marker>>

\* revoke_all: refuse newcomers, leave a durable mark (the write may fail), drop
\* everybody, and poll no more.
RevokeAllClose(r) ==
    /\ poll[r].at = "forbidden"
    /\ closed' = [closed EXCEPT ![r] = TRUE]
    /\ poll' = [poll EXCEPT ![r] = [at |-> "closing"]]
    /\ UNCHANGED <<vars, skew, enrolled, up, disk, mem, index, conns, marker>>

RevokeAllMark(r) ==
    /\ poll[r].at = "closing"
    /\ marker' \in {marker, [marker EXCEPT ![r] = TRUE]}
    /\ poll' = [poll EXCEPT ![r] = [at |-> "marked"]]
    /\ UNCHANGED <<vars, skew, enrolled, up, disk, mem, index, conns, closed>>

\* Faulty form: newcomers are refused and the others stay connected.
RevokeAllShutdown_KeepsClients(r) ==
    /\ poll[r].at = "marked"
    /\ poll' = [poll EXCEPT ![r] = [at |-> "stopped"]]
    /\ UNCHANGED <<vars, skew, enrolled, up, disk, mem, index, conns, closed, marker>>

RevokeAllShutdown(r) ==
    /\ poll[r].at = "marked"
    /\ conns' = [conns EXCEPT ![r] = {}]
    /\ poll' = [poll EXCEPT ![r] = [at |-> "stopped"]]
    /\ UNCHANGED <<vars, skew, enrolled, up, disk, mem, index, closed, marker>>

Crash(r) ==
    /\ up[r]
    /\ up' = [up EXCEPT ![r] = FALSE]
    /\ conns' = [conns EXCEPT ![r] = {}]
    /\ poll' = [poll EXCEPT ![r] = Idle]
    /\ UNCHANGED <<vars, skew, enrolled, disk, mem, index, closed, marker>>

\* Faulty form: the index starts empty until the next update.
Start_EmptyIndex(r) ==
    /\ ~up[r] /\ ~marker[r]
    /\ up' = [up EXCEPT ![r] = TRUE]
    /\ mem' = [mem EXCEPT ![r] = disk[r]]
    /\ index' = [index EXCEPT ![r] = NoEntries]
    /\ closed' = [closed EXCEPT ![r] = FALSE]
    /\ UNCHANGED <<vars, skew, enrolled, disk, poll, conns, marker>>

Start(r) ==
    /\ ~up[r] /\ ~marker[r]
    /\ up' = [up EXCEPT ![r] = TRUE]
    /\ mem' = [mem EXCEPT ![r] = disk[r]]
    /\ index' = [index EXCEPT ![r] = disk[r].entries]
    /\ closed' = [closed EXCEPT ![r] = FALSE]
    /\ UNCHANGED <<vars, skew, enrolled, disk, poll, conns, marker>>

-----------------------------------------------------------------------------
SyncInit ==
    /\ Init
    /\ skew \in [Relays -> Skews]
    /\ enrolled = [r \in Relays |-> TRUE]
    /\ up = [r \in Relays |-> TRUE]
    /\ disk = [r \in Relays |-> [version |-> 0, entries |-> NoEntries]]
    /\ mem = disk
    /\ index = [r \in Relays |-> NoEntries]
    /\ poll = [r \in Relays |-> Idle]
    /\ conns = [r \in Relays |-> {}]
    /\ closed = [r \in Relays |-> FALSE]
    /\ marker = [r \in Relays |-> FALSE]

ControlStep == Next /\ UNCHANGED relayVars

RelayStep(r) ==
    \/ \E c \in Held : Connect(r, c)
    \/ \E c \in conns[r] : Leave(r, c)
    \/ PollSend(r) \/ RelayWatchAnswer(r) \/ PollFail(r)
    \/ ApplyRefuse(r) \/ ApplyPersist(r) \/ ApplyStore(r) \/ ApplyDisconnect(r)
    \/ RemoveRelay(r) \/ RevokeAllClose(r) \/ RevokeAllMark(r) \/ RevokeAllShutdown(r)
    \/ Crash(r) \/ Start(r)

SyncNext == ControlStep \/ \E r \in Relays : RelayStep(r)
SyncSpec == SyncInit /\ [][SyncNext]_syncVars

\* The poll loop always tries again, a supervisor restarts the process, and the
\* network does not lose every answer.
Fairness == \A r \in Relays :
    /\ WF_syncVars(Start(r)) /\ SF_syncVars(PollSend(r))
    /\ SF_syncVars(RelayWatchAnswer(r)) /\ SF_syncVars(ApplyPersist(r)) /\ WF_syncVars(ApplyRefuse(r))
    /\ SF_syncVars(ApplyStore(r)) /\ SF_syncVars(ApplyDisconnect(r))
    /\ SF_syncVars(RevokeAllClose(r)) /\ SF_syncVars(RevokeAllMark(r)) /\ SF_syncVars(RevokeAllShutdown(r))
FairSyncSpec == SyncSpec /\ Fairness

-----------------------------------------------------------------------------
SyncTypeOK ==
    /\ TypeOK
    /\ skew \in [Relays -> Skews]
    /\ enrolled \in [Relays -> BOOLEAN] /\ up \in [Relays -> BOOLEAN]
    /\ disk \in [Relays -> File] /\ mem \in [Relays -> File]
    /\ index \in [Relays -> [Keys -> Revocation \cup {None}]]
    /\ closed \in [Relays -> BOOLEAN] /\ marker \in [Relays -> BOOLEAN]

\* Once a Relay counts a removal's revision as applied, whatever crashes, delays,
\* merges and prunings came in between, it admits no credential of that removal.
RevokedAreRefused ==
    \A r \in Relays, d \in dead :
        up[r] /\ d.at <= mem[r].version =>
            ~OnConnectAllows(r, [key |-> KeyOf(d.subject), gen |-> d.gen, exp |-> d.exp])

\* No other kind of registration of that endpoint id was removed.
OneLife(d) == \A e \in dead : KeyOf(e.subject) = KeyOf(d.subject) => e.subject = d.subject

\* ... and it keeps no connection of it whose credential has not expired: a tombstone
\* that arrives after its expiry disconnects nobody.  (An identity removed as Client and
\* as Edge shares one tombstone; the property is about the others.)
RevokedAreDisconnected ==
    \A r \in Relays, d \in dead : \A c \in conns[r] :
        /\ d.at <= mem[r].version /\ OneLife(d)
        /\ c.key = KeyOf(d.subject) /\ c.gen = d.gen
        => c.exp <= Clock(r)

\* An update that Control built is never in conflict with what the Relay has
\* applied, after restarts on either side included: no Relay gets stuck refusing
\* one version for ever.
UpdatesNeverConflict ==
    \A r \in Relays : poll[r].at = "answered" => ~Conflict(r, poll[r])

\* Together, with what the Relay serves never ahead of its file: an update can always be applied, and
\* a crash loses none that was.
SyncIsSound == SyncTypeOK /\ UpdatesNeverConflict /\ \A r \in Relays : mem[r].version <= disk[r].version

\* A revocation reaches every Relay that stays enrolled: each relay revision is
\* eventually applied, or the Relay itself is removed.
RevocationsArrive ==
    \A r \in Relays, v \in 1..MaxRevision :
        relayRevision = v ~> (mem[r].version >= v \/ ~enrolled[r])

\* A Relay that was removed while its process was down, or that crashes in the
\* middle of closing, still comes to the point where it admits nobody and has
\* nobody connected; with the mark on disk it never starts again.
RemovedRelaysClose ==
    \A r \in Relays : ~enrolled[r] ~> (closed[r] /\ conns[r] = {})
=============================================================================
