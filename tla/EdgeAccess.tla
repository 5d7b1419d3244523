----------------------------- MODULE EdgeAccess -----------------------------
(***************************************************************************)
(* Whom an Edge serves (as-edge): the ClientPin that admits connections,   *)
(* and the Control watch that replaces the admitted set of a managed Edge. *)
(*                                                                         *)
(* A pin is strict (--client), trust-on-first-use, or managed.  Checking   *)
(* and registering a connection is one critical section of the pin's mutex,*)
(* and so is replacing the managed set and closing whoever lost access.    *)
(* The watch applies a map before it writes control.json, the write may    *)
(* fail, and a definitive refusal (403, 410) is not written at all: after  *)
(* a restart the Edge goes back to the last map it saved.                  *)
(***************************************************************************)
EXTENDS Integers, FiniteSets

CONSTANTS
    Clients,          \* Client endpoint ids
    Conns,            \* connections that may exist at the same time
    Modes,            \* the ways the Edge may have been set up: "strict", "tofu", "managed"
    MaxHandshakes,    \* MAX_PENDING_HANDSHAKES
    MaxRevision,      \* bound on the map revision
    None

ASSUME ModeAssumption == Modes \subseteq {"strict", "tofu", "managed"}
ASSUME HandshakeAssumption == MaxHandshakes \in Nat
ASSUME RevisionAssumption == MaxRevision \in Nat \ {0}
ASSUME ConnsAssumption == IsFiniteSet(Conns)
ASSUME NoneAssumption == None \notin Clients

VARIABLES
    mode,         \* how the Edge was set up
    control,      \* Control's view of this Edge: [rev, allowed, member]
    saved,        \* control.json: [rev, allowed]
    trusted,      \* the file trusted_client, or None
    up,           \* the process runs
    pinned,       \* ClientAuth::Single
    allowed,      \* ClientAuth::Managed
    registered,   \* ClientPinState::connections
    conn,         \* conn[c]: a connection and the task that handles it
    permits,      \* free permits of the handshake semaphore
    profile,      \* the profile in the watch task
    watch,        \* where the watch task stands
    served        \* history: the Clients ever admitted

vars == <<mode, control, saved, trusted, up, pinned, allowed, registered, conn, permits,
          profile, watch, served>>

Map == [rev : 1..MaxRevision, allowed : SUBSET Clients]
Free == [at |-> "free", who |-> None]
Idle == [at |-> "idle"]

-----------------------------------------------------------------------------
\* serve(): an incoming connection takes a permit or is refused.
Incoming(c, k) ==
    /\ up /\ conn[c] = Free /\ permits > 0
    /\ permits' = permits - 1
    /\ conn' = [conn EXCEPT ![c] = [at |-> "handshake", who |-> k]]
    /\ UNCHANGED <<mode, control, saved, trusted, up, pinned, allowed, registered, profile, watch, served>>

HandshakeFails(c) ==
    /\ conn[c].at = "handshake"
    /\ permits' = permits + 1
    /\ conn' = [conn EXCEPT ![c] = Free]
    /\ UNCHANGED <<mode, control, saved, trusted, up, pinned, allowed, registered, profile, watch, served>>

Admit(c) ==
    /\ registered' = registered \cup {c}
    /\ conn' = [conn EXCEPT ![c].at = "serving"]
    /\ served' = served \cup {conn[c].who}

\* Faulty form: the first Client is served even if its id could not be saved.
AuthorizeFirst_Unsaved(c) ==
    /\ conn[c].at = "handshake"
    /\ mode = "tofu" /\ pinned = None
    /\ permits' = permits + 1
    /\ trusted' \in {trusted, conn[c].who}
    /\ pinned' = conn[c].who
    /\ Admit(c)
    /\ UNCHANGED <<mode, control, saved, up, allowed, profile, watch>>

\* Trust on first use: the id is saved first; if that fails nobody is pinned.
AuthorizeFirst(c) ==
    /\ conn[c].at = "handshake"
    /\ mode = "tofu" /\ pinned = None
    /\ permits' = permits + 1
    /\ \/ /\ trusted' = conn[c].who
          /\ pinned' = conn[c].who
          /\ Admit(c)
       \/ /\ conn' = [conn EXCEPT ![c] = Free]
          /\ UNCHANGED <<trusted, pinned, registered, served>>
    /\ UNCHANGED <<mode, control, saved, up, allowed, profile, watch>>

Authorized(k) == IF mode = "managed" THEN k \in allowed ELSE k = pinned

Authorize(c) ==
    /\ conn[c].at = "handshake" /\ ~(mode = "tofu" /\ pinned = None)
    /\ permits' = permits + 1
    /\ IF Authorized(conn[c].who)
       THEN Admit(c)
       ELSE /\ conn' = [conn EXCEPT ![c] = Free]
            /\ UNCHANGED <<registered, served>>
    /\ UNCHANGED <<mode, control, saved, trusted, up, pinned, allowed, profile, watch>>

\* The peer goes away; the handler unregisters when its accept loop ends.
PeerCloses(c) ==
    /\ conn[c].at = "serving"
    /\ conn' = [conn EXCEPT ![c].at = "closed"]
    /\ UNCHANGED <<mode, control, saved, trusted, up, pinned, allowed, registered, permits, profile, watch, served>>

\* Faulty form: every connection of the Client is forgotten.
Unregister_WholeClient(c) ==
    /\ conn[c].at = "closed"
    /\ registered' = {d \in registered : conn[d].who # conn[c].who}
    /\ conn' = [conn EXCEPT ![c] = Free]
    /\ UNCHANGED <<mode, control, saved, trusted, up, pinned, allowed, permits, profile, watch, served>>

Unregister(c) ==
    /\ conn[c].at = "closed"
    /\ registered' = registered \ {c}
    /\ conn' = [conn EXCEPT ![c] = Free]
    /\ UNCHANGED <<mode, control, saved, trusted, up, pinned, allowed, permits, profile, watch, served>>

-----------------------------------------------------------------------------
\* Faulty form: newcomers are checked against the new set, the others stay.
ReplaceManaged_KeepsOld(next) ==
    allowed' = next /\ UNCHANGED <<registered, conn>>

\* replace_managed: the new set, and everybody who lost access is closed.
ReplaceManaged(next) ==
    LET gone == {c \in registered : conn[c].who \in allowed \ next} IN
    /\ allowed' = next
    /\ registered' = registered \ gone
    /\ conn' = [c \in Conns |-> IF c \in gone THEN [conn[c] EXCEPT !.at = "closed"] ELSE conn[c]]

WatchSend ==
    /\ up /\ mode = "managed" /\ watch = Idle
    /\ watch' = [at |-> "sent", known |-> profile.rev]
    /\ UNCHANGED <<mode, control, saved, trusted, up, pinned, allowed, registered, conn, permits, profile, served>>

WatchAnswer ==
    /\ watch.at = "sent"
    /\ \/ /\ control.member /\ control.rev > watch.known
          /\ watch' = [at |-> "map", map |-> [rev |-> control.rev, allowed |-> control.allowed]]
       \/ /\ ~control.member
          /\ watch' = [at |-> "refused"]
    /\ UNCHANGED <<mode, control, saved, trusted, up, pinned, allowed, registered, conn, permits, profile, served>>

\* A lost or late answer, or a map that cannot be applied: the cached one stays.
WatchFail ==
    /\ watch.at \in {"sent", "map", "refused"}
    /\ watch' = Idle
    /\ UNCHANGED <<mode, control, saved, trusted, up, pinned, allowed, registered, conn, permits, profile, served>>

WatchApply ==
    /\ watch.at = "map"
    /\ watch.map.rev >= profile.rev
    /\ ReplaceManaged(watch.map.allowed)
    /\ profile' = watch.map
    /\ watch' = [at |-> "applied"]
    /\ UNCHANGED <<mode, control, saved, trusted, up, pinned, permits, served>>

WatchPersist ==
    /\ watch.at = "applied"
    /\ saved' \in {saved, profile}
    /\ watch' = Idle
    /\ UNCHANGED <<mode, control, trusted, up, pinned, allowed, registered, conn, permits, profile, served>>

\* Faulty form: the watch ends and nothing else happens.
WatchRefused_Ignored ==
    /\ watch.at = "refused"
    /\ watch' = [at |-> "stopped"]
    /\ UNCHANGED <<mode, control, saved, trusted, up, pinned, allowed, registered, conn, permits, profile, served>>

WatchRefused ==
    /\ watch.at = "refused"
    /\ ReplaceManaged({})
    /\ watch' = [at |-> "stopped"]
    /\ UNCHANGED <<mode, control, saved, trusted, up, pinned, permits, profile, served>>

-----------------------------------------------------------------------------
Crash ==
    /\ up
    /\ up' = FALSE
    /\ registered' = {}
    /\ conn' = [c \in Conns |-> Free]
    /\ permits' = MaxHandshakes
    /\ watch' = Idle
    /\ UNCHANGED <<mode, control, saved, trusted, pinned, allowed, profile, served>>

\* run_iroh_edge: what is admitted comes from the command line or the files.
Start ==
    /\ ~up
    /\ up' = TRUE
    /\ pinned' = IF mode = "tofu" THEN trusted ELSE pinned
    /\ allowed' = IF mode = "managed" THEN saved.allowed ELSE {}
    /\ profile' = saved
    /\ UNCHANGED <<mode, control, saved, trusted, registered, conn, permits, watch, served>>

\* Control: the Edge changes hands, or is removed.
Transfer(k) ==
    /\ mode = "managed" /\ control.member /\ control.rev < MaxRevision
    /\ control' = [control EXCEPT !.rev = @ + 1, !.allowed = {k}]
    /\ UNCHANGED <<mode, saved, trusted, up, pinned, allowed, registered, conn, permits, profile, watch, served>>

Remove ==
    /\ mode = "managed" /\ control.member
    /\ control' = [control EXCEPT !.member = FALSE]
    /\ UNCHANGED <<mode, saved, trusted, up, pinned, allowed, registered, conn, permits, profile, watch, served>>

-----------------------------------------------------------------------------
Init ==
    \E k \in Clients :
    /\ mode \in Modes
    /\ control = [rev |-> 1, allowed |-> {k}, member |-> TRUE]
    /\ saved = [rev |-> 1, allowed |-> {k}]
    /\ trusted = None
    /\ up = FALSE
    /\ pinned = IF mode = "strict" THEN k ELSE None
    /\ allowed = {}
    /\ registered = {}
    /\ conn = [c \in Conns |-> Free]
    /\ permits = MaxHandshakes
    /\ profile = saved
    /\ watch = Idle
    /\ served = {}

ConnNext == \E c \in Conns :
    \/ \E k \in Clients : Incoming(c, k)
    \/ HandshakeFails(c) \/ AuthorizeFirst(c) \/ Authorize(c)
    \/ PeerCloses(c) \/ Unregister(c)

WatchNext ==
    \/ WatchSend \/ WatchAnswer \/ WatchFail \/ WatchApply \/ WatchPersist \/ WatchRefused

Next == ConnNext \/ WatchNext \/ Crash \/ Start \/ Remove \/ \E k \in Clients : Transfer(k)
Spec == Init /\ [][Next]_vars

\* The watch loop retries with a bounded backoff, a service manager restarts the
\* process, and the network does not lose every answer.
Fairness ==
    /\ WF_vars(Start) /\ SF_vars(WatchSend) /\ SF_vars(WatchAnswer)
    /\ SF_vars(WatchApply) /\ SF_vars(WatchPersist) /\ SF_vars(WatchRefused)
FairSpec == Spec /\ Fairness

-----------------------------------------------------------------------------
TypeOK ==
    /\ mode \in Modes
    /\ control \in [rev : 1..MaxRevision, allowed : SUBSET Clients, member : BOOLEAN]
    /\ saved \in Map /\ profile \in Map
    /\ trusted \in Clients \cup {None} /\ pinned \in Clients \cup {None}
    /\ up \in BOOLEAN
    /\ allowed \in SUBSET Clients /\ served \in SUBSET Clients
    /\ registered \in SUBSET Conns
    /\ conn \in [Conns -> [at : {"free", "handshake", "serving", "closed"}, who : Clients \cup {None}]]
    /\ permits \in 0..MaxHandshakes

\* docs/control-plane.md: an Edge accepts only its current owner, and closes the
\* old owner's connections as soon as it receives the new map.  Nobody is served
\* that the pin does not admit now, whenever the connection was set up.
ServedAreAuthorized ==
    \A c \in Conns : conn[c].at = "serving" => Authorized(conn[c].who)

\* Every connection that is being served is registered, so that replace_managed
\* can close it: ending one connection of a Client forgets no other.
ServedAreRegistered ==
    \A c \in Conns : conn[c].at = "serving" => c \in registered

\* docs/simple-mode.md: the first Client is trusted and saved, later connections
\* are strict.  A standalone Edge serves one Client over its whole life, restarts
\* and failed writes included.
OneClientForever ==
    mode # "managed" => \A j, k \in served : j = k

\* A permit is held exactly by the connections in their handshake: established
\* and refused connections give theirs back, none is lost.
PermitsAreReturned ==
    permits + Cardinality({c \in Conns : conn[c].at = "handshake"}) = MaxHandshakes

\* Every new map reaches an Edge that stays enrolled, and a removed Edge comes to
\* admit nobody, whatever crashes and lost answers there are (if they do not go on
\* for ever).
MapsArrive ==
    mode = "managed" =>
        /\ \A v \in 1..MaxRevision : control.rev = v ~> (profile.rev >= v \/ ~control.member)
        /\ ~control.member ~> (up /\ allowed = {})

\* Together: the tables the Edge works from agree with its connections, so that a new map finds every
\* connection it has to close and no handshake permit is lost.
ConnectionsAreTracked == TypeOK /\ ServedAreRegistered /\ PermitsAreReturned
=============================================================================
