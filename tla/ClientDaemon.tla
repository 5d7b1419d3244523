---------------------------- MODULE ClientDaemon ----------------------------
(***************************************************************************)
(* The Client: its config.json, the CLI commands that change it, and the   *)
(* daemon that keeps warm connections to the Edges the config names.       *)
(*                                                                         *)
(* CLI commands hold config.transaction.lock from the load to the commit,  *)
(* across the HTTP request they make in between, then ask the daemon to    *)
(* reload.  The daemon's Control watcher loads and saves the same file     *)
(* without that lock.  Two tasks reload: the daemon's main loop and the    *)
(* watcher; each reads the file first and swaps the policy later, after it *)
(* awaited the relay updates (which are left out).  Requests look an Edge  *)
(* up, share its cached connection, or dial it one at a time and publish   *)
(* the result if the policy still names that endpoint id.                  *)
(*                                                                         *)
(* Control is here only as the source of the maps it signs for this Client.*)
(* A request dials at most once, so its name identifies its connection.    *)
(***************************************************************************)
EXTENDS Naturals, FiniteSets

CONSTANTS
    Names, Ids,      \* Edge names, Edge endpoint ids
    Requests,        \* the work requests the CLI sends to the daemon
    Enrolled,        \* whether the Client may start enrolled in Control: a set of Booleans
    MaxRevision,     \* bound on the map revision
    SaveMayFail,     \* the watcher's write of a revocation may fail
    MaxQueue,        \* bound on the daemon's admin channel
    None

ASSUME ClientAssumption ==
    /\ None \notin Names \cup Ids \cup Requests
    /\ Enrolled \subseteq BOOLEAN /\ SaveMayFail \in BOOLEAN
    /\ MaxRevision \in Nat \ {0} /\ MaxQueue \in Nat

VARIABLES
    control,     \* Control's view: [rev, edges, member]
    config,      \* config.json: [control, rev, edges]
    cli,         \* the command that holds config.transaction.lock
    daemon,      \* "down", "starting" (config read, not yet listening) or "up"
    queue,       \* Reload messages in the admin channel
    watcher,     \* where the Control watcher stands
    loaded,      \* loaded[t]: the Edges the running reload of task t has read, or None
    edges,       \* Ctx::edges
    conns,       \* Ctx::conns: name -> connection or None
    dialLock,    \* Ctx::dials: name -> request that holds the lock, or None
    request,     \* request[q]: a work request
    open         \* the connections that are not closed

files == <<control, config, cli>>
pool == <<conns, dialLock, request, open>>
vars == <<files, daemon, queue, watcher, loaded, edges, pool>>

EdgeSet == [Names -> Ids \cup {None}]
NoEdges == [n \in Names |-> None]
Config == [control : BOOLEAN, rev : 0..MaxRevision, edges : EdgeSet]
Tasks == {"main", "watcher"}
Idle == [at |-> "idle"]
Stopped == [at |-> "stopped"]
Done == [at |-> "done", name |-> None, id |-> None]

-----------------------------------------------------------------------------
\* Control: the map of this Client changes, or the Client is removed.
ControlChange(n, v) ==
    /\ control.member /\ control.rev < MaxRevision
    /\ control.edges[n] # v
    /\ control' = [control EXCEPT !.rev = @ + 1, !.edges[n] = v]
    /\ UNCHANGED <<config, cli, daemon, queue, watcher, loaded, edges, pool>>

ControlRemove ==
    /\ control.member /\ config.control
    /\ control' = [control EXCEPT !.member = FALSE]
    /\ UNCHANGED <<config, cli, daemon, queue, watcher, loaded, edges, pool>>

-----------------------------------------------------------------------------
\* commit() and the Reload that follows it, which a daemon that does not listen
\* yet never hears.
Commit(cfg) ==
    /\ queue < MaxQueue
    /\ config' = cfg
    /\ queue' = IF daemon = "up" THEN queue + 1 ELSE queue

\* Simple mode: `edge add' and `edge rm' under the lock.
EdgeAdd(n, i) ==
    /\ cli = Idle /\ ~config.control
    /\ Commit([config EXCEPT !.edges[n] = i])
    /\ UNCHANGED <<control, cli, daemon, watcher, loaded, edges, pool>>

EdgeRm(n) ==
    /\ cli = Idle /\ ~config.control /\ config.edges[n] # None
    /\ Commit([config EXCEPT !.edges[n] = None])
    /\ UNCHANGED <<control, cli, daemon, watcher, loaded, edges, pool>>

\* The commands that ask Control: take the lock, load, send.
Send(op, n) ==
    /\ cli = Idle
    /\ cli' = [at |-> "sent", op |-> op, name |-> n, base |-> config]
    /\ UNCHANGED <<control, config, daemon, queue, watcher, loaded, edges, pool>>

CliJoin == ~config.control /\ config.edges = NoEdges /\ Send("join", None)
CliSync == config.control /\ Send("sync", None)
CliRemove(n) == config.control /\ config.edges[n] # None /\ Send("remove", n)

\* Control serves the command; `edge rm' removes the Edge on the way.
CliAnswer ==
    /\ cli.at = "sent" /\ control.member
    /\ IF cli.op = "remove"
       THEN /\ control.edges[cli.name] = cli.base.edges[cli.name]
            /\ control.rev < MaxRevision
            /\ control' = [control EXCEPT !.rev = @ + 1, !.edges[cli.name] = None]
       ELSE UNCHANGED control
    /\ cli' = [at |-> "answered", op |-> cli.op, base |-> cli.base,
               rev |-> control'.rev, edges |-> control'.edges]
    /\ UNCHANGED <<config, daemon, queue, watcher, loaded, edges, pool>>

\* Refused, lost or interrupted: the lock goes, the file stays.
CliFail ==
    /\ cli # Idle
    /\ cli' = Idle
    /\ UNCHANGED <<control, config, daemon, queue, watcher, loaded, edges, pool>>

CliCommit ==
    /\ cli.at = "answered"
    /\ IF cli.op = "remove" THEN cli.rev > cli.base.rev ELSE cli.rev >= cli.base.rev
    /\ Commit([control |-> TRUE, rev |-> cli.rev, edges |-> cli.edges])
    /\ cli' = Idle
    /\ UNCHANGED <<control, daemon, watcher, loaded, edges, pool>>

-----------------------------------------------------------------------------
\* run(): the config is read well before the socket is bound.
DaemonLoad ==
    /\ daemon = "down" /\ config.edges # NoEdges
    /\ daemon' = "starting"
    /\ edges' = config.edges
    /\ watcher' = IF config.control THEN Idle ELSE Stopped
    /\ UNCHANGED <<files, queue, loaded, pool>>

DaemonListen ==
    /\ daemon = "starting"
    /\ daemon' = "up"
    /\ UNCHANGED <<files, queue, watcher, loaded, edges, pool>>

\* Idle, told to stop, or crashed: everything it held is gone.
DaemonStop ==
    /\ daemon # "down"
    /\ daemon' = "down"
    /\ queue' = 0
    /\ watcher' = Stopped
    /\ loaded' = [t \in Tasks |-> None]
    /\ edges' = NoEdges
    /\ conns' = NoEdges
    /\ dialLock' = NoEdges
    /\ open' = {}
    /\ request' = [q \in Requests |->
         IF request[q].at = "new" THEN request[q] ELSE Done]
    /\ UNCHANGED files

-----------------------------------------------------------------------------
MainReload ==
    /\ daemon = "up" /\ queue > 0 /\ loaded["main"] = None
    /\ queue' = queue - 1
    /\ loaded' = [loaded EXCEPT !["main"] = config.edges]
    /\ UNCHANGED <<files, daemon, watcher, edges, pool>>

\* The second half of reload_edges: swap the policy and evict under both locks.
Swap(t) ==
    LET evicted == {n \in Names : conns[n] # None /\ loaded[t][n] # request[conns[n]].id} IN
    /\ loaded[t] # None
    /\ edges' = loaded[t]
    /\ open' = open \ {conns[n] : n \in evicted}
    /\ conns' = [n \in Names |-> IF n \in evicted THEN None ELSE conns[n]]
    /\ loaded' = [loaded EXCEPT ![t] = None]
    /\ watcher' = IF t = "watcher" THEN watcher.next ELSE watcher
    /\ UNCHANGED <<files, daemon, queue, dialLock, request>>

WatcherLoad ==
    /\ daemon = "up" /\ watcher.at = "idle"
    /\ watcher' = [at |-> "sent", base |-> config]
    /\ UNCHANGED <<files, daemon, queue, loaded, edges, pool>>

\* The long poll answers when there is a newer map, or refuses a stranger.
WatcherAnswer ==
    /\ watcher.at = "sent"
    /\ \/ /\ control.member /\ control.rev > watcher.base.rev
          /\ watcher' = [at |-> "updated", base |-> watcher.base,
                         rev |-> control.rev, edges |-> control.edges]
       \/ /\ ~control.member
          /\ watcher' = [at |-> "revoked", base |-> watcher.base]
    /\ UNCHANGED <<files, daemon, queue, loaded, edges, pool>>

WatcherFail ==
    /\ watcher.at \in {"sent", "updated", "revoked"}
    /\ watcher' = Idle
    /\ UNCHANGED <<files, daemon, queue, loaded, edges, pool>>

\* The new map is saved over whatever the file holds by now, and reloaded from it.
WatcherUpdated ==
    /\ watcher.at = "updated"
    /\ config' = [control |-> TRUE, rev |-> watcher.rev, edges |-> watcher.edges]
    /\ watcher' = [at |-> "saved", next |-> Idle]
    /\ UNCHANGED <<control, cli, daemon, queue, loaded, edges, pool>>

\* Faulty form: the whole map goes, its revision included.
WatcherRevoked_ForgetsMap ==
    /\ watcher.at = "revoked"
    /\ config' = [watcher.base EXCEPT !.edges = NoEdges, !.rev = 0]
    /\ watcher' = [at |-> "saved", next |-> Stopped]
    /\ UNCHANGED <<control, cli, daemon, queue, loaded, edges, pool>>

\* A revocation drops the managed Edges, tries to save that, reloads and ends.
WatcherRevoked ==
    /\ watcher.at = "revoked"
    /\ \/ config' = [watcher.base EXCEPT !.edges = NoEdges]
       \/ SaveMayFail /\ UNCHANGED config
    /\ watcher' = [at |-> "saved", next |-> Stopped]
    /\ UNCHANGED <<control, cli, daemon, queue, loaded, edges, pool>>

WatcherReload ==
    /\ watcher.at = "saved" /\ loaded["watcher"] = None
    /\ loaded' = [loaded EXCEPT !["watcher"] = config.edges]
    /\ UNCHANGED <<files, daemon, queue, watcher, edges, pool>>

-----------------------------------------------------------------------------
Warm(n) == conns[n] # None /\ conns[n] \in open

\* handle_client reads the policy once, before get_conn.
Lookup(q, n) ==
    /\ daemon = "up" /\ request[q].at = "new" /\ edges[n] # None
    /\ request' = [request EXCEPT ![q] = [at |-> "looked", name |-> n, id |-> edges[n]]]
    /\ UNCHANGED <<files, daemon, queue, watcher, loaded, edges, conns, dialLock, open>>

FirstCheck(q) ==
    /\ request[q].at = "looked"
    /\ request' = [request EXCEPT ![q] = IF Warm(@.name) THEN Done ELSE [@ EXCEPT !.at = "waiting"]]
    /\ UNCHANGED <<files, daemon, queue, watcher, loaded, edges, conns, dialLock, open>>

\* Faulty form: whoever gets the dial lock dials.
AcquireDial_NoSecondCheck(q) ==
    /\ request[q].at = "waiting" /\ dialLock[request[q].name] = None
    /\ dialLock' = [dialLock EXCEPT ![request[q].name] = q]
    /\ request' = [request EXCEPT ![q].at = "dialing"]
    /\ UNCHANGED <<files, daemon, queue, watcher, loaded, edges, conns, open>>

\* Under the dial lock the pool is looked at again.
AcquireDial(q) ==
    LET n == request[q].name IN
    /\ request[q].at = "waiting" /\ dialLock[n] = None
    /\ IF Warm(n)
       THEN request' = [request EXCEPT ![q] = Done] /\ UNCHANGED dialLock
       ELSE /\ request' = [request EXCEPT ![q].at = "dialing"]
            /\ dialLock' = [dialLock EXCEPT ![n] = q]
    /\ UNCHANGED <<files, daemon, queue, watcher, loaded, edges, conns, open>>

DialOk(q) ==
    /\ request[q].at = "dialing"
    /\ request' = [request EXCEPT ![q].at = "connected"]
    /\ open' = open \cup {q}
    /\ UNCHANGED <<files, daemon, queue, watcher, loaded, edges, conns, dialLock>>

DialFail(q) ==
    /\ request[q].at = "dialing"
    /\ request' = [request EXCEPT ![q] = Done]
    /\ dialLock' = [dialLock EXCEPT ![request[q].name] = None]
    /\ UNCHANGED <<files, daemon, queue, watcher, loaded, edges, conns, open>>

\* Faulty form: the completed dial is published without looking at the policy.
Publish_Unchecked(q) ==
    LET n == request[q].name IN
    /\ request[q].at = "connected"
    /\ request' = [request EXCEPT ![q].at = "published"]
    /\ dialLock' = [dialLock EXCEPT ![n] = None]
    /\ conns' = [conns EXCEPT ![n] = q]
    /\ UNCHANGED <<files, daemon, queue, watcher, loaded, edges, open>>

Publish(q) ==
    LET n == request[q].name IN
    /\ request[q].at = "connected"
    /\ dialLock' = [dialLock EXCEPT ![n] = None]
    /\ IF edges[n] = request[q].id
       THEN /\ conns' = [conns EXCEPT ![n] = q]
            /\ request' = [request EXCEPT ![q].at = "published"]
            /\ UNCHANGED open
       ELSE /\ request' = [request EXCEPT ![q] = Done]
            /\ open' = open \ {q}
            /\ UNCHANGED conns
    /\ UNCHANGED <<files, daemon, queue, watcher, loaded, edges>>

\* A connection dies; a task notices and clears the cache if it is still there.
ConnectionCloses(q) ==
    /\ q \in open
    /\ open' = open \ {q}
    /\ UNCHANGED <<files, daemon, queue, watcher, loaded, edges, conns, dialLock, request>>

EvictDead(q) ==
    /\ request[q].at = "published" /\ q \notin open
    /\ request' = [request EXCEPT ![q] = Done]
    /\ conns' = [conns EXCEPT ![request[q].name] = IF Warm(request[q].name) THEN @ ELSE None]
    /\ UNCHANGED <<files, daemon, queue, watcher, loaded, edges, dialLock, open>>

-----------------------------------------------------------------------------
Init ==
    /\ \E e \in EdgeSet, joined \in Enrolled :
         /\ control = [rev |-> 1, edges |-> e, member |-> TRUE]
         /\ config = IF joined THEN [control |-> TRUE, rev |-> 1, edges |-> e]
                               ELSE [control |-> FALSE, rev |-> 0, edges |-> NoEdges]
    /\ cli = Idle
    /\ daemon = "down" /\ queue = 0
    /\ watcher = Stopped
    /\ loaded = [t \in Tasks |-> None]
    /\ edges = NoEdges /\ conns = NoEdges /\ dialLock = NoEdges
    /\ request = [q \in Requests |-> [at |-> "new", name |-> None, id |-> None]]
    /\ open = {}

FileNext ==
    \/ \E n \in Names, v \in Ids \cup {None} : ControlChange(n, v)
    \/ ControlRemove
    \/ \E n \in Names : EdgeRm(n) \/ \E i \in Ids : EdgeAdd(n, i)
    \/ CliJoin \/ CliSync
    \/ \E n \in Names : CliRemove(n)
    \/ CliAnswer \/ CliFail \/ CliCommit

DaemonNext ==
    \/ DaemonLoad \/ DaemonListen \/ DaemonStop
    \/ MainReload \/ \E t \in Tasks : Swap(t)
    \/ WatcherLoad \/ WatcherAnswer \/ WatcherFail
    \/ WatcherUpdated \/ WatcherRevoked \/ WatcherReload

RequestNext == \E q \in Requests :
    \/ \E n \in Names : Lookup(q, n)
    \/ FirstCheck(q) \/ AcquireDial(q) \/ DialOk(q) \/ DialFail(q) \/ Publish(q)
    \/ ConnectionCloses(q) \/ EvictDead(q)

Next == FileNext \/ DaemonNext \/ RequestNext
Spec == Init /\ [][Next]_vars

-----------------------------------------------------------------------------
TypeOK ==
    /\ control \in [rev : 1..MaxRevision, edges : EdgeSet, member : BOOLEAN]
    /\ config \in Config
    /\ daemon \in {"down", "starting", "up"} /\ queue \in 0..MaxQueue
    /\ loaded \in [Tasks -> EdgeSet \cup {None}]
    /\ edges \in EdgeSet
    /\ conns \in [Names -> Requests \cup {None}] /\ dialLock \in [Names -> Requests \cup {None}]
    /\ open \in SUBSET Requests

\* A cached connection that is alive leads to the endpoint id the policy has for
\* that name: a dial that completes while the Edge is removed or re-keyed is not
\* published afterwards (get_conn against reload_edges).
PoolMatchesPolicy ==
    \A n \in Names : Warm(n) => edges[n] = request[conns[n]].id

\* Every live connection is either being dialled or is the cached one for its
\* name: none is overwritten while alive, so that a reload that revokes the Edge
\* finds and closes every session to it.
LiveConnectionsArePooled ==
    \A q \in open : request[q].at = "connected" \/ conns[request[q].name] = q

\* Nobody dials an Edge that has a live cached connection: concurrent requests
\* share one dial (the second look under the dial lock).
WarmEdgesAreNotDialled ==
    \A q \in Requests : request[q].at \in {"dialing", "connected"} => ~Warm(request[q].name)

Quiescent ==
    /\ daemon = "up" /\ queue = 0 /\ cli = Idle
    /\ \A t \in Tasks : loaded[t] = None
    /\ watcher.at # "saved"

\* README.md: a definitive revocation disconnects live sessions.  So a daemon whose
\* watcher ended because the Client was removed has no managed Edge left.
RevocationDisconnects ==
    Quiescent /\ config.control /\ ~control.member /\ watcher = Stopped => edges = NoEdges

\* The map in config.json goes back to an older revision only as a lost update: its writer, a command or
\* the watcher, had loaded the file before the other one changed it.  Each is guarded against an older
\* answer ("control map rolled back"), but only by the copy it has loaded.
RollbacksAreLostUpdates ==
    [][config'.rev < config.rev =>
         \/ cli.at = "answered" /\ cli.base # config
         \/ watcher.at \in {"updated", "revoked"} /\ watcher.base # config]_vars

\* Together: the pool knows every live connection, and only one dial per Edge is under way.
PoolIsSound == TypeOK /\ LiveConnectionsArePooled /\ WarmEdgesAreNotDialled
=============================================================================
