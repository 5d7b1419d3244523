------------------------- MODULE ClientDaemonProofs -------------------------
(***************************************************************************)
(* Proofs about module ClientDaemon, for any number of Edges, endpoint ids *)
(* and requests: the pool knows every live connection and never serves one *)
(* that the policy does not name, and config.json loses a revision only as *)
(* a lost update.                                                          *)
(*                                                                         *)
(* What makes the pool right is the dial lock.  A request that dials holds *)
(* the lock of its name, so no two dial the same Edge, nobody overwrites a *)
(* live connection, and what a request publishes is the only one.  That a  *)
(* cached connection was published under the name it is cached for links   *)
(* the eviction of a reload to the check of a completed dial.              *)
(***************************************************************************)
EXTENDS ClientDaemon, TLAPS

Dialling == {"dialing", "connected"}
Request ==
    [at : {"new", "done"}, name : {None}, id : {None}]
    \cup [at : {"looked", "waiting", "dialing", "connected", "published"}, name : Names, id : Ids]

Cli ==
    {Idle}
    \cup [at : {"sent"}, op : {"join", "sync"}, name : {None}, base : Config]
    \cup [at : {"sent"}, op : {"remove"}, name : Names, base : Config]
    \cup [at : {"answered"}, op : {"join", "sync", "remove"}, base : Config, rev : 1..MaxRevision,
          edges : EdgeSet]

Watcher ==
    {Idle, Stopped}
    \cup [at : {"sent", "revoked"}, base : Config]
    \cup [at : {"updated"}, base : Config, rev : 1..MaxRevision, edges : EdgeSet]
    \cup [at : {"saved"}, next : {Idle, Stopped}]

\* What the rest of the state is made of.
StateOK ==
    /\ TypeOK
    /\ cli \in Cli /\ watcher \in Watcher
    /\ request \in [Requests -> Request]

\* The watcher reloads after it has saved, and takes newer maps only.
WatcherInOrder ==
    /\ loaded["watcher"] # None => watcher.at = "saved"
    /\ watcher.at = "updated" => watcher.rev > watcher.base.rev

\* No daemon, no pool.
NothingWhileDown ==
    daemon = "down" =>
        /\ conns = NoEdges /\ loaded["watcher"] = None /\ watcher = Stopped
        /\ \A q \in Requests : request[q].at \in {"new", "done"}

\* Who dials holds the lock of the name.
DiallersHoldTheLock ==
    \A q \in Requests : request[q].at \in Dialling => dialLock[request[q].name] = q

\* A cached connection was published under its name.
CachedWerePublished ==
    \A n \in Names : conns[n] # None => request[conns[n]].at = "published" /\ request[conns[n]].name = n

\* A live connection is about to be published, or is the cached one.
LiveAreKnown ==
    \A q \in open :
        \/ request[q].at = "connected"
        \/ request[q].at = "published" /\ conns[request[q].name] = q

Inv ==
    /\ StateOK /\ WatcherInOrder /\ NothingWhileDown
    /\ DiallersHoldTheLock /\ CachedWerePublished /\ LiveAreKnown
    /\ WarmEdgesAreNotDialled /\ PoolMatchesPolicy

-----------------------------------------------------------------------------
(* The files, the commands and the watcher leave the pool alone.           *)

\* Only types and the watcher need a look when policy and pool stay.
LEMMA PoolFrame ==
    ASSUME Inv, UNCHANGED <<edges, pool>>, StateOK', WatcherInOrder', NothingWhileDown'
    PROVE  Inv'
BY Zenon DEF Inv, pool, DiallersHoldTheLock, CachedWerePublished, LiveAreKnown, WarmEdgesAreNotDialled,
       PoolMatchesPolicy, Warm

\* Records with a component replaced.
LEMMA ConfigWithEdges ==
    ASSUME NEW c \in Config, NEW e \in EdgeSet
    PROVE  [c EXCEPT !.edges = e] \in Config /\ [c EXCEPT !.edges = e].rev = c.rev
BY Zenon DEF Config

\* Policies with one name changed.
LEMMA EdgeSetUpdate ==
    ASSUME NEW e \in EdgeSet, NEW n \in Names, NEW v \in Ids \cup {None}
    PROVE  [e EXCEPT ![n] = v] \in EdgeSet /\ NoEdges \in EdgeSet
BY Zenon DEF EdgeSet, NoEdges

\* Control changes the map, or removes the Client.
LEMMA ControlInv ==
    ASSUME Inv, (\E n \in Names, v \in Ids \cup {None} : ControlChange(n, v)) \/ ControlRemove
    PROVE  Inv'
<1>1. UNCHANGED <<config, cli, daemon, queue, watcher, loaded, edges, pool>>
  BY Zenon DEF ControlChange, ControlRemove
<1>2. control' \in [rev : 1..MaxRevision, edges : EdgeSet, member : BOOLEAN]
  <2>1. control \in [rev : 1..MaxRevision, edges : EdgeSet, member : BOOLEAN]
    BY Zenon DEF Inv, StateOK, TypeOK
  <2>2. CASE ControlRemove
    BY Zenon, <2>1, <2>2 DEF ControlRemove
  <2>3. ASSUME NEW n \in Names, NEW v \in Ids \cup {None}, ControlChange(n, v)
        PROVE  control' \in [rev : 1..MaxRevision, edges : EdgeSet, member : BOOLEAN]
    <3>1. control.rev + 1 \in 1..MaxRevision
      <4>1. control.rev \in 1..MaxRevision /\ control.rev < MaxRevision
        BY Zenon, <2>1, <2>3 DEF ControlChange
      <4>. QED
        BY <4>1, ClientAssumption
    <3>2. [control.edges EXCEPT ![n] = v] \in EdgeSet
      BY Zenon, <2>1, EdgeSetUpdate
    <3>3. control' = [rev |-> control.rev + 1, edges |-> [control.edges EXCEPT ![n] = v], member |-> TRUE]
      BY Zenon, <2>1, <2>3 DEF ControlChange
    <3>. QED
      BY Zenon, <3>1, <3>2, <3>3
  <2>. QED
    BY Zenon, <2>2, <2>3
<1>3. StateOK' /\ WatcherInOrder' /\ NothingWhileDown'
  BY Zenon, <1>1, <1>2 DEF Inv, StateOK, TypeOK, WatcherInOrder, NothingWhileDown, pool
<1>. QED
  BY Zenon, <1>1, <1>3, PoolFrame

\* A commit writes a configuration and may leave a message for the daemon.
LEMMA CommitInv ==
    ASSUME Inv, NEW cfg \in Config, Commit(cfg), cli' \in Cli,
           UNCHANGED <<control, daemon, watcher, loaded, edges, pool>>
    PROVE  Inv'
<1>1. queue' \in 0..MaxQueue
  BY ClientAssumption DEF Inv, StateOK, TypeOK, Commit
<1>2. config' \in Config
  BY Zenon DEF Commit
<1>3. StateOK' /\ WatcherInOrder' /\ NothingWhileDown'
  BY Zenon, <1>1, <1>2 DEF Inv, StateOK, TypeOK, WatcherInOrder, NothingWhileDown, pool
<1>. QED
  BY Zenon, <1>3, PoolFrame

\* The commands.
LEMMA CommandInv ==
    ASSUME Inv,
           \/ \E n \in Names : EdgeRm(n) \/ \E i \in Ids : EdgeAdd(n, i)
           \/ CliJoin \/ CliSync
           \/ \E n \in Names : CliRemove(n)
           \/ CliAnswer \/ CliFail \/ CliCommit
    PROVE  Inv'
<1>1. /\ config \in Config /\ config.edges \in EdgeSet /\ cli \in Cli
      /\ control \in [rev : 1..MaxRevision, edges : EdgeSet, member : BOOLEAN]
  BY Zenon DEF Inv, StateOK, TypeOK, Config
<1>2. ASSUME NEW n \in Names, EdgeRm(n) \/ \E i \in Ids : EdgeAdd(n, i) PROVE Inv'
  <2>1. PICK v \in Ids \cup {None} :
           /\ Commit([config EXCEPT !.edges[n] = v])
           /\ UNCHANGED <<control, cli, daemon, watcher, loaded, edges, pool>>
    BY Zenon, <1>2 DEF EdgeRm, EdgeAdd
  <2>2. [config EXCEPT !.edges[n] = v] \in Config
    BY Zenon, <1>1, EdgeSetUpdate DEF Config
  <2>. QED
    BY Zenon, <1>1, <2>1, <2>2, CommitInv
<1>3. ASSUME NEW op, NEW n, Send(op, n),
             (op \in {"join", "sync"} /\ n = None) \/ (op = "remove" /\ n \in Names)
      PROVE  Inv'
  <2>1. cli' \in Cli /\ UNCHANGED <<control, config, daemon, queue, watcher, loaded, edges, pool>>
    BY Zenon, <1>1, <1>3 DEF Send, Cli
  <2>2. StateOK' /\ WatcherInOrder' /\ NothingWhileDown'
    BY Zenon, <2>1 DEF Inv, StateOK, TypeOK, WatcherInOrder, NothingWhileDown, pool
  <2>. QED
    BY Zenon, <2>1, <2>2, PoolFrame
<1>4. CASE CliAnswer
  <2>1. UNCHANGED <<config, daemon, queue, watcher, loaded, edges, pool>>
    BY Zenon, <1>4 DEF CliAnswer
  <2>2. cli.at = "sent" /\ cli.base \in Config /\ cli.op \in {"join", "sync", "remove"}
        /\ (cli.op = "remove" => cli.name \in Names)
    BY <1>1, <1>4 DEF CliAnswer, Cli, Idle
  <2>3. control' \in [rev : 1..MaxRevision, edges : EdgeSet, member : BOOLEAN]
    <3>1. CASE cli.op # "remove"
      BY Zenon, <1>1, <1>4, <3>1 DEF CliAnswer
    <3>2. CASE cli.op = "remove"
      <4>1. control.rev + 1 \in 1..MaxRevision
        BY <1>1, <1>4, <3>2, ClientAssumption DEF CliAnswer
      <4>2. [control.edges EXCEPT ![cli.name] = None] \in EdgeSet
        BY Zenon, <1>1, <2>2, <3>2, EdgeSetUpdate
      <4>. QED
        BY Zenon, <1>1, <1>4, <3>2, <4>1, <4>2 DEF CliAnswer
    <3>. QED
      BY Zenon, <3>1, <3>2
  <2>4. cli' \in Cli
    BY Zenon, <1>4, <2>2, <2>3 DEF CliAnswer, Cli
  <2>5. StateOK' /\ WatcherInOrder' /\ NothingWhileDown'
    BY Zenon, <2>1, <2>3, <2>4 DEF Inv, StateOK, TypeOK, WatcherInOrder, NothingWhileDown, pool
  <2>. QED
    BY Zenon, <2>1, <2>5, PoolFrame
<1>5. CASE CliFail
  <2>1. cli' \in Cli /\ UNCHANGED <<control, config, daemon, queue, watcher, loaded, edges, pool>>
    BY Zenon, <1>5 DEF CliFail, Cli
  <2>2. StateOK' /\ WatcherInOrder' /\ NothingWhileDown'
    BY Zenon, <2>1 DEF Inv, StateOK, TypeOK, WatcherInOrder, NothingWhileDown, pool
  <2>. QED
    BY Zenon, <2>1, <2>2, PoolFrame
<1>6. CASE CliCommit
  <2>1. cli.at = "answered" /\ cli.rev \in 1..MaxRevision /\ cli.edges \in EdgeSet
    BY <1>1, <1>6 DEF CliCommit, Cli, Idle
  <2>2. [control |-> TRUE, rev |-> cli.rev, edges |-> cli.edges] \in Config
    BY <2>1, ClientAssumption DEF Config
  <2>. QED
    BY Zenon, <1>6, <2>2, CommitInv DEF CliCommit, Cli
<1>. QED
  BY Zenon, <1>2, <1>3, <1>4, <1>5, <1>6 DEF CliJoin, CliSync, CliRemove

\* What the watcher can be at.
LEMMA WatcherFacts ==
    ASSUME Inv
    PROVE  /\ watcher \in Watcher
           /\ watcher.at \in {"sent", "updated", "revoked"} => watcher.base \in Config
           /\ watcher.at = "updated" => watcher.rev \in 1..MaxRevision /\ watcher.edges \in EdgeSet
           /\ watcher.at = "saved" => watcher.next \in {Idle, Stopped}
           /\ watcher # Idle /\ watcher # Stopped => watcher.at \in {"sent", "updated", "revoked", "saved"}
           /\ Idle \in Watcher /\ Stopped \in Watcher /\ Idle.at = "idle" /\ Stopped.at = "stopped"
BY DEF Inv, StateOK, Watcher, Idle, Stopped

\* The watcher polls, saves and reads the file again.
LEMMA WatcherInv ==
    ASSUME Inv,
           \/ WatcherLoad \/ WatcherAnswer \/ WatcherFail
           \/ WatcherUpdated \/ WatcherRevoked \/ WatcherReload
    PROVE  Inv'
<1>1. UNCHANGED <<control, cli, daemon, queue, edges, pool>>
  BY Zenon DEF files, WatcherLoad, WatcherAnswer, WatcherFail, WatcherUpdated, WatcherRevoked, WatcherReload
<1>2. /\ config \in Config /\ config.edges \in EdgeSet
      /\ control.rev \in 1..MaxRevision /\ control.edges \in EdgeSet
      /\ loaded \in [Tasks -> EdgeSet \cup {None}] /\ "watcher" \in Tasks
  BY Zenon DEF Inv, StateOK, TypeOK, Config, Tasks
<1>3. config' \in Config
  <2>1. CASE WatcherUpdated
    <3>1. watcher.rev \in 0..MaxRevision /\ watcher.edges \in EdgeSet
      BY <2>1, WatcherFacts, ClientAssumption DEF WatcherUpdated
    <3>. QED
      BY Zenon, <2>1, <3>1 DEF WatcherUpdated, Config
  <2>2. CASE WatcherRevoked
    BY <1>2, <2>2, WatcherFacts, ConfigWithEdges DEF WatcherRevoked, NoEdges, EdgeSet
  <2>. QED
    BY Zenon, <1>2, <2>1, <2>2 DEF files, WatcherLoad, WatcherAnswer, WatcherFail, WatcherReload
<1>4. watcher' \in Watcher
  <2>1. CASE WatcherLoad
    BY Zenon, <1>2, <2>1 DEF WatcherLoad, Watcher
  <2>2. CASE WatcherAnswer
    BY <1>2, <2>2, WatcherFacts DEF WatcherAnswer, Watcher
  <2>3. CASE WatcherFail \/ WatcherUpdated \/ WatcherRevoked \/ WatcherReload
    BY <2>3, WatcherFacts DEF WatcherFail, WatcherUpdated, WatcherRevoked, WatcherReload, Watcher
  <2>. QED
    BY Zenon, <2>1, <2>2, <2>3
<1>5. loaded' \in [Tasks -> EdgeSet \cup {None}]
  BY Zenon, <1>2 DEF WatcherLoad, WatcherAnswer, WatcherFail, WatcherUpdated, WatcherRevoked, WatcherReload
<1>6. WatcherInOrder'
  <2>1. CASE WatcherAnswer
    BY <2>1 DEF WatcherAnswer, Inv, WatcherInOrder
  <2>2. CASE WatcherLoad \/ WatcherFail \/ WatcherUpdated \/ WatcherRevoked
    BY <2>2 DEF WatcherLoad, WatcherFail, WatcherUpdated, WatcherRevoked, Inv, WatcherInOrder, Idle
  <2>3. CASE WatcherReload
    BY Zenon, <2>3 DEF WatcherReload, Inv, WatcherInOrder
  <2>. QED
    BY Zenon, <2>1, <2>2, <2>3
<1>7. NothingWhileDown'
  <2>1. daemon # "down"
    BY Zenon, WatcherFacts DEF Inv, NothingWhileDown, WatcherLoad, WatcherAnswer, WatcherFail,
                        WatcherUpdated, WatcherRevoked, WatcherReload
  <2>. QED
    BY Zenon, <1>1, <2>1 DEF NothingWhileDown
<1>8. StateOK'
  BY Zenon, <1>1, <1>3, <1>4, <1>5 DEF Inv, StateOK, TypeOK, pool
<1>. QED
  BY Zenon, <1>1, <1>6, <1>7, <1>8, PoolFrame

-----------------------------------------------------------------------------
(* The daemon starts, stops and reloads.                                   *)

\* A daemon that starts takes the policy of the file, and has no pool yet.
LEMMA DaemonStartInv ==
    ASSUME Inv, DaemonLoad \/ DaemonListen
    PROVE  Inv'
<1>1. UNCHANGED <<files, queue, loaded, pool>>
  BY Zenon DEF DaemonLoad, DaemonListen
<1>2. CASE DaemonListen
  <2>1. StateOK' /\ WatcherInOrder' /\ NothingWhileDown'
    BY Zenon, <1>1, <1>2 DEF DaemonListen, Inv, StateOK, TypeOK, WatcherInOrder, NothingWhileDown, files, pool
  <2>. QED
    BY Zenon, <1>2, <2>1, PoolFrame DEF DaemonListen
<1>3. CASE DaemonLoad
  <2>1. /\ daemon = "down" /\ daemon' = "starting" /\ edges' = config.edges
        /\ watcher' \in {Idle, Stopped} /\ config.edges \in EdgeSet
    BY Zenon, <1>3 DEF DaemonLoad, Inv, StateOK, TypeOK, Config
  <2>2. /\ \A n \in Names : conns[n] = None
        /\ loaded["watcher"] = None /\ \A q \in Requests : request[q].at \in {"new", "done"}
    BY Zenon, <2>1 DEF Inv, NothingWhileDown, NoEdges
  <2>3. StateOK' /\ NothingWhileDown'
    BY Zenon, <1>1, <2>1, WatcherFacts DEF Inv, StateOK, TypeOK, NothingWhileDown, files, pool
  <2>4. WatcherInOrder'
    BY <1>1, <2>1, <2>2 DEF WatcherInOrder, Idle, Stopped
  <2>5. /\ DiallersHoldTheLock' /\ CachedWerePublished' /\ LiveAreKnown' /\ WarmEdgesAreNotDialled'
        /\ PoolMatchesPolicy'
    BY Zenon, <1>1, <2>2 DEF Inv, pool, DiallersHoldTheLock, CachedWerePublished, LiveAreKnown,
                      WarmEdgesAreNotDialled, PoolMatchesPolicy, Warm, Dialling
  <2>. QED
    BY Zenon, <2>3, <2>4, <2>5 DEF Inv
<1>. QED
  BY Zenon, <1>2, <1>3

\* A daemon that ends takes everything with it.
LEMMA DaemonStopInv ==
    ASSUME Inv, DaemonStop
    PROVE  Inv'
<1>1. /\ UNCHANGED <<control, config, cli>> /\ daemon' = "down" /\ queue' = 0 /\ watcher' = Stopped
      /\ loaded' = [t \in Tasks |-> None] /\ edges' = NoEdges /\ conns' = NoEdges
      /\ dialLock' = NoEdges /\ open' = {}
      /\ request' = [q \in Requests |-> IF request[q].at = "new" THEN request[q] ELSE Done]
  BY Zenon DEF DaemonStop, files
<1>2. /\ NoEdges \in EdgeSet /\ NoEdges \in [Names -> Requests \cup {None}] /\ 0 \in 0..MaxQueue
      /\ \A n \in Names : NoEdges[n] = None
  BY ClientAssumption DEF NoEdges, EdgeSet
<1>3. request' \in [Requests -> Request] /\ \A q \in Requests : request'[q].at \in {"new", "done"}
  <2>1. Done \in Request /\ Done.at = "done" /\ request \in [Requests -> Request]
    BY Zenon DEF Done, Request, Inv, StateOK
  <2> HIDE DEF Done
  <2>. QED
    BY Zenon, <1>1, <2>1
<1>4. StateOK' /\ NothingWhileDown' /\ WatcherInOrder'
  BY Zenon, <1>1, <1>2, <1>3, WatcherFacts
     DEF Inv, StateOK, TypeOK, NothingWhileDown, WatcherInOrder, Tasks, Stopped
<1>5. /\ DiallersHoldTheLock' /\ CachedWerePublished' /\ LiveAreKnown' /\ WarmEdgesAreNotDialled'
      /\ PoolMatchesPolicy'
  BY Zenon, <1>1, <1>2, <1>3 DEF DiallersHoldTheLock, CachedWerePublished, LiveAreKnown,
                          WarmEdgesAreNotDialled, PoolMatchesPolicy, Warm, Dialling
<1>. QED
  BY Zenon, <1>4, <1>5 DEF Inv

\* The main loop takes a message and reads the file.
LEMMA MainReloadInv ==
    ASSUME Inv, MainReload
    PROVE  Inv'
<1>1. /\ UNCHANGED <<control, config, cli, daemon, watcher, edges, pool>> /\ daemon = "up"
      /\ queue' = queue - 1 /\ queue > 0 /\ loaded' = [loaded EXCEPT !["main"] = config.edges]
  BY Zenon DEF MainReload, files
<1>2. queue' \in 0..MaxQueue
  BY <1>1, ClientAssumption DEF Inv, StateOK, TypeOK
<1>3. loaded' \in [Tasks -> EdgeSet \cup {None}] /\ loaded'["watcher"] = loaded["watcher"]
  BY Zenon, <1>1 DEF Inv, StateOK, TypeOK, Config, Tasks
<1>4. StateOK' /\ WatcherInOrder' /\ NothingWhileDown'
  BY Zenon, <1>1, <1>2, <1>3 DEF Inv, StateOK, TypeOK, WatcherInOrder, NothingWhileDown, pool
<1>. QED
  BY Zenon, <1>1, <1>4, PoolFrame

\* reload_edges: policy and pool change in one step.
LEMMA SwapInv ==
    ASSUME Inv, NEW t \in Tasks, Swap(t)
    PROVE  Inv'
<1> DEFINE evicted == {n \in Names : conns[n] # None /\ loaded[t][n] # request[conns[n]].id}
<1>1. /\ UNCHANGED <<control, config, cli, daemon, queue, dialLock, request>>
      /\ loaded[t] # None /\ edges' = loaded[t]
      /\ open' = open \ {conns[n] : n \in evicted}
      /\ conns' = [n \in Names |-> IF n \in evicted THEN None ELSE conns[n]]
      /\ loaded' = [loaded EXCEPT ![t] = None]
      /\ watcher' = IF t = "watcher" THEN watcher.next ELSE watcher
  BY Zenon DEF Swap, files
<1>2. /\ loaded \in [Tasks -> EdgeSet \cup {None}] /\ conns \in [Names -> Requests \cup {None}]
      /\ open \in SUBSET Requests /\ request \in [Requests -> Request]
  BY Zenon DEF Inv, StateOK, TypeOK
<1>3. watcher' \in Watcher /\ WatcherInOrder'
  <2>1. CASE t = "watcher"
    <3>1. watcher.at = "saved"
      BY Zenon, <1>1, <2>1 DEF Inv, WatcherInOrder
    <3>2. watcher' \in {Idle, Stopped} /\ loaded'["watcher"] = None
      BY Zenon, <1>1, <1>2, <2>1, <3>1, WatcherFacts
    <3>. QED
      BY Zenon, <3>2, WatcherFacts DEF WatcherInOrder
  <2>2. CASE t # "watcher"
    BY Zenon, <1>1, <1>2, <2>2, WatcherFacts DEF Inv, WatcherInOrder, Tasks
  <2>. QED
    BY Zenon, <2>1, <2>2
<1>4. /\ edges' \in EdgeSet /\ loaded' \in [Tasks -> EdgeSet \cup {None}]
      /\ conns' \in [Names -> Requests \cup {None}] /\ open' \in SUBSET Requests
  BY Zenon, <1>1, <1>2
<1>5. StateOK'
  BY Zenon, <1>1, <1>3, <1>4 DEF Inv, StateOK, TypeOK
<1>6. NothingWhileDown'
  <2> SUFFICES ASSUME daemon = "down"
               PROVE  /\ conns' = NoEdges /\ loaded'["watcher"] = None /\ watcher' = Stopped
                      /\ \A q \in Requests : request[q].at \in {"new", "done"}
    BY Zenon, <1>1 DEF NothingWhileDown
  <2>1. /\ conns = NoEdges /\ loaded["watcher"] = None /\ watcher = Stopped
        /\ \A q \in Requests : request[q].at \in {"new", "done"}
    BY Zenon DEF Inv, NothingWhileDown
  <2>2. t # "watcher" /\ loaded'["watcher"] = None
    BY Zenon, <1>1, <1>2, <2>1 DEF Tasks
  <2>3. conns' = NoEdges
    BY Zenon, <1>1, <2>1 DEF NoEdges
  <2>. QED
    BY Zenon, <1>1, <2>1, <2>2, <2>3
<1>7. \A n \in Names : conns'[n] # None => conns'[n] = conns[n] /\ n \notin evicted /\ conns[n] \in Requests
  BY Zenon, <1>1, <1>2
<1>8. \A n \in evicted : n \in Names /\ conns[n] # None /\ conns[n] \in Requests
  BY Zenon, <1>2
<1>9. PoolMatchesPolicy'
  <2> SUFFICES ASSUME NEW n \in Names, conns'[n] # None
               PROVE  edges'[n] = request'[conns'[n]].id
    BY Zenon DEF PoolMatchesPolicy, Warm
  <2>1. conns'[n] = conns[n] /\ n \notin evicted /\ conns[n] # None
    BY Zenon, <1>7
  <2>2. loaded[t][n] = request[conns[n]].id
    BY Zenon, <2>1
  <2>. QED
    BY Zenon, <1>1, <2>1, <2>2
<1>10. LiveAreKnown'
  <2> SUFFICES ASSUME NEW q \in open', request[q].at # "connected"
               PROVE  request[q].at = "published" /\ conns'[request[q].name] = q
    BY Zenon, <1>1 DEF LiveAreKnown
  <2>1. q \in open /\ q \in Requests /\ \A n \in evicted : conns[n] # q
    BY Zenon, <1>1, <1>2
  <2>2. request[q].at = "published" /\ conns[request[q].name] = q
    BY Zenon, <2>1 DEF Inv, LiveAreKnown
  <2>3. request[q].name \in Names
    BY Zenon, <1>2, <2>1, <2>2 DEF Request
  <2>4. request[q].name \notin evicted
    BY Zenon, <2>1, <2>2
  <2> HIDE DEF evicted
  <2>. QED
    BY Zenon, <1>1, <2>2, <2>3, <2>4
<1> HIDE DEF evicted
<1>11. DiallersHoldTheLock' /\ CachedWerePublished'
  BY Zenon, <1>1, <1>7 DEF Inv, DiallersHoldTheLock, CachedWerePublished
<1>12. WarmEdgesAreNotDialled'
  <2> SUFFICES ASSUME NEW q \in Requests, request[q].at \in {"dialing", "connected"}
               PROVE  ~(conns'[request[q].name] # None /\ conns'[request[q].name] \in open')
    BY Zenon, <1>1 DEF WarmEdgesAreNotDialled, Warm
  <2>1. ~Warm(request[q].name) /\ request[q].name \in Names
    BY Zenon, <1>2 DEF Inv, WarmEdgesAreNotDialled, Request
  <2>. QED
    BY Zenon, <1>1, <1>7, <2>1 DEF Warm
<1>. QED
  BY Zenon, <1>3, <1>5, <1>6, <1>9, <1>10, <1>11, <1>12 DEF Inv

-----------------------------------------------------------------------------
(* The requests.                                                           *)

\* Requests leave everything but the pool alone.
LEMMA RequestFrame ==
    ASSUME Inv, UNCHANGED <<files, daemon, queue, watcher, loaded, edges>>, daemon # "down",
           conns' \in [Names -> Requests \cup {None}], dialLock' \in [Names -> Requests \cup {None}],
           open' \in SUBSET Requests, request' \in [Requests -> Request],
           DiallersHoldTheLock', CachedWerePublished', LiveAreKnown', WarmEdgesAreNotDialled',
           PoolMatchesPolicy'
    PROVE  Inv'
<1>1. StateOK' /\ WatcherInOrder' /\ NothingWhileDown'
  BY Zenon DEF Inv, StateOK, TypeOK, WatcherInOrder, NothingWhileDown, files
<1>. QED
  BY Zenon, <1>1 DEF Inv

\* What is known of a request on its way.
LEMMA RequestFacts ==
    ASSUME Inv, NEW q \in Requests
    PROVE  /\ request \in [Requests -> Request] /\ request[q] \in Request
           /\ conns \in [Names -> Requests \cup {None}] /\ dialLock \in [Names -> Requests \cup {None}]
           /\ open \in SUBSET Requests /\ q # None
           /\ request[q].at \notin {"new", "done"} =>
                /\ request[q].at \in {"looked", "waiting", "dialing", "connected", "published"}
                /\ daemon # "down" /\ request[q].name \in Names /\ request[q].id \in Ids
           /\ request[q].at = "new" => request[q].name = None
           /\ Done \in Request /\ Done.at = "done"
           /\ \A n \in Names : conns[n] = q => request[q].at = "published" /\ request[q].name = n
           /\ q \in open => request[q].at \in {"connected", "published"}
<1>1. /\ request \in [Requests -> Request] /\ request[q] \in Request
      /\ conns \in [Names -> Requests \cup {None}] /\ dialLock \in [Names -> Requests \cup {None}]
      /\ open \in SUBSET Requests /\ q # None
  BY Zenon, ClientAssumption DEF Inv, StateOK, TypeOK
<1>2. request[q].at \notin {"new", "done"} => daemon # "down"
  BY Zenon DEF Inv, NothingWhileDown
<1>3. Done \in Request /\ Done.at = "done"
  BY Zenon DEF Done, Request
<1>4. \A n \in Names : conns[n] = q => request[q].at = "published" /\ request[q].name = n
  BY Zenon, <1>1 DEF Inv, CachedWerePublished
<1>5. q \in open => request[q].at \in {"connected", "published"}
  BY Zenon DEF Inv, LiveAreKnown
<1>. QED
  BY Zenon, <1>1, <1>2, <1>3, <1>4, <1>5 DEF Request

\* A request that neither dialled nor has a connection moves on, without dialling.
LEMMA WaitingRequestInv ==
    ASSUME Inv, NEW q \in Requests, NEW rq \in Request, request' = [request EXCEPT ![q] = rq],
           UNCHANGED <<files, daemon, queue, watcher, loaded, edges, conns, dialLock, open>>,
           request[q].at \in {"new", "looked", "waiting"}, rq.at \in {"looked", "waiting", "done"},
           daemon # "down"
    PROVE  Inv'
<1> USE RequestFacts
<1>1. request' \in [Requests -> Request] /\ request'[q] = rq /\ \A p \in Requests \ {q} : request'[p] = request[p]
  BY Zenon
<1>2. q \notin open /\ \A n \in Names : conns[n] # q
  BY Zenon
<1>3. DiallersHoldTheLock' /\ WarmEdgesAreNotDialled'
  BY Zenon, <1>1 DEF Inv, DiallersHoldTheLock, WarmEdgesAreNotDialled, Warm, Dialling
<1>4. CachedWerePublished' /\ PoolMatchesPolicy'
  BY <1>1, <1>2 DEF Inv, CachedWerePublished, PoolMatchesPolicy, Warm
<1>5. LiveAreKnown'
  BY Zenon, <1>1, <1>2 DEF Inv, LiveAreKnown
<1>. QED
  BY Zenon, <1>1, <1>3, <1>4, <1>5, RequestFrame

\* A request looks its Edge up, and then the pool.
LEMMA LookupInv ==
    ASSUME Inv, NEW q \in Requests, (\E n \in Names : Lookup(q, n)) \/ FirstCheck(q)
    PROVE  Inv'
<1>1. CASE FirstCheck(q)
  <2> DEFINE wq == [request[q] EXCEPT !.at = "waiting"]
             rq == IF Warm(request[q].name) THEN Done ELSE wq
  <2>1. /\ request[q] \in Request /\ request[q].at = "looked" /\ daemon # "down"
        /\ request[q].name \in Names /\ request[q].id \in Ids
        /\ Done \in Request /\ Done.at = "done"
    BY Zenon, <1>1, RequestFacts DEF FirstCheck
  <2>2. wq \in Request /\ wq.at = "waiting"
    BY <2>1 DEF Request
  <2>3. /\ request' = [request EXCEPT ![q] = rq]
        /\ UNCHANGED <<files, daemon, queue, watcher, loaded, edges, conns, dialLock, open>>
    BY Zenon, <1>1 DEF FirstCheck
  <2> HIDE DEF wq
  <2>4. rq \in Request /\ rq.at \in {"looked", "waiting", "done"}
    BY Zenon, <2>1, <2>2
  <2> HIDE DEF rq
  <2>. QED
    BY Zenon, <2>1, <2>3, <2>4, WaitingRequestInv
<1>2. ASSUME NEW n \in Names, Lookup(q, n) PROVE Inv'
  <2>1. edges[n] \in Ids
    BY Zenon, <1>2 DEF Lookup, Inv, StateOK, TypeOK, EdgeSet
  <2> DEFINE rq == [at |-> "looked", name |-> n, id |-> edges[n]]
  <2>2. rq \in Request /\ rq.at = "looked" /\ request' = [request EXCEPT ![q] = rq]
    BY ZenonT(30), <1>2, <2>1 DEF Request, Lookup
  <2> HIDE DEF rq
  <2>. QED
    BY ZenonT(60), <1>2, <2>2, RequestFacts, WaitingRequestInv DEF Lookup
<1>. QED
  BY Zenon, <1>1, <1>2

\* A request takes the dial lock, and dials if there is nothing to share.
LEMMA AcquireDialInv ==
    ASSUME Inv, NEW q \in Requests, AcquireDial(q)
    PROVE  Inv'
<1> USE RequestFacts
<1>1. /\ UNCHANGED <<files, daemon, queue, watcher, loaded, edges, conns, open>>
      /\ request[q].at = "waiting" /\ dialLock[request[q].name] = None
  BY Zenon DEF AcquireDial
<1>2. CASE Warm(request[q].name)
  BY ZenonT(60), <1>1, <1>2, WaitingRequestInv DEF AcquireDial
<1>3. CASE ~Warm(request[q].name)
  <2> DEFINE rq == [request[q] EXCEPT !.at = "dialing"]
  <2>1. rq \in Request /\ rq.at = "dialing" /\ rq.name = request[q].name
    BY <1>1 DEF Request
  <2>2. request' = [request EXCEPT ![q] = rq] /\ dialLock' = [dialLock EXCEPT ![request[q].name] = q]
    BY Zenon, <1>1, <1>3 DEF AcquireDial
  <2> HIDE DEF rq
  <2>3. /\ request' \in [Requests -> Request] /\ request'[q] = rq
        /\ \A p \in Requests \ {q} : request'[p] = request[p]
        /\ dialLock' \in [Names -> Requests \cup {None}] /\ dialLock'[request[q].name] = q
        /\ \A n \in Names \ {request[q].name} : dialLock'[n] = dialLock[n]
    BY ZenonT(60), <1>1, <2>1, <2>2
  <2>4. q \notin open /\ \A n \in Names : conns[n] # q
    BY Zenon, <1>1
  <2>5. DiallersHoldTheLock'
    <3> SUFFICES ASSUME NEW p \in Requests, p # q, request[p].at \in Dialling
                 PROVE  dialLock'[request[p].name] = p
      BY <2>1, <2>3 DEF DiallersHoldTheLock
    <3>1. dialLock[request[p].name] = p /\ request[p].name \in Names /\ p # None
      BY Zenon DEF Inv, DiallersHoldTheLock, Dialling
    <3>. QED
      BY Zenon, <1>1, <2>3, <3>1
  <2>6. CachedWerePublished' /\ PoolMatchesPolicy'
    BY <1>1, <2>3, <2>4 DEF Inv, CachedWerePublished, PoolMatchesPolicy, Warm
  <2>7. LiveAreKnown'
    BY <1>1, <2>3, <2>4 DEF Inv, LiveAreKnown
  <2>8. WarmEdgesAreNotDialled'
    BY <1>1, <1>3, <2>1, <2>3 DEF Inv, WarmEdgesAreNotDialled, Warm
  <2>. QED
    BY Zenon, <1>1, <2>3, <2>5, <2>6, <2>7, <2>8, RequestFrame
<1>. QED
  BY Zenon, <1>2, <1>3

\* The dial ends.
LEMMA DialInv ==
    ASSUME Inv, NEW q \in Requests, DialOk(q) \/ DialFail(q)
    PROVE  Inv'
<1> USE RequestFacts
<1>1. /\ UNCHANGED <<files, daemon, queue, watcher, loaded, edges, conns>>
      /\ request[q].at = "dialing" /\ q \notin open /\ \A n \in Names : conns[n] # q
  BY Zenon DEF DialOk, DialFail
<1>2. dialLock[request[q].name] = q /\ request[q].name \in Names
  BY Zenon, <1>1 DEF Inv, DiallersHoldTheLock, Dialling
<1>3. CASE DialOk(q)
  <2> DEFINE rq == [request[q] EXCEPT !.at = "connected"]
  <2>1. rq \in Request /\ rq.at = "connected" /\ rq.name = request[q].name
    BY <1>1 DEF Request
  <2>2. request' = [request EXCEPT ![q] = rq] /\ open' = open \cup {q} /\ dialLock' = dialLock
    BY Zenon, <1>3 DEF DialOk
  <2> HIDE DEF rq
  <2>3. /\ request' \in [Requests -> Request] /\ request'[q] = rq
        /\ \A p \in Requests \ {q} : request'[p] = request[p]
    BY Zenon, <2>1, <2>2
  <2>4. DiallersHoldTheLock'
    BY Zenon, <1>2, <2>1, <2>2, <2>3 DEF Inv, DiallersHoldTheLock
  <2>5. CachedWerePublished' /\ PoolMatchesPolicy'
    BY <1>1, <2>2, <2>3 DEF Inv, CachedWerePublished, PoolMatchesPolicy, Warm
  <2>6. LiveAreKnown'
    BY Zenon, <1>1, <2>1, <2>2, <2>3 DEF Inv, LiveAreKnown
  <2>7. WarmEdgesAreNotDialled'
    BY Zenon, <1>1, <1>2, <2>1, <2>2, <2>3 DEF Inv, WarmEdgesAreNotDialled, Warm
  <2>. QED
    BY Zenon, <1>1, <2>2, <2>3, <2>4, <2>5, <2>6, <2>7, RequestFrame
<1>4. CASE DialFail(q)
  <2>1. /\ request' = [request EXCEPT ![q] = Done] /\ open' = open
        /\ dialLock' = [dialLock EXCEPT ![request[q].name] = None]
    BY Zenon, <1>4 DEF DialFail
  <2>2. /\ request' \in [Requests -> Request] /\ request'[q] = Done
        /\ \A p \in Requests \ {q} : request'[p] = request[p]
        /\ dialLock' \in [Names -> Requests \cup {None}]
        /\ \A n \in Names \ {request[q].name} : dialLock'[n] = dialLock[n]
    BY Zenon, <1>2, <2>1
  <2>3. DiallersHoldTheLock'
    <3> SUFFICES ASSUME NEW p \in Requests, p # q, request[p].at \in Dialling
                 PROVE  dialLock'[request[p].name] = p
      BY Zenon, <2>2 DEF DiallersHoldTheLock, Dialling
    <3>1. dialLock[request[p].name] = p /\ request[p].name \in Names
      BY Zenon DEF Inv, DiallersHoldTheLock, Dialling
    <3>. QED
      BY Zenon, <1>2, <2>2, <3>1
  <2>4. CachedWerePublished' /\ PoolMatchesPolicy'
    BY <1>1, <2>1, <2>2 DEF Inv, CachedWerePublished, PoolMatchesPolicy, Warm
  <2>5. LiveAreKnown'
    BY <1>1, <2>1, <2>2 DEF Inv, LiveAreKnown
  <2>6. WarmEdgesAreNotDialled'
    BY Zenon, <1>1, <2>1, <2>2 DEF Inv, WarmEdgesAreNotDialled, Warm
  <2>. QED
    BY Zenon, <1>1, <2>1, <2>2, <2>3, <2>4, <2>5, <2>6, RequestFrame
<1>. QED
  BY Zenon, <1>3, <1>4

\* A completed dial is published if the policy still names its endpoint id.
LEMMA PublishInv ==
    ASSUME Inv, NEW q \in Requests, Publish(q)
    PROVE  Inv'
<1> USE RequestFacts
<1> DEFINE n == request[q].name
<1>1. /\ UNCHANGED <<files, daemon, queue, watcher, loaded, edges>>
      /\ request[q].at = "connected" /\ dialLock' = [dialLock EXCEPT ![n] = None]
      /\ \A m \in Names : conns[m] # q
  BY Zenon DEF Publish
<1>2. n \in Names /\ dialLock[n] = q /\ ~Warm(n)
  BY Zenon, <1>1 DEF Inv, DiallersHoldTheLock, WarmEdgesAreNotDialled, Dialling
<1>3. \A p \in Requests \ {q} : request[p].at \in Dialling => request[p].name # n
  BY Zenon, <1>2 DEF Inv, DiallersHoldTheLock
<1>4. /\ dialLock' \in [Names -> Requests \cup {None}]
      /\ \A m \in Names \ {n} : dialLock'[m] = dialLock[m]
  BY Zenon, <1>1, <1>2
<1>5. ASSUME NEW rq \in Request, rq.at \in {"published", "done"}, request' = [request EXCEPT ![q] = rq]
      PROVE  /\ request' \in [Requests -> Request] /\ request'[q] = rq
             /\ \A p \in Requests \ {q} : request'[p] = request[p]
             /\ DiallersHoldTheLock'
  <2>1. /\ request' \in [Requests -> Request] /\ request'[q] = rq
        /\ \A p \in Requests \ {q} : request'[p] = request[p]
    BY Zenon, <1>5
  <2>2. ASSUME NEW p \in Requests, p # q, request[p].at \in Dialling
        PROVE  dialLock'[request[p].name] = p
    BY Zenon, <1>3, <1>4, <2>2 DEF Inv, DiallersHoldTheLock, Dialling
  <2>3. DiallersHoldTheLock'
    BY Zenon, <1>5, <2>1, <2>2 DEF DiallersHoldTheLock, Dialling
  <2>. QED
    BY Zenon, <2>1, <2>3
<1> HIDE DEF n
<1>6. CASE edges[n] = request[q].id
  <2> DEFINE rq == [request[q] EXCEPT !.at = "published"]
  <2>1. rq \in Request /\ rq.at = "published" /\ rq.name = n /\ rq.id = request[q].id
    BY <1>1 DEF Request, n
  <2>2. request' = [request EXCEPT ![q] = rq] /\ conns' = [conns EXCEPT ![n] = q] /\ open' = open
    BY Zenon, <1>6 DEF Publish, n
  <2> HIDE DEF rq
  <2>3. /\ request' \in [Requests -> Request] /\ request'[q] = rq
        /\ \A p \in Requests \ {q} : request'[p] = request[p]
        /\ DiallersHoldTheLock'
    BY Zenon, <1>5, <2>1, <2>2
  <2>4. /\ conns' \in [Names -> Requests \cup {None}] /\ conns'[n] = q
        /\ \A m \in Names \ {n} : conns'[m] = conns[m]
    BY Zenon, <1>2, <2>2
  <2>5. CachedWerePublished'
    BY <1>1, <2>1, <2>3, <2>4 DEF Inv, CachedWerePublished
  <2>6. PoolMatchesPolicy'
    BY Zenon, <1>1, <1>6, <2>1, <2>2, <2>3, <2>4 DEF Inv, PoolMatchesPolicy, Warm
  <2>7. LiveAreKnown'
    <3> SUFFICES ASSUME NEW p \in open, p # q, request[p].at # "connected"
                 PROVE  request[p].at = "published" /\ conns'[request[p].name] = p
      BY ZenonT(60), <2>1, <2>2, <2>3, <2>4 DEF LiveAreKnown
    <3>1. p \in Requests /\ request[p].at = "published" /\ conns[request[p].name] = p /\ p # None
      BY Zenon DEF Inv, LiveAreKnown
    <3>2. request[p].name \in Names /\ request[p].name # n
      BY Zenon, <1>2, <3>1 DEF Warm
    <3>. QED
      BY Zenon, <2>4, <3>1, <3>2
  <2>8. WarmEdgesAreNotDialled'
    <3> SUFFICES ASSUME NEW p \in Requests, p # q, request[p].at \in Dialling
                 PROVE  ~Warm(request[p].name)'
      BY Zenon, <2>1, <2>3 DEF WarmEdgesAreNotDialled, Warm, Dialling
    <3>1. request[p].name \in Names /\ request[p].name # n /\ ~Warm(request[p].name)
      BY Zenon, <1>3 DEF Inv, WarmEdgesAreNotDialled, Dialling
    <3>. QED
      BY <2>2, <2>3, <2>4, <3>1 DEF Warm
  <2>. QED
    BY Zenon, <1>1, <1>4, <2>2, <2>3, <2>4, <2>5, <2>6, <2>7, <2>8, RequestFrame
<1>7. CASE edges[n] # request[q].id
  <2>1. request' = [request EXCEPT ![q] = Done] /\ open' = open \ {q} /\ conns' = conns
    BY Zenon, <1>7 DEF Publish, n
  <2>2. /\ request' \in [Requests -> Request] /\ request'[q] = Done
        /\ \A p \in Requests \ {q} : request'[p] = request[p]
        /\ DiallersHoldTheLock'
    BY Zenon, <1>5, <2>1
  <2>3. CachedWerePublished' /\ PoolMatchesPolicy'
    BY <1>1, <2>1, <2>2 DEF Inv, CachedWerePublished, PoolMatchesPolicy, Warm
  <2>4. LiveAreKnown'
    BY Zenon, <2>1, <2>2 DEF Inv, LiveAreKnown
  <2>5. WarmEdgesAreNotDialled'
    BY Zenon, <2>1, <2>2 DEF Inv, WarmEdgesAreNotDialled, Warm
  <2>. QED
    BY Zenon, <1>1, <1>4, <2>1, <2>2, <2>3, <2>4, <2>5, RequestFrame
<1>. QED
  BY Zenon, <1>6, <1>7

\* A connection dies, and its entry goes if it is still the one cached.
LEMMA ClosesInv ==
    ASSUME Inv, NEW q \in Requests, ConnectionCloses(q) \/ EvictDead(q)
    PROVE  Inv'
<1> USE RequestFacts
<1>1. UNCHANGED <<files, daemon, queue, watcher, loaded, edges, dialLock>>
  BY Zenon DEF ConnectionCloses, EvictDead
<1>2. CASE ConnectionCloses(q)
  <2>1. q \in open /\ open' = open \ {q} /\ UNCHANGED <<conns, request>>
    BY Zenon, <1>2 DEF ConnectionCloses
  <2>2. /\ DiallersHoldTheLock' /\ CachedWerePublished' /\ LiveAreKnown' /\ WarmEdgesAreNotDialled'
        /\ PoolMatchesPolicy'
    BY Zenon, <1>1, <2>1 DEF Inv, DiallersHoldTheLock, CachedWerePublished, LiveAreKnown, WarmEdgesAreNotDialled,
                      PoolMatchesPolicy, Warm
  <2>. QED
    BY Zenon, <1>1, <2>1, <2>2, RequestFrame
<1>3. CASE EvictDead(q)
  <2> DEFINE n == request[q].name
  <2>1. /\ request[q].at = "published" /\ q \notin open /\ request' = [request EXCEPT ![q] = Done]
        /\ conns' = [conns EXCEPT ![n] = IF Warm(n) THEN conns[n] ELSE None] /\ open' = open
        /\ n \in Names
    BY Zenon, <1>3 DEF EvictDead
  <2> HIDE DEF n
  <2>2. /\ request' \in [Requests -> Request] /\ request'[q] = Done
        /\ \A p \in Requests \ {q} : request'[p] = request[p]
        /\ conns' \in [Names -> Requests \cup {None}]
        /\ \A m \in Names \ {n} : conns'[m] = conns[m]
        /\ conns'[n] = IF Warm(n) THEN conns[n] ELSE None
    BY Zenon, <2>1
  <2>3. \A m \in Names : conns'[m] # None => conns'[m] = conns[m] /\ conns[m] # q
    BY <2>1, <2>2 DEF Warm, n
  <2>4. DiallersHoldTheLock'
    BY Zenon, <1>1, <2>2 DEF Inv, DiallersHoldTheLock, Dialling
  <2>5. CachedWerePublished' /\ PoolMatchesPolicy'
    BY <1>1, <2>1, <2>2, <2>3 DEF Inv, CachedWerePublished, PoolMatchesPolicy, Warm
  <2>6. LiveAreKnown'
    <3> SUFFICES ASSUME NEW p \in open, request[p].at # "connected"
                 PROVE  request[p].at = "published" /\ conns'[request[p].name] = p
      BY <2>1, <2>2 DEF LiveAreKnown
    <3>1. p \in Requests /\ request[p].at = "published" /\ conns[request[p].name] = p /\ p # None
      BY Zenon DEF Inv, LiveAreKnown
    <3>. QED
      BY <2>2, <3>1 DEF Warm
  <2>7. WarmEdgesAreNotDialled'
    <3> SUFFICES ASSUME NEW p \in Requests, p # q, request[p].at \in Dialling
                 PROVE  ~Warm(request[p].name)'
      BY Zenon, <2>2 DEF WarmEdgesAreNotDialled, Dialling
    <3>1. ~Warm(request[p].name) /\ request[p].name \in Names
      BY Zenon DEF Inv, WarmEdgesAreNotDialled, Dialling
    <3>. QED
      BY ZenonT(60), <2>1, <2>2, <2>3, <3>1 DEF Warm
  <2>. QED
    BY Zenon, <1>1, <2>1, <2>2, <2>4, <2>5, <2>6, <2>7, RequestFrame
<1>. QED
  BY Zenon, <1>2, <1>3

-----------------------------------------------------------------------------
\* Nothing runs, nothing is cached.
LEMMA InitInv == Init => Inv
<1> SUFFICES ASSUME Init PROVE Inv
  BY Zenon
<1>1. /\ NoEdges \in EdgeSet /\ NoEdges \in [Names -> Requests \cup {None}]
      /\ \A n \in Names : NoEdges[n] = None
  BY Zenon DEF NoEdges, EdgeSet
<1>2. 0 \in 0..MaxQueue /\ 0 \in 0..MaxRevision /\ 1 \in 0..MaxRevision /\ 1 \in 1..MaxRevision
  BY ClientAssumption
<1>3. control \in [rev : 1..MaxRevision, edges : EdgeSet, member : BOOLEAN] /\ config \in Config
  BY <1>1, <1>2 DEF Init, Config
<1>4. cli \in Cli /\ watcher \in Watcher /\ watcher.at = "stopped"
  BY Zenon DEF Init, Cli, Watcher, Stopped
<1>5. request \in [Requests -> Request] /\ \A q \in Requests : request[q].at = "new"
  BY Zenon DEF Init, Request
<1>6. StateOK
  BY Zenon, <1>1, <1>2, <1>3, <1>4, <1>5 DEF Init, StateOK, TypeOK
<1>7. WatcherInOrder /\ NothingWhileDown
  BY Zenon, <1>4, <1>5 DEF Init, WatcherInOrder, NothingWhileDown, Tasks
<1>8. /\ DiallersHoldTheLock /\ CachedWerePublished /\ LiveAreKnown /\ WarmEdgesAreNotDialled
      /\ PoolMatchesPolicy
  BY Zenon, <1>1, <1>5 DEF Init, DiallersHoldTheLock, CachedWerePublished, LiveAreKnown, WarmEdgesAreNotDialled,
                    PoolMatchesPolicy, Warm, Dialling
<1>. QED
  BY Zenon, <1>6, <1>7, <1>8 DEF Inv

\* Every step keeps the invariant.
LEMMA NextInv == Inv /\ [Next]_vars => Inv'
<1> SUFFICES ASSUME Inv, [Next]_vars PROVE Inv'
  BY Zenon
<1>1. CASE FileNext
  BY Zenon, <1>1, ControlInv, CommandInv DEF FileNext
<1>2. CASE DaemonNext
  BY Zenon, <1>2, DaemonStartInv, DaemonStopInv, MainReloadInv, SwapInv, WatcherInv DEF DaemonNext
<1>3. CASE RequestNext
  BY Zenon, <1>3, LookupInv, AcquireDialInv, DialInv, PublishInv, ClosesInv DEF RequestNext
<1>4. CASE UNCHANGED vars
  <2>1. StateOK' /\ WatcherInOrder' /\ NothingWhileDown'
    BY Zenon, <1>4 DEF vars, files, pool, Inv, StateOK, TypeOK, WatcherInOrder, NothingWhileDown
  <2>. QED
    BY Zenon, <1>4, <2>1, PoolFrame DEF vars
<1>. QED
  BY Zenon, <1>1, <1>2, <1>3, <1>4 DEF Next

\* The invariant holds in every state of the Client.
THEOREM InvHolds == Spec => []Inv
BY InitInv, NextInv, PTL DEF Spec

\* However requests, reloads and closing connections interleave, every live connection
\* is the cached one or about to be published, and nobody dials an Edge that has one
\* (get_conn, its dial lock and its second look at the pool).
THEOREM PoolStaysSound == Spec => []PoolIsSound
<1>1. Inv => PoolIsSound
  BY Zenon DEF Inv, StateOK, PoolIsSound, LiveConnectionsArePooled, LiveAreKnown
<1>. QED
  BY <1>1, InvHolds, PTL

\* A live cached connection leads where the policy says, also when its dial completed
\* while reload_edges swapped the policy.
THEOREM PoolFollowsPolicy == Spec => []PoolMatchesPolicy
BY InvHolds, PTL DEF Inv

\* config.json goes back to an older revision only when its writer had read the file
\* before somebody else changed it (run_control_watcher and the commands).
THEOREM OnlyLostUpdatesRollBack == Spec => RollbacksAreLostUpdates
<1> DEFINE Step == config'.rev < config.rev =>
                     \/ cli.at = "answered" /\ cli.base # config
                     \/ watcher.at \in {"updated", "revoked"} /\ watcher.base # config
<1>1. ASSUME Inv, [Next]_vars PROVE [Step]_vars
  <2>1. config \in Config /\ config.rev \in Nat
    BY <1>1, ClientAssumption DEF Inv, StateOK, TypeOK, Config
  <2>2. CASE config'.rev = config.rev
    BY <2>1, <2>2
  <2>3. CASE CliCommit
    <3>1. config'.rev = cli.rev /\ cli.rev >= cli.base.rev /\ cli.at = "answered"
      <4>1. cli.at = "answered" /\ config' = [control |-> TRUE, rev |-> cli.rev, edges |-> cli.edges]
        BY Zenon, <2>3 DEF CliCommit, Commit
      <4>2. cli.rev \in Nat /\ cli.base.rev \in Nat
        BY <1>1, <4>1, ClientAssumption DEF Inv, StateOK, Cli, Idle, Config
      <4>3. cli.rev > cli.base.rev \/ cli.rev >= cli.base.rev
        BY Zenon, <2>3 DEF CliCommit
      <4>. QED
        BY <4>1, <4>2, <4>3
    <3>2. cli.base = config => ~(config'.rev < config.rev)
      <4>1. cli.rev \in Nat
        BY <1>1, <3>1, ClientAssumption DEF Inv, StateOK, Cli, Idle
      <4>. QED
        BY <2>1, <3>1, <4>1
    <3>. QED
      BY Zenon, <3>1, <3>2
  <2>4. CASE WatcherUpdated
    <3>1. config'.rev = watcher.rev /\ watcher.rev > watcher.base.rev /\ watcher.at = "updated"
      BY Zenon, <1>1, <2>4 DEF WatcherUpdated, Inv, WatcherInOrder
    <3>2. watcher.rev \in Nat
      BY <1>1, <3>1, WatcherFacts, ClientAssumption
    <3>. QED
      BY <2>1, <3>1, <3>2
  <2>5. CASE WatcherRevoked
    <3>1. watcher.at = "revoked" /\ (config'.rev = watcher.base.rev \/ config' = config)
      BY Zenon, <1>1, <2>5, WatcherFacts DEF WatcherRevoked, Config
    <3>. QED
      BY <2>1, <3>1
  <2>6. CASE \E n \in Names : EdgeRm(n) \/ \E i \in Ids : EdgeAdd(n, i)
    <3>1. config'.rev = config.rev
      BY Zenon, <2>1, <2>6 DEF EdgeRm, EdgeAdd, Commit, Config
    <3>. QED
      BY Zenon, <2>2, <3>1
  <2>7. \/ CliCommit \/ WatcherUpdated \/ WatcherRevoked \/ config' = config
        \/ \E n \in Names : EdgeRm(n) \/ \E i \in Ids : EdgeAdd(n, i)
    BY Zenon, <1>1 DEF Next, FileNext, DaemonNext, RequestNext, vars, files, ControlChange, ControlRemove,
                CliJoin, CliSync, CliRemove, Send, CliAnswer, CliFail, DaemonLoad, DaemonListen, DaemonStop,
                MainReload, Swap, WatcherLoad, WatcherAnswer, WatcherFail, WatcherReload,
                Lookup, FirstCheck, AcquireDial, DialOk, DialFail, Publish, ConnectionCloses, EvictDead
  <2>. QED
    BY Zenon, <2>2, <2>3, <2>4, <2>5, <2>6, <2>7
<1>. QED
  BY <1>1, InvHolds, PTL DEF Spec, RollbacksAreLostUpdates
=============================================================================
