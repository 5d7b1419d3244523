----------------------------- MODULE DaemonLife -----------------------------
(***************************************************************************)
(* The life of the Client daemon: commands find it, start it, replace one  *)
(* of another version and stop it; it holds an instance lock and a socket  *)
(* file, serves connections, keeps local proxies and leaves when idle      *)
(* (client.rs, daemon.rs, local_ipc.rs, daemon/proxy.rs).                 *)
(*                                                                         *)
(* A daemon is one process: a number, never used again.  A command is one  *)
(* run of the CLI by c.  The Unix form of the local endpoint is modelled.  *)
(* What a Work request does is the subject of Session, and what a reload   *)
(* does to connections that of ClientDaemon.                               *)
(***************************************************************************)
EXTENDS Naturals, Sequences

CONSTANTS
    Clis,          \* terminals, each running one command at a time
    Versions,      \* builds of the CLI and of the daemon
    Menu,          \* bound: terminal -> the commands, with their builds, it may run
    Names,         \* names of local proxies
    Ports,         \* local addresses of proxies
    MaxCommands,   \* bound: commands in a behaviour
    MaxPolls,      \* bound: attempts of each waiting loop of ensure_daemon
    MaxFaults,    \* bound: daemons killed or failing to start, and proxies whose accept fails
    None

ASSUME DaemonLifeAssumption ==
    /\ MaxCommands \in Nat /\ MaxPolls \in Nat \ {0} /\ MaxFaults \in Nat
    /\ Menu \in [Clis -> SUBSET ({"work", "start", "stop", "edge", "shutdown"} \X Versions)]
    /\ None \notin Versions \cup Names \cup Ports \cup Nat

Daemons == 1 .. MaxCommands     \* a command spawns at most one

VARIABLES
    phase,      \* daemon -> where its run() is
    version,    \* daemon -> the build it was spawned from
    loaded,     \* daemon -> the configuration it read last
    lock,       \* the daemon that holds the instance lock
    socket,     \* the daemon whose listener the socket file leads to
    commands,   \* daemon -> its queue of admin commands
    running,    \* daemon -> name -> the proxy under that name
    port,       \* port -> the daemon whose process has it bound
    config,     \* the configuration in the file, as a counter
    cli,        \* terminal -> the command it runs
    conn,       \* terminal -> its connection to a daemon
    sending,    \* handlers that have answered and still have to send
    issued, faults,        \* counters for the bounds
    reachedAt   \* history: daemon -> the configuration when it began to listen

life == <<phase, version, loaded, lock, socket, reachedAt>>
proxies == <<running, port>>
vars == <<life, commands, proxies, config, cli, conn, sending, issued, faults>>

Alive == {"starting", "loaded", "serving", "checking", "draining", "closing", "unbound"}
Listening == {"serving", "checking", "draining", "closing"}
NoProxy == [port |-> None, live |-> FALSE]
NoConn == [to |-> None, req |-> None, step |-> "none", held |-> None, reply |-> None]
Idle == [pc |-> "idle", cmd |-> None, version |-> None, name |-> None, port |-> None,
         polls |-> 0, why |-> None, met |-> FALSE]
Requests == {"Status", "Shutdown", "Reload", "Work", "Start", "Stop"}

TypeOK ==
    /\ phase \in [Daemons -> Alive \cup {"none", "dead"}]
    /\ version \in [Daemons -> Versions \cup {None}]
    /\ loaded \in [Daemons -> Nat] /\ reachedAt \in [Daemons -> Nat] /\ config \in Nat
    /\ lock \in Daemons \cup {None} /\ socket \in Daemons \cup {None}
    /\ commands \in [Daemons -> Seq({"Shutdown", "Reload"})]
    /\ running \in [Daemons -> [Names -> [port : Ports \cup {None}, live : BOOLEAN]]]
    /\ port \in [Ports -> Daemons \cup {None}]
    /\ cli \in [Clis -> [pc : {"idle", "status", "replace", "probe", "spawn", "poll", "connect",
                               "direct", "wait", "failed"},
                         cmd : {"work", "start", "stop", "edge", "shutdown", None},
                         version : Versions \cup {None}, name : Names \cup {None},
                         port : Ports \cup {None}, polls : 0 .. MaxPolls,
                         why : {"closed", "refused", "timeout", "answer", None}, met : BOOLEAN]]
    /\ conn \in [Clis -> [to : Daemons \cup {None}, req : Requests \cup {None},
                          step : {"none", "backlog", "active", "bound", "removed", "answered", "closed"},
                          held : Ports \cup {None}, reply : Versions \cup {None, "ok", "error"}]]
    /\ sending \subseteq (Daemons \X Clis \X {"Shutdown", "Reload"})
    /\ issued \in 0 .. MaxCommands /\ faults \in 0 .. MaxFaults

Init ==
    /\ phase = [d \in Daemons |-> "none"] /\ version = [d \in Daemons |-> None]
    /\ loaded = [d \in Daemons |-> 0] /\ reachedAt = [d \in Daemons |-> 0]
    /\ lock = None /\ socket = None
    /\ commands = [d \in Daemons |-> <<>>]
    /\ running = [d \in Daemons |-> [n \in Names |-> NoProxy]] /\ port = [p \in Ports |-> None]
    /\ config = 0
    /\ cli = [c \in Clis |-> Idle] /\ conn = [c \in Clis |-> NoConn] /\ sending = {}
    /\ issued = 0 /\ faults = 0

-----------------------------------------------------------------------------
(* The command (client.rs).                                                *)

\* connect succeeds while the socket file leads to a listener that is still open, served or not.
Reachable == socket # None /\ phase[socket] \in Listening

Open(c, req) ==
    conn' = [conn EXCEPT ![c] = [NoConn EXCEPT !.to = socket, !.req = req, !.step = "backlog"]]

Goto(c, pc) == cli' = [cli EXCEPT ![c].pc = pc]
Finish(c) == cli' = [cli EXCEPT ![c] = Idle]
Fail(c, why) == cli' = [cli EXCEPT ![c] = [Idle EXCEPT !.pc = "failed", !.cmd = cli[c].cmd, !.why = why, !.met = cli[c].met]]
Quiet(c) == conn[c].step = "none"
Answered(c) == conn[c].step = "answered" /\ conn' = [conn EXCEPT ![c] = NoConn]
Matches(c) == conn[c].reply = cli[c].version

Departing == lock # None /\ phase[lock] \in {"draining", "closing", "unbound"}
Busy == {c \in Clis : cli[c].pc \notin {"idle", "failed"}}

onlyCli == UNCHANGED <<life, commands, proxies, config, sending, issued, faults>>

\* A command starts; `edge add` and the like have committed the file before they ask for a reload.
Begin(c, cmd, v, n, p) ==
    /\ c \notin Busy /\ issued < MaxCommands
    /\ issued' = issued + 1
    /\ cli' = [cli EXCEPT ![c] = [Idle EXCEPT !.pc = IF cmd \in {"work", "start"} THEN "status" ELSE "direct",
                                              !.cmd = cmd, !.version = IF cmd = "shutdown" THEN None ELSE v,
                                              !.name = IF cmd \in {"start", "stop"} THEN n ELSE None,
                                              !.port = IF cmd = "start" THEN p ELSE None,
                                              !.met = Departing]]
    /\ config' = IF cmd = "edge" THEN config + 1 ELSE config
    /\ UNCHANGED <<life, commands, proxies, conn, sending, faults>>

\* daemon_admin(Status) at the head of ensure_daemon.
EnsureStatus(c) ==
    /\ cli[c].pc = "status"
    /\ \/ Quiet(c) /\ Reachable /\ Open(c, "Status") /\ UNCHANGED cli
       \/ Quiet(c) /\ ~Reachable /\ Goto(c, "spawn") /\ UNCHANGED conn
       \/ Answered(c) /\ Goto(c, IF Matches(c) THEN "connect" ELSE "replace")
    /\ onlyCli

\* A daemon of another build is told to shut down, and the command waits until nothing listens.
EnsureReplace(c) ==
    /\ \/ /\ cli[c].pc = "replace"
          /\ \/ Quiet(c) /\ Reachable /\ Open(c, "Shutdown") /\ UNCHANGED cli
             \/ Quiet(c) /\ ~Reachable /\ Goto(c, "probe") /\ UNCHANGED conn
             \/ Answered(c) /\ Goto(c, "probe")
       \/ /\ cli[c].pc = "probe"
          /\ cli' = IF Reachable /\ cli[c].polls < MaxPolls
                    THEN [cli EXCEPT ![c].polls = @ + 1] ELSE [cli EXCEPT ![c].pc = "spawn"]
          /\ UNCHANGED conn
    /\ onlyCli

\* spawn_daemon: a detached process of the command's own build.
SpawnDaemon(c) ==
    /\ cli[c].pc = "spawn"
    /\ \E d \in Daemons :
         /\ phase[d] = "none" /\ \A e \in 1 .. (d - 1) : phase[e] # "none"
         /\ phase' = [phase EXCEPT ![d] = "starting"]
         /\ version' = [version EXCEPT ![d] = cli[c].version]
    /\ cli' = [cli EXCEPT ![c].pc = "poll", ![c].polls = 0]
    /\ UNCHANGED <<loaded, lock, socket, reachedAt, commands, proxies, config, conn, sending,
                   issued, faults>>

EnsurePoll_Forever(c) ==
    /\ cli[c].pc = "poll"
    /\ \/ Quiet(c) /\ Reachable /\ Open(c, "Status") /\ UNCHANGED cli
       \/ Quiet(c) /\ ~Reachable /\ UNCHANGED <<cli, conn>>
       \/ Answered(c) /\ (IF Matches(c) THEN Goto(c, "connect") ELSE UNCHANGED cli)
    /\ onlyCli

\* The status of the new daemon is asked for until it answers, a bounded number of times.
EnsurePoll(c) ==
    /\ cli[c].pc = "poll"
    /\ \/ Quiet(c) /\ cli[c].polls = MaxPolls /\ Fail(c, "timeout") /\ UNCHANGED conn
       \/ Quiet(c) /\ cli[c].polls < MaxPolls /\ Reachable /\ Open(c, "Status") /\ UNCHANGED cli
       \/ /\ Quiet(c) /\ cli[c].polls < MaxPolls /\ ~Reachable
          /\ cli' = [cli EXCEPT ![c].polls = @ + 1] /\ UNCHANGED conn
       \/ /\ Answered(c)
          /\ IF Matches(c) THEN Goto(c, "connect") ELSE cli' = [cli EXCEPT ![c].polls = @ + 1]
    /\ onlyCli

\* The connection the request itself travels on: a new one, after ensure_daemon.
SendRequest(c) ==
    /\ cli[c].pc = "connect"
    /\ IF Reachable
       THEN Open(c, IF cli[c].cmd = "work" THEN "Work" ELSE "Start") /\ Goto(c, "wait")
       ELSE Fail(c, "refused") /\ UNCHANGED conn
    /\ onlyCli

\* Commands that never start a daemon: `proxy stop`, `daemon --stop`, and the reload of `edge` commands.
SendDirect(c) ==
    /\ cli[c].pc = "direct"
    /\ IF Reachable
       THEN /\ Open(c, CASE cli[c].cmd = "stop" -> "Stop" [] cli[c].cmd = "shutdown" -> "Shutdown" [] OTHER -> "Reload")
            /\ Goto(c, "wait")
       ELSE Finish(c) /\ UNCHANGED conn
    /\ onlyCli

ReadAnswer(c) ==
    /\ cli[c].pc = "wait"
    /\ Answered(c)
    /\ IF conn[c].reply = "error" THEN Fail(c, "answer") ELSE Finish(c)
    /\ onlyCli

\* End of stream before any answer: every caller gives up, ensure_daemon included.
ReadClosed(c) ==
    /\ conn[c].step = "closed"
    /\ conn' = [conn EXCEPT ![c] = NoConn]
    /\ Fail(c, "closed")
    /\ onlyCli

Command(c) ==
    \/ EnsureStatus(c) \/ EnsureReplace(c) \/ SpawnDaemon(c) \/ EnsurePoll(c)
    \/ SendRequest(c) \/ SendDirect(c) \/ ReadAnswer(c) \/ ReadClosed(c)

-----------------------------------------------------------------------------
(* The process (daemon.rs run).                                            *)

Step(d, from, to) == phase[d] = from /\ phase' = [phase EXCEPT ![d] = to]

\* Connections of a process, or only those nobody has accepted, end without an answer.
Drop(d, steps) ==
    [c \in Clis |-> IF conn[c].to = d /\ conn[c].step \in steps THEN [NoConn EXCEPT !.step = "closed"] ELSE conn[c]]

Fault == faults < MaxFaults /\ faults' = faults + 1
Depart == cli' = [c \in Clis |-> [cli[c] EXCEPT !.met = @ \/ c \in Busy]]

Reread_Cached(d) == [loaded EXCEPT ![d] = IF @ = 0 THEN config ELSE @]

\* load_config, at the start and in reload_edges.
Reread(d) == [loaded EXCEPT ![d] = config]

TryAcquire_BindsFirst(d) ==
    /\ \/ lock = None /\ Step(d, "starting", "loaded") /\ lock' = d /\ loaded' = Reread(d)
       \/ lock # None /\ Step(d, "starting", "dead") /\ UNCHANGED <<lock, loaded>>
    /\ socket' = d
    /\ UNCHANGED <<version, reachedAt, commands, proxies, config, cli, conn, sending, issued, faults>>

\* The instance lock comes first; a second daemon ends there.
TryAcquire(d) ==
    /\ \/ lock = None /\ Step(d, "starting", "loaded") /\ lock' = d /\ loaded' = Reread(d)
       \/ lock # None /\ Step(d, "starting", "dead") /\ UNCHANGED <<lock, loaded>>
    /\ version' = IF lock = None THEN version ELSE [version EXCEPT ![d] = None]
    /\ UNCHANGED <<socket, reachedAt, commands, proxies, config, cli, conn, sending,
                   issued, faults>>

\* Whatever file is at the socket's path is removed, and a new listener bound there.
Bind(d) ==
    /\ Step(d, "loaded", "serving")
    /\ socket' = d
    /\ reachedAt' = [reachedAt EXCEPT ![d] = config]
    /\ UNCHANGED <<version, loaded, lock, commands, proxies, config, cli, conn, sending,
                   issued, faults>>

\* The configuration, the endpoint, the store, the listener or, with the socket
\* already bound, registry.json (which no code reads) cannot be set up.
StartFails(d) ==
    /\ \/ Step(d, "loaded", "unbound") /\ UNCHANGED socket
       \/ Step(d, "loaded", "closing") /\ socket' = d
    /\ Fault /\ Depart
    /\ UNCHANGED <<version, loaded, lock, reachedAt, commands, proxies, config, conn,
                   sending, issued>>

\* The main loop takes a connection; its handler counts itself in `active` at its first step.
Accept(c) ==
    /\ conn[c].step = "backlog" /\ phase[conn[c].to] = "serving"
    /\ conn' = [conn EXCEPT ![c].step = "active"]
    /\ UNCHANGED <<life, commands, proxies, config, cli, sending, issued, faults>>

\* Shutdown ends the loop: it stays at the head, and nothing behind it is taken.
TakeCommand(d) ==
    /\ phase[d] = "serving" /\ commands[d] # <<>>
    /\ \/ /\ Head(commands[d]) = "Reload"
          /\ commands' = [commands EXCEPT ![d] = Tail(@)]
          /\ loaded' = Reread(d) /\ UNCHANGED <<phase, cli>>
       \/ /\ Head(commands[d]) = "Shutdown"
          /\ Step(d, "serving", "draining") /\ Depart /\ UNCHANGED <<loaded, commands>>
    /\ UNCHANGED <<version, lock, socket, reachedAt, proxies, config, conn, sending, issued, faults>>

Active_UntilBound(d) == \E c \in Clis : conn[c].to = d /\ conn[c].step = "active"

\* ActiveGuard: from the first step of a handler to its end, the send to the loop included.
Active(d) ==
    \/ \E c \in Clis : conn[c].to = d /\ conn[c].step \in {"active", "bound", "removed"}
    \/ \E s \in sending : s[1] = d

\* For idle_secs nothing was accepted and no command came; `active` is read first ...
IdleCheck(d) ==
    /\ commands[d] = <<>> /\ ~ \E c \in Clis : conn[c].to = d /\ conn[c].step = "backlog"
    /\ ~Active(d)
    /\ Step(d, "serving", "checking")
    /\ UNCHANGED <<version, loaded, lock, socket, reachedAt, commands, proxies, config, cli, conn, sending, issued, faults>>

\* ... and the table of proxies, whose lock may have to be waited for, after it.
IdleExit(d) ==
    /\ \/ (\E n \in Names : running[d][n] # NoProxy) /\ Step(d, "checking", "serving") /\ UNCHANGED cli
       \/ (\A n \in Names : running[d][n] = NoProxy) /\ Step(d, "checking", "draining") /\ Depart
    /\ UNCHANGED <<version, loaded, lock, socket, reachedAt, commands, proxies, config, conn, sending, issued, faults>>

Shut(d) ==
    /\ Step(d, "draining", "closing")
    /\ port' = [p \in Ports |-> IF \E n \in Names : running[d][n] = [port |-> p, live |-> TRUE] THEN None ELSE port[p]]
    /\ running' = [running EXCEPT ![d] = [n \in Names |-> NoProxy]]
    /\ UNCHANGED <<version, loaded, socket, reachedAt, commands, config, cli, conn, sending, issued, faults>>

DrainProxies_Unlocks(d) == Shut(d) /\ lock' = None

\* After the loop, proxies.shutdown cancels and joins every proxy.
DrainProxies(d) == Shut(d) /\ UNCHANGED lock

\* endpoint.close, then the locals are dropped in reverse order: the listener first, with the file at
\* its path.  Connections nobody accepted are reset.
DropListener(d) ==
    /\ Step(d, "closing", "unbound")
    /\ socket' = None
    /\ conn' = Drop(d, {"backlog"})
    /\ UNCHANGED <<version, loaded, lock, reachedAt, commands, proxies, config, cli, sending, issued, faults>>

\* The process is gone, and its lock, handlers, connections and ports with it.
Gone(d) ==
    /\ phase' = [phase EXCEPT ![d] = "dead"]
    /\ lock' = IF lock = d THEN None ELSE lock
    /\ conn' = Drop(d, {"backlog", "active", "bound", "removed"})
    /\ sending' = {s \in sending : s[1] # d}
    /\ running' = [running EXCEPT ![d] = [n \in Names |-> NoProxy]]
    /\ port' = [p \in Ports |-> IF port[p] = d THEN None ELSE port[p]]
    /\ commands' = [commands EXCEPT ![d] = <<>>]
    /\ version' = [version EXCEPT ![d] = None]
    /\ loaded' = [loaded EXCEPT ![d] = 0] /\ reachedAt' = [reachedAt EXCEPT ![d] = 0]
    /\ UNCHANGED <<config, issued>>

\* _instance_lock is the first local of run, so the last one dropped; the process ends.
Leave(d) == phase[d] = "unbound" /\ Gone(d) /\ UNCHANGED <<socket, cli, faults>>

\* A killed daemon leaves its socket file behind; the kernel frees its lock.
Crash(d) ==
    /\ phase[d] \in Alive /\ Gone(d) /\ Fault /\ Depart
    /\ UNCHANGED socket

Daemon(d) ==
    \/ TryAcquire(d) \/ Bind(d) \/ TakeCommand(d) \/ IdleCheck(d) \/ IdleExit(d)
    \/ DrainProxies(d) \/ DropListener(d) \/ Leave(d)

-----------------------------------------------------------------------------
(* The handlers (handle_client, handle_admin, ProxyManager).               *)

Reply(c, value) == [conn EXCEPT ![c].step = "answered", ![c].reply = value, ![c].held = None]
Handles(c, req) == conn[c].req = req /\ conn[c].step = "active" /\ phase[conn[c].to] \in Alive
SameBuild(c) == version[conn[c].to] = cli[c].version

onlyHandler == UNCHANGED <<life, commands, config, cli, issued, faults>>

\* Status and Shutdown are answered whatever the caller's build, Reload only for the same one; the
\* command is sent to the main loop after the answer has been written.
HandleAdmin(c) ==
    /\ \/ Handles(c, "Status") /\ conn' = Reply(c, version[conn[c].to]) /\ UNCHANGED sending
       \/ /\ Handles(c, "Shutdown") \/ (Handles(c, "Reload") /\ SameBuild(c))
          /\ conn' = Reply(c, "ok") /\ sending' = sending \cup {<<conn[c].to, c, conn[c].req>>}
       \/ Handles(c, "Reload") /\ ~SameBuild(c) /\ conn' = Reply(c, "error") /\ UNCHANGED sending
    /\ UNCHANGED proxies /\ onlyHandler

SendToLoop(s) ==
    /\ sending' = sending \ {s}
    /\ commands' = [commands EXCEPT ![s[1]] = Append(@, s[3])]
    /\ UNCHANGED <<life, proxies, config, cli, conn, issued, faults>>

\* Any other request of another build ends the handler without an answer.
RefuseBuild(c) ==
    /\ Handles(c, "Work") \/ Handles(c, "Start") \/ Handles(c, "Stop")
    /\ ~SameBuild(c)
    /\ conn' = [conn EXCEPT ![c] = [NoConn EXCEPT !.step = "closed"]]
    /\ UNCHANGED <<proxies, sending>> /\ onlyHandler

HandleWork(c) ==
    /\ Handles(c, "Work") /\ SameBuild(c)
    /\ conn' = Reply(c, "ok")
    /\ UNCHANGED <<proxies, sending>> /\ onlyHandler

\* ProxyManager::start binds the address before it takes the table's lock.
ProxyBind(c) ==
    /\ Handles(c, "Start") /\ SameBuild(c)
    /\ LET p == cli[c].port IN
         IF port[p] # None
         THEN conn' = Reply(c, "error") /\ UNCHANGED port
         ELSE port' = [port EXCEPT ![p] = conn[c].to] /\ conn' = [conn EXCEPT ![c].step = "bound", ![c].held = p]
    /\ UNCHANGED <<running, sending>> /\ onlyHandler

Taken(d, n, p) == running[d][n] # NoProxy \/ \E m \in Names : running[d][m].port = p

\* A name or an address that is taken refuses the start, and dropping the listener frees the port.
ProxyInsert(c) ==
    /\ conn[c].step = "bound" /\ phase[conn[c].to] \in Alive
    /\ LET d == conn[c].to
           n == cli[c].name
           p == conn[c].held
       IN IF Taken(d, n, p)
          THEN port' = [port EXCEPT ![p] = None] /\ conn' = Reply(c, "error") /\ UNCHANGED running
          ELSE running' = [running EXCEPT ![d][n] = [port |-> p, live |-> TRUE]] /\ conn' = Reply(c, "ok") /\ UNCHANGED port
    /\ UNCHANGED sending /\ onlyHandler

ProxyRemove_KeepsEntry(c) ==
    /\ Handles(c, "Stop") /\ SameBuild(c)
    /\ LET d == conn[c].to
           e == running[d][cli[c].name]
       IN IF e = NoProxy
          THEN conn' = Reply(c, "error") /\ UNCHANGED running
          ELSE /\ running' = [running EXCEPT ![d][cli[c].name].live = FALSE]
               /\ conn' = [conn EXCEPT ![c].step = "removed", ![c].held = IF e.live THEN e.port ELSE None]
    /\ UNCHANGED <<port, sending>> /\ onlyHandler

\* ProxyManager::stop takes the entry out of the table, then cancels its task.
ProxyRemove(c) ==
    /\ Handles(c, "Stop") /\ SameBuild(c)
    /\ LET d == conn[c].to
           e == running[d][cli[c].name]
       IN IF e = NoProxy
          THEN conn' = Reply(c, "error") /\ UNCHANGED running
          ELSE /\ running' = [running EXCEPT ![d][cli[c].name] = NoProxy]
               /\ conn' = [conn EXCEPT ![c].step = "removed", ![c].held = IF e.live THEN e.port ELSE None]
    /\ UNCHANGED <<port, sending>> /\ onlyHandler

\* The answer waits for the task, which has closed the listener and its sessions.
ProxyStopped(c) ==
    /\ conn[c].step = "removed" /\ phase[conn[c].to] \in Alive
    /\ port' = [p \in Ports |-> IF p = conn[c].held THEN None ELSE port[p]]
    /\ conn' = Reply(c, "ok")
    /\ UNCHANGED <<running, sending>> /\ onlyHandler

\* accept fails in serve_listener: the task ends and its listener closes, the entry stays in the table.
ListenerFails(d, n) ==
    /\ phase[d] \in Alive /\ running[d][n].live /\ Fault
    /\ port' = [port EXCEPT ![running[d][n].port] = None]
    /\ running' = [running EXCEPT ![d][n].live = FALSE]
    /\ UNCHANGED <<life, commands, config, cli, conn, sending, issued>>

Handler(c) ==
    \/ HandleAdmin(c) \/ RefuseBuild(c) \/ HandleWork(c)
    \/ ProxyBind(c) \/ ProxyInsert(c) \/ ProxyRemove(c) \/ ProxyStopped(c)

Next ==
    \/ \E c \in Clis, n \in Names, p \in Ports : \E use \in Menu[c] : Begin(c, use[1], use[2], n, p)
    \/ \E c \in Clis : Command(c) \/ Accept(c) \/ Handler(c)
    \/ \E d \in Daemons : Daemon(d) \/ StartFails(d) \/ Crash(d) \/ \E n \in Names : ListenerFails(d, n)
    \/ \E s \in sending : SendToLoop(s)

\* Every process keeps running and the idle timer expires; nobody has to start a command, and
\* nothing has to fail.
Process(d) ==
    \/ Daemon(d)
    \/ \E c \in Clis : conn[c].to = d /\ (Accept(c) \/ Handler(c))
    \/ \E s \in sending : s[1] = d /\ SendToLoop(s)

Fairness == (\A c \in Clis : WF_vars(Command(c))) /\ (\A d \in Daemons : WF_vars(Process(d)))

Spec == Init /\ [][Next]_vars /\ Fairness

-----------------------------------------------------------------------------

\* A daemon that serves holds the instance lock and is the one the socket file leads to: no daemon
\* is left running where no command can reach it, whatever older daemon is still shutting down.
ServingIsReachable == \A d \in Daemons : phase[d] \in {"serving", "checking"} => lock = d /\ socket = d

\* ensure_daemon gives a usable connection: a command that starts daemons is refused, or its
\* connection ends without an answer, only if a daemon was leaving or was killed while it ran.
TurnedAwayOnlyByDeparture ==
    \A c \in Clis :
        cli[c].pc = "failed" /\ cli[c].cmd \in {"work", "start"} /\ cli[c].why \in {"closed", "refused"} => cli[c].met

\* A bound local port belongs to a proxy in the table or to a start or stop that is under way, and
\* a proxy that is live has its port: nothing listens that `proxy list` does not show.
PortsAreOwned ==
    /\ \A p \in Ports : port[p] # None =>
          \/ \E n \in Names : running[port[p]][n] = [port |-> p, live |-> TRUE]
          \/ \E c \in Clis : conn[c].to = port[p] /\ conn[c].held = p
    /\ \A d \in Daemons, n \in Names : running[d][n].live => port[running[d][n].port] = d

\* Together: the lock, the socket file and the ports belong to the process that may have them.
ResourcesAreOwned == TypeOK /\ ServingIsReachable /\ PortsAreOwned

\* The idle exit never takes a proxy down, not even one that was being started when the timer
\* expired: a daemon leaves with proxies in its table only after a Shutdown.
ProxiesKeepTheDaemon ==
    \A d \in Daemons :
        phase[d] = "draining" /\ (\E n \in Names : running[d][n] # NoProxy)
        => commands[d] # <<>> /\ Head(commands[d]) = "Shutdown"

\* Once no command and no reload is under way, a daemon of the build that edits the configuration
\* works from the file's contents, unless the last edit fell between its reading the file and its
\* listening: that edit's command finds nobody to notify.
ChangesAreReloaded ==
    \A d \in Daemons :
        /\ phase[d] = "serving" /\ commands[d] = <<>> /\ \A s \in sending : s[1] # d
        /\ \A c \in Clis : cli[c].cmd = "edge" => c \notin Busy
        /\ \A c \in Clis : \A use \in Menu[c] : use[1] = "edge" => use[2] = version[d]
        => loaded[d] = config \/ config = reachedAt[d]

\* Every command ends, with an answer or an error, whichever daemons leave, fail or are killed: again
\* and again none is under way.  (At most MaxCommands are started, so there is a last one to end.)
CommandsFinish == []<>(Busy = {})

\* Only proxies keep a daemon for ever: again and again no daemon serves without one that is live or,
\* after accept failed, without the entry of one in its table.
Kept(d) == \E n \in Names : running[d][n].live \/ (faults > 0 /\ running[d][n] # NoProxy)
Stays(d) == phase[d] \in {"serving", "checking"} /\ ~Kept(d)
OnlyProxiesKeepTheDaemon == []<>(\A d \in Daemons : ~Stays(d))

=============================================================================
