-------------------------- MODULE DaemonLifeProofs --------------------------
(***************************************************************************)
(* Proofs about module DaemonLife, for every number of terminals, builds,  *)
(* proxies, ports, commands and faults.                                    *)
(*                                                                         *)
(* None of the properties is inductive.  Who may listen follows from who   *)
(* holds the instance lock; that a bound port has an owner needs that it   *)
(* has only one, across the table and the handlers; that a command is      *)
(* turned away only by a departure needs what its connection, its pending  *)
(* status answer and the reachable daemon have to do with each other; and  *)
(* that an edit is reloaded needs the edit to be traced from the command   *)
(* through the connection, the handler and the queue.                      *)
(***************************************************************************)
EXTENDS DaemonLife, TLAPS

CliRec == [pc : {"idle", "status", "replace", "probe", "spawn", "poll", "connect",
                 "direct", "wait", "failed"},
           cmd : {"work", "start", "stop", "edge", "shutdown", None},
           version : Versions \cup {None}, name : Names \cup {None},
           port : Ports \cup {None}, polls : 0 .. MaxPolls,
           why : {"closed", "refused", "timeout", "answer", None}, met : BOOLEAN]

ConnRec == [to : Daemons \cup {None}, req : Requests \cup {None},
            step : {"none", "backlog", "active", "bound", "removed", "answered", "closed"},
            held : Ports \cup {None}, reply : Versions \cup {None, "ok", "error"}]

\* From the instance lock to the end of the process.
Working == {"loaded", "serving", "checking", "draining", "closing", "unbound"}
Up == {"serving", "checking"}

\* The lock is held by the one daemon past try_acquire, and the socket file leads to
\* the one that listens.
LockIsHeld ==
    \A d \in Daemons :
        /\ phase[d] \in Working <=> lock = d
        /\ phase[d] \in Listening => socket = d

Resting == {"idle", "failed", "probe", "spawn", "connect", "direct"}
Ensuring == {"status", "replace", "probe", "spawn", "poll", "connect"}
Running(x) == x.pc \notin {"idle", "failed"}
Connected(y) == y.step \notin {"none", "closed"}

\* Where a command is, what it was started with and what its connection carries.
Fits(c, x, y) ==
    /\ x.pc \in Resting => y.step = "none"
    /\ x.pc = "wait" => y.step # "none"
    /\ x.pc \in Ensuring => x.cmd \in {"work", "start"}
    /\ x.pc = "direct" => x.cmd \in {"stop", "edge", "shutdown"}
    /\ Running(x) /\ x.cmd = "start" => x.name \in Names /\ x.port \in Ports
    /\ Running(x) /\ x.cmd = "stop" => x.name \in Names
    /\ Running(x) /\ x.cmd = "edge" => <<"edge", x.version>> \in Menu[c]
    /\ x.pc = "poll" /\ y.step # "none" => x.polls < MaxPolls
    /\ Connected(y) =>
         /\ y.to \in Daemons
         /\ x.pc \in {"status", "poll"} => y.req = "Status"
         /\ x.pc = "replace" => y.req = "Shutdown"
         /\ x.pc = "wait" /\ x.cmd \in {"work", "start"} => y.req \in {"Work", "Start"}
         /\ x.pc = "wait" /\ x.cmd = "edge" => y.req = "Reload"
         /\ y.req = "Start" => x.cmd = "start"
         /\ y.req = "Stop" => x.cmd = "stop"
    /\ y.held # None => y.step \in {"bound", "removed"}
    /\ y.step = "bound" => y.held # None /\ y.req = "Start"
    /\ y.step = "removed" => y.req = "Stop"

CommandsFit == \A c \in Clis : Fits(c, cli[c], conn[c])

\* A connection nobody has answered leads to a process that is still there.
Handled == {"active", "bound", "removed"}
ConnectionsAreServed ==
    \A c \in Clis :
        /\ conn[c].step = "backlog" => phase[conn[c].to] \in Listening
        /\ conn[c].step \in Handled => phase[conn[c].to] \in Listening \cup {"unbound"}

\* The entry of a proxy that accepts on p.
Entry(p) == [port |-> p, live |-> TRUE]

\* A bound port has one owner: one live entry, or one start or stop under way.
PortsHaveOneOwner ==
    /\ \A d \in Daemons, n \in Names : running[d][n].live => running[d][n].port \in Ports
    /\ \A d \in Daemons : \A m, n \in Names :
          running[d][m].live /\ running[d][n].live /\ running[d][m].port = running[d][n].port => m = n
    /\ \A c \in Clis : conn[c].held # None =>
          /\ port[conn[c].held] = conn[c].to
          /\ \A d \in Daemons, n \in Names : running[d][n].live => running[d][n].port # conn[c].held
          /\ \A b \in Clis : conn[b].held = conn[c].held => b = c

\* A command that runs while a daemon leaves has met a departure.
DeparturesAreMet == \A c \in Clis : Running(cli[c]) /\ Departing => cli[c].met

\* A command that starts daemons and has met no departure deals with the daemon that
\* listens, and has checked that it is of its own build.
Undisturbed(x, y) ==
    /\ Reachable /\ y.step # "closed"
    /\ y.step # "none" => y.to = socket
    /\ x.pc \in {"connect", "wait"} => version[socket] = x.version
    /\ x.pc \in {"status", "poll"} /\ y.step = "answered" => y.reply = version[socket]
Starter(x, y) ==
    /\ Running(x) /\ x.cmd \in {"work", "start"} /\ ~x.met
    /\ y.step # "none" \/ x.pc = "connect"
StartersAreUndisturbed == \A c \in Clis : Starter(cli[c], conn[c]) => Undisturbed(cli[c], conn[c])

\* From the idle check on nothing is accepted or handled, so no proxy can come.
Still(d) ==
    /\ commands[d] = <<>>
    /\ \A c \in Clis : conn[c].step \in Handled => conn[c].to # d
    /\ \A s \in sending : s[1] # d
ShutdownTaken(d) == commands[d] # <<>> /\ Head(commands[d]) = "Shutdown"
IdleIsStill ==
    \A d \in Daemons :
        /\ phase[d] = "checking" => Still(d)
        /\ phase[d] = "draining" => ShutdownTaken(d) \/ (Still(d) /\ \A n \in Names : running[d][n] = NoProxy)

\* The edit a daemon does not know of is on its way to it.
EditsWith(d) == \A c \in Clis : \A use \in Menu[c] : use[1] = "edge" => use[2] = version[d]
Queued(d) == \E i \in 1 .. Len(commands[d]) : commands[d][i] = "Reload"
Sent(d) == \E s \in sending : s[1] = d /\ s[3] = "Reload"
Telling(d, x, y) ==
    /\ x.cmd = "edge"
    /\ \/ x.pc = "direct"
       \/ x.pc = "wait" /\ y.to = d /\ y.step \in {"backlog", "active"}
Coming(d) == Queued(d) \/ Sent(d) \/ \E c \in Clis : Telling(d, cli[c], conn[c])
EditsArrive ==
    \A d \in Daemons :
        phase[d] \in Up /\ EditsWith(d) =>
            loaded[d] = config \/ config = reachedAt[d] \/ Coming(d)

Inv ==
    /\ TypeOK
    /\ LockIsHeld
    /\ CommandsFit
    /\ ConnectionsAreServed
    /\ PortsAreOwned
    /\ PortsHaveOneOwner
    /\ DeparturesAreMet
    /\ StartersAreUndisturbed
    /\ TurnedAwayOnlyByDeparture
    /\ IdleIsStill
    /\ EditsArrive

-----------------------------------------------------------------------------
\* The records of commands and of connections, as TypeOK gives them.
LEMMA Records == TypeOK => cli \in [Clis -> CliRec] /\ conn \in [Clis -> ConnRec]
  BY Zenon DEF TypeOK, CliRec, ConnRec

\* No daemon is the placeholder.
LEMMA NoneIsNoDaemon == None \notin Daemons /\ None \notin Ports /\ None \notin Names
  BY DaemonLifeAssumption DEF Daemons

\* A terminal with no command, and one with no connection.
LEMMA IdleFacts ==
    /\ Idle \in CliRec /\ Idle.pc = "idle" /\ ~Running(Idle)
    /\ NoConn \in ConnRec /\ NoConn.step = "none" /\ NoConn.held = None
  BY DaemonLifeAssumption DEF Idle, CliRec, Running, NoConn, ConnRec

\* Ports and their owners change only in steps that bind, free, insert or remove.
LEMMA PortsFrame ==
    ASSUME PortsAreOwned, PortsHaveOneOwner, port' = port, running' = running,
           \A b \in Clis : conn'[b].held = conn[b].held /\ (conn[b].held # None => conn'[b].to = conn[b].to)
    PROVE  PortsAreOwned' /\ PortsHaveOneOwner'
<1>1. ASSUME NEW p \in Ports, NEW b \in Clis, conn[b].to = port[p], conn[b].held = p
      PROVE  conn'[b].to = port[p] /\ conn'[b].held = p
  BY Zenon, <1>1, NoneIsNoDaemon
<1>2. \A p \in Ports : port[p] # None =>
          \/ \E n \in Names : running[port[p]][n] = Entry(p)
          \/ \E b \in Clis : conn[b].to = port[p] /\ conn[b].held = p
  BY Zenon DEF PortsAreOwned, Entry
<1>3. PortsAreOwned'
  <2>1. \A p \in Ports : port[p] # None =>
          \/ \E n \in Names : running[port[p]][n] = Entry(p)
          \/ \E b \in Clis : conn'[b].to = port[p] /\ conn'[b].held = p
    BY Zenon, <1>1, <1>2
  <2>2. \A p \in Ports : port'[p] # None =>
          \/ \E n \in Names : running'[port'[p]][n] = Entry(p)
          \/ \E b \in Clis : conn'[b].to = port'[p] /\ conn'[b].held = p
    BY Zenon, <2>1
  <2>3. \A d \in Daemons, n \in Names : running'[d][n].live => port'[running'[d][n].port] = d
    BY Zenon DEF PortsAreOwned
  <2> QED
    BY Zenon, <2>2, <2>3 DEF PortsAreOwned, Entry
<1>4. PortsHaveOneOwner'
  BY DEF PortsHaveOneOwner
<1> QED
  BY Zenon, <1>3, <1>4

\* At the start nothing runs, and the invariant holds.
LEMMA InitInv == Init => Inv
<1> SUFFICES ASSUME Init PROVE Inv
  BY Zenon
<1>1. TypeOK
  BY DaemonLifeAssumption DEF TypeOK, Init, Idle, NoConn, NoProxy, Alive, Requests
<1>2. \A c \in Clis : cli[c] = Idle /\ conn[c] = NoConn
  BY Zenon DEF Init
<1>3. \A d \in Daemons : phase[d] = "none"
  BY Zenon DEF Init
<1>4. LockIsHeld
  BY Zenon, <1>3, NoneIsNoDaemon DEF LockIsHeld, Init, Working, Listening
<1>5. CommandsFit
  BY Zenon, <1>2, IdleFacts DEF CommandsFit, Fits, Idle, Running, Ensuring, Connected
<1>6. ConnectionsAreServed /\ DeparturesAreMet /\ StartersAreUndisturbed /\ TurnedAwayOnlyByDeparture
  BY Zenon, <1>2, IdleFacts DEF ConnectionsAreServed, Handled, DeparturesAreMet, StartersAreUndisturbed,
     Starter, TurnedAwayOnlyByDeparture
<1>7. PortsAreOwned /\ PortsHaveOneOwner
  BY Zenon, <1>2, IdleFacts DEF PortsAreOwned, PortsHaveOneOwner, Init, NoProxy
<1>8. IdleIsStill /\ EditsArrive
  BY Zenon, <1>3 DEF IdleIsStill, EditsArrive, Up
<1> QED
  BY Zenon, <1>1, <1>4, <1>5, <1>6, <1>7, <1>8 DEF Inv

-----------------------------------------------------------------------------
(* Commands.                                                               *)

\* One command becomes x and its connection y: the old one is over, a new one is to the daemon
\* that listens, and x and y are in keeping with each other and with that daemon.
Moves(c, x, y) ==
    /\ x \in CliRec /\ y \in ConnRec
    /\ cli' = [cli EXCEPT ![c] = x] /\ conn' = [conn EXCEPT ![c] = y]
    /\ conn[c].step \notin {"backlog", "active", "bound", "removed"}
    /\ Fits(c, x, y) /\ y.held = None
    /\ y.step \notin Handled /\ (y.step = "backlog" => Reachable /\ y.to = socket)
    /\ Running(x) /\ Departing => x.met
    /\ Starter(x, y) => Undisturbed(x, y)
    /\ x.pc = "failed" /\ x.cmd \in {"work", "start"} /\ x.why \in {"closed", "refused"} => x.met

\* Nothing changes for the daemons past try_acquire.
Steady ==
    /\ lock' = lock /\ socket' = socket
    /\ \A e \in Daemons : \/ phase'[e] = phase[e] /\ version'[e] = version[e]
                          \/ phase[e] \notin Working /\ phase'[e] \notin Working

\* A step that moves no daemon into or out of the lock leaves the reachable one reachable.
LEMMA SteadyKeeps ==
    ASSUME TypeOK, LockIsHeld, Steady
    PROVE  LockIsHeld' /\ (Reachable => Reachable' /\ version'[socket] = version[socket]) /\ (Departing' => Departing)
<1>1. LockIsHeld'
  BY Zenon DEF LockIsHeld, Steady, Working, Listening
<1>2. Reachable => Reachable' /\ version'[socket] = version[socket]
  BY Zenon DEF TypeOK, Reachable, Steady, Working, Listening
<1>3. Departing' => Departing
  BY Zenon DEF TypeOK, Departing, Steady, Working
<1> QED
  BY Zenon, <1>1, <1>2, <1>3

\* A step of one command that gives up or reads the end of its connection, or opens one to the
\* daemon that listens, keeps everything that is not about the configuration.
LEMMA CommandKeeps ==
    ASSUME Inv, NEW c \in Clis, NEW x, NEW y, Moves(c, x, y), Steady,
           UNCHANGED <<commands, proxies, sending>>
    PROVE  /\ cli' \in [Clis -> CliRec] /\ conn' \in [Clis -> ConnRec]
           /\ LockIsHeld' /\ CommandsFit' /\ ConnectionsAreServed' /\ PortsAreOwned'
           /\ PortsHaveOneOwner' /\ DeparturesAreMet' /\ StartersAreUndisturbed'
           /\ TurnedAwayOnlyByDeparture' /\ IdleIsStill'
<1> TypeOK /\ LockIsHeld /\ CommandsFit /\ ConnectionsAreServed /\ PortsAreOwned /\ PortsHaveOneOwner
    /\ DeparturesAreMet /\ StartersAreUndisturbed /\ TurnedAwayOnlyByDeparture /\ IdleIsStill
  BY Zenon DEF Inv
<1> /\ x \in CliRec /\ y \in ConnRec
    /\ cli' = [cli EXCEPT ![c] = x] /\ conn' = [conn EXCEPT ![c] = y]
    /\ conn[c].step \notin {"backlog", "active", "bound", "removed"}
    /\ Fits(c, x, y) /\ y.held = None
    /\ y.step \notin Handled /\ (y.step = "backlog" => Reachable /\ y.to = socket)
    /\ Running(x) /\ Departing => x.met
    /\ Starter(x, y) => Undisturbed(x, y)
    /\ x.pc = "failed" /\ x.cmd \in {"work", "start"} /\ x.why \in {"closed", "refused"} => x.met
  BY Zenon DEF Moves
<1>1. cli \in [Clis -> CliRec] /\ conn \in [Clis -> ConnRec]
  BY Zenon, Records
<1>2. /\ cli' \in [Clis -> CliRec] /\ conn' \in [Clis -> ConnRec]
      /\ cli'[c] = x /\ conn'[c] = y
      /\ \A b \in Clis : b # c => cli'[b] = cli[b] /\ conn'[b] = conn[b]
  BY Zenon, <1>1
<1>3. /\ lock' = lock /\ socket' = socket /\ commands' = commands /\ running' = running
      /\ port' = port /\ sending' = sending
      /\ \A e \in Daemons : \/ phase'[e] = phase[e] /\ version'[e] = version[e]
                            \/ phase[e] \notin Working /\ phase'[e] \notin Working
  BY Zenon DEF Steady, proxies
<1>4. LockIsHeld' /\ (Reachable => Reachable' /\ version'[socket] = version[socket]) /\ (Departing' => Departing)
  BY Zenon, SteadyKeeps
<1>5. CommandsFit'
  <2>1. \A b \in Clis : Fits(b, cli'[b], conn'[b])
    BY Zenon, <1>2 DEF CommandsFit
  <2> QED
    BY Zenon, <2>1 DEF CommandsFit
<1>6. conn[c].held = None
  BY Zenon DEF CommandsFit, Fits
<1>7. ConnectionsAreServed'
  <2>1. \A e \in Daemons : /\ phase[e] \in Listening => phase'[e] \in Listening
                           /\ phase[e] \in Listening \cup {"unbound"} => phase'[e] \in Listening \cup {"unbound"}
    BY Zenon, <1>3 DEF Working, Listening
  <2>2. \A b \in Clis : conn[b].step = "backlog" \/ conn[b].step \in Handled => conn[b].to \in Daemons
    BY Zenon DEF CommandsFit, Fits, Connected, Handled
  <2>3. Reachable => socket \in Daemons
    BY Zenon DEF Reachable, TypeOK
  <2> QED
    BY ZenonT(60), <1>2, <2>1, <2>2, <2>3 DEF ConnectionsAreServed, Reachable
<1>8. PortsAreOwned' /\ PortsHaveOneOwner'
  <2>1. \A b \in Clis : conn'[b].held = conn[b].held /\ (conn[b].held # None => conn'[b].to = conn[b].to)
    BY Zenon, <1>2, <1>6
  <2> QED
    BY Zenon, <2>1, <1>3, PortsFrame
<1>10. DeparturesAreMet'
  BY Zenon, <1>2, <1>4 DEF DeparturesAreMet, Running
<1>11. StartersAreUndisturbed'
  <2>1. \A b \in Clis : Starter(cli'[b], conn'[b]) => Undisturbed(cli'[b], conn'[b])
    BY Zenon, <1>2 DEF StartersAreUndisturbed
  <2> QED
    BY Zenon, <2>1, <1>3, <1>4 DEF StartersAreUndisturbed, Undisturbed
<1>12. TurnedAwayOnlyByDeparture'
  BY Zenon, <1>2 DEF TurnedAwayOnlyByDeparture
<1>13. IdleIsStill'
  <2>1. \A d \in Daemons : Still(d) => Still(d)'
    BY Zenon, <1>2, <1>3 DEF Still
  <2>2. \A d \in Daemons : phase'[d] \in {"checking", "draining"} => phase[d] = phase'[d]
    BY Zenon, <1>3 DEF Working
  <2> QED
    BY Zenon, <2>1, <2>2, <1>3 DEF IdleIsStill, ShutdownTaken
<1> QED
  BY Zenon, <1>2, <1>4, <1>5, <1>7, <1>8, <1>10, <1>11, <1>12, <1>13

\* What a daemon has still to hear of is not lost in a step that changes neither the
\* configuration nor what the daemon has loaded.
LEMMA EditsFrame ==
    ASSUME EditsArrive, config' = config,
           \A d \in Daemons : phase'[d] \in Up =>
               /\ phase[d] \in Up /\ version'[d] = version[d]
               /\ loaded'[d] = loaded[d] /\ reachedAt'[d] = reachedAt[d]
               /\ EditsWith(d) /\ Coming(d) => Coming(d)'
    PROVE  EditsArrive'
  BY Zenon DEF EditsArrive, EditsWith

\* A step of one command that keeps the word of an edit on its way.
LEMMA CommandStep ==
    ASSUME Inv, NEW c \in Clis, NEW x, NEW y, Moves(c, x, y), onlyCli,
           \A d \in Daemons : phase[d] \in Up /\ Telling(d, cli[c], conn[c]) => Telling(d, x, y)
    PROVE  Inv'
<1>1. UNCHANGED <<life, commands, proxies, sending>> /\ config' = config /\ issued' = issued /\ faults' = faults
  BY Zenon DEF onlyCli
<1> Steady
  BY Zenon, <1>1 DEF Steady, life
<1>2. TypeOK /\ EditsArrive
  BY Zenon DEF Inv
<1>3. TypeOK'
  <2>1. cli' \in [Clis -> CliRec] /\ conn' \in [Clis -> ConnRec]
    BY Zenon, <1>1, CommandKeeps
  <2> QED
    BY Zenon, <1>1, <1>2, <2>1 DEF TypeOK, life, proxies, CliRec, ConnRec
<1>4. EditsArrive'
  <2>1. cli'[c] = x /\ conn'[c] = y /\ \A b \in Clis : b # c => cli'[b] = cli[b] /\ conn'[b] = conn[b]
    BY Zenon, <1>2, Records DEF Moves
  <2>2. \A d \in Daemons, b \in Clis : phase[d] \in Up /\ Telling(d, cli[b], conn[b]) => Telling(d, cli'[b], conn'[b])
    BY Zenon, <2>1
  <2>3. \A d \in Daemons : (Queued(d) => Queued(d)') /\ (Sent(d) => Sent(d)')
    BY Zenon, <1>1 DEF Queued, Sent
  <2>4. \A d \in Daemons : phase[d] \in Up /\ Coming(d) => Coming(d)'
    BY Zenon, <2>2, <2>3 DEF Coming
  <2> QED
    BY Zenon, <1>1, <1>2, <2>4, EditsFrame DEF life
<1> QED
  BY Zenon, <1>1, <1>3, <1>4, CommandKeeps DEF Inv

\* The records the steps of a command write.
At(r, p) == [r EXCEPT !.pc = p]
Again(r) == [r EXCEPT !.polls = @ + 1]
Failed(r, w) == [Idle EXCEPT !.pc = "failed", !.cmd = r.cmd, !.why = w, !.met = r.met]
Opened(q) == [NoConn EXCEPT !.to = socket, !.req = q, !.step = "backlog"]

Pcs == {"idle", "status", "replace", "probe", "spawn", "poll", "connect", "direct", "wait", "failed"}

\* A command that moves on keeps what it was started with.
LEMMA AtFacts ==
    ASSUME NEW r \in CliRec, NEW p \in Pcs
    PROVE  /\ At(r, p) \in CliRec /\ At(r, p).pc = p /\ At(r, p).cmd = r.cmd /\ At(r, p).version = r.version
           /\ At(r, p).name = r.name /\ At(r, p).port = r.port /\ At(r, p).polls = r.polls /\ At(r, p).met = r.met
  BY Zenon DEF At, CliRec, Pcs

\* A poll that is repeated counts one attempt more.
LEMMA AgainFacts ==
    ASSUME NEW r \in CliRec, r.polls < MaxPolls
    PROVE  /\ Again(r) \in CliRec /\ Again(r).pc = r.pc /\ Again(r).cmd = r.cmd /\ Again(r).version = r.version
           /\ Again(r).name = r.name /\ Again(r).port = r.port /\ Again(r).met = r.met
  BY DaemonLifeAssumption DEF Again, CliRec

\* A command that fails remembers which one it was, and whether it met a departure.
LEMMA FailedFacts ==
    ASSUME NEW r \in CliRec, NEW w \in {"closed", "refused", "timeout", "answer"}
    PROVE  /\ Failed(r, w) \in CliRec /\ Failed(r, w).pc = "failed" /\ Failed(r, w).cmd = r.cmd
           /\ Failed(r, w).why = w /\ Failed(r, w).met = r.met
<1>1. r.cmd \in {"work", "start", "stop", "edge", "shutdown", None} /\ r.met \in BOOLEAN
  BY Zenon DEF CliRec
<1> DEFINE x == [Idle EXCEPT !.pc = "failed"]
           y == [x EXCEPT !.cmd = r.cmd]
           z == [y EXCEPT !.why = w]
<1>2. x \in CliRec /\ x.pc = "failed"
  BY IdleFacts DEF CliRec
<1>3. y \in CliRec /\ y.pc = "failed" /\ y.cmd = r.cmd
  <2> HIDE DEF x
  <2> QED  BY Zenon, <1>1, <1>2 DEF CliRec
<1>4. z \in CliRec /\ z.pc = "failed" /\ z.cmd = r.cmd /\ z.why = w
  <2> HIDE DEF y
  <2> QED  BY <1>3 DEF CliRec
<1>5. Failed(r, w) = [z EXCEPT !.met = r.met]
  BY Zenon DEF Failed
<1> HIDE DEF z
<1> QED
  BY Zenon, <1>1, <1>4, <1>5 DEF CliRec

\* A new connection waits in the backlog of the daemon the socket file leads to.
LEMMA OpenedFacts ==
    ASSUME TypeOK, NEW q \in Requests
    PROVE  /\ Opened(q) \in ConnRec /\ Opened(q).to = socket /\ Opened(q).req = q
           /\ Opened(q).step = "backlog" /\ Opened(q).held = None
  BY Zenon DEF TypeOK, Opened, NoConn, ConnRec

\* What a command's step may rely on.
LEMMA CommandHas ==
    ASSUME Inv, NEW c \in Clis
    PROVE  /\ TypeOK /\ cli[c] \in CliRec /\ conn[c] \in ConnRec /\ Fits(c, cli[c], conn[c])
           /\ cli = [cli EXCEPT ![c] = cli[c]] /\ conn = [conn EXCEPT ![c] = conn[c]]
           /\ Running(cli[c]) /\ Departing => cli[c].met
           /\ Starter(cli[c], conn[c]) => Undisturbed(cli[c], conn[c])
           /\ Reachable => socket \in Daemons
<1>1. TypeOK /\ cli \in [Clis -> CliRec] /\ conn \in [Clis -> ConnRec]
  BY Zenon, Records DEF Inv
<1>2. cli = [cli EXCEPT ![c] = cli[c]] /\ conn = [conn EXCEPT ![c] = conn[c]]
  BY Zenon, <1>1
<1> QED
  BY Zenon, <1>1, <1>2 DEF Inv, CommandsFit, DeparturesAreMet, StartersAreUndisturbed, Reachable, TypeOK

\* What identifies a command.
Same(x, r) == x.cmd = r.cmd /\ x.version = r.version /\ x.name = r.name /\ x.port = r.port /\ x.met = r.met

\* A command of ensure_daemon that goes on within it.
LEMMA AtEnsures ==
    ASSUME NEW r \in CliRec, NEW p \in Ensuring
    PROVE  At(r, p) \in CliRec /\ At(r, p).pc = p /\ Same(At(r, p), r)
<1>1. p \in Pcs
  BY Zenon DEF Pcs, Ensuring
<1> QED
  BY Zenon, <1>1, AtFacts DEF Same

\* ensure_daemon goes on without a connection.
LEMMA Proceeds ==
    ASSUME Inv, NEW c \in Clis, NEW x \in CliRec, NEW y \in ConnRec, onlyCli,
           cli' = [cli EXCEPT ![c] = x], conn' = [conn EXCEPT ![c] = y],
           cli[c].pc \in Ensuring, x.pc \in Ensuring, Same(x, cli[c]),
           conn[c].step \in {"none", "answered"}, y.step = "none", y.held = None,
           x.pc = "connect" /\ ~x.met => Reachable /\ version[socket] = x.version
    PROVE  Inv'
<1>1. Fits(c, cli[c], conn[c]) /\ (Running(cli[c]) /\ Departing => cli[c].met)
  BY Zenon, CommandHas
<1>2. Running(cli[c]) /\ Running(x)
  BY Zenon DEF Running, Ensuring
<1>3. cli[c].cmd \in {"work", "start"}
  BY Zenon, <1>1 DEF Fits
<1>4. x.cmd \in {"work", "start"} /\ (x.met <=> cli[c].met)
  BY Zenon, <1>3 DEF Same
<1>5. Fits(c, x, y)
  BY Zenon, <1>1, <1>2, <1>3 DEF Fits, Same, Connected, Ensuring
<1>6. Starter(x, y) => Undisturbed(x, y)
  BY Zenon DEF Starter, Undisturbed
<1>7. x.pc # "failed"
  BY Zenon DEF Ensuring
<1>8. Moves(c, x, y)
  BY Zenon, <1>1, <1>2, <1>4, <1>5, <1>6, <1>7 DEF Moves, Handled
<1>9. \A d : ~Telling(d, cli[c], conn[c])
  BY Zenon, <1>3 DEF Telling
<1> QED
  BY Zenon, <1>8, <1>9, CommandStep

\* ensure_daemon asks the daemon that listens.
LEMMA Asks ==
    ASSUME Inv, NEW c \in Clis, NEW q \in {"Status", "Shutdown"}, onlyCli,
           Quiet(c), Reachable, Open(c, q), UNCHANGED cli,
           \/ cli[c].pc = "status" /\ q = "Status"
           \/ cli[c].pc = "poll" /\ q = "Status" /\ cli[c].polls < MaxPolls
           \/ cli[c].pc = "replace" /\ q = "Shutdown"
    PROVE  Inv'
<1>1. /\ TypeOK /\ cli[c] \in CliRec /\ Fits(c, cli[c], conn[c]) /\ cli = [cli EXCEPT ![c] = cli[c]]
      /\ (Running(cli[c]) /\ Departing => cli[c].met) /\ socket \in Daemons
  BY Zenon, CommandHas
<1>2. /\ Opened(q) \in ConnRec /\ Opened(q).to = socket /\ Opened(q).req = q
      /\ Opened(q).step = "backlog" /\ Opened(q).held = None
  BY Zenon, <1>1, OpenedFacts DEF Requests
<1>3. conn' = [conn EXCEPT ![c] = Opened(q)]
  BY Zenon DEF Open, Opened
<1>4. Running(cli[c]) /\ cli[c].cmd \in {"work", "start"}
  BY Zenon, <1>1 DEF Running, Fits, Ensuring
<1>5. Fits(c, cli[c], Opened(q))
  BY Zenon, <1>1, <1>2, <1>4 DEF Fits, Resting, Running, Connected, Ensuring
<1>6. Undisturbed(cli[c], Opened(q))
  BY Zenon, <1>2 DEF Undisturbed
<1>7. Moves(c, cli[c], Opened(q))
  BY Zenon, <1>1, <1>2, <1>3, <1>4, <1>5, <1>6 DEF Moves, Quiet, Handled, Running
<1>8. \A d : ~Telling(d, cli[c], conn[c])
  BY Zenon, <1>4 DEF Telling
<1> QED
  BY Zenon, <1>7, <1>8, CommandStep

\* A command ends, and no daemon that runs still has to hear of its edit.
LEMMA Ends ==
    ASSUME Inv, NEW c \in Clis, NEW x \in CliRec, NEW y \in ConnRec, onlyCli,
           cli' = [cli EXCEPT ![c] = x], conn' = [conn EXCEPT ![c] = y],
           x.pc \in {"idle", "failed"}, y.step = "none", y.held = None,
           conn[c].step \in {"none", "answered", "closed"},
           x.pc = "failed" /\ x.cmd \in {"work", "start"} /\ x.why \in {"closed", "refused"} => x.met,
           \A d \in Daemons : phase[d] \in Up => ~Telling(d, cli[c], conn[c])
    PROVE  Inv'
<1>1. ~Running(x)
  BY Zenon DEF Running
<1>2. Fits(c, x, y)
  BY Zenon, <1>1 DEF Fits, Connected, Ensuring
<1>3. ~Starter(x, y)
  BY Zenon, <1>1 DEF Starter
<1>4. Moves(c, x, y)
  BY Zenon, <1>1, <1>2, <1>3 DEF Moves, Handled
<1> QED
  BY Zenon, <1>4, CommandStep

\* A command sends its request to the daemon that listens.
LEMMA Sends ==
    ASSUME Inv, NEW c \in Clis, NEW q \in Requests, onlyCli,
           cli[c].pc \in {"connect", "direct"}, Reachable, Open(c, q), Goto(c, "wait"),
           cli[c].cmd \in {"work", "start"} => q \in {"Work", "Start"},
           cli[c].cmd = "edge" => q = "Reload",
           q = "Start" => cli[c].cmd = "start", q = "Stop" => cli[c].cmd = "stop"
    PROVE  Inv'
<1> DEFINE x == At(cli[c], "wait")
<1>1. /\ TypeOK /\ cli[c] \in CliRec /\ Fits(c, cli[c], conn[c]) /\ socket \in Daemons
      /\ (Running(cli[c]) /\ Departing => cli[c].met)
      /\ Starter(cli[c], conn[c]) => Undisturbed(cli[c], conn[c])
      /\ LockIsHeld
  BY Zenon, CommandHas DEF Inv
<1>2. /\ Opened(q) \in ConnRec /\ Opened(q).to = socket /\ Opened(q).req = q
      /\ Opened(q).step = "backlog" /\ Opened(q).held = None
  BY Zenon, <1>1, OpenedFacts
<1>3. x \in CliRec /\ x.pc = "wait" /\ Same(x, cli[c])
  BY Zenon, <1>1, AtFacts DEF Pcs, Same
<1>4. conn' = [conn EXCEPT ![c] = Opened(q)] /\ cli' = [cli EXCEPT ![c] = x]
  BY Zenon DEF Open, Opened, Goto, At
<1> HIDE DEF x
<1>5. Running(cli[c]) /\ Running(x) /\ conn[c].step = "none"
  BY Zenon, <1>1, <1>3 DEF Running, Fits, Resting
<1>6. Fits(c, x, Opened(q))
  BY Zenon, <1>1, <1>2, <1>3, <1>5 DEF Fits, Resting, Connected, Ensuring, Same
<1>7. Starter(x, Opened(q)) => Undisturbed(x, Opened(q))
  <2>1. SUFFICES ASSUME Starter(x, Opened(q)) PROVE version[socket] = x.version
    BY Zenon, <1>2, <1>3 DEF Undisturbed
  <2>2. cli[c].cmd \in {"work", "start"} /\ ~cli[c].met
    BY Zenon, <2>1, <1>3 DEF Starter, Same
  <2>3. cli[c].pc = "connect"
    BY Zenon, <1>1, <2>2 DEF Fits
  <2>4. Undisturbed(cli[c], conn[c])
    BY Zenon, <1>1, <1>5, <2>2, <2>3 DEF Starter
  <2> QED
    BY Zenon, <2>3, <2>4, <1>3 DEF Undisturbed, Same
<1>8. (Running(x) /\ Departing => x.met) /\ x.pc # "failed"
  BY Zenon, <1>1, <1>3, <1>5 DEF Same
<1>9. Moves(c, x, Opened(q))
  BY Zenon, <1>2, <1>3, <1>4, <1>5, <1>6, <1>7, <1>8 DEF Moves, Handled
<1>10. \A d \in Daemons : phase[d] \in Up /\ Telling(d, cli[c], conn[c]) => Telling(d, x, Opened(q))
  <2>1. \A d \in Daemons : phase[d] \in Up => d = socket
    BY Zenon, <1>1 DEF LockIsHeld, Up, Listening
  <2> QED
    BY Zenon, <2>1, <1>2, <1>3 DEF Telling, Same
<1> QED
  BY Zenon, <1>9, <1>10, CommandStep

\* daemon_admin(Status) at the head of ensure_daemon.
LEMMA EnsureStatusInv == ASSUME Inv, NEW c \in Clis, EnsureStatus(c) PROVE Inv'
<1>1. cli[c].pc = "status" /\ onlyCli
  BY Zenon DEF EnsureStatus
<1>2. CASE Quiet(c) /\ Reachable /\ Open(c, "Status") /\ UNCHANGED cli
  BY Zenon, <1>1, <1>2, Asks
<1>3. /\ cli[c] \in CliRec /\ conn[c] \in ConnRec /\ Fits(c, cli[c], conn[c])
      /\ conn = [conn EXCEPT ![c] = conn[c]] /\ NoConn \in ConnRec /\ NoConn.step = "none" /\ NoConn.held = None
      /\ Starter(cli[c], conn[c]) => Undisturbed(cli[c], conn[c])
  BY Zenon, CommandHas, IdleFacts
<1>4. \A p \in Ensuring : At(cli[c], p) \in CliRec /\ At(cli[c], p).pc = p /\ Same(At(cli[c], p), cli[c])
  BY Zenon, <1>3, AtEnsures
<1>5. CASE Quiet(c) /\ ~Reachable /\ Goto(c, "spawn") /\ UNCHANGED conn
  <2>1. cli' = [cli EXCEPT ![c] = At(cli[c], "spawn")]
    BY Zenon, <1>5 DEF Goto, At
  <2>2. conn[c].step = "none" /\ conn[c].held = None
    BY Zenon, <1>3, <1>5 DEF Quiet, Fits
  <2>3. "spawn" \in Ensuring /\ "status" \in Ensuring
    BY Zenon DEF Ensuring
  <2> QED
    BY ZenonT(60), <1>1, <1>3, <1>4, <1>5, <2>1, <2>2, <2>3, Proceeds
<1>6. CASE Answered(c) /\ Goto(c, IF Matches(c) THEN "connect" ELSE "replace")
  <2> DEFINE p == IF Matches(c) THEN "connect" ELSE "replace"
  <2>1. cli' = [cli EXCEPT ![c] = At(cli[c], p)] /\ conn' = [conn EXCEPT ![c] = NoConn] /\ conn[c].step = "answered"
    BY Zenon, <1>6 DEF Goto, At, Answered
  <2>2. p \in Ensuring /\ "status" \in Ensuring
    BY Zenon DEF Ensuring
  <2>3. p = "connect" => conn[c].reply = cli[c].version
    BY Zenon DEF Matches
  <2> HIDE DEF p
  <2>4. At(cli[c], p).pc = "connect" /\ ~At(cli[c], p).met => Reachable /\ version[socket] = At(cli[c], p).version
    <3>1. SUFFICES ASSUME p = "connect", ~cli[c].met PROVE Reachable /\ version[socket] = cli[c].version
      BY Zenon, <1>4, <2>2 DEF Same
    <3>2. Starter(cli[c], conn[c])
      BY Zenon, <1>1, <1>3, <2>1, <3>1 DEF Starter, Running, Fits, Ensuring
    <3> QED
      BY Zenon, <1>1, <1>3, <2>1, <2>3, <3>1, <3>2 DEF Undisturbed
  <2> QED
    BY Zenon, <1>1, <1>3, <1>4, <2>1, <2>2, <2>4, Proceeds
<1> QED
  BY Zenon, <1>2, <1>5, <1>6 DEF EnsureStatus

\* A daemon of another build is replaced.
LEMMA EnsureReplaceInv == ASSUME Inv, NEW c \in Clis, EnsureReplace(c) PROVE Inv'
<1>1. onlyCli /\ "probe" \in Ensuring /\ "spawn" \in Ensuring /\ "replace" \in Ensuring
  BY Zenon DEF EnsureReplace, Ensuring
<1>2. CASE cli[c].pc = "replace" /\ Quiet(c) /\ Reachable /\ Open(c, "Shutdown") /\ UNCHANGED cli
  BY Zenon, <1>1, <1>2, Asks
<1>3. /\ cli[c] \in CliRec /\ conn[c] \in ConnRec /\ Fits(c, cli[c], conn[c])
      /\ conn = [conn EXCEPT ![c] = conn[c]] /\ NoConn \in ConnRec /\ NoConn.step = "none" /\ NoConn.held = None
  BY Zenon, CommandHas, IdleFacts
<1>4. \A p \in Ensuring : At(cli[c], p) \in CliRec /\ At(cli[c], p).pc = p /\ Same(At(cli[c], p), cli[c])
  BY Zenon, <1>3, AtEnsures
<1>5. conn[c] \in ConnRec /\ (conn[c].step = "none" => conn[c].held = None)
  BY Zenon, <1>3 DEF Fits
<1>6. CASE cli[c].pc = "replace" /\ Quiet(c) /\ ~Reachable /\ Goto(c, "probe") /\ UNCHANGED conn
  <2>1. /\ cli' = [cli EXCEPT ![c] = At(cli[c], "probe")] /\ conn[c].step = "none"
        /\ conn' = [conn EXCEPT ![c] = conn[c]] /\ cli[c].pc \in Ensuring
    BY Zenon, <1>1, <1>3, <1>6 DEF Goto, At, Quiet
  <2>2. At(cli[c], "probe").pc # "connect"
    BY Zenon, <1>1, <1>4
  <2> QED
    BY Zenon, <1>1, <1>4, <1>5, <2>1, <2>2, Proceeds
<1>7. CASE cli[c].pc = "replace" /\ Answered(c) /\ Goto(c, "probe")
  <2>1. /\ cli' = [cli EXCEPT ![c] = At(cli[c], "probe")] /\ conn[c].step = "answered"
        /\ conn' = [conn EXCEPT ![c] = NoConn]
    BY Zenon, <1>7 DEF Goto, At, Answered
  <2>2. At(cli[c], "probe").pc # "connect"
    BY Zenon, <1>1, <1>4
  <2> QED
    BY Zenon, <1>1, <1>3, <1>4, <1>7, <2>1, <2>2, Proceeds
<1>8. CASE /\ cli[c].pc = "probe"
           /\ cli' = IF Reachable /\ cli[c].polls < MaxPolls
                     THEN [cli EXCEPT ![c].polls = @ + 1] ELSE [cli EXCEPT ![c].pc = "spawn"]
           /\ UNCHANGED conn
  <2>1. conn[c].step = "none" /\ conn' = [conn EXCEPT ![c] = conn[c]] /\ cli[c].pc \in Ensuring
    BY Zenon, <1>1, <1>3, <1>8 DEF Fits, Resting
  <2>2. CASE Reachable /\ cli[c].polls < MaxPolls
    <3>1. cli' = [cli EXCEPT ![c] = Again(cli[c])]
      BY Zenon, <1>8, <2>2 DEF Again
    <3>2. Again(cli[c]) \in CliRec /\ Again(cli[c]).pc = "probe" /\ Same(Again(cli[c]), cli[c])
      BY Zenon, <1>3, <1>8, <2>2, AgainFacts DEF Same
    <3>3. Again(cli[c]).pc # "connect"
      BY Zenon, <3>2
    <3> QED
      BY Zenon, <1>1, <1>5, <2>1, <3>1, <3>2, <3>3, Proceeds
  <2>3. CASE ~(Reachable /\ cli[c].polls < MaxPolls)
    <3>1. cli' = [cli EXCEPT ![c] = At(cli[c], "spawn")]
      BY Zenon, <1>8, <2>3 DEF At
    <3>2. At(cli[c], "spawn").pc # "connect"
      BY Zenon, <1>1, <1>4
    <3> QED
      BY Zenon, <1>1, <1>4, <1>5, <2>1, <3>1, <3>2, Proceeds
  <2> QED
    BY Zenon, <2>2, <2>3
<1> QED
  BY Zenon, <1>2, <1>6, <1>7, <1>8 DEF EnsureReplace

\* The status of the new daemon is asked for until it answers.
LEMMA EnsurePollInv == ASSUME Inv, NEW c \in Clis, EnsurePoll(c) PROVE Inv'
<1>1. cli[c].pc = "poll" /\ onlyCli /\ "poll" \in Ensuring /\ "connect" \in Ensuring
  BY Zenon DEF EnsurePoll, Ensuring
<1>2. /\ cli[c] \in CliRec /\ conn[c] \in ConnRec /\ Fits(c, cli[c], conn[c])
      /\ conn = [conn EXCEPT ![c] = conn[c]] /\ NoConn \in ConnRec /\ NoConn.step = "none" /\ NoConn.held = None
      /\ Starter(cli[c], conn[c]) => Undisturbed(cli[c], conn[c])
  BY Zenon, CommandHas, IdleFacts
<1>3. cli[c].cmd \in {"work", "start"} /\ (conn[c].step = "none" => conn[c].held = None)
  BY Zenon, <1>1, <1>2 DEF Fits
<1>4. CASE Quiet(c) /\ cli[c].polls = MaxPolls /\ Fail(c, "timeout") /\ UNCHANGED conn
  <2> DEFINE x == Failed(cli[c], "timeout")
  <2>1. x \in CliRec /\ x.pc = "failed" /\ x.why = "timeout"
    BY Zenon, <1>2, FailedFacts
  <2>2. cli' = [cli EXCEPT ![c] = x] /\ conn' = [conn EXCEPT ![c] = conn[c]] /\ conn[c].step = "none"
    BY Zenon, <1>2, <1>4 DEF Fail, Failed, Quiet
  <2>3. \A d \in Daemons : ~Telling(d, cli[c], conn[c])
    BY Zenon, <1>3 DEF Telling
  <2> HIDE DEF x
  <2>4. x.why \notin {"closed", "refused"}
    BY Zenon, <2>1
  <2> QED
    BY Zenon, <1>1, <1>2, <1>3, <2>1, <2>2, <2>3, <2>4, Ends
<1>5. CASE Quiet(c) /\ cli[c].polls < MaxPolls /\ Reachable /\ Open(c, "Status") /\ UNCHANGED cli
  BY Zenon, <1>1, <1>5, Asks
<1>6. ASSUME cli[c].polls < MaxPolls, cli' = [cli EXCEPT ![c].polls = @ + 1],
             NEW y \in ConnRec, conn' = [conn EXCEPT ![c] = y], y.step = "none", y.held = None,
             conn[c].step \in {"none", "answered"}
      PROVE  Inv'
  <2>1. Again(cli[c]) \in CliRec /\ Again(cli[c]).pc = "poll" /\ Same(Again(cli[c]), cli[c])
    BY Zenon, <1>1, <1>2, <1>6, AgainFacts DEF Same
  <2>2. Again(cli[c]).pc # "connect" /\ cli' = [cli EXCEPT ![c] = Again(cli[c])]
    BY Zenon, <1>6, <2>1 DEF Again
  <2> QED
    BY Zenon, <1>1, <1>6, <2>1, <2>2, Proceeds
<1>7. CASE /\ Quiet(c) /\ cli[c].polls < MaxPolls /\ ~Reachable
           /\ cli' = [cli EXCEPT ![c].polls = @ + 1] /\ UNCHANGED conn
  BY Zenon, <1>2, <1>3, <1>6, <1>7 DEF Quiet
<1>8. CASE Answered(c) /\ ~Matches(c) /\ cli' = [cli EXCEPT ![c].polls = @ + 1]
  <2>1. cli[c].polls < MaxPolls /\ conn[c].step = "answered" /\ conn' = [conn EXCEPT ![c] = NoConn]
    BY Zenon, <1>1, <1>2, <1>8 DEF Fits, Answered
  <2> QED
    BY Zenon, <1>2, <1>6, <1>8, <2>1
<1>9. CASE Answered(c) /\ Matches(c) /\ Goto(c, "connect")
  <2> DEFINE x == At(cli[c], "connect")
  <2>1. /\ cli' = [cli EXCEPT ![c] = x] /\ conn' = [conn EXCEPT ![c] = NoConn]
        /\ conn[c].step = "answered" /\ conn[c].reply = cli[c].version
    BY Zenon, <1>9 DEF Goto, At, Answered, Matches
  <2>2. x \in CliRec /\ x.pc = "connect" /\ Same(x, cli[c])
    BY Zenon, <1>1, <1>2, AtEnsures
  <2> HIDE DEF x
  <2>3. ~x.met => Reachable /\ version[socket] = x.version
    <3>1. SUFFICES ASSUME ~cli[c].met PROVE Reachable /\ version[socket] = cli[c].version
      BY Zenon, <2>2 DEF Same
    <3>2. Starter(cli[c], conn[c])
      BY Zenon, <1>1, <1>3, <2>1, <3>1 DEF Starter, Running
    <3> QED
      BY Zenon, <1>1, <1>2, <2>1, <3>2 DEF Undisturbed
  <2> QED
    BY Zenon, <1>1, <1>2, <2>1, <2>2, <2>3, Proceeds
<1> QED
  BY Zenon, <1>4, <1>5, <1>7, <1>8, <1>9 DEF EnsurePoll

\* The request of a command that has ensured a daemon.
LEMMA SendRequestInv == ASSUME Inv, NEW c \in Clis, SendRequest(c) PROVE Inv'
<1>1. cli[c].pc = "connect" /\ onlyCli
  BY Zenon DEF SendRequest
<1>2. /\ cli[c] \in CliRec /\ conn[c] \in ConnRec /\ Fits(c, cli[c], conn[c])
      /\ conn = [conn EXCEPT ![c] = conn[c]]
      /\ Starter(cli[c], conn[c]) => Undisturbed(cli[c], conn[c])
  BY Zenon, CommandHas
<1>3. cli[c].cmd \in {"work", "start"} /\ conn[c].step = "none" /\ conn[c].held = None
  BY Zenon, <1>1, <1>2 DEF Fits, Ensuring, Resting
<1>4. CASE Reachable
  <2> DEFINE q == IF cli[c].cmd = "work" THEN "Work" ELSE "Start"
  <2>1. Open(c, q) /\ Goto(c, "wait")
    BY Zenon, <1>4 DEF SendRequest
  <2>2. q \in Requests /\ q \in {"Work", "Start"} /\ (q = "Start" => cli[c].cmd = "start") /\ q # "Stop"
    BY Zenon, <1>3 DEF Requests
  <2>3. cli[c].cmd # "edge"
    BY Zenon, <1>3
  <2> HIDE DEF q
  <2> QED
    BY Zenon, <1>1, <1>4, <2>1, <2>2, <2>3, Sends
<1>5. CASE ~Reachable
  <2> DEFINE x == Failed(cli[c], "refused")
  <2>1. x \in CliRec /\ x.pc = "failed" /\ x.met = cli[c].met
    BY Zenon, <1>2, FailedFacts
  <2>2. cli' = [cli EXCEPT ![c] = x] /\ conn' = [conn EXCEPT ![c] = conn[c]]
    BY Zenon, <1>2, <1>5 DEF SendRequest, Fail, Failed
  <2>3. \A d \in Daemons : ~Telling(d, cli[c], conn[c])
    BY Zenon, <1>3 DEF Telling
  <2>4. cli[c].met
    BY Zenon, <1>1, <1>2, <1>3, <1>5 DEF Starter, Running, Undisturbed
  <2> HIDE DEF x
  <2> QED
    BY Zenon, <1>1, <1>2, <1>3, <2>1, <2>2, <2>3, <2>4, Ends
<1> QED
  BY Zenon, <1>4, <1>5

\* The request of a command that never starts a daemon.
LEMMA SendDirectInv == ASSUME Inv, NEW c \in Clis, SendDirect(c) PROVE Inv'
<1>1. cli[c].pc = "direct" /\ onlyCli
  BY Zenon DEF SendDirect
<1>2. /\ conn[c] \in ConnRec /\ Fits(c, cli[c], conn[c])
      /\ conn = [conn EXCEPT ![c] = conn[c]] /\ Idle \in CliRec /\ Idle.pc = "idle" /\ LockIsHeld /\ TypeOK
  BY Zenon, CommandHas, IdleFacts DEF Inv
<1>3. cli[c].cmd \in {"stop", "edge", "shutdown"} /\ conn[c].step = "none" /\ conn[c].held = None
  BY Zenon, <1>1, <1>2 DEF Fits, Resting
<1>4. CASE Reachable
  <2> DEFINE q == CASE cli[c].cmd = "stop" -> "Stop" [] cli[c].cmd = "shutdown" -> "Shutdown" [] OTHER -> "Reload"
  <2>1. Open(c, q) /\ Goto(c, "wait")
    BY Zenon, <1>4 DEF SendDirect
  <2>2. /\ q \in Requests /\ q # "Start" /\ (q = "Stop" => cli[c].cmd = "stop")
        /\ (cli[c].cmd = "edge" => q = "Reload") /\ cli[c].cmd \notin {"work", "start"}
    BY Zenon, <1>3 DEF Requests
  <2> HIDE DEF q
  <2> QED
    BY Zenon, <1>1, <1>4, <2>1, <2>2, Sends
<1>5. CASE ~Reachable
  <2>1. cli' = [cli EXCEPT ![c] = Idle] /\ conn' = [conn EXCEPT ![c] = conn[c]]
    BY Zenon, <1>2, <1>5 DEF SendDirect, Finish
  <2>2. \A d \in Daemons : phase[d] \notin Up
    BY Zenon, <1>2, <1>5, NoneIsNoDaemon DEF LockIsHeld, Up, Listening, Reachable
  <2>3. Idle.pc # "failed"
    BY Zenon, <1>2
  <2> QED
    BY Zenon, <1>1, <1>2, <1>3, <2>1, <2>2, <2>3, Ends
<1> QED
  BY Zenon, <1>4, <1>5

\* A command reads its answer, or the end of its connection.
LEMMA ReadInv == ASSUME Inv, NEW c \in Clis, ReadAnswer(c) \/ ReadClosed(c) PROVE Inv'
<1>1. /\ cli[c] \in CliRec /\ conn[c] \in ConnRec /\ Fits(c, cli[c], conn[c])
      /\ NoConn \in ConnRec /\ NoConn.step = "none" /\ NoConn.held = None
      /\ Idle \in CliRec /\ Idle.pc = "idle"
      /\ Starter(cli[c], conn[c]) => Undisturbed(cli[c], conn[c])
  BY Zenon, CommandHas, IdleFacts
<1>2. \A w \in {"answer", "closed"} :
         /\ Failed(cli[c], w) \in CliRec /\ Failed(cli[c], w).pc = "failed" /\ Failed(cli[c], w).why = w
         /\ Failed(cli[c], w).cmd = cli[c].cmd /\ Failed(cli[c], w).met = cli[c].met
  BY FailedFacts, <1>1
<1>3. CASE ReadAnswer(c)
  <2>1. onlyCli /\ conn' = [conn EXCEPT ![c] = NoConn] /\ conn[c].step = "answered"
    BY Zenon, <1>3 DEF ReadAnswer, Answered
  <2>2. \A d \in Daemons : ~Telling(d, cli[c], conn[c])
    BY Zenon, <1>3, <2>1 DEF Telling, ReadAnswer
  <2>3. CASE Fail(c, "answer")
    <3>1. cli' = [cli EXCEPT ![c] = Failed(cli[c], "answer")] /\ Failed(cli[c], "answer").why \notin {"closed", "refused"}
      BY Zenon, <1>2, <2>3 DEF Fail, Failed
    <3> QED
      BY Zenon, <1>1, <1>2, <2>1, <2>2, <3>1, Ends
  <2>4. CASE Finish(c)
    <3>1. cli' = [cli EXCEPT ![c] = Idle] /\ Idle.pc # "failed"
      BY Zenon, <1>1, <2>4 DEF Finish
    <3> QED
      BY Zenon, <1>1, <2>1, <2>2, <3>1, Ends
  <2> QED
    BY Zenon, <1>3, <2>3, <2>4 DEF ReadAnswer
<1>4. CASE ReadClosed(c)
  <2>1. /\ onlyCli /\ conn' = [conn EXCEPT ![c] = NoConn] /\ conn[c].step = "closed"
        /\ cli' = [cli EXCEPT ![c] = Failed(cli[c], "closed")]
    BY Zenon, <1>4 DEF ReadClosed, Fail, Failed
  <2>2. \A d \in Daemons : ~Telling(d, cli[c], conn[c])
    BY Zenon, <1>1, <2>1 DEF Telling, Fits, Resting
  <2>3. cli[c].cmd \in {"work", "start"} => cli[c].met
    BY Zenon, <1>1, <2>1 DEF Starter, Undisturbed, Running, Fits, Resting
  <2> QED
    BY Zenon, <1>1, <1>2, <2>1, <2>2, <2>3, Ends
<1> QED
  BY Zenon, <1>3, <1>4

\* A command starts; an edit is on its way from then on.
LEMMA BeginInv ==
    ASSUME Inv, NEW c \in Clis, NEW n \in Names, NEW p \in Ports, NEW use \in Menu[c],
           Begin(c, use[1], use[2], n, p)
    PROVE  Inv'
<1> DEFINE cmd == use[1]
           pc == IF cmd \in {"work", "start"} THEN "status" ELSE "direct"
           v == IF cmd = "shutdown" THEN None ELSE use[2]
           m == IF cmd \in {"start", "stop"} THEN n ELSE None
           q == IF cmd = "start" THEN p ELSE None
           x == [Idle EXCEPT !.pc = pc, !.cmd = cmd, !.version = v, !.name = m, !.port = q, !.met = Departing]
<1>1. /\ cmd \in {"work", "start", "stop", "edge", "shutdown"} /\ use[2] \in Versions
      /\ use = <<cmd, use[2]>>
  BY DaemonLifeAssumption
<1>2. /\ c \notin Busy /\ issued < MaxCommands /\ issued' = issued + 1 /\ cli' = [cli EXCEPT ![c] = x]
      /\ config' = (IF cmd = "edge" THEN config + 1 ELSE config)
      /\ UNCHANGED <<life, commands, proxies, conn, sending, faults>>
  BY Zenon DEF Begin
<1>3. /\ pc \in {"status", "direct"} /\ v \in Versions \cup {None} /\ m \in Names \cup {None}
      /\ q \in Ports \cup {None} /\ (pc = "status" <=> cmd \in {"work", "start"})
      /\ (cmd = "start" => m \in Names /\ q \in Ports) /\ (cmd = "stop" => m \in Names)
      /\ (cmd = "edge" => <<"edge", v>> \in Menu[c])
  BY Zenon, <1>1
<1>4. Departing \in BOOLEAN
  BY Zenon DEF Departing
<1> HIDE DEF cmd, pc, v, m, q
<1>5. /\ x \in CliRec /\ x.pc = pc /\ x.cmd = cmd /\ x.version = v /\ x.name = m /\ x.port = q
      /\ x.met = Departing
  <2> DEFINE y1 == [Idle EXCEPT !.pc = pc]
             y2 == [y1 EXCEPT !.cmd = cmd]
             y3 == [y2 EXCEPT !.version = v]
             y4 == [y3 EXCEPT !.name = m]
             y5 == [y4 EXCEPT !.port = q]
  <2>1. y1 \in CliRec /\ y1.pc = pc
    BY ZenonT(60), <1>3, IdleFacts DEF CliRec
  <2>2. y2 \in CliRec /\ y2.pc = pc /\ y2.cmd = cmd
    <3> HIDE DEF y1
    <3> QED  BY Zenon, <1>1, <2>1 DEF CliRec
  <2>3. y3 \in CliRec /\ y3.pc = pc /\ y3.cmd = cmd /\ y3.version = v
    <3> HIDE DEF y2
    <3> QED  BY Zenon, <1>3, <2>2 DEF CliRec
  <2>4. y4 \in CliRec /\ y4.pc = pc /\ y4.cmd = cmd /\ y4.version = v /\ y4.name = m
    <3> HIDE DEF y3
    <3> QED  BY Zenon, <1>3, <2>3 DEF CliRec
  <2>5. y5 \in CliRec /\ y5.pc = pc /\ y5.cmd = cmd /\ y5.version = v /\ y5.name = m /\ y5.port = q
    <3> HIDE DEF y4
    <3> QED  BY Zenon, <1>3, <2>4 DEF CliRec
  <2>6. x = [y5 EXCEPT !.met = Departing]
    BY Zenon
  <2> HIDE DEF y5, x
  <2> QED
    BY Zenon, <1>4, <2>5, <2>6 DEF CliRec
<1> HIDE DEF x
<1>6. /\ TypeOK /\ EditsArrive /\ cli[c] \in CliRec /\ conn[c] \in ConnRec /\ Fits(c, cli[c], conn[c])
      /\ conn' = [conn EXCEPT ![c] = conn[c]]
  BY Zenon, <1>2, CommandHas DEF Inv
<1>7. cli[c].pc \in {"idle", "failed"} /\ conn[c].step = "none" /\ conn[c].held = None
  BY Zenon, <1>2, <1>6 DEF Busy, Fits, Resting
<1>8. Fits(c, x, conn[c])
  BY Zenon, <1>1, <1>3, <1>5, <1>7 DEF Fits, Resting, Running, Connected, Ensuring
<1>9. ~Starter(x, conn[c])
  BY Zenon, <1>3, <1>5, <1>7 DEF Starter
<1>10. Moves(c, x, conn[c])
  BY Zenon, <1>2, <1>3, <1>5, <1>6, <1>7, <1>8, <1>9 DEF Moves, Handled
<1>11. Steady /\ UNCHANGED <<commands, proxies, sending>>
  BY Zenon, <1>2 DEF Steady, life
<1>12. TypeOK'
  <2>1. cli' \in [Clis -> CliRec] /\ conn' \in [Clis -> ConnRec]
    BY Zenon, <1>10, <1>11, CommandKeeps
  <2>2. config' \in Nat /\ issued' \in 0 .. MaxCommands
    BY <1>2, <1>6, DaemonLifeAssumption DEF TypeOK
  <2> QED
    BY Zenon, <1>2, <1>6, <2>1, <2>2 DEF TypeOK, life, proxies, CliRec, ConnRec
<1>13. EditsArrive'
  <2>1. cli'[c] = x /\ conn' = conn /\ \A b \in Clis : b # c => cli'[b] = cli[b]
    BY Zenon, <1>2, <1>6, Records
  <2>2. CASE cmd = "edge"
    <3>1. \A d : Telling(d, cli'[c], conn'[c])
      BY Zenon, <1>3, <1>5, <2>1, <2>2 DEF Telling
    <3>2. \A d \in Daemons : Coming(d)'
      BY Zenon, <3>1 DEF Coming
    <3> QED
      BY Zenon, <3>2 DEF EditsArrive
  <2>3. CASE cmd # "edge"
    <3>1. \A d \in Daemons, b \in Clis : Telling(d, cli[b], conn[b]) => Telling(d, cli'[b], conn'[b])
      BY Zenon, <2>1, <1>7 DEF Telling
    <3>2. \A d \in Daemons : (Queued(d) => Queued(d)') /\ (Sent(d) => Sent(d)')
      BY Zenon, <1>2 DEF Queued, Sent
    <3>3. \A d \in Daemons : Coming(d) => Coming(d)'
      BY Zenon, <3>1, <3>2 DEF Coming
    <3>4. config' = config
      BY Zenon, <1>2, <2>3
    <3> QED
      BY Zenon, <1>2, <1>6, <3>3, <3>4, EditsFrame DEF life
  <2> QED
    BY Zenon, <2>2, <2>3
<1> QED
  BY Zenon, <1>10, <1>11, <1>12, <1>13, CommandKeeps DEF Inv

\* A command spawns a process, which has yet to take the lock.
LEMMA SpawnDaemonInv == ASSUME Inv, NEW c \in Clis, SpawnDaemon(c) PROVE Inv'
<1> DEFINE x == [cli[c] EXCEPT !.pc = "poll", !.polls = 0]
<1>1. /\ TypeOK /\ EditsArrive /\ cli[c] \in CliRec /\ conn[c] \in ConnRec /\ Fits(c, cli[c], conn[c])
      /\ conn = [conn EXCEPT ![c] = conn[c]] /\ (Running(cli[c]) /\ Departing => cli[c].met)
  BY Zenon, CommandHas DEF Inv
<1>2. /\ cli[c].pc = "spawn" /\ cli' = [cli EXCEPT ![c] = x] /\ conn' = [conn EXCEPT ![c] = conn[c]]
      /\ UNCHANGED <<loaded, lock, socket, reachedAt, commands, proxies, config, conn, sending, issued, faults>>
  BY Zenon, <1>1 DEF SpawnDaemon
<1>3. PICK d \in Daemons : /\ phase[d] = "none" /\ phase' = [phase EXCEPT ![d] = "starting"]
                           /\ version' = [version EXCEPT ![d] = cli[c].version]
  BY Zenon DEF SpawnDaemon
<1>4. x \in CliRec /\ x.pc = "poll" /\ Same(x, cli[c])
  <2>1. At(cli[c], "poll") \in CliRec /\ At(cli[c], "poll").pc = "poll" /\ Same(At(cli[c], "poll"), cli[c])
    BY Zenon, <1>1, AtEnsures DEF Ensuring
  <2>2. 0 \in 0 .. MaxPolls
    BY DaemonLifeAssumption
  <2>3. x = [At(cli[c], "poll") EXCEPT !.polls = 0]
    BY Zenon DEF At
  <2> HIDE DEF x
  <2> QED
    BY Zenon, <2>1, <2>2, <2>3 DEF CliRec, Same
<1> HIDE DEF x
<1>5. conn[c].step = "none" /\ conn[c].held = None /\ cli[c].cmd \in {"work", "start"}
  BY Zenon, <1>1, <1>2 DEF Fits, Resting, Ensuring
<1>6. Running(cli[c]) /\ Running(x)
  BY Zenon, <1>2, <1>4 DEF Running
<1>7. Fits(c, x, conn[c])
  BY Zenon, <1>1, <1>4, <1>5, <1>6 DEF Fits, Resting, Connected, Ensuring, Same
<1>8. ~Starter(x, conn[c])
  BY Zenon, <1>4, <1>5 DEF Starter
<1>9. Moves(c, x, conn[c])
  BY Zenon, <1>1, <1>2, <1>4, <1>5, <1>6, <1>7, <1>8 DEF Moves, Handled, Same
<1>10. /\ phase' \in [Daemons -> Alive \cup {"none", "dead"}] /\ version' \in [Daemons -> Versions \cup {None}]
       /\ \A e \in Daemons : e # d => phase'[e] = phase[e] /\ version'[e] = version[e]
       /\ phase'[d] = "starting"
  BY Zenon, <1>1, <1>3 DEF TypeOK, Alive, CliRec
<1>11. Steady /\ UNCHANGED <<commands, proxies, sending>>
  BY Zenon, <1>2, <1>3, <1>10 DEF Steady, Working
<1>12. TypeOK'
  <2>1. cli' \in [Clis -> CliRec] /\ conn' \in [Clis -> ConnRec]
    BY Zenon, <1>9, <1>11, CommandKeeps
  <2> QED
    BY Zenon, <1>1, <1>2, <1>10, <2>1 DEF TypeOK, proxies, CliRec, ConnRec
<1>13. EditsArrive'
  <2>1. cli'[c] = x /\ conn' = conn /\ \A b \in Clis : b # c => cli'[b] = cli[b]
    BY Zenon, <1>1, <1>2, Records
  <2>2. \A e \in Daemons, b \in Clis : Telling(e, cli[b], conn[b]) => Telling(e, cli'[b], conn'[b])
    BY Zenon, <2>1, <1>5 DEF Telling
  <2>3. \A e \in Daemons : (Queued(e) => Queued(e)') /\ (Sent(e) => Sent(e)')
    BY Zenon, <1>2 DEF Queued, Sent
  <2>4. \A e \in Daemons : Coming(e) => Coming(e)'
    BY Zenon, <2>2, <2>3 DEF Coming
  <2>5. \A e \in Daemons : phase'[e] \in Up => e # d
    BY Zenon, <1>10 DEF Up
  <2> QED
    BY Zenon, <1>1, <1>2, <1>10, <2>4, <2>5, EditsFrame
<1> QED
  BY Zenon, <1>9, <1>11, <1>12, <1>13, CommandKeeps DEF Inv

\* Every step of a command keeps the invariant.
LEMMA CommandInv == ASSUME Inv, NEW c \in Clis, Command(c) PROVE Inv'
  BY Zenon, EnsureStatusInv, EnsureReplaceInv, SpawnDaemonInv, EnsurePollInv, SendRequestInv,
     SendDirectInv, ReadInv DEF Command

-----------------------------------------------------------------------------
(* Handlers.                                                               *)

\* The connection of c becomes y: its handler goes on, or has answered or ended it.
Handling(c, y) ==
    /\ y \in ConnRec /\ conn' = [conn EXCEPT ![c] = y] /\ onlyHandler
    /\ conn[c].step \in Handled \cup {"backlog"} /\ y.step # "backlog"
    /\ Fits(c, cli[c], y)
    /\ y.step \in Handled =>
         y.to = conn[c].to /\ (conn[c].step \in Handled \/ phase[conn[c].to] = "serving")
    /\ Starter(cli[c], y) => Undisturbed(cli[c], y)
    /\ sending \subseteq sending' /\ sending' \subseteq Daemons \X Clis \X {"Shutdown", "Reload"}
    /\ \A s \in sending' \ sending : s[1] = conn[c].to /\ conn[c].step \in Handled
    /\ \A d \in Daemons : EditsWith(d) /\ Telling(d, cli[c], conn[c]) => Telling(d, cli[c], y) \/ Sent(d)'
    /\ \A d \in Daemons : running'[d] = running[d] \/ (d = conn[c].to /\ conn[c].step \in Handled)

\* A step of a handler that keeps the ports in order keeps the rest.
LEMMA HandlerStep ==
    ASSUME Inv, NEW c \in Clis, NEW y, Handling(c, y),
           running' \in [Daemons -> [Names -> [port : Ports \cup {None}, live : BOOLEAN]]],
           port' \in [Ports -> Daemons \cup {None}],
           PortsAreOwned', PortsHaveOneOwner'
    PROVE  Inv'
<1>1. /\ TypeOK /\ LockIsHeld /\ CommandsFit /\ ConnectionsAreServed /\ DeparturesAreMet
      /\ StartersAreUndisturbed /\ TurnedAwayOnlyByDeparture /\ IdleIsStill /\ EditsArrive
      /\ cli \in [Clis -> CliRec] /\ conn \in [Clis -> ConnRec]
  BY Zenon, Records DEF Inv
<1>2. /\ phase' = phase /\ version' = version /\ loaded' = loaded /\ lock' = lock /\ socket' = socket
      /\ reachedAt' = reachedAt /\ commands' = commands /\ config' = config /\ cli' = cli
      /\ issued' = issued /\ faults' = faults
  BY Zenon DEF Handling, onlyHandler, life
<1>3. /\ y \in ConnRec /\ conn' = [conn EXCEPT ![c] = y]
      /\ conn[c].step \in Handled \cup {"backlog"} /\ y.step # "backlog"
      /\ Fits(c, cli[c], y)
      /\ y.step \in Handled =>
           y.to = conn[c].to /\ (conn[c].step \in Handled \/ phase[conn[c].to] = "serving")
      /\ Starter(cli[c], y) => Undisturbed(cli[c], y)
  BY Zenon DEF Handling
<1>4. /\ sending \subseteq sending' /\ sending' \subseteq Daemons \X Clis \X {"Shutdown", "Reload"}
      /\ \A s \in sending' \ sending : s[1] = conn[c].to /\ conn[c].step \in Handled
      /\ \A d \in Daemons : EditsWith(d) /\ Telling(d, cli[c], conn[c]) => Telling(d, cli[c], y) \/ Sent(d)'
      /\ \A d \in Daemons : running'[d] = running[d] \/ (d = conn[c].to /\ conn[c].step \in Handled)
  BY Zenon DEF Handling
<1>5. /\ conn' \in [Clis -> ConnRec] /\ conn'[c] = y /\ \A b \in Clis : b # c => conn'[b] = conn[b]
  BY Zenon, <1>1, <1>3
<1>6. TypeOK'
  BY Zenon, <1>1, <1>2, <1>4, <1>5 DEF TypeOK, CliRec, ConnRec
<1>7. LockIsHeld' /\ DeparturesAreMet' /\ TurnedAwayOnlyByDeparture'
  BY Zenon, <1>1, <1>2 DEF LockIsHeld, DeparturesAreMet, Departing, TurnedAwayOnlyByDeparture
<1>8. CommandsFit'
  <2>1. \A b \in Clis : Fits(b, cli[b], conn'[b])
    BY Zenon, <1>1, <1>3, <1>5 DEF CommandsFit
  <2> QED
    BY Zenon, <2>1, <1>2 DEF CommandsFit
<1>9. ConnectionsAreServed'
  <2>1. y.step \in Handled => phase[y.to] \in Listening \cup {"unbound"}
    BY Zenon, <1>1, <1>3 DEF ConnectionsAreServed, Listening
  <2> QED
    BY Zenon, <2>1, <1>1, <1>2, <1>3, <1>5 DEF ConnectionsAreServed
<1>10. StartersAreUndisturbed'
  <2>1. \A b \in Clis : Starter(cli[b], conn'[b]) => Undisturbed(cli[b], conn'[b])
    BY Zenon, <1>1, <1>3, <1>5 DEF StartersAreUndisturbed
  <2> QED
    BY Zenon, <2>1, <1>2 DEF StartersAreUndisturbed, Undisturbed, Reachable
<1>11. IdleIsStill'
  <2>1. ASSUME NEW d \in Daemons, Still(d), phase[d] # "serving"
        PROVE  Still(d)' /\ running'[d] = running[d]
    <3>1. d = conn[c].to => conn[c].step \notin Handled /\ y.step \notin Handled
      BY Zenon, <1>3, <2>1 DEF Still
    <3>2. \A b \in Clis : conn'[b].step \in Handled => conn'[b].to # d
      BY Zenon, <1>3, <1>5, <2>1, <3>1 DEF Still
    <3>3. \A s \in sending' : s[1] # d
      BY Zenon, <1>4, <2>1, <3>1 DEF Still
    <3> QED
      BY Zenon, <1>2, <1>4, <2>1, <3>1, <3>2, <3>3 DEF Still
  <2>2. ASSUME NEW d \in Daemons
        PROVE  /\ phase'[d] = "checking" => Still(d)'
               /\ phase'[d] = "draining" =>
                    ShutdownTaken(d) \/ (Still(d)' /\ \A n \in Names : running'[d][n] = NoProxy)
    <3>1. /\ phase[d] = "checking" => Still(d) /\ phase[d] # "serving"
          /\ phase[d] = "draining" =>
               /\ phase[d] # "serving"
               /\ ShutdownTaken(d) \/ (Still(d) /\ \A n \in Names : running[d][n] = NoProxy)
      BY Zenon, <1>1 DEF IdleIsStill
    <3> QED
      BY Zenon, <1>2, <2>1, <3>1
  <2> QED
    BY Zenon, <1>2, <2>2 DEF IdleIsStill, ShutdownTaken
<1>12. EditsArrive'
  <2>1. \A d \in Daemons, b \in Clis :
           EditsWith(d) /\ Telling(d, cli[b], conn[b]) => Telling(d, cli'[b], conn'[b]) \/ Sent(d)'
    BY Zenon, <1>2, <1>4, <1>5
  <2>2. \A d \in Daemons : (Queued(d) => Queued(d)') /\ (Sent(d) => Sent(d)')
    BY Zenon, <1>2, <1>4 DEF Queued, Sent
  <2>3. \A d \in Daemons : EditsWith(d) /\ Coming(d) => Coming(d)'
    BY Zenon, <2>1, <2>2 DEF Coming
  <2> QED
    BY Zenon, <1>1, <1>2, <2>3, EditsFrame
<1> QED
  BY Zenon, <1>6, <1>7, <1>8, <1>9, <1>10, <1>11, <1>12 DEF Inv

\* The records the handlers write.
Replied(r, v) == [r EXCEPT !.step = "answered", !.reply = v, !.held = None]
Closed == [NoConn EXCEPT !.step = "closed"]
Holding(r, at, p) == [r EXCEPT !.step = at, !.held = p]
Replies == Versions \cup {None, "ok", "error"}

\* An answer keeps the peer and the request.
LEMMA RepliedFacts ==
    ASSUME NEW r \in ConnRec, NEW v \in Replies
    PROVE  /\ Replied(r, v) \in ConnRec /\ Replied(r, v).to = r.to /\ Replied(r, v).req = r.req
           /\ Replied(r, v).step = "answered" /\ Replied(r, v).reply = v /\ Replied(r, v).held = None
<1> DEFINE x == [r EXCEPT !.step = "answered"]
           y == [x EXCEPT !.reply = v]
<1>1. x \in ConnRec /\ x.to = r.to /\ x.req = r.req /\ x.step = "answered"
  BY Zenon DEF ConnRec
<1>2. y \in ConnRec /\ y.to = r.to /\ y.req = r.req /\ y.step = "answered" /\ y.reply = v
  <2> HIDE DEF x
  <2> QED  BY Zenon, <1>1 DEF ConnRec, Replies
<1>3. Replied(r, v) = [y EXCEPT !.held = None]
  BY Zenon DEF Replied
<1> HIDE DEF y
<1> QED
  BY Zenon, <1>2, <1>3 DEF ConnRec

\* A start or a stop under way keeps the peer and the request.
LEMMA HoldingFacts ==
    ASSUME NEW r \in ConnRec, NEW at \in {"bound", "removed"}, NEW p \in Ports \cup {None}
    PROVE  /\ Holding(r, at, p) \in ConnRec /\ Holding(r, at, p).to = r.to /\ Holding(r, at, p).req = r.req
           /\ Holding(r, at, p).step = at /\ Holding(r, at, p).held = p
<1> DEFINE x == [r EXCEPT !.step = at]
<1>1. x \in ConnRec /\ x.to = r.to /\ x.req = r.req /\ x.step = at
  BY Zenon DEF ConnRec
<1>2. Holding(r, at, p) = [x EXCEPT !.held = p]
  BY Zenon DEF Holding
<1> HIDE DEF x
<1> QED
  BY Zenon, <1>1, <1>2 DEF ConnRec

\* A connection that ended without an answer.
LEMMA ClosedFacts == Closed \in ConnRec /\ Closed.step = "closed" /\ Closed.held = None
  BY Zenon DEF Closed, NoConn, ConnRec

\* A handler that answers.
LEMMA Answers ==
    ASSUME Inv, NEW c \in Clis, NEW v \in Replies, conn' = Reply(c, v), onlyHandler,
           conn[c].step \in Handled,
           cli[c].pc \in {"status", "poll"} => v = version[conn[c].to],
           sending \subseteq sending', sending' \subseteq Daemons \X Clis \X {"Shutdown", "Reload"},
           \A s \in sending' \ sending : s[1] = conn[c].to,
           \A d \in Daemons : EditsWith(d) /\ Telling(d, cli[c], conn[c]) => Sent(d)',
           \A d \in Daemons : running'[d] = running[d] \/ d = conn[c].to
    PROVE  Handling(c, Replied(conn[c], v)) /\ conn' = [conn EXCEPT ![c] = Replied(conn[c], v)]
<1> DEFINE y == Replied(conn[c], v)
<1>1. /\ conn[c] \in ConnRec /\ Fits(c, cli[c], conn[c])
      /\ Starter(cli[c], conn[c]) => Undisturbed(cli[c], conn[c])
  BY Zenon, CommandHas
<1>2. y \in ConnRec /\ y.to = conn[c].to /\ y.req = conn[c].req /\ y.step = "answered" /\ y.reply = v /\ y.held = None
  BY Zenon, <1>1, RepliedFacts
<1>3. conn' = [conn EXCEPT ![c] = y]
  BY Zenon DEF Reply, Replied
<1> HIDE DEF y
<1>4. Fits(c, cli[c], y)
  BY Zenon, <1>1, <1>2 DEF Fits, Connected, Handled, Resting
<1>5. Starter(cli[c], y) => Undisturbed(cli[c], y)
  <2>1. conn[c].step # "none"
    BY Zenon DEF Handled
  <2>2. Starter(cli[c], y) => Undisturbed(cli[c], conn[c])
    BY Zenon, <1>1, <2>1 DEF Starter
  <2> QED
    BY Zenon, <1>2, <2>1, <2>2 DEF Undisturbed
<1>6. y.step # "backlog" /\ y.step \notin Handled
  BY Zenon, <1>2 DEF Handled
<1>7. Handling(c, y)
  BY Zenon, <1>2, <1>3, <1>4, <1>5, <1>6 DEF Handling
<1> QED
  BY Zenon, <1>3, <1>7 DEF y

\* Only the request of an edit carries one.
LEMMA OnlyReloadTells ==
    ASSUME Inv, NEW c \in Clis, conn[c].step \in Handled, conn[c].req # "Reload"
    PROVE  \A d : ~Telling(d, cli[c], conn[c])
<1>1. Fits(c, cli[c], conn[c])
  BY Zenon, CommandHas
<1> QED
  BY Zenon, <1>1 DEF Telling, Fits, Handled, Connected, Resting

\* PortsAreOwned and PortsHaveOneOwner in the parts the steps below argue about.
Owned(p) ==
    port[p] # None =>
        \/ \E n \in Names : running[port[p]][n] = Entry(p)
        \/ \E c \in Clis : conn[c].to = port[p] /\ conn[c].held = p
Bound(d, n) ==
    running[d][n].live =>
        /\ running[d][n].port \in Ports /\ port[running[d][n].port] = d
        /\ \A m \in Names : running[d][m].live /\ running[d][m].port = running[d][n].port => m = n
Held(c) ==
    conn[c].held # None =>
        /\ port[conn[c].held] = conn[c].to
        /\ \A d \in Daemons, n \in Names : running[d][n].live => running[d][n].port # conn[c].held
        /\ \A b \in Clis : conn[b].held = conn[c].held => b = c
PortsInParts ==
    /\ \A p \in Ports : Owned(p)
    /\ \A d \in Daemons, n \in Names : Bound(d, n)
    /\ \A c \in Clis : Held(c)

\* The two invariants on ports, one port, one entry and one handler at a time.
LEMMA PortsApart == PortsAreOwned /\ PortsHaveOneOwner => PortsInParts
<1> SUFFICES ASSUME PortsAreOwned, PortsHaveOneOwner PROVE PortsInParts
  BY Zenon
<1>1. \A p \in Ports : Owned(p)
  BY Zenon DEF PortsAreOwned, Owned, Entry
<1>2. \A d \in Daemons, n \in Names : Bound(d, n)
  BY Zenon DEF PortsAreOwned, PortsHaveOneOwner, Bound
<1>3. \A c \in Clis : Held(c)
  BY Zenon DEF PortsHaveOneOwner, Held
<1> QED
  BY Zenon, <1>1, <1>2, <1>3 DEF PortsInParts

\* And back.
LEMMA PortsTogether == ASSUME PortsInParts' PROVE PortsAreOwned' /\ PortsHaveOneOwner'
<1>1. (\A p \in Ports : Owned(p)') /\ (\A d \in Daemons, n \in Names : Bound(d, n)') /\ (\A c \in Clis : Held(c)')
  BY Zenon DEF PortsInParts
<1>2. PortsAreOwned'
  BY ZenonT(60), <1>1 DEF PortsAreOwned, Owned, Entry, Bound
<1>3. PortsHaveOneOwner'
  BY Zenon, <1>1 DEF PortsHaveOneOwner, Bound, Held
<1> QED
  BY Zenon, <1>2, <1>3

\* ProxyManager::start binds a free address.
LEMMA PortBound ==
    ASSUME TypeOK, PortsInParts, NEW c \in Clis, NEW p \in Ports, NEW d \in Daemons,
           \A b \in Clis : conn[b].held # None => conn[b].to \in Daemons,
           port[p] = None, \A q \in Ports : port'[q] = (IF q = p THEN d ELSE port[q]), running' = running,
           conn[c].held = None, conn'[c].held = p, conn'[c].to = d,
           \A b \in Clis : b # c => conn'[b] = conn[b]
    PROVE  PortsInParts'
<1>1. port'[p] = d /\ \A q \in Ports : q # p => port'[q] = port[q]
  BY Zenon
<1>2. /\ \A e \in Daemons, n \in Names : running[e][n].live => running[e][n].port # p
      /\ \A b \in Clis : conn[b].held # p
  <2>1. ASSUME NEW e \in Daemons, NEW n \in Names, running[e][n].live PROVE running[e][n].port # p
    BY <2>1, NoneIsNoDaemon DEF PortsInParts, Bound
  <2>2. ASSUME NEW b \in Clis PROVE conn[b].held # p
    BY NoneIsNoDaemon DEF PortsInParts, Held
  <2> QED
    BY Zenon, <2>1, <2>2
<1>3. ASSUME NEW q \in Ports PROVE Owned(q)'
  <2>1. CASE q = p
    BY Zenon, <1>1, <2>1 DEF Owned
  <2>2. CASE q # p
    <3>1. port'[q] = port[q] /\ Owned(q)
      BY Zenon, <1>1, <2>2 DEF PortsInParts
    <3>2. \A b \in Clis : conn[b].to = port[q] /\ conn[b].held = q => b # c
      BY NoneIsNoDaemon
    <3> QED
      BY Zenon, <3>1, <3>2 DEF Owned
  <2> QED
    BY Zenon, <2>1, <2>2
<1>4. ASSUME NEW e \in Daemons, NEW n \in Names PROVE Bound(e, n)'
  <2>1. Bound(e, n) /\ (running[e][n].live => running[e][n].port # p)
    BY Zenon, <1>2 DEF PortsInParts
  <2> QED
    BY Zenon, <1>1, <2>1 DEF Bound
<1>5. ASSUME NEW b \in Clis PROVE Held(b)'
  <2>1. CASE b = c
    BY ZenonT(60), <1>1, <1>2, <2>1 DEF Held
  <2>2. CASE b # c
    <3>1. Held(b) /\ conn'[b] = conn[b]
      BY Zenon, <2>2 DEF PortsInParts
    <3>2. conn[b].held # None => conn[b].held \in Ports /\ conn[b].held # p
      BY <1>2 DEF TypeOK
    <3>3. \A a \in Clis : conn'[a].held = conn[b].held /\ conn[b].held # None => conn[a].held = conn[b].held
      BY Zenon, <3>2
    <3> QED
      BY <1>1, <3>1, <3>2, <3>3 DEF Held
  <2> QED
    BY Zenon, <2>1, <2>2
<1> QED
  BY Zenon, <1>3, <1>4, <1>5 DEF PortsInParts

\* A start that is refused, or a stop that is done, gives up the port it holds.
LEMMA PortFreed ==
    ASSUME TypeOK, PortsInParts, NEW c \in Clis, running' = running,
           port' = [p \in Ports |-> IF p = conn[c].held THEN None ELSE port[p]],
           conn'[c].held = None, \A b \in Clis : b # c => conn'[b] = conn[b]
    PROVE  PortsInParts'
<1>1. \A q \in Ports : port'[q] = (IF q = conn[c].held THEN None ELSE port[q])
  BY Zenon
<1>2. ASSUME NEW q \in Ports PROVE Owned(q)'
  <2>1. CASE q = conn[c].held
    BY Zenon, <1>1, <2>1 DEF Owned
  <2>2. CASE q # conn[c].held
    <3>1. port'[q] = port[q] /\ Owned(q)
      BY Zenon, <1>1, <2>2 DEF PortsInParts
    <3> QED
      BY Zenon, <3>1, <2>2 DEF Owned
  <2> QED
    BY Zenon, <2>1, <2>2
<1>3. ASSUME NEW e \in Daemons, NEW n \in Names PROVE Bound(e, n)'
  <2>1. Bound(e, n) /\ Held(c)
    BY Zenon DEF PortsInParts
  <2>2. running[e][n].live => running[e][n].port # conn[c].held
    BY Zenon, <2>1, NoneIsNoDaemon DEF Held, Bound
  <2> QED
    BY Zenon, <1>1, <2>1, <2>2 DEF Bound
<1>4. ASSUME NEW b \in Clis PROVE Held(b)'
  <2>1. CASE b = c
    BY Zenon, <2>1 DEF Held
  <2>2. CASE b # c
    <3>1. Held(b) /\ conn'[b] = conn[b]
      BY Zenon, <2>2 DEF PortsInParts
    <3>2. conn[b].held # None => conn[b].held \in Ports /\ conn[b].held # conn[c].held
      BY Zenon, <2>2, <3>1 DEF TypeOK, Held
    <3>3. \A a \in Clis : conn'[a].held = conn[b].held /\ conn[b].held # None => conn[a].held = conn[b].held
      BY Zenon
    <3> QED
      BY ZenonT(60), <1>1, <3>1, <3>2, <3>3 DEF Held
  <2> QED
    BY Zenon, <2>1, <2>2
<1> QED
  BY Zenon, <1>2, <1>3, <1>4 DEF PortsInParts

\* A start that is not refused hands its port over to the entry in the table.
LEMMA PortInserted ==
    ASSUME TypeOK, PortsInParts, NEW c \in Clis, NEW d \in Daemons, NEW m \in Names,
           conn[c].to = d, conn[c].held \in Ports, ~running[d][m].live,
           running'[d][m] = Entry(conn[c].held),
           \A e \in Daemons, n \in Names : e # d \/ n # m => running'[e][n] = running[e][n],
           port' = port, conn'[c].held = None, \A b \in Clis : b # c => conn'[b] = conn[b]
    PROVE  PortsInParts'
<1> DEFINE p == conn[c].held
<1>1. /\ running'[d][m] = Entry(p) /\ running'[d][m].live /\ running'[d][m].port = p
      /\ \A e \in Daemons, n \in Names : e # d \/ n # m => running'[e][n] = running[e][n]
  BY DEF Entry
<1>2. /\ p \in Ports /\ p # None /\ port[p] = d
      /\ \A e \in Daemons, n \in Names : running[e][n].live => running[e][n].port # p
      /\ \A b \in Clis : conn[b].held = p => b = c
  BY Zenon, NoneIsNoDaemon DEF PortsInParts, Held
<1> HIDE DEF p
<1>3. ASSUME NEW q \in Ports PROVE Owned(q)'
  <2>1. CASE q = p
    <3>1. port'[q] = d /\ running'[d][m] = Entry(q)
      BY Zenon, <1>1, <1>2, <2>1
    <3> QED
      BY Zenon, <3>1 DEF Owned
  <2>2. CASE q # p
    <3>1. Owned(q) /\ port'[q] = port[q] /\ (port[q] # None => port[q] \in Daemons)
      BY DEF PortsInParts, TypeOK
    <3>2. \A n \in Names : running[d][n] = Entry(q) => n # m
      BY DEF Entry
    <3>3. \A b \in Clis : conn[b].held = q => b # c
      BY Zenon, <2>2 DEF p
    <3>4. CASE \E n \in Names : running[port[q]][n] = Entry(q) /\ port[q] # None
      BY ZenonT(60), <1>1, <3>1, <3>2, <3>4 DEF Owned
    <3>5. CASE \E b \in Clis : conn[b].to = port[q] /\ conn[b].held = q
      BY Zenon, <3>1, <3>3, <3>5 DEF Owned
    <3> QED
      BY Zenon, <3>1, <3>4, <3>5 DEF Owned
  <2> QED
    BY Zenon, <2>1, <2>2
<1>4. ASSUME NEW e \in Daemons, NEW n \in Names PROVE Bound(e, n)'
  <2>1. CASE e = d /\ n = m
    BY <1>1, <1>2, <2>1 DEF Bound
  <2>2. CASE e # d \/ n # m
    <3>1. Bound(e, n) /\ running'[e][n] = running[e][n] /\ (running[e][n].live => running[e][n].port # p)
      BY Zenon, <1>1, <1>2, <2>2 DEF PortsInParts
    <3>2. \A k \in Names : running'[e][k] = running[e][k] \/ running'[e][k].port = p
      BY Zenon, <1>1
    <3> QED
      BY Zenon, <3>1, <3>2 DEF Bound
  <2> QED
    BY Zenon, <2>1, <2>2
<1>5. ASSUME NEW b \in Clis PROVE Held(b)'
  <2>1. CASE b = c
    BY Zenon, <2>1 DEF Held
  <2>2. CASE b # c
    <3>1. Held(b) /\ conn'[b] = conn[b] /\ conn[b].held # p
      BY Zenon, <1>2, <2>2 DEF PortsInParts
    <3>2. \A a \in Clis : conn'[a].held = conn[b].held /\ conn[b].held # None => conn[a].held = conn[b].held
      BY Zenon
    <3>3. \A e \in Daemons, n \in Names : running'[e][n] = running[e][n] \/ running'[e][n].port = p
      BY Zenon, <1>1
    <3> QED
      BY <3>1, <3>2, <3>3 DEF Held
  <2> QED
    BY Zenon, <2>1, <2>2
<1> QED
  BY Zenon, <1>3, <1>4, <1>5 DEF PortsInParts

\* A stop takes the entry out of the table and with it the port of a proxy that is live.
LEMMA PortRemoved ==
    ASSUME TypeOK, PortsInParts, NEW c \in Clis, NEW d \in Daemons, NEW m \in Names,
           conn[c].to = d, conn[c].held = None,
           ~running'[d][m].live,
           \A e \in Daemons, n \in Names : e # d \/ n # m => running'[e][n] = running[e][n],
           port' = port, conn'[c].to = d,
           conn'[c].held = (IF running[d][m].live THEN running[d][m].port ELSE None),
           \A b \in Clis : b # c => conn'[b] = conn[b]
    PROVE  PortsInParts'
<1>1. /\ ~running'[d][m].live
      /\ \A e \in Daemons, n \in Names : e # d \/ n # m => running'[e][n] = running[e][n]
  BY Zenon
<1>2. ASSUME NEW q \in Ports PROVE Owned(q)'
  <2>1. Owned(q) /\ port'[q] = port[q] /\ (port[q] # None => port[q] \in Daemons)
    BY DEF PortsInParts, TypeOK
  <2>2. CASE \E b \in Clis : conn[b].to = port[q] /\ conn[b].held = q
    BY Zenon, <2>1, <2>2, NoneIsNoDaemon DEF Owned
  <2>3. ASSUME port[q] # None, NEW n \in Names, running[port[q]][n] = Entry(q) PROVE Owned(q)'
    <3>1. CASE port[q] = d /\ n = m
      <4>1. running[d][m].live /\ running[d][m].port = q
        BY <2>3, <3>1 DEF Entry
      <4> QED
        BY ZenonT(60), <2>1, <3>1, <4>1 DEF Owned
    <3>2. CASE port[q] # d \/ n # m
      BY Zenon, <1>1, <2>1, <2>3, <3>2 DEF Owned
    <3> QED
      BY Zenon, <3>1, <3>2
  <2>4. CASE port[q] = None
    BY Zenon, <2>1, <2>4 DEF Owned
  <2> QED
    BY Zenon, <2>1, <2>2, <2>3, <2>4 DEF Owned
<1>3. ASSUME NEW e \in Daemons, NEW n \in Names PROVE Bound(e, n)'
  <2>1. CASE e = d /\ n = m
    BY Zenon, <1>1, <2>1 DEF Bound
  <2>2. CASE e # d \/ n # m
    <3>1. Bound(e, n) /\ running'[e][n] = running[e][n]
      BY Zenon, <1>1, <2>2 DEF PortsInParts
    <3>2. \A k \in Names : running'[e][k] = running[e][k] \/ ~running'[e][k].live
      BY Zenon, <1>1
    <3> QED
      BY ZenonT(60), <3>1, <3>2 DEF Bound
  <2> QED
    BY Zenon, <2>1, <2>2
<1>4. \A e \in Daemons, n \in Names : running'[e][n].live => running[e][n].live /\ running'[e][n] = running[e][n]
  BY Zenon, <1>1
<1>5. ASSUME NEW b \in Clis PROVE Held(b)'
  <2>1. CASE b = c /\ running[d][m].live
    <3>1. conn'[c].held = running[d][m].port /\ Bound(d, m)
      BY Zenon, <2>1 DEF PortsInParts
    <3>2. \A a \in Clis : a # c => conn[a].held # running[d][m].port
      BY Zenon, <2>1, <3>1, NoneIsNoDaemon DEF PortsInParts, Held, Bound
    <3>3. ASSUME NEW e \in Daemons, NEW n \in Names, running'[e][n].live
          PROVE  running'[e][n].port # running[d][m].port
      <4>1. Bound(e, n) /\ running[e][n].live /\ running'[e][n] = running[e][n] /\ (e # d \/ n # m)
        BY ZenonT(60), <1>1, <1>4, <3>3 DEF PortsInParts
      <4> QED
        BY <2>1, <3>1, <4>1 DEF Bound
    <3> QED
      BY <2>1, <3>1, <3>2, <3>3 DEF Held, Bound
  <2>2. CASE b = c /\ ~running[d][m].live
    BY Zenon, <2>2 DEF Held
  <2>3. CASE b # c
    <3>1. Held(b) /\ conn'[b] = conn[b] /\ Bound(d, m)
      BY Zenon, <2>3 DEF PortsInParts
    <3>2. \A a \in Clis : conn'[a].held = conn[b].held /\ conn[b].held # None => conn[a].held = conn[b].held
      BY ZenonT(60), <3>1 DEF Held
    <3> QED
      BY <1>4, <3>1, <3>2 DEF Held
  <2> QED
    BY Zenon, <2>1, <2>2, <2>3
<1> QED
  BY Zenon, <1>2, <1>3, <1>5 DEF PortsInParts

\* A proxy whose accept fails gives up its port and keeps its entry.
LEMMA PortFailed ==
    ASSUME TypeOK, PortsInParts, NEW d \in Daemons, NEW m \in Names, running[d][m].live,
           ~running'[d][m].live,
           \A e \in Daemons, n \in Names : e # d \/ n # m => running'[e][n] = running[e][n],
           \A q \in Ports : port'[q] = (IF q = running[d][m].port THEN None ELSE port[q]), conn' = conn
    PROVE  PortsInParts'
<1> DEFINE p == running[d][m].port
<1>1. /\ ~running'[d][m].live
      /\ \A e \in Daemons, n \in Names : e # d \/ n # m => running'[e][n] = running[e][n]
  BY Zenon
<1>2. p \in Ports /\ port[p] = d
  BY Zenon DEF PortsInParts, Bound
<1>3. port'[p] = None /\ \A q \in Ports : q # p => port'[q] = port[q]
  BY Zenon, <1>2
<1> HIDE DEF p
<1>4. \A e \in Daemons, n \in Names : running'[e][n].live => running[e][n].live /\ running'[e][n] = running[e][n]
  BY Zenon, <1>1
<1>5. ASSUME NEW q \in Ports PROVE Owned(q)'
  <2>1. CASE q = p
    BY Zenon, <1>3, <2>1 DEF Owned
  <2>2. CASE q # p
    <3>1. Owned(q) /\ port'[q] = port[q] /\ (port[q] # None => port[q] \in Daemons)
      BY <1>3, <2>2 DEF PortsInParts, TypeOK
    <3>2. \A n \in Names : running[d][n] = Entry(q) => n # m
      BY <2>2 DEF Entry, p
    <3> QED
      BY <1>1, <3>1, <3>2 DEF Owned
  <2> QED
    BY Zenon, <2>1, <2>2
<1>6. ASSUME NEW e \in Daemons, NEW n \in Names PROVE Bound(e, n)'
  <2>1. Bound(e, n) /\ Bound(d, m)
    BY Zenon DEF PortsInParts
  <2>2. running'[e][n].live => running[e][n].port # p
    BY <1>1, <1>4, <2>1 DEF Bound, p
  <2> QED
    BY <1>3, <1>4, <2>1, <2>2 DEF Bound
<1>7. ASSUME NEW b \in Clis PROVE Held(b)'
  <2>1. Held(b) /\ (conn[b].held # None => conn[b].held \in Ports /\ conn[b].held # p)
    BY DEF PortsInParts, Held, TypeOK, p
  <2> QED
    BY <1>3, <1>4, <2>1 DEF Held
<1> QED
  BY Zenon, <1>5, <1>6, <1>7 DEF PortsInParts

\* What a handler's step may rely on.
LEMMA HandlerHas ==
    ASSUME Inv, NEW c \in Clis, conn[c].step \in Handled
    PROVE  /\ TypeOK /\ cli[c] \in CliRec /\ conn[c] \in ConnRec /\ Fits(c, cli[c], conn[c])
           /\ conn[c].to \in Daemons /\ conn[c].to # None /\ version[conn[c].to] \in Replies
           /\ PortsAreOwned /\ PortsHaveOneOwner /\ PortsInParts
           /\ running \in [Daemons -> [Names -> [port : Ports \cup {None}, live : BOOLEAN]]]
           /\ port \in [Ports -> Daemons \cup {None}]
           /\ sending \subseteq Daemons \X Clis \X {"Shutdown", "Reload"}
<1>1. TypeOK /\ cli[c] \in CliRec /\ conn[c] \in ConnRec /\ Fits(c, cli[c], conn[c]) /\ PortsAreOwned /\ PortsHaveOneOwner
  BY Zenon, CommandHas DEF Inv
<1>2. conn[c].to \in Daemons /\ conn[c].to # None
  BY Zenon, <1>1, NoneIsNoDaemon DEF Fits, Connected, Handled
<1>3. version[conn[c].to] \in Replies
  BY Zenon, <1>1, <1>2 DEF TypeOK, Replies
<1> QED
  BY Zenon, <1>1, <1>2, <1>3, PortsApart DEF TypeOK

\* An answer that leaves the ports and the table alone.
LEMMA AnswersOnly ==
    ASSUME Inv, NEW c \in Clis, NEW v \in Replies, conn' = Reply(c, v), onlyHandler, UNCHANGED proxies,
           conn[c].step = "active",
           cli[c].pc \in {"status", "poll"} => v = version[conn[c].to],
           sending \subseteq sending', sending' \subseteq Daemons \X Clis \X {"Shutdown", "Reload"},
           \A s \in sending' \ sending : s[1] = conn[c].to,
           \A d \in Daemons : EditsWith(d) /\ Telling(d, cli[c], conn[c]) => Sent(d)'
    PROVE  Inv'
<1>1. conn[c].step \in Handled
  BY Zenon DEF Handled
<1>2. /\ conn[c] \in ConnRec /\ Fits(c, cli[c], conn[c]) /\ PortsAreOwned /\ PortsHaveOneOwner
      /\ running \in [Daemons -> [Names -> [port : Ports \cup {None}, live : BOOLEAN]]]
      /\ port \in [Ports -> Daemons \cup {None}] /\ conn \in [Clis -> ConnRec]
  BY Zenon, <1>1, HandlerHas, Records
<1>3. running' = running /\ port' = port
  BY Zenon DEF proxies
<1>4. Handling(c, Replied(conn[c], v)) /\ conn' = [conn EXCEPT ![c] = Replied(conn[c], v)]
  BY Zenon, <1>1, <1>3, Answers
<1>5. conn[c].held = None /\ Replied(conn[c], v).held = None /\ Replied(conn[c], v).to = conn[c].to
  BY ZenonT(60), <1>2, RepliedFacts DEF Fits
<1>6. \A b \in Clis : conn'[b].held = conn[b].held /\ (conn[b].held # None => conn'[b].to = conn[b].to)
  BY Zenon, <1>2, <1>4, <1>5
<1>7. PortsAreOwned' /\ PortsHaveOneOwner'
  BY Zenon, <1>2, <1>3, <1>6, PortsFrame
<1> QED
  BY Zenon, <1>2, <1>3, <1>4, <1>7, HandlerStep

\* The main loop takes a connection.
LEMMA AcceptInv == ASSUME Inv, NEW c \in Clis, Accept(c) PROVE Inv'
<1> DEFINE y == [conn[c] EXCEPT !.step = "active"]
<1>1. /\ TypeOK /\ conn[c] \in ConnRec /\ Fits(c, cli[c], conn[c]) /\ PortsAreOwned /\ PortsHaveOneOwner
      /\ Starter(cli[c], conn[c]) => Undisturbed(cli[c], conn[c])
  BY Zenon, CommandHas DEF Inv
<1>2. /\ conn[c].step = "backlog" /\ phase[conn[c].to] = "serving" /\ conn' = [conn EXCEPT ![c] = y]
      /\ UNCHANGED <<life, commands, proxies, config, cli, sending, issued, faults>>
  BY Zenon DEF Accept
<1>3. /\ y \in ConnRec /\ y.to = conn[c].to /\ y.req = conn[c].req /\ y.step = "active"
      /\ y.held = conn[c].held /\ y.reply = conn[c].reply
  BY Zenon, <1>1 DEF ConnRec
<1> HIDE DEF y
<1>4. Fits(c, cli[c], y) /\ conn[c].held = None
  BY Zenon, <1>1, <1>2, <1>3 DEF Fits, Connected, Resting
<1>5. Starter(cli[c], y) => Undisturbed(cli[c], y)
  BY Zenon, <1>1, <1>2, <1>3 DEF Starter, Undisturbed
<1>6. \A d \in Daemons : Telling(d, cli[c], conn[c]) => Telling(d, cli[c], y)
  BY Zenon, <1>2, <1>3 DEF Telling
<1>7. /\ sending' = sending /\ running' = running /\ port' = port
      /\ sending \subseteq Daemons \X Clis \X {"Shutdown", "Reload"}
      /\ running \in [Daemons -> [Names -> [port : Ports \cup {None}, live : BOOLEAN]]]
      /\ port \in [Ports -> Daemons \cup {None}]
  BY Zenon, <1>1, <1>2 DEF TypeOK, proxies
<1>8. Handling(c, y)
  BY Zenon, <1>2, <1>3, <1>4, <1>5, <1>6, <1>7 DEF Handling, onlyHandler, Handled
<1>9. \A b \in Clis : conn'[b].held = conn[b].held /\ (conn[b].held # None => conn'[b].to = conn[b].to)
  BY Zenon, <1>1, <1>2, <1>3, Records
<1> QED
  BY Zenon, <1>1, <1>7, <1>8, <1>9, PortsFrame, HandlerStep

\* handle_admin: Status, Shutdown and Reload.
LEMMA HandleAdminInv == ASSUME Inv, NEW c \in Clis, HandleAdmin(c) PROVE Inv'
<1>1. UNCHANGED proxies /\ onlyHandler /\ conn[c].step = "active" /\ conn[c].step \in Handled
  BY Zenon DEF HandleAdmin, Handles, Handled
<1>2. /\ Fits(c, cli[c], conn[c]) /\ conn[c].to \in Daemons /\ version[conn[c].to] \in Replies
      /\ sending \subseteq Daemons \X Clis \X {"Shutdown", "Reload"}
  BY Zenon, <1>1, HandlerHas
<1>3. "ok" \in Replies /\ "error" \in Replies
  BY Zenon DEF Replies
<1>4. conn[c].req # "Status" => cli[c].pc \notin {"status", "poll"}
  BY Zenon, <1>1, <1>2 DEF Fits, Connected
<1>5. CASE Handles(c, "Status") /\ conn' = Reply(c, version[conn[c].to]) /\ UNCHANGED sending
  <2>1. \A d : ~Telling(d, cli[c], conn[c])
    BY Zenon, <1>1, <1>5, OnlyReloadTells DEF Handles
  <2> QED
    BY Zenon, <1>1, <1>2, <1>5, <2>1, AnswersOnly
<1>6. CASE /\ Handles(c, "Shutdown") \/ (Handles(c, "Reload") /\ SameBuild(c))
           /\ conn' = Reply(c, "ok") /\ sending' = sending \cup {<<conn[c].to, c, conn[c].req>>}
  <2> DEFINE new == <<conn[c].to, c, conn[c].req>>
  <2>1. new \in Daemons \X Clis \X {"Shutdown", "Reload"} /\ new[1] = conn[c].to /\ new[3] = conn[c].req
    BY Zenon, <1>2, <1>6 DEF Handles
  <2> HIDE DEF new
  <2>2. sending' = sending \cup {new} /\ sending' \subseteq Daemons \X Clis \X {"Shutdown", "Reload"}
    BY Zenon, <1>2, <1>6, <2>1 DEF new
  <2>3. cli[c].pc \notin {"status", "poll"}
    BY Zenon, <1>4, <1>6 DEF Handles
  <2>4. ASSUME NEW d \in Daemons, Telling(d, cli[c], conn[c]) PROVE Sent(d)'
    <3>1. d = conn[c].to /\ conn[c].req = "Reload"
      BY Zenon, <1>1, <1>2, <2>4 DEF Telling, Fits, Resting, Connected
    <3> QED
      BY Zenon, <2>1, <2>2, <3>1 DEF Sent
  <2>5. sending \subseteq sending' /\ \A s \in sending' \ sending : s[1] = conn[c].to
    BY Zenon, <2>1, <2>2
  <2> QED
    BY Zenon, <1>1, <1>3, <1>6, <2>2, <2>3, <2>4, <2>5, AnswersOnly
<1>7. CASE Handles(c, "Reload") /\ ~SameBuild(c) /\ conn' = Reply(c, "error") /\ UNCHANGED sending
  <2>1. cli[c].pc \notin {"status", "poll"}
    BY Zenon, <1>4, <1>7 DEF Handles
  <2>2. ASSUME NEW d \in Daemons, Telling(d, cli[c], conn[c]) PROVE ~EditsWith(d)
    <3>1. d = conn[c].to /\ <<"edge", cli[c].version>> \in Menu[c]
      BY Zenon, <1>1, <1>2, <2>2 DEF Telling, Fits, Resting, Connected, Running
    <3>2. version[d] # cli[c].version
      BY Zenon, <1>7, <3>1 DEF SameBuild
    <3> QED
      BY Zenon, <3>1, <3>2 DEF EditsWith
  <2> QED
    BY Zenon, <1>1, <1>2, <1>3, <1>7, <2>1, <2>2, AnswersOnly
<1> QED
  BY Zenon, <1>5, <1>6, <1>7 DEF HandleAdmin

\* A request of another build ends without an answer: not the one of a command that has just
\* checked the build of the daemon, unless that one has left.
LEMMA RefuseBuildInv == ASSUME Inv, NEW c \in Clis, RefuseBuild(c) PROVE Inv'
<1>1. /\ UNCHANGED <<proxies, sending>> /\ onlyHandler /\ conn[c].step = "active" /\ conn[c].step \in Handled
      /\ conn[c].req \in {"Work", "Start", "Stop"} /\ ~SameBuild(c) /\ conn' = [conn EXCEPT ![c] = Closed]
  BY Zenon DEF RefuseBuild, Handles, Handled, Closed
<1>2. /\ TypeOK /\ cli[c] \in CliRec /\ Fits(c, cli[c], conn[c]) /\ conn[c].to \in Daemons
      /\ sending \subseteq Daemons \X Clis \X {"Shutdown", "Reload"}
      /\ running \in [Daemons -> [Names -> [port : Ports \cup {None}, live : BOOLEAN]]]
      /\ port \in [Ports -> Daemons \cup {None}] /\ PortsAreOwned /\ PortsHaveOneOwner
      /\ Starter(cli[c], conn[c]) => Undisturbed(cli[c], conn[c])
  BY Zenon, <1>1, HandlerHas, CommandHas
<1>3. Closed \in ConnRec /\ Closed.step = "closed" /\ Closed.held = None
  BY Zenon, ClosedFacts
<1>4. Fits(c, cli[c], Closed)
  BY Zenon, <1>1, <1>2, <1>3 DEF Fits, Connected, Resting
<1>5. ~Starter(cli[c], Closed)
  <2>1. SUFFICES ASSUME Starter(cli[c], Closed) PROVE FALSE
    BY Zenon
  <2>2. Undisturbed(cli[c], conn[c])
    BY Zenon, <1>1, <1>2, <2>1 DEF Starter
  <2>3. cli[c].pc = "wait"
    BY Zenon, <1>1, <1>2, <2>1 DEF Starter, Fits, Connected, Running, Resting, CliRec
  <2> QED
    BY Zenon, <1>1, <2>2, <2>3 DEF Undisturbed, SameBuild
<1>6. \A d : ~Telling(d, cli[c], conn[c])
  BY Zenon, <1>1, OnlyReloadTells
<1>7. running' = running /\ port' = port /\ sending' = sending
  BY Zenon, <1>1 DEF proxies
<1>8. Handling(c, Closed)
  BY Zenon, <1>1, <1>2, <1>3, <1>4, <1>5, <1>6, <1>7 DEF Handling, Handled
<1>9. conn[c].held = None
  BY Zenon, <1>1, <1>2 DEF Fits
<1>10. \A b \in Clis : conn'[b].held = conn[b].held /\ (conn[b].held # None => conn'[b].to = conn[b].to)
  BY Zenon, <1>1, <1>2, <1>3, <1>9, Records
<1> QED
  BY Zenon, <1>2, <1>7, <1>8, <1>10, PortsFrame, HandlerStep

\* A Work request of the daemon's build is answered.
LEMMA HandleWorkInv == ASSUME Inv, NEW c \in Clis, HandleWork(c) PROVE Inv'
<1>1. /\ UNCHANGED <<proxies, sending>> /\ onlyHandler /\ conn[c].step = "active" /\ conn[c].step \in Handled
      /\ conn[c].req = "Work" /\ conn' = Reply(c, "ok")
  BY Zenon DEF HandleWork, Handles, Handled
<1>2. Fits(c, cli[c], conn[c]) /\ sending \subseteq Daemons \X Clis \X {"Shutdown", "Reload"}
  BY Zenon, <1>1, HandlerHas
<1>3. "ok" \in Replies /\ cli[c].pc \notin {"status", "poll"} /\ \A d : ~Telling(d, cli[c], conn[c])
  BY Zenon, <1>1, <1>2, OnlyReloadTells DEF Replies, Fits, Connected
<1> QED
  BY Zenon, <1>1, <1>2, <1>3, AnswersOnly

\* ProxyManager::start binds the address, or answers that it is in use.
LEMMA ProxyBindInv == ASSUME Inv, NEW c \in Clis, ProxyBind(c) PROVE Inv'
<1> DEFINE p == cli[c].port
           y == Holding(conn[c], "bound", p)
<1>1. /\ conn[c].step = "active" /\ conn[c].step \in Handled /\ conn[c].req = "Start"
      /\ running' = running /\ sending' = sending /\ onlyHandler
  BY Zenon DEF ProxyBind, Handles, Handled
<1>2. /\ TypeOK /\ conn[c] \in ConnRec /\ Fits(c, cli[c], conn[c]) /\ conn[c].to \in Daemons /\ PortsInParts
      /\ sending \subseteq Daemons \X Clis \X {"Shutdown", "Reload"}
      /\ running \in [Daemons -> [Names -> [port : Ports \cup {None}, live : BOOLEAN]]]
      /\ port \in [Ports -> Daemons \cup {None}]
      /\ Starter(cli[c], conn[c]) => Undisturbed(cli[c], conn[c])
  BY Zenon, <1>1, HandlerHas, CommandHas
<1>3. \A d : ~Telling(d, cli[c], conn[c])
  BY Zenon, <1>1, OnlyReloadTells
<1>4. p \in Ports /\ cli[c].pc \notin {"status", "poll"} /\ conn[c].held = None
  BY Zenon, <1>1, <1>2 DEF Fits, Connected, Running, Resting
<1>5. CASE port[p] # None
  <2>1. conn' = Reply(c, "error") /\ UNCHANGED proxies /\ "error" \in Replies
    BY Zenon, <1>1, <1>5 DEF ProxyBind, proxies, Replies
  <2> QED
    BY Zenon, <1>1, <1>2, <1>3, <1>4, <2>1, AnswersOnly
<1>6. CASE port[p] = None
  <2>1. port' = [port EXCEPT ![p] = conn[c].to] /\ conn' = [conn EXCEPT ![c] = y]
    BY Zenon, <1>6 DEF ProxyBind, Holding
  <2>2. y \in ConnRec /\ y.to = conn[c].to /\ y.req = conn[c].req /\ y.step = "bound" /\ y.held = p
    BY <1>2, <1>4, HoldingFacts
  <2>3. conn'[c] = y /\ \A b \in Clis : b # c => conn'[b] = conn[b]
    BY Zenon, <1>2, <2>1, Records
  <2>4. /\ port' \in [Ports -> Daemons \cup {None}]
        /\ \A q \in Ports : port'[q] = (IF q = p THEN conn[c].to ELSE port[q])
    BY Zenon, <1>2, <1>4, <2>1
  <2>5. \A b \in Clis : conn[b].held # None => conn[b].to \in Daemons
    <3>1. \A b \in Clis : Fits(b, cli[b], conn[b])
      BY Zenon DEF Inv, CommandsFit
    <3>2. ASSUME NEW b \in Clis, conn[b].held # None PROVE conn[b].to \in Daemons
      <4>1. conn[b].step \in {"bound", "removed"}
        BY Zenon, <3>1, <3>2 DEF Fits
      <4>2. Connected(conn[b])
        BY Zenon, <4>1 DEF Connected
      <4> QED
        BY Zenon, <3>1, <4>2 DEF Fits
    <3> QED
      BY Zenon, <3>2
  <2> HIDE DEF p, y
  <2>6. PortsInParts'
    BY Zenon, <1>1, <1>2, <1>4, <1>6, <2>2, <2>3, <2>4, <2>5, PortBound
  <2>7. Fits(c, cli[c], y)
    BY Zenon, <1>1, <1>2, <1>4, <2>2, NoneIsNoDaemon DEF Fits, Connected, Resting
  <2>8. Starter(cli[c], y) => Undisturbed(cli[c], y)
    BY Zenon, <1>1, <1>2, <2>2 DEF Starter, Undisturbed
  <2>9. Handling(c, y)
    BY Zenon, <1>1, <1>2, <1>3, <2>1, <2>2, <2>7, <2>8 DEF Handling, Handled
  <2> QED
    BY Zenon, <1>1, <1>2, <2>4, <2>6, <2>9, PortsTogether, HandlerStep
<1> QED
  BY Zenon, <1>5, <1>6

\* Answering a start or a stop, with the ports in order.
LEMMA AnswersAndPorts ==
    ASSUME Inv, NEW c \in Clis, NEW v \in Replies, conn' = Reply(c, v), onlyHandler, sending' = sending,
           conn[c].step \in Handled, conn[c].req \in {"Start", "Stop"},
           running' \in [Daemons -> [Names -> [port : Ports \cup {None}, live : BOOLEAN]]],
           port' \in [Ports -> Daemons \cup {None}],
           \A d \in Daemons : running'[d] = running[d] \/ d = conn[c].to,
           PortsInParts'
    PROVE  Inv'
<1>1. Fits(c, cli[c], conn[c]) /\ sending \subseteq Daemons \X Clis \X {"Shutdown", "Reload"}
  BY Zenon, HandlerHas
<1>2. cli[c].pc \notin {"status", "poll"} /\ \A d : ~Telling(d, cli[c], conn[c])
  <2>1. conn[c].req # "Reload" /\ conn[c].req # "Status" /\ conn[c].step \notin {"none", "closed"}
    BY Zenon DEF Handled
  <2>2. \A d : ~Telling(d, cli[c], conn[c])
    BY Zenon, <2>1, OnlyReloadTells
  <2> QED
    BY Zenon, <1>1, <2>1, <2>2 DEF Fits, Connected
<1>3. Handling(c, Replied(conn[c], v))
  BY Zenon, <1>1, <1>2, Answers
<1> QED
  BY Zenon, <1>3, PortsTogether, HandlerStep

\* The connection after an answer.
LEMMA AfterReply ==
    ASSUME TypeOK, NEW c \in Clis, NEW v \in Replies, conn' = Reply(c, v)
    PROVE  conn'[c].held = None /\ \A b \in Clis : b # c => conn'[b] = conn[b]
<1>1. conn \in [Clis -> ConnRec] /\ conn' = [conn EXCEPT ![c] = Replied(conn[c], v)]
  BY Zenon, Records DEF Reply, Replied
<1>2. Replied(conn[c], v).held = None
  BY Zenon, <1>1, RepliedFacts
<1> QED
  BY Zenon, <1>1, <1>2

\* The entry goes into the table, or the start is refused and its port freed.
LEMMA ProxyInsertInv == ASSUME Inv, NEW c \in Clis, ProxyInsert(c) PROVE Inv'
<1> DEFINE d == conn[c].to
           n == cli[c].name
           p == conn[c].held
<1>1. conn[c].step = "bound" /\ conn[c].step \in Handled /\ sending' = sending /\ onlyHandler
  BY Zenon DEF ProxyInsert, Handled
<1>2. /\ TypeOK /\ conn[c] \in ConnRec /\ Fits(c, cli[c], conn[c]) /\ d \in Daemons /\ PortsInParts
      /\ running \in [Daemons -> [Names -> [port : Ports \cup {None}, live : BOOLEAN]]]
      /\ port \in [Ports -> Daemons \cup {None}]
  BY Zenon, <1>1, HandlerHas
<1>3. conn[c].req = "Start" /\ n \in Names /\ p \in Ports
  BY Zenon, <1>1, <1>2 DEF Fits, Connected, Running, Resting, ConnRec
<1>4. "ok" \in Replies /\ "error" \in Replies /\ conn[c].req \in {"Start", "Stop"}
  BY Zenon, <1>3 DEF Replies
<1>5. CASE Taken(d, n, p)
  <2>1. port' = [port EXCEPT ![p] = None] /\ conn' = Reply(c, "error") /\ running' = running
    BY Zenon, <1>5 DEF ProxyInsert
  <2>2. conn'[c].held = None /\ \A b \in Clis : b # c => conn'[b] = conn[b]
    BY Zenon, <1>2, <1>4, <2>1, AfterReply
  <2>3. port' \in [Ports -> Daemons \cup {None}] /\ port' = [q \in Ports |-> IF q = p THEN None ELSE port[q]]
    BY Zenon, <1>2, <1>3, <2>1
  <2>4. PortsInParts'
    BY Zenon, <1>2, <2>1, <2>2, <2>3, PortFreed
  <2> QED
    BY Zenon, <1>1, <1>2, <1>4, <2>1, <2>3, <2>4, AnswersAndPorts
<1>6. CASE ~Taken(d, n, p)
  <2>1. running' = [running EXCEPT ![d][n] = [port |-> p, live |-> TRUE]] /\ conn' = Reply(c, "ok") /\ port' = port
    BY Zenon, <1>6 DEF ProxyInsert
  <2>2. conn'[c].held = None /\ \A b \in Clis : b # c => conn'[b] = conn[b]
    BY ZenonT(60), <1>2, <1>4, <2>1, AfterReply
  <2>3. running[d][n] = NoProxy /\ ~running[d][n].live
    BY <1>2, <1>3, <1>6 DEF Taken, NoProxy
  <2>4. /\ running' \in [Daemons -> [Names -> [port : Ports \cup {None}, live : BOOLEAN]]]
        /\ running'[d][n] = Entry(p)
        /\ \A e \in Daemons, k \in Names : e # d \/ k # n => running'[e][k] = running[e][k]
        /\ \A e \in Daemons : running'[e] = running[e] \/ e = d
    BY Zenon, <1>2, <1>3, <2>1 DEF Entry
  <2>5. PortsInParts'
    <3> HIDE DEF n, d
    <3>1. conn[c].to = d /\ port' = port
      BY Zenon, <2>1 DEF d
    <3>2. TypeOK /\ PortsInParts /\ d \in Daemons
      BY Zenon, <1>2
    <3>3. /\ running'[d][n] = Entry(conn[c].held)
          /\ \A e \in Daemons, k \in Names : e # d \/ k # n => running'[e][k] = running[e][k]
      BY Zenon, <2>4
    <3>4. ~running[d][n].live
      BY Zenon, <2>3
    <3> QED
      BY Zenon, <1>3, <2>2, <3>1, <3>2, <3>3, <3>4, PortInserted
  <2> QED
    BY Zenon, <1>1, <1>2, <1>4, <2>1, <2>4, <2>5, AnswersAndPorts
<1> QED
  BY Zenon, <1>5, <1>6

\* A stop takes the entry out of the table, and its port over.
LEMMA ProxyRemoveInv == ASSUME Inv, NEW c \in Clis, ProxyRemove(c) PROVE Inv'
<1> DEFINE d == conn[c].to
           n == cli[c].name
           p == IF running[d][n].live THEN running[d][n].port ELSE None
           y == Holding(conn[c], "removed", p)
<1>1. /\ conn[c].step = "active" /\ conn[c].step \in Handled /\ conn[c].req = "Stop"
      /\ port' = port /\ sending' = sending /\ onlyHandler
  BY Zenon DEF ProxyRemove, Handles, Handled
<1>2. /\ TypeOK /\ conn[c] \in ConnRec /\ Fits(c, cli[c], conn[c]) /\ d \in Daemons /\ PortsInParts
      /\ sending \subseteq Daemons \X Clis \X {"Shutdown", "Reload"}
      /\ running \in [Daemons -> [Names -> [port : Ports \cup {None}, live : BOOLEAN]]]
      /\ port \in [Ports -> Daemons \cup {None}]
      /\ Starter(cli[c], conn[c]) => Undisturbed(cli[c], conn[c])
  BY Zenon, <1>1, HandlerHas, CommandHas
<1>3. \A e : ~Telling(e, cli[c], conn[c])
  BY Zenon, <1>1, OnlyReloadTells
<1>4. n \in Names /\ conn[c].held = None /\ cli[c].pc \notin {"status", "poll"}
  BY Zenon, <1>1, <1>2 DEF Fits, Connected, Running, Resting
<1>5. CASE running[d][n] = NoProxy
  <2>1. conn' = Reply(c, "error") /\ UNCHANGED proxies /\ "error" \in Replies
    BY Zenon, <1>1, <1>5 DEF ProxyRemove, proxies, Replies
  <2> QED
    BY Zenon, <1>1, <1>2, <1>3, <1>4, <2>1, AnswersOnly
<1>6. CASE running[d][n] # NoProxy
  <2>1. running' = [running EXCEPT ![d][n] = NoProxy] /\ conn' = [conn EXCEPT ![c] = y]
    BY ZenonT(60), <1>6 DEF ProxyRemove, Holding
  <2>2. p \in Ports \cup {None}
    BY <1>2, <1>4
  <2>3. y \in ConnRec /\ y.to = d /\ y.req = conn[c].req /\ y.step = "removed" /\ y.held = p
    <3> HIDE DEF p
    <3> QED
      BY <1>2, <2>2, HoldingFacts
  <2>4. conn'[c] = y /\ \A b \in Clis : b # c => conn'[b] = conn[b]
    BY Zenon, <1>2, <2>1, Records
  <2>5. /\ running' \in [Daemons -> [Names -> [port : Ports \cup {None}, live : BOOLEAN]]]
        /\ ~running'[d][n].live
        /\ \A e \in Daemons, k \in Names : e # d \/ k # n => running'[e][k] = running[e][k]
        /\ \A e \in Daemons : running'[e] = running[e] \/ e = d
    BY Zenon, <1>2, <1>4, <2>1 DEF NoProxy
  <2> HIDE DEF y
  <2>6. PortsInParts'
    <3> HIDE DEF n, d
    <3>1. conn[c].to = d /\ conn'[c].to = d /\ conn'[c].held = (IF running[d][n].live THEN running[d][n].port ELSE None)
      BY Zenon, <2>3, <2>4 DEF d
    <3> HIDE DEF p
    <3>2. TypeOK /\ PortsInParts /\ d \in Daemons /\ port' = port
      BY Zenon, <1>1, <1>2
    <3>3. /\ ~running'[d][n].live
          /\ \A e \in Daemons, k \in Names : e # d \/ k # n => running'[e][k] = running[e][k]
      BY Zenon, <2>5
    <3> QED
      BY Zenon, <1>4, <2>4, <3>1, <3>2, <3>3, PortRemoved
  <2> HIDE DEF p
  <2>7. Fits(c, cli[c], y)
    BY Zenon, <1>1, <1>2, <1>4, <2>3 DEF Fits, Connected, Resting
  <2>8. Starter(cli[c], y) => Undisturbed(cli[c], y)
    BY Zenon, <1>1, <1>2, <2>3 DEF Starter, Undisturbed
  <2>9. Handling(c, y)
    BY Zenon, <1>1, <1>2, <1>3, <2>1, <2>3, <2>5, <2>7, <2>8 DEF Handling, Handled
  <2> QED
    BY Zenon, <1>1, <1>2, <2>5, <2>6, <2>9, PortsTogether, HandlerStep
<1> QED
  BY Zenon, <1>5, <1>6

\* The stopped proxy's port is free when the stop is answered.
LEMMA ProxyStoppedInv == ASSUME Inv, NEW c \in Clis, ProxyStopped(c) PROVE Inv'
<1>1. /\ conn[c].step = "removed" /\ conn[c].step \in Handled /\ sending' = sending /\ running' = running
      /\ port' = [p \in Ports |-> IF p = conn[c].held THEN None ELSE port[p]]
      /\ conn' = Reply(c, "ok") /\ onlyHandler
  BY Zenon DEF ProxyStopped, Handled
<1>2. /\ TypeOK /\ Fits(c, cli[c], conn[c]) /\ PortsInParts
      /\ running \in [Daemons -> [Names -> [port : Ports \cup {None}, live : BOOLEAN]]]
      /\ port \in [Ports -> Daemons \cup {None}]
  BY Zenon, <1>1, HandlerHas
<1>3. "ok" \in Replies /\ conn[c].req \in {"Start", "Stop"}
  BY Zenon, <1>1, <1>2 DEF Replies, Fits
<1>4. conn'[c].held = None /\ \A b \in Clis : b # c => conn'[b] = conn[b]
  BY Zenon, <1>1, <1>2, <1>3, AfterReply
<1>5. port' \in [Ports -> Daemons \cup {None}]
  BY Zenon, <1>1, <1>2
<1>6. PortsInParts'
  BY Zenon, <1>1, <1>2, <1>4, PortFreed
<1> QED
  BY Zenon, <1>1, <1>2, <1>3, <1>5, <1>6, AnswersAndPorts

\* Every step of a handler keeps the invariant.
LEMMA HandlerInv == ASSUME Inv, NEW c \in Clis, Handler(c) PROVE Inv'
  BY Zenon, HandleAdminInv, RefuseBuildInv, HandleWorkInv, ProxyBindInv, ProxyInsertInv, ProxyRemoveInv,
     ProxyStoppedInv DEF Handler

-----------------------------------------------------------------------------
(* Listeners of proxies, the queue and the process.                        *)

\* What is left of the entry of a proxy whose accept fails.
LEMMA EntryFails ==
    ASSUME NEW r \in [port : Ports \cup {None}, live : BOOLEAN]
    PROVE  [r EXCEPT !.live = FALSE] \in [port : Ports \cup {None}, live : BOOLEAN] /\ ~[r EXCEPT !.live = FALSE].live
<1>1. ASSUME NEW b \in BOOLEAN
      PROVE  [r EXCEPT !.live = b] \in [port : Ports \cup {None}, live : BOOLEAN] /\ [r EXCEPT !.live = b].live = b
  BY Zenon
<1>2. FALSE \in BOOLEAN
  BY Zenon
<1> QED
  BY Zenon, <1>1, <1>2

\* accept fails in serve_listener.
LEMMA ListenerFailsInv == ASSUME Inv, NEW d \in Daemons, NEW n \in Names, ListenerFails(d, n) PROVE Inv'
<1>1. /\ TypeOK /\ LockIsHeld /\ CommandsFit /\ ConnectionsAreServed /\ DeparturesAreMet
      /\ StartersAreUndisturbed /\ TurnedAwayOnlyByDeparture /\ IdleIsStill /\ EditsArrive /\ PortsInParts
  BY Zenon, PortsApart DEF Inv
<1>2. /\ running[d][n].live /\ faults < MaxFaults /\ faults' = faults + 1
      /\ port' = [port EXCEPT ![running[d][n].port] = None]
      /\ running' = [running EXCEPT ![d][n].live = FALSE]
      /\ phase' = phase /\ version' = version /\ loaded' = loaded /\ lock' = lock /\ socket' = socket
      /\ reachedAt' = reachedAt /\ commands' = commands /\ config' = config /\ cli' = cli /\ conn' = conn
      /\ sending' = sending /\ issued' = issued
  BY Zenon DEF ListenerFails, Fault, life
<1>3. /\ running' \in [Daemons -> [Names -> [port : Ports \cup {None}, live : BOOLEAN]]]
      /\ ~running'[d][n].live
      /\ \A e \in Daemons, k \in Names : e # d \/ k # n => running'[e][k] = running[e][k]
  <2> DEFINE r == [running[d][n] EXCEPT !.live = FALSE]
  <2>1. running \in [Daemons -> [Names -> [port : Ports \cup {None}, live : BOOLEAN]]]
    BY Zenon, <1>1 DEF TypeOK
  <2>2. r \in [port : Ports \cup {None}, live : BOOLEAN] /\ ~r.live
    <3>1. running[d][n] \in [port : Ports \cup {None}, live : BOOLEAN]
      BY Zenon, <2>1
    <3> QED
      BY Zenon, <3>1, EntryFails
  <2>3. running' = [running EXCEPT ![d][n] = r]
    BY Zenon, <1>2
  <2> HIDE DEF r
  <2> QED
    BY Zenon, <2>1, <2>2, <2>3
<1>4. running[d][n].port \in Ports
  BY Zenon, <1>1, <1>2 DEF PortsInParts, Bound
<1>5. /\ port' \in [Ports -> Daemons \cup {None}]
      /\ \A q \in Ports : port'[q] = (IF q = running[d][n].port THEN None ELSE port[q])
  BY Zenon, <1>1, <1>2, <1>4 DEF TypeOK
<1>6. faults' \in 0 .. MaxFaults
  BY SMTT(30), <1>1, <1>2, DaemonLifeAssumption DEF TypeOK
<1>7. TypeOK'
  BY Zenon, <1>1, <1>2, <1>3, <1>5, <1>6 DEF TypeOK
<1>8. PortsInParts'
  <2>1. TypeOK /\ PortsInParts /\ running[d][n].live /\ conn' = conn
    BY Zenon, <1>1, <1>2
  <2> QED
    BY Zenon, <2>1, <1>3, <1>5, PortFailed
<1>9. LockIsHeld' /\ CommandsFit' /\ ConnectionsAreServed' /\ DeparturesAreMet'
  BY Zenon, <1>1, <1>2 DEF LockIsHeld, CommandsFit, ConnectionsAreServed, DeparturesAreMet, Departing
<1>10. StartersAreUndisturbed' /\ TurnedAwayOnlyByDeparture'
  BY Zenon, <1>1, <1>2 DEF StartersAreUndisturbed, Undisturbed, Reachable, TurnedAwayOnlyByDeparture
<1>11. IdleIsStill'
  <2>1. \A e \in Daemons : (Still(e) <=> Still(e)') /\ (ShutdownTaken(e) <=> ShutdownTaken(e)')
    BY Zenon, <1>2 DEF Still, ShutdownTaken
  <2>2. running[d][n] # NoProxy
    BY <1>2 DEF NoProxy
  <2>3. ASSUME NEW e \in Daemons, \A k \in Names : running[e][k] = NoProxy
        PROVE  \A k \in Names : running'[e][k] = NoProxy
    BY Zenon, <1>3, <2>2, <2>3
  <2> QED
    BY Zenon, <1>1, <1>2, <2>1, <2>3 DEF IdleIsStill
<1>12. EditsArrive'
  BY Zenon, <1>1, <1>2 DEF EditsArrive, EditsWith, Coming, Queued, Sent
<1> QED
  BY Zenon, <1>7, <1>8, <1>9, <1>10, <1>11, <1>12, PortsTogether DEF Inv

\* Appending to a queue keeps its head and what it holds.
LEMMA Appended ==
    ASSUME NEW q \in Seq({"Shutdown", "Reload"}), NEW a \in {"Shutdown", "Reload"}
    PROVE  /\ Append(q, a) \in Seq({"Shutdown", "Reload"})
           /\ q # <<>> => Append(q, a) # <<>> /\ Head(Append(q, a)) = Head(q)
           /\ \A i \in 1 .. Len(q) : i \in 1 .. Len(Append(q, a)) /\ Append(q, a)[i] = q[i]
           /\ Len(Append(q, a)) \in 1 .. Len(Append(q, a)) /\ Append(q, a)[Len(Append(q, a))] = a
  OBVIOUS

\* A handler sends its command to the loop.
LEMMA SendToLoopInv == ASSUME Inv, NEW s \in sending, SendToLoop(s) PROVE Inv'
<1>1. /\ TypeOK /\ LockIsHeld /\ CommandsFit /\ ConnectionsAreServed /\ DeparturesAreMet
      /\ StartersAreUndisturbed /\ TurnedAwayOnlyByDeparture /\ IdleIsStill /\ EditsArrive
      /\ PortsAreOwned /\ PortsHaveOneOwner
  BY Zenon DEF Inv
<1>2. /\ sending' = sending \ {s} /\ commands' = [commands EXCEPT ![s[1]] = Append(@, s[3])]
      /\ phase' = phase /\ version' = version /\ loaded' = loaded /\ lock' = lock /\ socket' = socket
      /\ reachedAt' = reachedAt /\ running' = running /\ port' = port /\ config' = config
      /\ cli' = cli /\ conn' = conn /\ issued' = issued /\ faults' = faults
  BY Zenon DEF SendToLoop, life, proxies
<1> DEFINE d == s[1]
           a == s[3]
<1>3. d \in Daemons /\ a \in {"Shutdown", "Reload"}
  BY Zenon, <1>1 DEF TypeOK
<1>4. commands[d] \in Seq({"Shutdown", "Reload"})
  BY Zenon, <1>1, <1>3 DEF TypeOK
<1>5. commands'[d] = Append(commands[d], a) /\ \A e \in Daemons : e # d => commands'[e] = commands[e]
  BY Zenon, <1>1, <1>2, <1>3 DEF TypeOK
<1> HIDE DEF d, a
<1>6. /\ Append(commands[d], a) \in Seq({"Shutdown", "Reload"})
      /\ commands[d] # <<>> => commands'[d] # <<>> /\ Head(commands'[d]) = Head(commands[d])
      /\ \A i \in 1 .. Len(commands[d]) : i \in 1 .. Len(commands'[d]) /\ commands'[d][i] = commands[d][i]
      /\ Len(commands'[d]) \in 1 .. Len(commands'[d]) /\ commands'[d][Len(commands'[d])] = a
  <2> DEFINE r == Append(commands[d], a)
  <2>1. /\ r \in Seq({"Shutdown", "Reload"})
        /\ commands[d] # <<>> => r # <<>> /\ Head(r) = Head(commands[d])
        /\ \A i \in 1 .. Len(commands[d]) : i \in 1 .. Len(r) /\ r[i] = commands[d][i]
        /\ Len(r) \in 1 .. Len(r) /\ r[Len(r)] = a
    BY Zenon, <1>3, <1>4, Appended
  <2>2. commands'[d] = r
    BY Zenon, <1>5
  <2> QED
    BY Zenon, <2>1, <2>2
<1>7. commands' \in [Daemons -> Seq({"Shutdown", "Reload"})]
  BY Zenon, <1>1, <1>2, <1>6 DEF TypeOK, d, a
<1>8. TypeOK'
  <2>1. sending' \subseteq (Daemons \X Clis \X {"Shutdown", "Reload"})
    BY Zenon, <1>1, <1>2 DEF TypeOK
  <2> QED
    BY Zenon, <1>1, <1>2, <1>7, <2>1 DEF TypeOK
<1>9. LockIsHeld' /\ CommandsFit' /\ ConnectionsAreServed' /\ DeparturesAreMet'
  BY Zenon, <1>1, <1>2 DEF LockIsHeld, CommandsFit, ConnectionsAreServed, DeparturesAreMet, Departing
<1>10. StartersAreUndisturbed' /\ TurnedAwayOnlyByDeparture'
  BY Zenon, <1>1, <1>2 DEF StartersAreUndisturbed, Undisturbed, Reachable, TurnedAwayOnlyByDeparture
<1>11. PortsAreOwned' /\ PortsHaveOneOwner'
  BY Zenon, <1>1, <1>2, PortsFrame
<1>12. IdleIsStill'
  <2>1. \A e \in Daemons : Still(e) => Still(e)'
    BY Zenon, <1>2, <1>5 DEF Still, d
  <2>2. \A e \in Daemons : ShutdownTaken(e) => ShutdownTaken(e)'
    BY Zenon, <1>5, <1>6 DEF ShutdownTaken
  <2> QED
    BY Zenon, <1>1, <1>2, <2>1, <2>2 DEF IdleIsStill
<1>13. EditsArrive'
  <2>1. \A e \in Daemons : Queued(e) => Queued(e)'
    BY Zenon, <1>5, <1>6 DEF Queued
  <2>2. a = "Reload" => Queued(d)'
    BY Zenon, <1>6 DEF Queued
  <2>3. \A e \in Daemons : Sent(e) => Sent(e)' \/ Queued(e)'
    BY Zenon, <1>2, <2>2 DEF Sent, d, a
  <2>4. \A e \in Daemons : Coming(e) => Coming(e)'
    BY Zenon, <1>2, <2>1, <2>3 DEF Coming
  <2> QED
    BY Zenon, <1>1, <1>2, <2>4, EditsFrame
<1> QED
  BY Zenon, <1>8, <1>9, <1>10, <1>11, <1>12, <1>13 DEF Inv

\* Commands are where they were; some may have met a departure.
KeepsCli ==
    /\ cli' \in [Clis -> CliRec]
    /\ \A c \in Clis :
         /\ cli'[c].pc = cli[c].pc /\ cli'[c].cmd = cli[c].cmd /\ cli'[c].version = cli[c].version
         /\ cli'[c].name = cli[c].name /\ cli'[c].port = cli[c].port /\ cli'[c].polls = cli[c].polls
         /\ cli'[c].why = cli[c].why /\ (cli[c].met => cli'[c].met)

AllMet == \A c \in Clis : Running(cli'[c]) => cli'[c].met

\* A departure is met by every command that runs.
LEMMA DepartMet == ASSUME TypeOK, Depart PROVE KeepsCli /\ AllMet
<1>1. cli \in [Clis -> CliRec]
  BY Zenon, Records
<1>2. ASSUME NEW r \in CliRec, NEW b \in BOOLEAN
      PROVE  /\ [r EXCEPT !.met = b] \in CliRec /\ [r EXCEPT !.met = b].met = b
             /\ [r EXCEPT !.met = b].pc = r.pc /\ [r EXCEPT !.met = b].cmd = r.cmd
             /\ [r EXCEPT !.met = b].version = r.version /\ [r EXCEPT !.met = b].name = r.name
             /\ [r EXCEPT !.met = b].port = r.port /\ [r EXCEPT !.met = b].polls = r.polls
             /\ [r EXCEPT !.met = b].why = r.why
  BY Zenon DEF CliRec
<1>3. \A c \in Clis : (cli[c].met \/ c \in Busy) \in BOOLEAN
  BY Zenon
<1>4. cli' = [c \in Clis |-> [cli[c] EXCEPT !.met = cli[c].met \/ c \in Busy]]
  BY Zenon DEF Depart
<1>5. \A c \in Clis : cli'[c] = [cli[c] EXCEPT !.met = cli[c].met \/ c \in Busy]
  BY Zenon, <1>4
<1>6. ASSUME NEW c \in Clis
      PROVE  /\ cli'[c] \in CliRec /\ (cli'[c].met <=> (cli[c].met \/ c \in Busy))
             /\ cli'[c].pc = cli[c].pc /\ cli'[c].cmd = cli[c].cmd /\ cli'[c].version = cli[c].version
             /\ cli'[c].name = cli[c].name /\ cli'[c].port = cli[c].port /\ cli'[c].polls = cli[c].polls
             /\ cli'[c].why = cli[c].why
  <2> DEFINE b == cli[c].met \/ c \in Busy
             x == [cli[c] EXCEPT !.met = b]
  <2>1. cli[c] \in CliRec /\ b \in BOOLEAN /\ cli'[c] = x
    BY Zenon, <1>1, <1>3, <1>5
  <2> HIDE DEF b
  <2>2. /\ x \in CliRec /\ x.met = b /\ x.pc = cli[c].pc /\ x.cmd = cli[c].cmd /\ x.version = cli[c].version
        /\ x.name = cli[c].name /\ x.port = cli[c].port /\ x.polls = cli[c].polls /\ x.why = cli[c].why
    BY ZenonT(60), <1>2, <2>1
  <2> HIDE DEF x
  <2> QED
    BY Zenon, <2>1, <2>2 DEF b
<1>7. cli' \in [Clis -> CliRec]
  BY Zenon, <1>4, <1>5, <1>6
<1> QED
  BY Zenon, <1>6, <1>7 DEF KeepsCli, AllMet, Busy, Running

\* A step after which every running command has met a departure turns nobody away unmet.
LEMMA AllMetKeeps == ASSUME AllMet PROVE DeparturesAreMet' /\ StartersAreUndisturbed'
  BY Zenon DEF AllMet, DeparturesAreMet, StartersAreUndisturbed, Starter

\* Commands that stay where they are, with the connections they had or ones that were closed.
LEMMA CliFrame ==
    ASSUME TypeOK, CommandsFit, TurnedAwayOnlyByDeparture, KeepsCli,
           \A c \in Clis : conn'[c] = conn[c] \/ (conn'[c] = Closed /\ Connected(conn[c]))
    PROVE  CommandsFit' /\ TurnedAwayOnlyByDeparture'
<1>1. Closed \in ConnRec /\ Closed.step = "closed" /\ Closed.held = None
  BY Zenon, ClosedFacts
<1>2. ASSUME NEW c \in Clis PROVE Fits(c, cli'[c], conn'[c])
  <2>1. Fits(c, cli[c], conn[c])
    BY Zenon DEF CommandsFit
  <2>2. Fits(c, cli'[c], conn[c])
    BY ZenonT(60), <2>1 DEF Fits, KeepsCli, Running
  <2>3. CASE conn'[c] = Closed /\ Connected(conn[c])
    BY Zenon, <1>1, <2>2, <2>3 DEF Fits, Connected
  <2> QED
    BY Zenon, <2>2, <2>3
<1>3. CommandsFit'
  BY Zenon, <1>2 DEF CommandsFit
<1>4. TurnedAwayOnlyByDeparture'
  BY Zenon DEF TurnedAwayOnlyByDeparture, KeepsCli
<1> QED
  BY Zenon, <1>3, <1>4

\* Connections stay served while no daemon stops to listen.
LEMMA ServedFrame ==
    ASSUME TypeOK, CommandsFit, ConnectionsAreServed, conn' = conn,
           \A e \in Daemons : /\ phase[e] \in Listening => phase'[e] \in Listening
                              /\ phase[e] \in Listening \cup {"unbound"} => phase'[e] \in Listening \cup {"unbound"}
    PROVE  ConnectionsAreServed'
<1>1. \A b \in Clis : conn[b].step = "backlog" \/ conn[b].step \in Handled => conn[b].to \in Daemons
  <2>1. \A b \in Clis : Connected(conn[b]) => conn[b].to \in Daemons
    BY Zenon DEF CommandsFit, Fits
  <2> QED
    BY Zenon, <2>1 DEF Connected, Handled
<1> QED
  BY Zenon, <1>1 DEF ConnectionsAreServed

\* A step that changes nothing for commands, and takes no daemon away from them.
LEMMA QuietFrame ==
    ASSUME DeparturesAreMet, StartersAreUndisturbed, cli' = cli, conn' = conn, Departing' => Departing,
           Reachable => Reachable' /\ socket' = socket /\ version'[socket] = version[socket]
    PROVE  DeparturesAreMet' /\ StartersAreUndisturbed'
<1>1. DeparturesAreMet'
  BY Zenon DEF DeparturesAreMet
<1>2. \A c \in Clis : Starter(cli[c], conn[c]) => Undisturbed(cli[c], conn[c])
  BY Zenon DEF StartersAreUndisturbed
<1>3. \A c \in Clis : Undisturbed(cli[c], conn[c]) => Undisturbed(cli[c], conn[c])'
  BY Zenon DEF Undisturbed
<1> QED
  BY Zenon, <1>1, <1>2, <1>3 DEF StartersAreUndisturbed

\* Words of edits are not lost while commands, connections, handlers and queues stay.
LEMMA ComingFrame ==
    ASSUME KeepsCli, conn' = conn, commands' = commands, sending' = sending
    PROVE  \A d \in Daemons : Coming(d) => Coming(d)'
<1>1. \A d \in Daemons, c \in Clis : Telling(d, cli[c], conn[c]) => Telling(d, cli'[c], conn'[c])
  BY Zenon DEF Telling, KeepsCli
<1>2. \A d \in Daemons : (Queued(d) => Queued(d)') /\ (Sent(d) => Sent(d)')
  BY Zenon DEF Queued, Sent
<1> QED
  BY Zenon, <1>1, <1>2 DEF Coming

\* Commands that do not move.
LEMMA SameCli == ASSUME TypeOK, cli' = cli PROVE KeepsCli
  BY Zenon, Records DEF KeepsCli

\* What is still about a daemon stays so while others, and connections that end, change.
LEMMA IdleFrame ==
    ASSUME IdleIsStill, NEW d \in Daemons,
           \A e \in Daemons : e # d => phase'[e] = phase[e] /\ commands'[e] = commands[e] /\ running'[e] = running[e],
           \A c \in Clis : conn'[c].step \in Handled => conn'[c] = conn[c],
           sending' \subseteq sending,
           phase'[d] = "checking" => Still(d)',
           phase'[d] = "draining" =>
               ShutdownTaken(d)' \/ (Still(d)' /\ \A n \in Names : running'[d][n] = NoProxy)
    PROVE  IdleIsStill'
<1>1. \A e \in Daemons : e # d => (Still(e) => Still(e)') /\ (ShutdownTaken(e) => ShutdownTaken(e)')
  BY Zenon DEF Still, ShutdownTaken
<1>2. ASSUME NEW e \in Daemons
      PROVE  /\ phase'[e] = "checking" => Still(e)'
             /\ phase'[e] = "draining" =>
                  ShutdownTaken(e)' \/ (Still(e)' /\ \A n \in Names : running'[e][n] = NoProxy)
  <2>1. CASE e = d
    BY Zenon, <2>1
  <2>2. CASE e # d
    <3>1. /\ phase[e] = "checking" => Still(e)
          /\ phase[e] = "draining" =>
               ShutdownTaken(e) \/ (Still(e) /\ \A n \in Names : running[e][n] = NoProxy)
      BY Zenon DEF IdleIsStill
    <3> QED
      BY Zenon, <1>1, <2>2, <3>1
  <2> QED
    BY Zenon, <2>1, <2>2
<1> QED
  BY Zenon, <1>2 DEF IdleIsStill

\* One daemon moves to another phase.
LEMMA PhaseOf ==
    ASSUME TypeOK, NEW d \in Daemons, NEW t \in Alive \cup {"none", "dead"}, phase' = [phase EXCEPT ![d] = t]
    PROVE  /\ phase' \in [Daemons -> Alive \cup {"none", "dead"}]
           /\ phase'[d] = t /\ \A e \in Daemons : e # d => phase'[e] = phase[e]
  BY Zenon DEF TypeOK

\* Nothing listens while the lock is free or its holder is not past bind.
LEMMA Unreachable ==
    ASSUME TypeOK, LockIsHeld, lock = None \/ (lock \in Daemons /\ phase[lock] = "loaded")
    PROVE  ~Reachable /\ \A e \in Daemons : phase[e] \notin Listening \cup {"unbound"}
<1>1. \A e \in Daemons : phase[e] \notin Listening \cup {"unbound"}
  <2>1. \A e \in Daemons : phase[e] \in Listening \cup {"unbound"} => phase[e] \in Working /\ phase[e] # "loaded"
    BY Zenon DEF Listening, Working
  <2>2. \A e \in Daemons : phase[e] \in Working => lock = e
    BY Zenon DEF LockIsHeld
  <2> QED
    BY Zenon, <2>1, <2>2, NoneIsNoDaemon
<1>2. socket # None => socket \in Daemons
  BY Zenon DEF TypeOK
<1> QED
  BY Zenon, <1>1, <1>2 DEF Reachable

\* The instance lock: one daemon takes it, any other ends.
LEMMA TryAcquireInv == ASSUME Inv, NEW d \in Daemons, TryAcquire(d) PROVE Inv'
<1>1. /\ TypeOK /\ LockIsHeld /\ CommandsFit /\ ConnectionsAreServed /\ DeparturesAreMet
      /\ StartersAreUndisturbed /\ TurnedAwayOnlyByDeparture /\ IdleIsStill /\ EditsArrive
      /\ PortsAreOwned /\ PortsHaveOneOwner
  BY Zenon DEF Inv
<1>2. /\ phase[d] = "starting" /\ socket' = socket /\ reachedAt' = reachedAt /\ commands' = commands
      /\ running' = running /\ port' = port /\ config' = config /\ cli' = cli /\ conn' = conn
      /\ sending' = sending /\ issued' = issued /\ faults' = faults
  BY Zenon DEF TryAcquire, Step, proxies
<1>3. KeepsCli /\ \A c \in Clis : conn'[c] = conn[c]
  BY Zenon, <1>1, <1>2, SameCli
<1>4. CommandsFit' /\ TurnedAwayOnlyByDeparture' /\ PortsAreOwned' /\ PortsHaveOneOwner'
  BY Zenon, <1>1, <1>2, <1>3, CliFrame, PortsFrame
<1>5. \A e \in Daemons : Coming(e) => Coming(e)'
  BY Zenon, <1>2, <1>3, ComingFrame
<1>6. CASE lock = None /\ Step(d, "starting", "loaded") /\ lock' = d /\ loaded' = Reread(d) /\ version' = version
  <2>1. /\ phase' \in [Daemons -> Alive \cup {"none", "dead"}]
        /\ phase'[d] = "loaded" /\ \A e \in Daemons : e # d => phase'[e] = phase[e]
    <3>1. phase' = [phase EXCEPT ![d] = "loaded"] /\ "loaded" \in Alive \cup {"none", "dead"}
      BY Zenon, <1>6 DEF Step, Alive
    <3> QED
      BY Zenon, <1>1, <3>1, PhaseOf
  <2>2. loaded' \in [Daemons -> Nat] /\ \A e \in Daemons : e # d => loaded'[e] = loaded[e]
    BY Zenon, <1>1, <1>6 DEF TypeOK, Reread
  <2>3. TypeOK'
    BY ZenonT(60), <1>1, <1>2, <1>6, <2>1, <2>2 DEF TypeOK
  <2>4. ~Reachable /\ \A e \in Daemons : phase[e] \notin Listening \cup {"unbound"}
    BY Zenon, <1>1, <1>6, Unreachable
  <2>5. LockIsHeld'
    <3>1. \A e \in Daemons : phase[e] \notin Working
      BY Zenon, <1>1, <1>6, NoneIsNoDaemon DEF LockIsHeld
    <3> QED
      BY Zenon, <1>2, <1>6, <2>1, <2>4, <3>1 DEF LockIsHeld, Working, Listening
  <2>6. ConnectionsAreServed'
    BY Zenon, <1>1, <1>2, <2>4, ServedFrame
  <2>7. ~Departing'
    BY Zenon, <1>6, <2>1 DEF Departing
  <2>8. DeparturesAreMet' /\ StartersAreUndisturbed'
    BY Zenon, <1>1, <1>2, <2>4, <2>7, QuietFrame
  <2>9. IdleIsStill'
    <3>1. phase'[d] # "checking" /\ phase'[d] # "draining"
      BY Zenon, <2>1
    <3> QED
      BY Zenon, <1>1, <1>2, <2>1, <3>1, IdleFrame
  <2>10. EditsArrive'
    <3>1. \A e \in Daemons : phase'[e] \in Up => e # d
      BY Zenon, <2>1 DEF Up
    <3> QED
      BY Zenon, <1>1, <1>2, <1>5, <1>6, <2>1, <2>2, <3>1, EditsFrame
  <2> QED
    BY Zenon, <1>4, <2>3, <2>5, <2>6, <2>8, <2>9, <2>10 DEF Inv
<1>7. CASE lock # None /\ Step(d, "starting", "dead") /\ lock' = lock /\ loaded' = loaded /\ version' = [version EXCEPT ![d] = None]
  <2>1. /\ phase' \in [Daemons -> Alive \cup {"none", "dead"}]
        /\ phase'[d] = "dead" /\ \A e \in Daemons : e # d => phase'[e] = phase[e]
    <3>1. phase' = [phase EXCEPT ![d] = "dead"] /\ "dead" \in Alive \cup {"none", "dead"}
      BY Zenon, <1>7 DEF Step, Alive
    <3> QED
      BY Zenon, <1>1, <3>1, PhaseOf
  <2>2. version' \in [Daemons -> Versions \cup {None}] /\ \A e \in Daemons : e # d => version'[e] = version[e]
    BY Zenon, <1>1, <1>7 DEF TypeOK
  <2>3. TypeOK'
    BY Zenon, <1>1, <1>2, <1>7, <2>1, <2>2 DEF TypeOK
  <2>4. Steady
    BY Zenon, <1>2, <1>7, <2>1, <2>2 DEF Steady, Working
  <2>5. LockIsHeld' /\ (Reachable => Reachable' /\ version'[socket] = version[socket]) /\ (Departing' => Departing)
    BY Zenon, <1>1, <2>4, SteadyKeeps
  <2>6. ConnectionsAreServed'
    <3>1. phase[d] \notin Listening \cup {"unbound"}
      BY Zenon, <1>2 DEF Listening
    <3> QED
      BY Zenon, <1>1, <1>2, <2>1, <3>1, ServedFrame
  <2>7. DeparturesAreMet' /\ StartersAreUndisturbed'
    BY Zenon, <1>1, <1>2, <2>5, QuietFrame
  <2>8. IdleIsStill'
    <3>1. phase'[d] # "checking" /\ phase'[d] # "draining"
      BY Zenon, <2>1
    <3> QED
      BY Zenon, <1>1, <1>2, <2>1, <3>1, IdleFrame
  <2>9. EditsArrive'
    <3>1. \A e \in Daemons : phase'[e] \in Up => e # d
      BY Zenon, <2>1 DEF Up
    <3> QED
      BY Zenon, <1>1, <1>2, <1>5, <1>7, <2>1, <2>2, <3>1, EditsFrame
  <2> QED
    BY Zenon, <1>4, <2>3, <2>5, <2>6, <2>7, <2>8, <2>9 DEF Inv
<1> QED
  BY Zenon, <1>6, <1>7 DEF TryAcquire

\* At most one daemon is past the lock.
LEMMA OneWorks ==
    ASSUME LockIsHeld, NEW d \in Daemons, phase[d] \in Working
    PROVE  lock = d /\ (\A e \in Daemons : e # d => phase[e] \notin Working) /\ (phase[d] \in Listening => socket = d)
  BY Zenon DEF LockIsHeld

\* Listening is working.
LEMMA ListeningWorks == Listening \subseteq Working /\ "unbound" \in Working /\ Up \subseteq Listening /\ Working \subseteq Alive
  BY Zenon DEF Listening, Working, Up, Alive

\* The daemon that holds the lock goes on to another phase, and commands have met it if it leaves.
LEMMA PhaseStep ==
    ASSUME Inv, NEW d \in Daemons, NEW t \in Working, phase[d] \in Working \ {"unbound"},
           phase' = [phase EXCEPT ![d] = t], version' = version, lock' = lock, running' = running, port' = port,
           commands' = commands, config' = config, loaded' = loaded, conn' = conn, sending' = sending,
           issued' = issued, faults' \in 0 .. MaxFaults,
           socket' = d \/ (socket' = socket /\ (t \in Listening => phase[d] \in Listening)),
           phase[d] \in Listening => t \in Listening,
           reachedAt' \in [Daemons -> Nat], \A e \in Daemons : e # d => reachedAt'[e] = reachedAt[e],
           t \in Up => reachedAt'[d] = config \/ (phase[d] \in Up /\ reachedAt'[d] = reachedAt[d]),
           Depart \/ (cli' = cli /\ t \notin {"draining", "closing", "unbound"}),
           t = "checking" => Still(d),
           t = "draining" => ShutdownTaken(d) \/ (Still(d) /\ \A n \in Names : running[d][n] = NoProxy)
    PROVE  Inv'
<1>1. /\ TypeOK /\ LockIsHeld /\ CommandsFit /\ ConnectionsAreServed /\ DeparturesAreMet
      /\ StartersAreUndisturbed /\ TurnedAwayOnlyByDeparture /\ IdleIsStill /\ EditsArrive
      /\ PortsAreOwned /\ PortsHaveOneOwner
  BY Zenon DEF Inv
<1>2. /\ phase' \in [Daemons -> Alive \cup {"none", "dead"}]
      /\ phase'[d] = t /\ \A e \in Daemons : e # d => phase'[e] = phase[e]
  BY Zenon, <1>1, ListeningWorks, PhaseOf
<1>3. lock = d /\ (\A e \in Daemons : e # d => phase[e] \notin Working) /\ (phase[d] \in Listening => socket = d)
  BY Zenon, <1>1, OneWorks
<1>4. t \in Listening => socket' = d
  BY Zenon, <1>3
<1>5. KeepsCli
  BY Zenon, <1>1, SameCli, DepartMet
<1>6. \A c \in Clis : conn'[c] = conn[c]
  BY Zenon
<1>7. CommandsFit' /\ TurnedAwayOnlyByDeparture' /\ PortsAreOwned' /\ PortsHaveOneOwner'
  BY Zenon, <1>1, <1>5, <1>6, CliFrame, PortsFrame
<1>8. \A e \in Daemons : Coming(e) => Coming(e)'
  BY Zenon, <1>5, ComingFrame
<1>9. TypeOK'
  <2>1. socket' \in Daemons \cup {None} /\ cli' \in [Clis -> CliRec]
    BY Zenon, <1>1, <1>5 DEF TypeOK, KeepsCli
  <2> QED
    BY Zenon, <1>1, <1>2, <2>1 DEF TypeOK, CliRec
<1>10. LockIsHeld'
  <2>1. \A e \in Daemons : e # d => phase'[e] \notin Working /\ phase'[e] \notin Listening /\ lock' # e
    BY Zenon, <1>2, <1>3, ListeningWorks
  <2> QED
    BY Zenon, <1>2, <1>3, <1>4, <2>1 DEF LockIsHeld
<1>11. ConnectionsAreServed'
  <2>1. phase[d] \in Listening \cup {"unbound"} => phase'[d] \in Listening \cup {"unbound"}
    BY Zenon, <1>2
  <2> QED
    BY Zenon, <1>1, <1>2, <2>1, ServedFrame
<1>12. DeparturesAreMet' /\ StartersAreUndisturbed'
  <2>1. CASE Depart
    BY Zenon, <1>1, <2>1, DepartMet, AllMetKeeps
  <2>2. CASE cli' = cli /\ t \notin {"draining", "closing", "unbound"}
    <3>1. ~Departing'
      BY Zenon, <1>2, <1>3, <2>2 DEF Departing
    <3>2. Reachable => Reachable' /\ socket' = socket /\ version'[socket] = version[socket]
      <4> SUFFICES ASSUME Reachable PROVE Reachable' /\ socket' = socket
        BY Zenon
      <4>1. socket \in Daemons /\ socket = d /\ phase[d] \in Listening
        BY Zenon, <1>1, <1>3, ListeningWorks DEF Reachable, TypeOK
      <4>2. phase'[socket'] \in Listening /\ socket' = d /\ d # None
        BY Zenon, <1>2, <1>4, <4>1, NoneIsNoDaemon
      <4> QED
        BY Zenon, <4>1, <4>2 DEF Reachable
    <3> QED
      BY Zenon, <1>1, <2>2, <3>1, <3>2, QuietFrame
  <2> QED
    BY Zenon, <2>1, <2>2
<1>13. IdleIsStill'
  <2>1. (Still(d) => Still(d)') /\ (ShutdownTaken(d) => ShutdownTaken(d)')
    BY Zenon DEF Still, ShutdownTaken
  <2> QED
    BY Zenon, <1>1, <1>2, <2>1, IdleFrame
<1>14. EditsArrive'
  <2>1. CASE reachedAt'[d] = config
    <3>1. ASSUME NEW e \in Daemons, phase'[e] \in Up, e # d PROVE FALSE
      BY Zenon, <1>2, <1>3, <3>1, ListeningWorks
    <3> QED
      BY Zenon, <2>1, <3>1 DEF EditsArrive
  <2>2. CASE t \in Up => phase[d] \in Up /\ reachedAt'[d] = reachedAt[d]
    <3>1. \A e \in Daemons : phase'[e] \in Up => phase[e] \in Up /\ reachedAt'[e] = reachedAt[e]
      BY Zenon, <1>2, <2>2
    <3> QED
      BY Zenon, <1>1, <1>8, <3>1, EditsFrame
  <2> QED
    BY Zenon, <2>1, <2>2
<1> QED
  BY Zenon, <1>7, <1>9, <1>10, <1>11, <1>12, <1>13, <1>14 DEF Inv

\* Counting a fault stays within its bound.
LEMMA FaultBound == ASSUME TypeOK, Fault PROVE faults' \in 0 .. MaxFaults
  BY DaemonLifeAssumption DEF TypeOK, Fault

\* The new listener: nobody listened, and the file's contents are the ones it starts from.
LEMMA BindInv == ASSUME Inv, NEW d \in Daemons, Bind(d) PROVE Inv'
<1>1. TypeOK
  BY Zenon DEF Inv
<1>2. /\ phase[d] = "loaded" /\ phase' = [phase EXCEPT ![d] = "serving"] /\ socket' = d
      /\ version' = version /\ loaded' = loaded /\ lock' = lock /\ commands' = commands /\ running' = running
      /\ port' = port /\ config' = config /\ cli' = cli /\ conn' = conn /\ sending' = sending
      /\ issued' = issued /\ faults' = faults
  BY Zenon DEF Bind, Step, proxies
<1>3. /\ reachedAt' \in [Daemons -> Nat] /\ reachedAt'[d] = config
      /\ \A e \in Daemons : e # d => reachedAt'[e] = reachedAt[e]
  BY Zenon, <1>1 DEF Bind, TypeOK
<1>4. faults' \in 0 .. MaxFaults
  BY Zenon, <1>1, <1>2 DEF TypeOK
<1>5. /\ phase[d] \in Working \ {"unbound"} /\ "serving" \in Working /\ phase[d] \notin Listening
      /\ "serving" \notin {"checking", "draining", "closing", "unbound"}
  BY Zenon, <1>2 DEF Working, Listening
<1> QED
  BY Zenon, <1>2, <1>3, <1>4, <1>5, PhaseStep

\* A daemon that cannot start leaves, with or without its listener.
LEMMA StartFailsInv == ASSUME Inv, NEW d \in Daemons, StartFails(d) PROVE Inv'
<1>1. TypeOK
  BY Zenon DEF Inv
<1>2. /\ phase[d] = "loaded" /\ Depart /\ Fault
      /\ version' = version /\ loaded' = loaded /\ lock' = lock /\ commands' = commands /\ running' = running
      /\ port' = port /\ config' = config /\ conn' = conn /\ sending' = sending
      /\ issued' = issued /\ reachedAt' = reachedAt
  BY Zenon DEF StartFails, Step, proxies
<1>3. reachedAt' \in [Daemons -> Nat] /\ faults' \in 0 .. MaxFaults
  BY Zenon, <1>1, <1>2, FaultBound DEF TypeOK
<1>4. /\ phase[d] \in Working \ {"unbound"} /\ {"unbound", "closing"} \subseteq Working
      /\ phase[d] \notin Listening /\ "unbound" \notin Listening
      /\ {"unbound", "closing"} \cap (Up \cup {"checking", "draining"}) = {}
  BY Zenon, <1>2 DEF Working, Listening, Up
<1>5. CASE phase' = [phase EXCEPT ![d] = "unbound"] /\ socket' = socket
  BY Zenon, <1>2, <1>3, <1>4, <1>5, PhaseStep
<1>6. CASE phase' = [phase EXCEPT ![d] = "closing"] /\ socket' = d
  BY Zenon, <1>2, <1>3, <1>4, <1>6, PhaseStep
<1> QED
  BY Zenon, <1>5, <1>6 DEF StartFails, Step

\* The idle check, which finds nothing accepted, queued or handled.
LEMMA IdleCheckInv == ASSUME Inv, NEW d \in Daemons, IdleCheck(d) PROVE Inv'
<1>1. TypeOK
  BY Zenon DEF Inv
<1>2. /\ phase[d] = "serving" /\ phase' = [phase EXCEPT ![d] = "checking"]
      /\ version' = version /\ loaded' = loaded /\ lock' = lock /\ commands' = commands /\ running' = running
      /\ port' = port /\ config' = config /\ conn' = conn /\ sending' = sending /\ cli' = cli
      /\ issued' = issued /\ reachedAt' = reachedAt /\ faults' = faults /\ socket' = socket
  BY Zenon DEF IdleCheck, Step, proxies
<1>3. reachedAt' \in [Daemons -> Nat] /\ faults' \in 0 .. MaxFaults
  BY Zenon, <1>1, <1>2 DEF TypeOK
<1>4. Still(d)
  BY Zenon DEF IdleCheck, Active, Still, Handled
<1>5. /\ phase[d] \in Working \ {"unbound"} /\ "checking" \in Working /\ phase[d] \in Listening /\ phase[d] \in Up
      /\ "checking" \in Listening /\ "checking" \notin {"draining", "closing", "unbound"}
  BY Zenon, <1>2 DEF Working, Listening, Up
<1> QED
  BY Zenon, <1>2, <1>3, <1>4, <1>5, PhaseStep

\* The idle exit: proxies bring the daemon back, without any it leaves.
LEMMA IdleExitInv == ASSUME Inv, NEW d \in Daemons, IdleExit(d) PROVE Inv'
<1>1. TypeOK /\ IdleIsStill
  BY Zenon DEF Inv
<1>2. /\ phase[d] = "checking"
      /\ version' = version /\ loaded' = loaded /\ lock' = lock /\ commands' = commands /\ running' = running
      /\ port' = port /\ config' = config /\ conn' = conn /\ sending' = sending
      /\ issued' = issued /\ reachedAt' = reachedAt /\ faults' = faults /\ socket' = socket
  BY Zenon DEF IdleExit, Step, proxies
<1>3. reachedAt' \in [Daemons -> Nat] /\ faults' \in 0 .. MaxFaults
  BY Zenon, <1>1, <1>2 DEF TypeOK
<1>4. Still(d)
  BY Zenon, <1>1, <1>2 DEF IdleIsStill
<1>5. /\ phase[d] \in Working \ {"unbound"} /\ {"serving", "draining"} \subseteq Working /\ phase[d] \in Listening
      /\ phase[d] \in Up /\ {"serving", "draining"} \subseteq Listening
      /\ "serving" \notin {"checking", "draining", "closing", "unbound"} /\ "draining" \notin Up \cup {"checking"}
  BY Zenon, <1>2 DEF Working, Listening, Up
<1>6. CASE phase' = [phase EXCEPT ![d] = "serving"] /\ cli' = cli
  BY Zenon, <1>2, <1>3, <1>5, <1>6, PhaseStep
<1>7. CASE phase' = [phase EXCEPT ![d] = "draining"] /\ Depart /\ \A n \in Names : running[d][n] = NoProxy
  BY Zenon, <1>2, <1>3, <1>4, <1>5, <1>7, PhaseStep
<1> QED
  BY Zenon, <1>6, <1>7 DEF IdleExit, Step

\* The loop takes a command: after a Reload the daemon works from the file's contents.
LEMMA TakeCommandInv == ASSUME Inv, NEW d \in Daemons, TakeCommand(d) PROVE Inv'
<1>1. /\ TypeOK /\ LockIsHeld /\ CommandsFit /\ ConnectionsAreServed /\ DeparturesAreMet
      /\ StartersAreUndisturbed /\ TurnedAwayOnlyByDeparture /\ IdleIsStill /\ EditsArrive
      /\ PortsAreOwned /\ PortsHaveOneOwner
  BY Zenon DEF Inv
<1>2. /\ phase[d] = "serving" /\ commands[d] # <<>>
      /\ version' = version /\ lock' = lock /\ running' = running
      /\ port' = port /\ config' = config /\ conn' = conn /\ sending' = sending
      /\ issued' = issued /\ reachedAt' = reachedAt /\ faults' = faults /\ socket' = socket
  BY Zenon DEF TakeCommand, Step, proxies
<1>3. CASE /\ Head(commands[d]) = "Shutdown" /\ phase' = [phase EXCEPT ![d] = "draining"] /\ Depart
           /\ loaded' = loaded /\ commands' = commands
  <2>1. reachedAt' \in [Daemons -> Nat] /\ faults' \in 0 .. MaxFaults
    BY Zenon, <1>1, <1>2 DEF TypeOK
  <2>2. ShutdownTaken(d)
    BY Zenon, <1>2, <1>3 DEF ShutdownTaken
  <2>3. /\ phase[d] \in Working \ {"unbound"} /\ "draining" \in Working /\ phase[d] \in Listening
        /\ phase[d] \in Up /\ "draining" \in Listening /\ "draining" \notin Up \cup {"checking"}
    BY Zenon, <1>2 DEF Working, Listening, Up
  <2> QED
    BY Zenon, <1>2, <1>3, <2>1, <2>2, <2>3, PhaseStep
<1>4. CASE commands' = [commands EXCEPT ![d] = Tail(@)] /\ loaded' = Reread(d) /\ phase' = phase /\ cli' = cli
  <2>1. commands' \in [Daemons -> Seq({"Shutdown", "Reload"})] /\ \A e \in Daemons : e # d => commands'[e] = commands[e]
    BY <1>1, <1>2, <1>4 DEF TypeOK
  <2>2. loaded' \in [Daemons -> Nat] /\ loaded'[d] = config /\ \A e \in Daemons : e # d => loaded'[e] = loaded[e]
    BY Zenon, <1>1, <1>4 DEF TypeOK, Reread
  <2>3. TypeOK'
    BY ZenonT(60), <1>1, <1>2, <1>4, <2>1, <2>2 DEF TypeOK
  <2>4. LockIsHeld' /\ CommandsFit' /\ TurnedAwayOnlyByDeparture' /\ ConnectionsAreServed'
    BY Zenon, <1>1, <1>2, <1>4 DEF LockIsHeld, CommandsFit, TurnedAwayOnlyByDeparture, ConnectionsAreServed
  <2>5. PortsAreOwned' /\ PortsHaveOneOwner'
    BY Zenon, <1>1, <1>2, PortsFrame
  <2>6. DeparturesAreMet' /\ StartersAreUndisturbed'
    <3>1. (Departing' => Departing) /\ (Reachable => Reachable')
      BY Zenon, <1>2, <1>4 DEF Departing, Reachable
    <3> QED
      BY Zenon, <1>1, <1>2, <1>4, <3>1, QuietFrame
  <2>7. IdleIsStill'
    <3>1. phase'[d] # "checking" /\ phase'[d] # "draining"
      BY Zenon, <1>2, <1>4
    <3> QED
      BY Zenon, <1>1, <1>2, <1>4, <2>1, <3>1, IdleFrame
  <2>8. EditsArrive'
    <3>1. lock = d /\ \A e \in Daemons : e # d => phase[e] \notin Up
      BY Zenon, <1>1, <1>2 DEF LockIsHeld, Up, Working
    <3> QED
      BY Zenon, <1>2, <1>4, <2>2, <3>1 DEF EditsArrive
  <2> QED
    BY ZenonT(60), <2>3, <2>4, <2>5, <2>6, <2>7, <2>8 DEF Inv
<1> QED
  BY Zenon, <1>3, <1>4 DEF TakeCommand, Step

\* proxies.shutdown takes the whole table, and the ports of the proxies that are live.
LEMMA PortsShut ==
    ASSUME TypeOK, PortsInParts, NEW d \in Daemons, \A n \in Names : ~running'[d][n].live,
           \A e \in Daemons : e # d => running'[e] = running[e],
           \A q \in Ports : port'[q] = (IF \E n \in Names : running[d][n] = Entry(q) THEN None ELSE port[q]),
           conn' = conn
    PROVE  PortsInParts'
<1>1. \A q \in Ports, n \in Names : running[d][n] = Entry(q) => running[d][n].live /\ running[d][n].port = q
  BY DEF Entry
<1>2. ASSUME NEW q \in Ports PROVE Owned(q)'
  <2>1. CASE \E n \in Names : running[d][n] = Entry(q)
    BY Zenon, <2>1 DEF Owned
  <2>2. CASE ~\E n \in Names : running[d][n] = Entry(q)
    <3>1. Owned(q) /\ port'[q] = port[q] /\ (port[q] # None => port[q] \in Daemons)
      BY ZenonT(60), <2>2 DEF PortsInParts, TypeOK
    <3>2. port[q] # None => running'[port[q]] = running[port[q]] \/ port[q] = d
      BY Zenon, <3>1
    <3> QED
      BY Zenon, <2>2, <3>1, <3>2 DEF Owned
  <2> QED
    BY Zenon, <2>1, <2>2
<1>3. ASSUME NEW e \in Daemons, NEW n \in Names PROVE Bound(e, n)'
  <2>1. CASE e = d
    BY Zenon, <2>1 DEF Bound
  <2>2. CASE e # d
    <3>1. Bound(e, n) /\ running'[e] = running[e] /\ \A m \in Names : Bound(d, m)
      BY Zenon, <2>2 DEF PortsInParts
    <3>2. running[e][n].live => ~\E m \in Names : running[d][m] = Entry(running[e][n].port)
      BY <1>1, <2>2, <3>1 DEF Bound
    <3> QED
      BY <3>1, <3>2 DEF Bound
  <2> QED
    BY Zenon, <2>1, <2>2
<1>4. ASSUME NEW b \in Clis PROVE Held(b)'
  <2>1. Held(b) /\ (conn[b].held # None => conn[b].held \in Ports)
    BY Zenon DEF PortsInParts, TypeOK
  <2>2. conn[b].held # None => ~\E m \in Names : running[d][m] = Entry(conn[b].held)
    BY <1>1, <2>1 DEF Held
  <2>3. \A e \in Daemons, n \in Names : running'[e][n].live => running'[e][n] = running[e][n]
    BY Zenon
  <2> QED
    BY <2>1, <2>2, <2>3 DEF Held
<1> QED
  BY Zenon, <1>2, <1>3, <1>4 DEF PortsInParts

\* With a process go its entries, its ports and its handlers.
LEMMA PortsGone ==
    ASSUME TypeOK, PortsInParts, NEW d \in Daemons, \A n \in Names : ~running'[d][n].live,
           \A e \in Daemons : e # d => running'[e] = running[e],
           \A q \in Ports : port'[q] = (IF port[q] = d THEN None ELSE port[q]),
           \A b \in Clis : conn'[b].held # None => conn'[b] = conn[b] /\ conn[b].to # d,
           \A b \in Clis : conn[b].held # None /\ conn[b].to # d => conn'[b] = conn[b]
    PROVE  PortsInParts'
<1>1. ASSUME NEW q \in Ports PROVE Owned(q)'
  <2>1. CASE port[q] = d
    BY Zenon, <2>1 DEF Owned
  <2>2. CASE port[q] # d
    <3>1. Owned(q) /\ port'[q] = port[q] /\ (port[q] # None => port[q] \in Daemons)
      BY ZenonT(60), <2>2 DEF PortsInParts, TypeOK
    <3>2. port[q] # None => running'[port[q]] = running[port[q]]
      BY Zenon, <2>2, <3>1
    <3>3. \A b \in Clis : conn[b].to = port[q] /\ conn[b].held = q => conn'[b] = conn[b]
      BY Zenon, <2>2, NoneIsNoDaemon
    <3> QED
      BY <3>1, <3>2, <3>3 DEF Owned
  <2> QED
    BY Zenon, <2>1, <2>2
<1>2. ASSUME NEW e \in Daemons, NEW n \in Names PROVE Bound(e, n)'
  <2>1. CASE e = d
    BY Zenon, <2>1 DEF Bound
  <2>2. CASE e # d
    <3>1. Bound(e, n) /\ running'[e] = running[e]
      BY Zenon, <2>2 DEF PortsInParts
    <3> QED
      BY <2>2, <3>1 DEF Bound
  <2> QED
    BY Zenon, <2>1, <2>2
<1>3. ASSUME NEW b \in Clis PROVE Held(b)'
  <2> SUFFICES ASSUME conn'[b].held # None PROVE Held(b)'
    BY Zenon DEF Held
  <2>1. Held(b) /\ conn'[b] = conn[b] /\ conn[b].to # d /\ conn[b].held # None
    BY Zenon DEF PortsInParts
  <2>2. conn[b].held \in Ports
    BY ZenonT(60), <2>1 DEF TypeOK
  <2>3. port'[conn[b].held] = port[conn[b].held]
    BY Zenon, <2>1, <2>2 DEF Held
  <2>4. \A e \in Daemons, n \in Names : running'[e][n].live => running'[e][n] = running[e][n]
    BY Zenon
  <2>5. \A a \in Clis : conn'[a].held = conn[b].held => conn[a].held = conn[b].held
    BY Zenon, <2>1
  <2> QED
    BY <2>1, <2>3, <2>4, <2>5 DEF Held
<1> QED
  BY Zenon, <1>1, <1>2, <1>3 DEF PortsInParts

\* Connections that end without an answer.
LEMMA Dropped ==
    ASSUME TypeOK, NEW d \in Daemons, NEW steps \in SUBSET {"backlog", "active", "bound", "removed"},
           conn' = Drop(d, steps)
    PROVE  /\ conn' \in [Clis -> ConnRec]
           /\ \A c \in Clis : conn'[c] = (IF conn[c].to = d /\ conn[c].step \in steps THEN Closed ELSE conn[c])
           /\ \A c \in Clis : conn'[c] = conn[c] \/ (conn'[c] = Closed /\ Connected(conn[c]))
           /\ \A c \in Clis : conn'[c].step \in Handled \cup {"backlog"} => conn'[c] = conn[c]
<1>1. Closed \in ConnRec /\ Closed.step = "closed" /\ conn \in [Clis -> ConnRec]
  BY Zenon, ClosedFacts, Records
<1>2. \A c \in Clis : conn'[c] = (IF conn[c].to = d /\ conn[c].step \in steps THEN Closed ELSE conn[c])
  BY Zenon DEF Drop, Closed
<1>3. conn' \in [Clis -> ConnRec]
  BY Zenon, <1>1 DEF Drop, Closed
<1>4. \A c \in Clis : conn[c].step \in steps => Connected(conn[c])
  BY Zenon DEF Connected
<1>5. "closed" \notin Handled \cup {"backlog"}
  BY Zenon DEF Handled
<1> QED
  BY Zenon, <1>1, <1>2, <1>3, <1>4, <1>5

\* A daemon that is on its way out has been met by every command that runs.
LEMMA LeavingMet ==
    ASSUME LockIsHeld, DeparturesAreMet, NEW d \in Daemons, phase[d] \in {"draining", "closing", "unbound"}, cli' = cli
    PROVE  AllMet
<1>1. lock = d
  BY Zenon DEF LockIsHeld, Working
<1> QED
  BY Zenon, <1>1, NoneIsNoDaemon DEF DeparturesAreMet, Departing, AllMet

\* Every proxy is cancelled and joined; the daemon still holds its lock and its listener.
LEMMA DrainProxiesInv == ASSUME Inv, NEW d \in Daemons, DrainProxies(d) PROVE Inv'
<1>1. /\ TypeOK /\ LockIsHeld /\ CommandsFit /\ ConnectionsAreServed /\ DeparturesAreMet
      /\ StartersAreUndisturbed /\ TurnedAwayOnlyByDeparture /\ IdleIsStill /\ EditsArrive
      /\ PortsAreOwned /\ PortsHaveOneOwner
  BY Zenon DEF Inv
<1>2. /\ phase[d] = "draining" /\ phase' = [phase EXCEPT ![d] = "closing"] /\ lock' = lock
      /\ version' = version /\ loaded' = loaded /\ socket' = socket /\ reachedAt' = reachedAt
      /\ commands' = commands /\ config' = config /\ cli' = cli /\ conn' = conn /\ sending' = sending
      /\ issued' = issued /\ faults' = faults
      /\ port' = [p \in Ports |-> IF \E n \in Names : running[d][n] = Entry(p) THEN None ELSE port[p]]
      /\ running' = [running EXCEPT ![d] = [n \in Names |-> NoProxy]]
  BY Zenon DEF DrainProxies, Shut, Step, Entry
<1>3. /\ phase[d] \in Listening /\ phase[d] \in Working /\ "closing" \in Listening /\ "closing" \in Working
      /\ "closing" \in Alive /\ "closing" \notin Up /\ "closing" # "checking" /\ "closing" # "draining"
      /\ phase[d] \in {"draining", "closing", "unbound"}
  BY Zenon, <1>2 DEF Listening, Working, Alive, Up
<1>4. /\ phase' \in [Daemons -> Alive \cup {"none", "dead"}]
      /\ phase'[d] = "closing" /\ \A e \in Daemons : e # d => phase'[e] = phase[e]
  BY Zenon, <1>1, <1>2, <1>3, PhaseOf
<1>5. NoProxy \in [port : Ports \cup {None}, live : BOOLEAN] /\ ~NoProxy.live
  BY Zenon DEF NoProxy
<1>6. /\ running' \in [Daemons -> [Names -> [port : Ports \cup {None}, live : BOOLEAN]]]
      /\ (\A n \in Names : ~running'[d][n].live) /\ \A e \in Daemons : e # d => running'[e] = running[e]
  BY ZenonT(60), <1>1, <1>2, <1>5 DEF TypeOK
<1>7. /\ port' \in [Ports -> Daemons \cup {None}]
      /\ \A q \in Ports : port'[q] = (IF \E n \in Names : running[d][n] = Entry(q) THEN None ELSE port[q])
  BY Zenon, <1>1, <1>2 DEF TypeOK
<1>8. TypeOK'
  BY ZenonT(60), <1>1, <1>2, <1>4, <1>6, <1>7 DEF TypeOK
<1>9. lock = d /\ (\A e \in Daemons : e # d => phase[e] \notin Working) /\ socket = d
  BY Zenon, <1>1, <1>3, OneWorks
<1>10. LockIsHeld'
  BY Zenon, <1>2, <1>3, <1>4, <1>9, ListeningWorks DEF LockIsHeld
<1>11. KeepsCli /\ AllMet /\ \A c \in Clis : conn'[c] = conn[c]
  BY Zenon, <1>1, <1>2, <1>3, SameCli, LeavingMet
<1>12. /\ CommandsFit' /\ TurnedAwayOnlyByDeparture' /\ DeparturesAreMet' /\ StartersAreUndisturbed'
  BY Zenon, <1>1, <1>11, CliFrame, AllMetKeeps
<1>13. ConnectionsAreServed'
  BY Zenon, <1>1, <1>2, <1>3, <1>4, ServedFrame
<1>14. PortsAreOwned' /\ PortsHaveOneOwner'
  <2>1. PortsInParts
    BY Zenon, <1>1, PortsApart
  <2>2. PortsInParts'
    BY Zenon, <1>1, <1>2, <1>6, <1>7, <2>1, PortsShut
  <2> QED
    BY Zenon, <2>2, PortsTogether
<1>15. IdleIsStill'
  BY Zenon, <1>1, <1>2, <1>3, <1>4, <1>6, IdleFrame
<1>16. EditsArrive'
  BY ZenonT(60), <1>3, <1>4, <1>9, ListeningWorks DEF EditsArrive
<1> QED
  BY ZenonT(60), <1>8, <1>10, <1>12, <1>13, <1>14, <1>15, <1>16 DEF Inv

\* The listener goes, with the connections nobody has accepted.
LEMMA DropListenerInv == ASSUME Inv, NEW d \in Daemons, DropListener(d) PROVE Inv'
<1>1. /\ TypeOK /\ LockIsHeld /\ CommandsFit /\ ConnectionsAreServed /\ DeparturesAreMet
      /\ StartersAreUndisturbed /\ TurnedAwayOnlyByDeparture /\ IdleIsStill /\ EditsArrive
      /\ PortsAreOwned /\ PortsHaveOneOwner
  BY Zenon DEF Inv
<1>2. /\ phase[d] = "closing" /\ phase' = [phase EXCEPT ![d] = "unbound"] /\ lock' = lock
      /\ version' = version /\ loaded' = loaded /\ socket' = None /\ reachedAt' = reachedAt
      /\ commands' = commands /\ config' = config /\ cli' = cli /\ conn' = Drop(d, {"backlog"})
      /\ sending' = sending /\ issued' = issued /\ faults' = faults /\ port' = port /\ running' = running
  BY Zenon DEF DropListener, Step, proxies
<1>3. /\ phase[d] \in Working /\ "unbound" \notin Listening /\ "unbound" \in Working
      /\ "unbound" \in Alive /\ "unbound" \notin Up /\ "unbound" # "checking" /\ "unbound" # "draining"
      /\ phase[d] \in {"draining", "closing", "unbound"}
  BY Zenon, <1>2 DEF Listening, Working, Alive, Up
<1>4. /\ phase' \in [Daemons -> Alive \cup {"none", "dead"}]
      /\ phase'[d] = "unbound" /\ \A e \in Daemons : e # d => phase'[e] = phase[e]
  BY Zenon, <1>1, <1>2, <1>3, PhaseOf
<1>5. {"backlog"} \in SUBSET {"backlog", "active", "bound", "removed"}
  BY Zenon
<1>6. /\ conn' \in [Clis -> ConnRec]
      /\ \A c \in Clis : conn'[c] = (IF conn[c].to = d /\ conn[c].step \in {"backlog"} THEN Closed ELSE conn[c])
      /\ \A c \in Clis : conn'[c] = conn[c] \/ (conn'[c] = Closed /\ Connected(conn[c]))
      /\ \A c \in Clis : conn'[c].step \in Handled \cup {"backlog"} => conn'[c] = conn[c]
  BY Zenon, <1>1, <1>2, <1>5, Dropped
<1>7. TypeOK'
  BY Zenon, <1>1, <1>2, <1>4, <1>6 DEF TypeOK, ConnRec
<1>8. lock = d /\ \A e \in Daemons : e # d => phase[e] \notin Working
  BY Zenon, <1>1, <1>3, OneWorks
<1>9. LockIsHeld'
  BY Zenon, <1>2, <1>3, <1>4, <1>8, ListeningWorks DEF LockIsHeld
<1>10. KeepsCli /\ AllMet
  BY Zenon, <1>1, <1>2, <1>3, SameCli, LeavingMet
<1>11. /\ CommandsFit' /\ TurnedAwayOnlyByDeparture' /\ DeparturesAreMet' /\ StartersAreUndisturbed'
  BY Zenon, <1>1, <1>6, <1>10, CliFrame, AllMetKeeps
<1>12. ConnectionsAreServed'
  <2>1. ASSUME NEW c \in Clis, conn'[c].step \in Handled \cup {"backlog"}
        PROVE  /\ conn'[c] = conn[c] /\ conn[c].to \in Daemons
               /\ conn[c].step = "backlog" => conn[c].to # d
    <3>1. conn'[c] = conn[c]
      BY Zenon, <1>6, <2>1
    <3>2. Connected(conn[c])
      BY Zenon, <2>1, <3>1 DEF Connected, Handled
    <3>3. conn[c].to \in Daemons
      BY Zenon, <1>1, <3>2 DEF CommandsFit, Fits
    <3>4. conn[c].step = "backlog" => conn[c].to # d
      <4> SUFFICES ASSUME conn[c].step = "backlog", conn[c].to = d PROVE FALSE
        BY Zenon
      <4>1. conn[c].step \in {"backlog"}
        BY Zenon
      <4>2. conn'[c] = Closed
        BY Zenon, <1>6, <4>1
      <4> QED
        BY Zenon, <3>1, <4>2, ClosedFacts
    <3> QED
      BY Zenon, <3>1, <3>3, <3>4
  <2> QED
    BY ZenonT(60), <1>1, <1>4, <2>1 DEF ConnectionsAreServed
<1>13. PortsAreOwned' /\ PortsHaveOneOwner'
  <2>1. \A c \in Clis : conn[c].step = "backlog" => conn[c].held = None
    <3>1. \A c \in Clis : conn[c].held # None => conn[c].step \in {"bound", "removed"}
      BY Zenon, <1>1 DEF CommandsFit, Fits
    <3> QED
      BY Zenon, <3>1
  <2>2. \A c \in Clis : conn'[c].held = conn[c].held /\ (conn[c].held # None => conn'[c].to = conn[c].to)
    BY Zenon, <1>6, <2>1, ClosedFacts
  <2> QED
    BY Zenon, <1>1, <1>2, <2>2, PortsFrame
<1>14. IdleIsStill'
  BY Zenon, <1>1, <1>2, <1>3, <1>4, <1>6, IdleFrame
<1>15. EditsArrive'
  BY Zenon, <1>3, <1>4, <1>8, ListeningWorks DEF EditsArrive
<1> QED
  BY Zenon, <1>7, <1>9, <1>11, <1>12, <1>13, <1>14, <1>15 DEF Inv

\* A process ends, in order or killed; every command that runs has met that.
LEMMA GoneInv ==
    ASSUME Inv, NEW d \in Daemons, Gone(d), socket' = socket, faults' \in 0 .. MaxFaults, KeepsCli, AllMet
    PROVE  Inv'
<1>1. /\ TypeOK /\ LockIsHeld /\ CommandsFit /\ ConnectionsAreServed /\ DeparturesAreMet
      /\ StartersAreUndisturbed /\ TurnedAwayOnlyByDeparture /\ IdleIsStill /\ EditsArrive
      /\ PortsAreOwned /\ PortsHaveOneOwner
  BY Zenon DEF Inv
<1> DEFINE steps == {"backlog", "active", "bound", "removed"}
<1>2. /\ phase' = [phase EXCEPT ![d] = "dead"] /\ conn' = Drop(d, steps)
      /\ sending' = {s \in sending : s[1] # d} /\ config' = config /\ issued' = issued
      /\ lock' = IF lock = d THEN None ELSE lock
  BY Zenon DEF Gone
<1>3. /\ "dead" \notin Listening \cup {"unbound"} /\ "dead" \notin Working /\ "dead" \notin Up
      /\ "dead" # "checking" /\ "dead" # "draining" /\ "dead" \in Alive \cup {"none", "dead"}
      /\ Handled \cup {"backlog"} = steps
  BY Zenon DEF Listening, Working, Up, Handled
<1>4. /\ phase' \in [Daemons -> Alive \cup {"none", "dead"}]
      /\ phase'[d] = "dead" /\ \A e \in Daemons : e # d => phase'[e] = phase[e]
  BY Zenon, <1>1, <1>2, <1>3, PhaseOf
<1>5. NoProxy \in [port : Ports \cup {None}, live : BOOLEAN] /\ ~NoProxy.live
  BY Zenon DEF NoProxy
<1>6. /\ running' \in [Daemons -> [Names -> [port : Ports \cup {None}, live : BOOLEAN]]]
      /\ (\A n \in Names : ~running'[d][n].live) /\ \A e \in Daemons : e # d => running'[e] = running[e]
  <2>1. running' = [running EXCEPT ![d] = [n \in Names |-> NoProxy]]
    BY Zenon DEF Gone
  <2> QED
    BY Zenon, <1>1, <1>5, <2>1 DEF TypeOK
<1>7. /\ port' \in [Ports -> Daemons \cup {None}]
      /\ \A q \in Ports : port'[q] = (IF port[q] = d THEN None ELSE port[q])
  BY Zenon, <1>1 DEF TypeOK, Gone
<1>8. commands' \in [Daemons -> Seq({"Shutdown", "Reload"})] /\ \A e \in Daemons : e # d => commands'[e] = commands[e]
  <2>1. commands' = [commands EXCEPT ![d] = <<>>]
    BY Zenon DEF Gone
  <2> QED
    BY <1>1, <2>1 DEF TypeOK
<1>9. version' \in [Daemons -> Versions \cup {None}] /\ \A e \in Daemons : e # d => version'[e] = version[e]
  <2>1. version' = [version EXCEPT ![d] = None]
    BY Zenon DEF Gone
  <2> QED
    BY Zenon, <1>1, <2>1 DEF TypeOK
<1>10. /\ loaded' \in [Daemons -> Nat] /\ \A e \in Daemons : e # d => loaded'[e] = loaded[e]
       /\ reachedAt' \in [Daemons -> Nat] /\ \A e \in Daemons : e # d => reachedAt'[e] = reachedAt[e]
  <2>1. loaded' = [loaded EXCEPT ![d] = 0] /\ reachedAt' = [reachedAt EXCEPT ![d] = 0]
    BY Zenon DEF Gone
  <2> QED
    BY Zenon, <1>1, <2>1 DEF TypeOK
<1>11. /\ conn' \in [Clis -> ConnRec]
       /\ \A c \in Clis : conn'[c] = (IF conn[c].to = d /\ conn[c].step \in steps THEN Closed ELSE conn[c])
       /\ \A c \in Clis : conn'[c] = conn[c] \/ (conn'[c] = Closed /\ Connected(conn[c]))
       /\ \A c \in Clis : conn'[c].step \in Handled \cup {"backlog"} => conn'[c] = conn[c]
  <2>1. steps \in SUBSET {"backlog", "active", "bound", "removed"}
    BY Zenon
  <2> HIDE DEF steps
  <2> QED
    BY Zenon, <1>1, <1>2, <2>1, Dropped
<1> HIDE DEF steps
<1>12. \A c \in Clis : conn'[c].step \in Handled \cup {"backlog"} => conn'[c] = conn[c] /\ conn[c].to # d
  <2>1. ASSUME NEW c \in Clis, conn'[c].step \in Handled \cup {"backlog"}, conn[c].to = d PROVE FALSE
    <3>1. conn'[c] = conn[c] /\ conn[c].step \in steps
      BY Zenon, <1>3, <1>11, <2>1
    <3>2. conn'[c] = Closed
      BY Zenon, <1>11, <2>1, <3>1
    <3> QED
      BY Zenon, <2>1, <3>2, ClosedFacts DEF Handled
  <2> QED
    BY Zenon, <1>11, <2>1
<1>13. lock' \in Daemons \cup {None} /\ sending' \subseteq sending
  BY Zenon, <1>1, <1>2 DEF TypeOK
<1>14. TypeOK'
  <2>1. sending' \subseteq (Daemons \X Clis \X {"Shutdown", "Reload"}) /\ cli' \in [Clis -> CliRec]
    BY Zenon, <1>1, <1>13 DEF TypeOK, KeepsCli
  <2>2. config' \in Nat /\ issued' \in 0 .. MaxCommands /\ socket' \in Daemons \cup {None}
    BY Zenon, <1>1, <1>2 DEF TypeOK
  <2> QED
    BY ZenonT(60), <1>4, <1>6, <1>7, <1>8, <1>9, <1>10, <1>11, <1>13, <2>1, <2>2 DEF TypeOK, CliRec, ConnRec
<1>15. LockIsHeld'
  <2>1. ASSUME NEW e \in Daemons
        PROVE  /\ phase'[e] \in Working <=> lock' = e
               /\ phase'[e] \in Listening => socket' = e
    <3>1. /\ phase[e] \in Working <=> lock = e
          /\ phase[e] \in Listening => socket = e
      BY Zenon, <1>1 DEF LockIsHeld
    <3>2. CASE e = d
      BY Zenon, <1>2, <1>3, <1>4, <3>2, NoneIsNoDaemon
    <3>3. CASE e # d
      BY Zenon, <1>2, <1>4, <3>1, <3>3, NoneIsNoDaemon
    <3> QED
      BY Zenon, <3>2, <3>3
  <2> QED
    BY Zenon, <2>1 DEF LockIsHeld
<1>16. CommandsFit' /\ TurnedAwayOnlyByDeparture' /\ DeparturesAreMet' /\ StartersAreUndisturbed'
  BY Zenon, <1>1, <1>11, CliFrame, AllMetKeeps
<1>17. ConnectionsAreServed'
  <2>1. \A c \in Clis : conn[c].step \in Handled \cup {"backlog"} => Connected(conn[c])
    BY Zenon DEF Connected, Handled
  <2>2. \A c \in Clis : Connected(conn[c]) => conn[c].to \in Daemons
    BY Zenon, <1>1 DEF CommandsFit, Fits
  <2> QED
    BY ZenonT(60), <1>1, <1>4, <1>12, <2>1, <2>2 DEF ConnectionsAreServed
<1>18. PortsAreOwned' /\ PortsHaveOneOwner'
  <2>1. PortsInParts
    BY Zenon, <1>1, PortsApart
  <2>2. \A c \in Clis : conn[c].held # None => conn[c].step \in {"bound", "removed"}
    BY Zenon, <1>1 DEF CommandsFit, Fits
  <2>3. \A c \in Clis : conn[c].held # None => conn[c].step \in Handled \cup {"backlog"}
    BY Zenon, <2>2 DEF Handled
  <2>4. \A b \in Clis : conn'[b].held # None => conn'[b] = conn[b] /\ conn[b].to # d
    BY Zenon, <1>11, <1>12, <2>3, ClosedFacts
  <2>5. \A b \in Clis : conn[b].held # None /\ conn[b].to # d => conn'[b] = conn[b]
    BY Zenon, <1>11
  <2>6. PortsInParts'
    BY Zenon, <1>1, <1>6, <1>7, <2>1, <2>4, <2>5, PortsGone
  <2> QED
    BY Zenon, <2>6, PortsTogether
<1>19. IdleIsStill'
  BY ZenonT(60), <1>1, <1>3, <1>4, <1>6, <1>8, <1>11, <1>13, IdleFrame
<1>20. EditsArrive'
  <2>1. ASSUME NEW e \in Daemons, e # d PROVE Coming(e) => Coming(e)'
    <3>1. (Queued(e) => Queued(e)') /\ (Sent(e) => Sent(e)')
      BY Zenon, <1>2, <1>8, <2>1 DEF Queued, Sent
    <3>2. ASSUME NEW c \in Clis, Telling(e, cli[c], conn[c]) PROVE Telling(e, cli'[c], conn'[c])
      <4>1. conn[c].to = e => conn'[c] = conn[c]
        BY Zenon, <1>11, <2>1
      <4> QED
        BY Zenon, <3>2, <4>1 DEF Telling, KeepsCli
    <3> QED
      BY Zenon, <3>1, <3>2 DEF Coming
  <2>2. \A e \in Daemons : phase'[e] \in Up => e # d
    BY Zenon, <1>3, <1>4
  <2> QED
    BY ZenonT(60), <1>1, <1>2, <1>4, <1>9, <1>10, <2>1, <2>2, EditsFrame
<1> QED
  BY Zenon, <1>14, <1>15, <1>16, <1>17, <1>18, <1>19, <1>20 DEF Inv

\* _instance_lock is dropped last.
LEMMA LeaveInv == ASSUME Inv, NEW d \in Daemons, Leave(d) PROVE Inv'
<1>1. TypeOK /\ LockIsHeld /\ DeparturesAreMet
  BY Zenon DEF Inv
<1>2. phase[d] = "unbound" /\ Gone(d) /\ socket' = socket /\ cli' = cli /\ faults' = faults
  BY Zenon DEF Leave
<1>3. phase[d] \in {"draining", "closing", "unbound"}
  BY Zenon, <1>2
<1>4. KeepsCli /\ AllMet /\ faults' \in 0 .. MaxFaults
  BY ZenonT(60), <1>1, <1>2, <1>3, SameCli, LeavingMet DEF TypeOK
<1> QED
  BY Zenon, <1>2, <1>4, GoneInv

\* A daemon is killed.
LEMMA CrashInv == ASSUME Inv, NEW d \in Daemons, Crash(d) PROVE Inv'
<1>1. TypeOK
  BY Zenon DEF Inv
<1>2. Gone(d) /\ socket' = socket /\ Fault /\ Depart
  BY Zenon DEF Crash
<1>3. KeepsCli /\ AllMet /\ faults' \in 0 .. MaxFaults
  BY Zenon, <1>1, <1>2, DepartMet, FaultBound
<1> QED
  BY Zenon, <1>2, <1>3, GoneInv

\* Nothing happens.
LEMMA StutterInv == ASSUME Inv, UNCHANGED vars PROVE Inv'
<1>1. /\ phase' = phase /\ version' = version /\ loaded' = loaded /\ lock' = lock /\ socket' = socket
      /\ reachedAt' = reachedAt /\ commands' = commands /\ running' = running /\ port' = port
      /\ config' = config /\ cli' = cli /\ conn' = conn /\ sending' = sending /\ issued' = issued /\ faults' = faults
  BY Zenon DEF vars, life, proxies
<1>2. TypeOK' /\ LockIsHeld' /\ CommandsFit' /\ ConnectionsAreServed' /\ PortsAreOwned' /\ PortsHaveOneOwner'
  <2>1. TypeOK'
    BY Zenon, <1>1 DEF Inv, TypeOK
  <2>2. LockIsHeld' /\ CommandsFit' /\ ConnectionsAreServed'
    BY Zenon, <1>1 DEF Inv, LockIsHeld, CommandsFit, ConnectionsAreServed
  <2>3. PortsAreOwned' /\ PortsHaveOneOwner'
    BY Zenon, <1>1, PortsFrame DEF Inv
  <2> QED
    BY Zenon, <2>1, <2>2, <2>3
<1>3. DeparturesAreMet' /\ StartersAreUndisturbed' /\ TurnedAwayOnlyByDeparture'
  BY Zenon, <1>1 DEF Inv, DeparturesAreMet, Departing, StartersAreUndisturbed, Undisturbed, Reachable,
                     TurnedAwayOnlyByDeparture
<1>4. IdleIsStill' /\ EditsArrive'
  BY Zenon, <1>1 DEF Inv, IdleIsStill, Still, ShutdownTaken, EditsArrive, EditsWith, Coming, Queued, Sent
<1> QED
  BY Zenon, <1>2, <1>3, <1>4 DEF Inv

\* Every step of the system keeps the invariant.
LEMMA NextInv == ASSUME Inv, [Next]_vars PROVE Inv'
<1>1. ASSUME NEW c \in Clis, NEW n \in Names, NEW p \in Ports, NEW use \in Menu[c], Begin(c, use[1], use[2], n, p)
      PROVE  Inv'
  BY Zenon, <1>1, BeginInv
<1>2. ASSUME NEW c \in Clis, Command(c) \/ Accept(c) \/ Handler(c) PROVE Inv'
  BY Zenon, <1>2, CommandInv, AcceptInv, HandlerInv
<1>3. ASSUME NEW d \in Daemons, Daemon(d) \/ StartFails(d) \/ Crash(d) PROVE Inv'
  BY ZenonT(60), <1>3, TryAcquireInv, BindInv, TakeCommandInv, IdleCheckInv, IdleExitInv, DrainProxiesInv,
     DropListenerInv, LeaveInv, StartFailsInv, CrashInv DEF Daemon
<1>4. ASSUME NEW d \in Daemons, NEW n \in Names, ListenerFails(d, n) PROVE Inv'
  BY Zenon, <1>4, ListenerFailsInv
<1>5. ASSUME NEW s \in sending, SendToLoop(s) PROVE Inv'
  BY Zenon, <1>5, SendToLoopInv
<1>6. CASE UNCHANGED vars
  BY Zenon, <1>6, StutterInv
<1> QED
  BY Zenon, <1>1, <1>2, <1>3, <1>4, <1>5, <1>6 DEF Next

\* The invariant holds throughout.
THEOREM InvHolds == Spec => []Inv
<1>1. Inv /\ [Next]_vars => Inv'
  BY Zenon, NextInv
<1> QED
  BY <1>1, InitInv, PTL DEF Spec

\* The instance lock, the socket file and the ports belong to the process that may have them: a
\* daemon that serves is the one commands reach, and every bound port is in its owner's table or
\* in the hands of a start or stop under way.
THEOREM OwnedResources == Spec => []ResourcesAreOwned
<1>1. Inv => ResourcesAreOwned
  <2> SUFFICES ASSUME Inv PROVE ResourcesAreOwned
    BY Zenon
  <2>1. TypeOK /\ PortsAreOwned /\ LockIsHeld
    BY Zenon DEF Inv
  <2>2. {"serving", "checking"} \subseteq Working /\ {"serving", "checking"} \subseteq Listening
    BY Zenon DEF Working, Listening
  <2>3. ServingIsReachable
    BY Zenon, <2>1, <2>2 DEF ServingIsReachable, LockIsHeld
  <2> QED
    BY Zenon, <2>1, <2>3 DEF ResourcesAreOwned
<1> QED
  BY <1>1, InvHolds, PTL

\* A command that starts daemons is refused, or left without an answer, only if a daemon was
\* leaving or was killed while it ran: ensure_daemon leads to a daemon of the command's build.
THEOREM OnlyDeparturesTurnAway == Spec => []TurnedAwayOnlyByDeparture
<1>1. Inv => TurnedAwayOnlyByDeparture
  BY Zenon DEF Inv
<1> QED
  BY <1>1, InvHolds, PTL

\* The idle exit takes no proxy down: the daemon's loop ends with a proxy in the table only when
\* it took a Shutdown.
THEOREM ProxiesAreKept == Spec => []ProxiesKeepTheDaemon
<1>1. Inv => ProxiesKeepTheDaemon
  BY Zenon DEF Inv, IdleIsStill, ShutdownTaken, ProxiesKeepTheDaemon
<1> QED
  BY <1>1, InvHolds, PTL

\* With no edit's command, handler or reload under way, a daemon of the editing build works from
\* the file's contents, or the last edit came before it listened.
THEOREM EditsAreReloaded == Spec => []ChangesAreReloaded
<1>1. ASSUME Inv, NEW d \in Daemons, phase[d] = "serving", commands[d] = <<>>, \A s \in sending : s[1] # d,
             \A c \in Clis : cli[c].cmd = "edge" => c \notin Busy,
             \A c \in Clis : \A use \in Menu[c] : use[1] = "edge" => use[2] = version[d]
      PROVE  loaded[d] = config \/ config = reachedAt[d]
  <2>1. EditsArrive /\ EditsWith(d) /\ ~Sent(d)
    BY Zenon, <1>1 DEF Inv, EditsWith, Sent
  <2>2. ~Queued(d)
    BY <1>1 DEF Queued
  <2>3. \A c \in Clis : ~Telling(d, cli[c], conn[c])
    <3>1. \A c \in Clis : Telling(d, cli[c], conn[c]) => cli[c].cmd = "edge" /\ cli[c].pc \notin {"idle", "failed"}
      BY Zenon DEF Telling
    <3> QED
      BY Zenon, <1>1, <3>1 DEF Busy
  <2>4. phase[d] \in Up
    BY Zenon, <1>1 DEF Up
  <2> QED
    BY Zenon, <2>1, <2>2, <2>3, <2>4 DEF EditsArrive, Coming
<1>2. Inv => ChangesAreReloaded
  BY Zenon, <1>1 DEF ChangesAreReloaded
<1> QED
  BY <1>2, InvHolds, PTL

=============================================================================
