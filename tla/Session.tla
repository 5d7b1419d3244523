------------------------------ MODULE Session ------------------------------
(***************************************************************************)
(* One session through the system: the command C, the daemon's handler D,  *)
(* the Edge's handler E and what it works for, X: a child process, an HTTP *)
(* server or a TCP target (client.rs, daemon.rs, daemon/proxy.rs, as-edge: *)
(* iroh_edge.rs, runtime.rs, mcp_http.rs, proxy.rs, and transport).        *)
(*                                                                         *)
(*      C --cd--> D --de--> E --ex--> X          what the user sends       *)
(*      C <--dc-- D <--ed-- E <--xe-- X          what comes back           *)
(*                            <--xr--            and standard error        *)
(*                                                                         *)
(* A leg is a bounded queue.  The four between C, D and E carry frames: a  *)
(* header, then a body, written and read one after the other.  A process   *)
(* that reads in a select! loses what it has read of a frame when another  *)
(* branch completes first.                                                 *)
(***************************************************************************)
EXTENDS Naturals, Sequences, SequencesExt

CONSTANTS
    Kinds,         \* the kinds of session to start with
    MaxMsgs,       \* bound: messages each end has to send
    Cap,           \* bound: units a leg holds, a header or a body being one
    MaxFaults,     \* bound: kills, crashes and failures to open
    None

ASSUME SessionAssumption ==
    /\ Kinds \subseteq {"exec", "mcp", "http", "sse", "tcp", "udp", "download", "upload"}
    /\ MaxMsgs \in Nat /\ Cap \in Nat \ {0} /\ MaxFaults \in Nat

VARIABLES
    kind,       \* what the command asked for
    stubborn,   \* X does not take the hint: it outlives its closed pipes, or ignores the end of its input
    leg,        \* leg -> its queue, whether its writer has ended it, whether its reader is gone
    hand,       \* process and direction -> units it is in the middle of writing
    have,       \* process -> leg -> the header a read in progress has taken
    pc,         \* process -> where it is
    todo,       \* messages C has still to send
    heard,      \* messages X has read
    owes,       \* answers X has still to write
    said,       \* what X has written, per stream
    got,        \* what C has read, per stream
    staged,     \* the sender's store holds the blob under a temp tag
    part,       \* blocks of the blob in the receiver's temporary file
    dest,       \* the file at the destination
    result,     \* what C was told
    faults,     \* counter for the bound
    torn        \* history: a read in progress was cancelled

session == <<kind, stubborn>>
ends == <<todo, heard, owes, said, got, result>>
blob == <<staged, part, dest>>
vars == <<session, leg, hand, have, pc, ends, blob, faults, torn>>

Procs == {"C", "D", "E"}
Legs == {"cd", "de", "ex", "xe", "xr", "ed", "dc"}
Writer == [cd |-> "C", de |-> "D", ex |-> "E", xe |-> "X", xr |-> "X", ed |-> "E", dc |-> "D"]
Reader == [cd |-> "D", de |-> "E", ex |-> "X", xe |-> "E", xr |-> "E", ed |-> "D", dc |-> "C"]
Out == [C |-> [up |-> "cd", dn |-> "cd"], D |-> [up |-> "de", dn |-> "dc"], E |-> [up |-> "ex", dn |-> "ed"]]
Tags == {"DATA", "STDERR", "RESULT", "EXIT"}
Unit == [k : {"head", "body", "raw"}, tag : Tags, m : 0 .. MaxMsgs]

Head5(t, m) == [k |-> "head", tag |-> t, m |-> m]
Body(t, m) == [k |-> "body", tag |-> t, m |-> m]
Raw(m) == [k |-> "raw", tag |-> "DATA", m |-> m]

\* write_frame: the header, then the payload.
Frame(t, m) == <<Head5(t, m), Body(t, m)>>
OkResult == Frame("RESULT", 1)
ErrResult == Frame("RESULT", 0)

Finals == {"done", "failed", "gone"}        \* of C
Child == kind \in {"exec", "mcp"}
Bridge == kind \in {"http", "sse"}
Pipe == kind = "mcp" \/ Bridge
Socket == kind \in {"tcp", "udp"}

TypeOK ==
    /\ kind \in Kinds /\ stubborn \in BOOLEAN /\ torn \in BOOLEAN /\ staged \in BOOLEAN
    /\ leg \in [Legs -> [q : UNION {[1 .. n -> Unit] : n \in 0 .. Cap}, fin : {"no", "fin", "reset"}, dead : BOOLEAN]]
    /\ \A p \in Procs, w \in {"up", "dn"} : \A i \in 1 .. Len(hand[p][w]) : hand[p][w][i] \in Unit
    /\ have \in [Procs -> [Legs -> Tags \cup {None}]]
    /\ pc.C \in {"start", "loop"} \cup Finals
    /\ pc.D \in {"open", "start", "loop", "fetch", "reply", "ended"}
    /\ pc.E \in {"none", "start", "loop", "wait", "join", "held", "fetch", "reply", "ended"}
    /\ pc.X \in {"none", "running", "closed", "exited", "crashed"}
    /\ todo \in 0 .. MaxMsgs /\ part \in 0 .. 2 /\ faults \in 0 .. MaxFaults
    /\ dest \in {"old", "new"} /\ result \in {None, "ok", "error"}

Init ==
    /\ kind \in Kinds
    /\ stubborn \in IF Child THEN BOOLEAN ELSE {FALSE}
    /\ leg = [l \in Legs |-> [q |-> <<>>, fin |-> "no", dead |-> FALSE]]
    /\ hand = [p \in Procs |-> [up |-> <<>>, dn |-> <<>>]]
    /\ have = [p \in Procs |-> [l \in Legs |-> None]]
    /\ pc = [C |-> IF kind = "exec" \/ Socket THEN "loop" ELSE "start", D |-> "open", E |-> "none", X |-> "none"]
    /\ todo = IF Pipe \/ Socket THEN MaxMsgs ELSE 0
    /\ heard = <<>> /\ owes = <<>>
    /\ said = [out |-> <<>>, err |-> <<>>] /\ got = [out |-> <<>>, err |-> <<>>]
    /\ staged = FALSE /\ part = 0 /\ dest = "old" /\ result = None
    /\ faults = 0 /\ torn = FALSE

-----------------------------------------------------------------------------
(* Legs, frames and reads.                                                 *)

\* Datagrams outside the tunnel: a full buffer drops them.
Datagrams(l) == kind = "udp" /\ l \in {"cd", "ex", "xe", "dc"}
Pop(l) == [leg EXCEPT ![l].q = Tail(@)]
Fin(l) == [leg EXCEPT ![l].fin = IF @ = "no" THEN "fin" ELSE @]
Avail(l) == leg[l].q # <<>>
Room(l) == Len(leg[l].q) < Cap
Accepts(l) == Room(l) \/ Datagrams(l)
Push(l, u) == IF Room(l) THEN [leg EXCEPT ![l].q = Append(@, u)] ELSE leg
Ended(l) == leg[l].q = <<>> /\ leg[l].fin # "no"
Writing(p) == hand[p].up # <<>> \/ hand[p].dn # <<>>

\* A process that ends finishes what it writes and stops what it reads, dropped streams included.
Closed(p, how) ==
    [l \in Legs |->
        CASE Writer[l] = p -> [leg[l] EXCEPT !.fin = IF @ = "no" THEN how ELSE @]
          [] Reader[l] = p -> [leg[l] EXCEPT !.q = <<>>, !.dead = TRUE]
          [] OTHER -> leg[l]]

Forget(p) == have' = [have EXCEPT ![p] = [l \in Legs |-> None]] /\ hand' = [hand EXCEPT ![p] = [up |-> <<>>, dn |-> <<>>]]

\* read_frame: the header is taken off the stream first ...
ReadHead(p, l) ==
    /\ have[p][l] = None /\ Avail(l) /\ leg[l].q[1].k = "head"
    /\ have' = [have EXCEPT ![p][l] = leg[l].q[1].tag]
    /\ leg' = Pop(l)
    /\ UNCHANGED <<session, hand, pc, ends, blob, faults, torn>>

\* ... then its payload: only now has the read completed.
Whole(p, l) == have[p][l] # None /\ Avail(l) /\ leg[l].q[1].k = "body"
Tag(l) == leg[l].q[1].tag
Msg(l) == leg[l].q[1].m
Eof(p, l) == have[p][l] = None /\ leg[l].q = <<>> /\ leg[l].fin = "fin"
Broken(p, l) ==
    \/ have[p][l] = None /\ Avail(l) /\ leg[l].q[1].k = "body"         \* a payload taken for a header: an unknown tag
    \/ leg[l].q = <<>> /\ (leg[l].fin = "reset" \/ (leg[l].fin = "fin" /\ have[p][l] # None))

\* A payload taken for a header may also look like one, and disappear.
Misread(p, l) ==
    /\ have[p][l] = None /\ Avail(l) /\ leg[l].q[1].k = "body"
    /\ leg' = Pop(l)
    /\ UNCHANGED <<session, hand, have, pc, ends, blob, faults, torn>>

\* select!: the branch on l completes and the reads in progress of the others are dropped.
Settle(p, l) ==
    /\ have' = [have EXCEPT ![p] = [k \in Legs |-> None]]
    /\ torn' = (torn \/ \E k \in Legs \ {l} : have[p][k] # None)

Written_Short(l) == TRUE
\* write_all: a write waits until the leg has room.
Written(l) == Accepts(l)

Flush(p, w) ==
    LET l == Out[p][w] IN
    /\ hand[p][w] # <<>> /\ ~leg[l].dead /\ Written(l)
    /\ leg' = Push(l, hand[p][w][1])
    /\ hand' = [hand EXCEPT ![p][w] = Tail(@)]
    /\ UNCHANGED <<session, have, pc, ends, blob, faults, torn>>

Refused(p) == \E w \in {"up", "dn"} : hand[p][w] # <<>> /\ leg[Out[p][w]].dead

Fault == faults < MaxFaults /\ faults' = faults + 1
NoFault == UNCHANGED faults

-----------------------------------------------------------------------------
(* The command (client.rs).                                                *)

EndC(how, told) ==
    /\ pc' = [pc EXCEPT !.C = how] /\ result' = told
    /\ leg' = Closed("C", "fin") /\ Forget("C")

\* mcp_run's standard input: a message is framed and sent, its end is passed on as a half-close.
CStdin ==
    /\ Pipe /\ pc.C = "loop" /\ ~Writing("C") /\ leg["cd"].fin = "no"
    /\ \/ /\ todo > 0 /\ todo' = todo - 1
          /\ hand' = [hand EXCEPT !.C.up = Frame("DATA", MaxMsgs - todo + 1)] /\ UNCHANGED leg
       \/ todo = 0 /\ leg' = Fin("cd") /\ UNCHANGED <<hand, todo>>
    /\ Settle("C", "cd")
    /\ UNCHANGED <<session, pc, heard, owes, said, got, result, blob, faults>>

CPolls == ~Socket /\ pc.C \in {"start", "loop"} /\ ~Writing("C")

\* mcp_run and transfer wait for the result of the start, or of it all.
CResult ==
    /\ CPolls /\ pc.C = "start"
    /\ \/ /\ Whole("C", "dc") /\ Tag("dc") = "RESULT" /\ Msg("dc") = 1
          /\ IF Pipe
             THEN /\ pc' = [pc EXCEPT !.C = "loop"] /\ leg' = Pop("dc")
                  /\ have' = [have EXCEPT !.C["dc"] = None] /\ UNCHANGED <<hand, result>>
             ELSE EndC("done", "ok")
       \/ Whole("C", "dc") /\ (Tag("dc") # "RESULT" \/ Msg("dc") = 0) /\ EndC("failed", "error")
       \/ (Eof("C", "dc") \/ Broken("C", "dc")) /\ EndC("failed", "error")
    /\ UNCHANGED <<session, todo, heard, owes, said, got, blob, faults, torn>>

\* Output is printed ...
CPrint ==
    /\ CPolls /\ pc.C = "loop" /\ Whole("C", "dc") /\ Tag("dc") \in {"DATA", "STDERR"}
    /\ got' = IF Tag("dc") = "DATA" THEN [got EXCEPT !.out = Append(@, Msg("dc"))]
                                   ELSE [got EXCEPT !.err = Append(@, Msg("dc"))]
    /\ leg' = Pop("dc") /\ Settle("C", "dc")
    /\ UNCHANGED <<session, hand, pc, todo, heard, owes, said, result, blob, faults>>

\* ... EXIT ends exec, anything else or the end of the stream ends mcp_run.
CEnd ==
    /\ CPolls /\ pc.C = "loop"
    /\ \/ Whole("C", "dc") /\ Tag("dc") \notin {"DATA", "STDERR"} /\ EndC("done", "ok")
       \/ Eof("C", "dc") /\ (IF Pipe THEN EndC("done", "ok") ELSE EndC("failed", "error"))
       \/ Broken("C", "dc") /\ EndC("failed", "error")
    /\ UNCHANGED <<session, todo, heard, owes, said, got, blob, faults, torn>>

CWriteFails ==
    /\ Refused("C") /\ EndC("failed", "error")
    /\ UNCHANGED <<session, todo, heard, owes, said, got, blob, faults, torn>>

\* A local application behind a proxy: over TCP it sends, ends its half, and reads to the end; over
\* UDP it sends and closes the control connection of its association when it likes.
CSocket ==
    /\ Socket /\ pc.C = "loop"
    /\ \/ /\ todo > 0 /\ ~leg["cd"].dead /\ Accepts("cd") /\ (kind = "udp" => pc.D = "loop") /\ todo' = todo - 1
          /\ leg' = Push("cd", Raw(MaxMsgs - todo + 1)) /\ UNCHANGED <<hand, have, pc, got, result>>
       \/ /\ kind = "tcp" /\ todo = 0 /\ leg["cd"].fin = "no" /\ leg' = Fin("cd")
          /\ UNCHANGED <<todo, hand, have, pc, got, result>>
       \/ kind = "udp" /\ todo = 0 /\ EndC("done", "ok") /\ UNCHANGED <<todo, got>>
       \/ /\ Avail("dc") /\ got' = [got EXCEPT !.out = Append(@, Msg("dc"))] /\ leg' = Pop("dc")
          /\ UNCHANGED <<todo, hand, have, pc, result>>
       \/ /\ Ended("dc") /\ (leg["cd"].fin # "no" \/ leg["cd"].dead)
          /\ EndC(IF leg["dc"].fin = "fin" THEN "done" ELSE "failed", "ok") /\ UNCHANGED <<todo, got>>
    /\ UNCHANGED <<session, heard, owes, said, blob, faults, torn>>

\* The command is interrupted.
CKill ==
    /\ pc.C \notin Finals /\ Fault /\ EndC("gone", None)
    /\ UNCHANGED <<session, todo, heard, owes, said, got, blob, torn>>

-----------------------------------------------------------------------------
(* The daemon's handler (daemon.rs, daemon/proxy.rs).                      *)

EndD(how) == pc' = [pc EXCEPT !.D = "ended"] /\ leg' = Closed("D", how) /\ Forget("D")
Answer(frames) == pc' = [pc EXCEPT !.D = "reply"] /\ hand' = [hand EXCEPT !.D.dn = frames]

\* get_conn and open_bi; an upload has staged its file before.
DOpen ==
    /\ pc.D = "open"
    /\ pc' = [pc EXCEPT !.D = IF kind = "exec" THEN "loop" ELSE "start", !.E = "start"]
    /\ leg' = IF kind = "upload" THEN Fin("de") ELSE leg
    /\ staged' = (kind = "upload")
    /\ UNCHANGED <<session, hand, have, ends, part, dest, faults, torn>>

\* The failure is reported in the terms of each command.
DOpenFails ==
    /\ pc.D = "open" /\ Fault
    /\ \/ kind = "exec" /\ Answer(Frame("STDERR", 0) \o Frame("EXIT", 1)) /\ UNCHANGED <<leg, have>>
       \/ ~(kind = "exec" \/ Socket) /\ Answer(ErrResult) /\ UNCHANGED <<leg, have>>
       \/ Socket /\ EndD("fin")
    /\ UNCHANGED <<session, ends, blob, torn>>

EdgeDropped == [Fin("de") EXCEPT !["ed"].q = <<>>, !["ed"].dead = TRUE]

\* The Edge's first answer, which is a RESULT; anything else is a failure.
Started == Whole("D", "ed") /\ Tag("ed") = "RESULT" /\ Msg("ed") = 1
Rejected == (Whole("D", "ed") /\ Msg("ed") = 0) \/ Eof("D", "ed") \/ Broken("D", "ed")
TakeResult(next) ==
    /\ leg' = Pop("ed") /\ have' = [have EXCEPT !.D["ed"] = None] /\ pc' = [pc EXCEPT !.D = next]

\* relay_mcp passes it on.
DResult ==
    /\ Pipe /\ pc.D = "start" /\ ~Writing("D")
    /\ \/ Started /\ TakeResult("loop") /\ hand' = [hand EXCEPT !.D.dn = OkResult]
       \/ Rejected /\ Answer(ErrResult) /\ leg' = EdgeDropped /\ UNCHANGED have
    /\ UNCHANGED <<session, ends, blob, faults, torn>>

\* do_upload is done with it, do_download knows what to fetch.
DTransfer ==
    /\ kind \in {"download", "upload"} /\ pc.D = "start" /\ ~Writing("D")
    /\ \/ kind = "download" /\ Started /\ TakeResult("fetch") /\ UNCHANGED hand
       \/ kind = "upload" /\ Started /\ TakeResult("reply") /\ hand' = [hand EXCEPT !.D.dn = OkResult]
       \/ Rejected /\ Answer(ErrResult) /\ leg' = EdgeDropped /\ UNCHANGED have
    /\ staged' = (staged /\ kind # "upload")
    /\ UNCHANGED <<session, ends, part, dest, faults, torn>>

\* open_tcp_tunnel and open_udp_tunnel: the tunnel stands, or the application is turned away.
DTunnel ==
    /\ Socket /\ pc.D = "start" /\ ~Writing("D")
    /\ (Started /\ TakeResult("loop") /\ UNCHANGED hand) \/ (Rejected /\ EndD("fin"))
    /\ UNCHANGED <<session, ends, blob, faults, torn>>

\* A handler ends when its answer is written; the streams to the Edge are dropped with it.
DReply ==
    /\ pc.D = "reply" /\ ~Writing("D") /\ EndD("fin")
    /\ UNCHANGED <<session, ends, blob, faults, torn>>

DLoop == pc.D = "loop" /\ ~Writing("D")
DPolls(l) ==
    \/ l = "ed" /\ (pc.D = "start" \/ (pc.D = "loop" /\ kind # "tcp")) /\ ~Writing("D")
    \/ l = "cd" /\ Pipe /\ DLoop /\ leg["de"].fin = "no"

OnClientEof_Ignored == leg
\* relay_mcp: the end of the command's stream half-closes the Edge's.
OnClientEof == Fin("de")

\* relay_mcp, towards the Edge.
DUp ==
    /\ DPolls("cd")
    /\ \/ /\ Whole("D", "cd") /\ Tag("cd") = "DATA"
          /\ hand' = [hand EXCEPT !.D.up = Frame("DATA", Msg("cd"))] /\ leg' = Pop("cd") /\ Settle("D", "cd") /\ UNCHANGED pc
       \/ Eof("D", "cd") /\ leg' = OnClientEof /\ Settle("D", "cd") /\ UNCHANGED <<hand, pc>>
       \/ Broken("D", "cd") /\ EndD("fin") /\ UNCHANGED torn
    /\ UNCHANGED <<session, ends, blob, faults>>

\* serve_socks_udp, towards the Edge.
DDatagram ==
    /\ kind = "udp" /\ DLoop /\ Avail("cd")
    /\ hand' = [hand EXCEPT !.D.up = Frame("DATA", Msg("cd"))] /\ leg' = Pop("cd") /\ Settle("D", "cd")
    /\ UNCHANGED <<session, pc, ends, blob, faults>>

\* relay_mcp and relay_exec, towards the command.
DDown ==
    /\ DPolls("ed") /\ pc.D = "loop" /\ kind # "udp"
    /\ \/ /\ Whole("D", "ed") /\ Tag("ed") \in {"DATA", "STDERR", "EXIT"}
          /\ hand' = [hand EXCEPT !.D.dn = Frame(Tag("ed"), Msg("ed"))]
          /\ pc' = [pc EXCEPT !.D = IF Tag("ed") = "EXIT" THEN "reply" ELSE "loop"]
          /\ leg' = Pop("ed") /\ Settle("D", "ed")
       \/ (Eof("D", "ed") \/ Broken("D", "ed")) /\ EndD("fin") /\ UNCHANGED torn
    /\ UNCHANGED <<session, ends, blob, faults>>

\* serve_socks_udp, towards the application.
DDeliver ==
    /\ DPolls("ed") /\ pc.D = "loop" /\ kind = "udp"
    /\ \/ /\ Whole("D", "ed") /\ hand' = [hand EXCEPT !.D.dn = <<Raw(Msg("ed"))>>]
          /\ leg' = Pop("ed") /\ Settle("D", "ed") /\ UNCHANGED pc
       \/ (Eof("D", "ed") \/ Broken("D", "ed")) /\ EndD("fin") /\ UNCHANGED torn
    /\ UNCHANGED <<session, ends, blob, faults>>

\* relay_exec watches the command, serve_socks_udp the control connection: when it is gone, the
\* streams to the Edge are dropped.
DClientGone ==
    /\ kind \in {"exec", "udp"} /\ DLoop /\ leg["cd"].fin # "no" /\ EndD("fin")
    /\ UNCHANGED <<session, ends, blob, faults, torn>>

DWriteFails ==
    /\ Refused("D") /\ EndD("fin")
    /\ staged' = (staged /\ kind # "upload")
    /\ UNCHANGED <<session, ends, part, dest, faults, torn>>

\* The daemon is killed: the command sees the end of its stream, the Edge a lost connection.
DKill ==
    /\ pc.D # "ended" /\ Fault /\ pc' = [pc EXCEPT !.D = "ended"] /\ Forget("D")
    /\ leg' = [Closed("D", "fin") EXCEPT !["de"].fin = "reset"]
    /\ staged' = (staged /\ kind # "upload")
    /\ part' = IF kind = "download" THEN 0 ELSE part
    /\ UNCHANGED <<session, ends, dest, torn>>

-----------------------------------------------------------------------------
(* Copies without frames (bridge_tcp, serve_tcp): each direction by itself. *)

In == [D |-> [up |-> "cd", dn |-> "ed"], E |-> [up |-> "de", dn |-> "xe"]]
End(p) == IF p = "D" THEN EndD("fin") ELSE pc' = [pc EXCEPT !.E = "ended"] /\ leg' = Closed("E", "fin") /\ Forget("E")

Copy(p, w) ==
    LET i == In[p][w]
        o == Out[p][w]
    IN /\ kind = "tcp" /\ pc[p] = "loop" /\ hand[p][w] = <<>>
       /\ \A v \in {"up", "dn"} : hand[p][v] # <<>> => hand[p][v][1].k = "raw"      \* the result comes first
       /\ \/ /\ Avail(i) /\ leg[i].q[1].k = "raw" /\ hand' = [hand EXCEPT ![p][w] = <<leg[i].q[1]>>]
             /\ leg' = Pop(i) /\ UNCHANGED <<have, pc>>
          \/ leg[i].q = <<>> /\ leg[i].fin = "fin" /\ leg[o].fin = "no" /\ leg' = Fin(o) /\ UNCHANGED <<hand, have, pc>>
          \/ leg[i].q = <<>> /\ leg[i].fin = "reset" /\ End(p)
       /\ UNCHANGED <<session, ends, blob, faults, torn>>

\* try_join: done when both directions are, or when a write of either fails.
CopyEnds(p) ==
    /\ kind = "tcp" /\ pc[p] = "loop"
    /\ (leg[Out[p].up].fin # "no" /\ leg[Out[p].dn].fin # "no") \/ Refused(p)
    /\ End(p)
    /\ UNCHANGED <<session, ends, blob, faults, torn>>

-----------------------------------------------------------------------------
(* Blobs (transport: fetch_to_file).                                       *)

\* Blocks go to a temporary file beside the destination; without its tag the sender's store may have
\* dropped the blob.
Fetch(p) ==
    /\ pc[p] = "fetch" /\ staged /\ part < 2 /\ part' = part + 1
    /\ UNCHANGED <<session, leg, hand, have, pc, ends, staged, dest, faults, torn>>

FetchFails(p) ==
    /\ pc[p] = "fetch"
    /\ (~staged /\ NoFault) \/ Fault
    /\ part' = 0
    /\ pc' = [pc EXCEPT ![p] = "reply"] /\ hand' = [hand EXCEPT ![p].dn = ErrResult]
    /\ leg' = IF p = "D" THEN Fin("de") ELSE leg
    /\ UNCHANGED <<session, have, ends, staged, dest, torn>>

Complete == part = 2

\* The verified file replaces the destination in one step, then the other side is told.
Install(p) ==
    /\ pc[p] = "fetch" /\ Complete
    /\ dest' = IF part = 2 THEN "new" ELSE "partial"
    /\ part' = 0
    /\ pc' = [pc EXCEPT ![p] = "reply"] /\ hand' = [hand EXCEPT ![p].dn = OkResult]
    /\ leg' = IF p = "D" THEN Fin("de") ELSE leg
    /\ UNCHANGED <<session, have, ends, staged, faults, torn>>

-----------------------------------------------------------------------------
(* The Edge's handler (iroh_edge.rs, runtime.rs, mcp_http.rs, proxy.rs).   *)

\* terminate_child, or kill_on_drop on the paths that return early.
EndE ==
    /\ pc' = [pc EXCEPT !.E = "ended", !.X = IF Child /\ @ \in {"running", "closed"} THEN "exited" ELSE @]
    /\ leg' = LET c == Closed("E", "fin") IN
              IF Child THEN [c EXCEPT !["ex"] = [@ EXCEPT !.q = <<>>, !.dead = TRUE]] ELSE c
    /\ Forget("E")

\* A child or a bridge starts; mcp_stdio and bridge say so, run_exec goes straight to its output.
EStart ==
    /\ (Child \/ Bridge) /\ pc.E = "start" /\ pc' = [pc EXCEPT !.E = "loop", !.X = "running"]
    /\ hand' = IF kind = "exec" THEN hand ELSE [hand EXCEPT !.E.dn = OkResult]
    /\ UNCHANGED <<session, leg, have, ends, blob, faults, torn>>

\* serve_tcp and serve_udp: the sockets are there before the result.
EConnect ==
    /\ Socket /\ pc.E = "start" /\ pc' = [pc EXCEPT !.E = "loop", !.X = "running"]
    /\ hand' = [hand EXCEPT !.E.dn = OkResult]
    /\ UNCHANGED <<session, leg, have, ends, blob, faults, torn>>

\* PrepareDownload stages the file under a temp tag and says so.
EStage ==
    /\ kind = "download" /\ pc.E = "start" /\ pc' = [pc EXCEPT !.E = "held"] /\ staged' = TRUE
    /\ hand' = [hand EXCEPT !.E.dn = OkResult]
    /\ UNCHANGED <<session, leg, have, ends, part, dest, faults, torn>>

\* ReceiveUpload fetches before it answers.
EReceive ==
    /\ kind = "upload" /\ pc.E = "start" /\ pc' = [pc EXCEPT !.E = "fetch"]
    /\ UNCHANGED <<session, leg, hand, have, ends, blob, faults, torn>>

\* No such program, server, target or file.
EStartFails ==
    /\ kind # "upload" /\ pc.E = "start" /\ Fault /\ pc' = [pc EXCEPT !.E = "reply"]
    /\ hand' = [hand EXCEPT !.E.dn = IF kind = "exec" THEN Frame("STDERR", 0) \o Frame("EXIT", 0) ELSE ErrResult]
    /\ UNCHANGED <<session, leg, have, ends, blob, torn>>

EReply ==
    /\ pc.E = "reply" /\ ~Writing("E") /\ EndE
    /\ UNCHANGED <<session, ends, blob, faults, torn>>

EHeld_Early == pc.E = "held" /\ ~Writing("E")
EHeld == pc.E = "held" /\ ~Writing("E") /\ Ended("de")

\* PrepareDownload keeps the temp tag until the Client closes the stream.
ERelease ==
    /\ EHeld /\ EndE /\ staged' = FALSE
    /\ UNCHANGED <<session, ends, part, dest, faults, torn>>

ELoop == (Child \/ kind = "udp") /\ pc.E = "loop" /\ ~Writing("E")
EPolls ==
    \/ kind \in {"mcp", "udp"} /\ ELoop /\ leg["ex"].fin = "no"
    \/ Bridge /\ pc.E = "loop" /\ hand.E.up = <<>> /\ leg["ex"].q = <<>> /\ (kind = "http" => owes = <<>> /\ leg["xe"].q = <<>>)

HalfClose_Terminates == EndE /\ UNCHANGED torn
\* The end of the Client's stream closes the child's standard input and nothing else.
HalfClose == leg' = Fin("ex") /\ Settle("E", "de") /\ UNCHANGED <<hand, pc>>

\* streamable and legacy_sse return: they own the Client's stream and drop it.
Joining(legs) == pc' = [pc EXCEPT !.E = "join"] /\ leg' = [legs EXCEPT !["de"].q = <<>>, !["de"].dead = TRUE]

\* An error goes to the queue of a bridge's writer, if it still runs.
Reported == [hand EXCEPT !.E.up = <<>>, !.E.dn = IF leg["ed"].fin = "no" THEN @ \o Frame("STDERR", 0) ELSE @]

Take == Whole("E", "de") /\ hand' = [hand EXCEPT !.E.up = <<Raw(Msg("de"))>>] /\ leg' = Pop("de")

\* mcp_stdio, towards its child.
EUp ==
    /\ kind = "mcp" /\ EPolls
    /\ \/ Take /\ Settle("E", "de") /\ UNCHANGED pc
       \/ Eof("E", "de") /\ HalfClose
       \/ Broken("E", "de") /\ EndE /\ UNCHANGED torn
    /\ UNCHANGED <<session, ends, blob, faults>>

\* serve_udp, towards the network.
EDatagram ==
    /\ kind = "udp" /\ EPolls
    /\ \/ Take /\ Settle("E", "de") /\ UNCHANGED pc
       \/ (Eof("E", "de") \/ Broken("E", "de")) /\ EndE /\ UNCHANGED torn
    /\ UNCHANGED <<session, ends, blob, faults>>

\* A bridge reads the next message when the last one was accepted, streamable also answered; at the end
\* it waits for its writer.
EPost ==
    /\ Bridge /\ EPolls
    /\ \/ Take /\ Settle("E", "de") /\ UNCHANGED pc
       \/ Eof("E", "de") /\ Joining(leg) /\ UNCHANGED <<hand, have, torn>>
       \/ Broken("E", "de") /\ Joining(leg) /\ hand' = Reported /\ UNCHANGED <<have, torn>>
    /\ UNCHANGED <<session, ends, blob, faults>>

\* Standard output and standard error of the child, and datagrams; mcp_stdio ends with the first.
EOut(l) ==
    /\ ELoop
    /\ \/ /\ Avail(l) /\ leg' = Pop(l) /\ Settle("E", l) /\ UNCHANGED pc
          /\ hand' = [hand EXCEPT !.E.dn = Frame(IF l = "xe" THEN "DATA" ELSE "STDERR", Msg(l))]
       \/ l = "xe" /\ kind = "mcp" /\ Ended("xe") /\ EndE /\ UNCHANGED torn
    /\ UNCHANGED <<session, ends, blob, faults>>

PipesDone == Ended("xe") /\ Ended("xr")

\* run_exec: with both pipes at their end it waits for the child, and for nothing else.
EPipesDone ==
    /\ kind = "exec" /\ ELoop /\ PipesDone
    /\ pc' = [pc EXCEPT !.E = "wait"]
    /\ UNCHANGED <<session, leg, hand, have, ends, blob, faults, torn>>

EExit ==
    /\ pc.E = "wait" /\ pc.X \in {"exited", "crashed"}
    /\ pc' = [pc EXCEPT !.E = "reply"] /\ hand' = [hand EXCEPT !.E.dn = Frame("EXIT", 1)]
    /\ UNCHANGED <<session, leg, have, ends, blob, faults, torn>>

ClientGone_Unwatched == FALSE
\* run_exec: anything on the Client's stream, its end included, cancels the command.
ClientGone == leg["de"].fin # "no"
EClientGone ==
    /\ kind = "exec" /\ ELoop /\ ClientGone /\ EndE
    /\ UNCHANGED <<session, ends, blob, faults, torn>>

\* The HTTP bridges: answers and events are queued for the writer, a task of its own.  Without it
\* streamable gives up, the reader of legacy_sse only stops.
EEvent ==
    /\ Bridge /\ pc.E = "loop" /\ Avail("xe")
    /\ IF leg["ed"].fin # "no" /\ kind = "http" THEN Joining(Pop("xe")) ELSE leg' = Pop("xe") /\ UNCHANGED pc
    /\ hand' = IF leg["ed"].fin = "no" THEN [hand EXCEPT !.E.dn = @ \o Frame("DATA", Msg("xe"))] ELSE hand
    /\ UNCHANGED <<session, have, ends, blob, faults, torn>>

\* legacy_sse gets no event stream, or no endpoint in it: the failure follows the result.
ENoStream ==
    /\ kind = "sse" /\ pc.E = "start" /\ Fault /\ Joining(leg)
    /\ hand' = [hand EXCEPT !.E.dn = OkResult \o Frame("STDERR", 0)]
    /\ UNCHANGED <<session, have, ends, blob, torn>>

\* The writer ends only when a write fails: bridge itself still holds a sender.
EJoin ==
    /\ Bridge /\ pc.E = "join" /\ leg["ed"].fin # "no" /\ EndE
    /\ UNCHANGED <<session, ends, blob, faults, torn>>

\* send_udp: a name that does not resolve, or a send that fails, ends the association.
ESendFails ==
    /\ kind = "udp" /\ pc.E = "loop" /\ hand.E.up # <<>> /\ Fault /\ EndE
    /\ UNCHANGED <<session, ends, blob, torn>>

\* A write fails: the handler ends, but for a bridge, whose writer ends by itself and whose POST is reported.
EWriteFails ==
    /\ \/ ~Bridge /\ Refused("E") /\ (kind = "tcp" => pc.E # "loop") /\ EndE
       \/ /\ Bridge /\ hand.E.dn # <<>> /\ leg["ed"].dead
          /\ hand' = [hand EXCEPT !.E.dn = <<>>] /\ leg' = Fin("ed") /\ UNCHANGED <<have, pc>>
       \/ /\ Bridge /\ hand.E.up # <<>> /\ leg["ex"].dead
          /\ Joining(leg) /\ hand' = Reported /\ UNCHANGED have
    /\ staged' = (staged /\ kind # "download")
    /\ UNCHANGED <<session, ends, part, dest, faults, torn>>

-----------------------------------------------------------------------------
(* The other end: a child that serves one request after the other, an HTTP *)
(* server, a TCP target (all external).                                    *)

Serves == Pipe \/ kind = "udp"

XRead ==
    /\ pc.X = "running" /\ Avail("ex") /\ owes = <<>>
    /\ heard' = Append(heard, Msg("ex")) /\ leg' = Pop("ex")
    /\ owes' = IF Serves THEN <<Msg("ex")>> ELSE <<>>
    /\ UNCHANGED <<session, hand, have, pc, todo, said, got, result, blob, faults, torn>>

XSay ==
    /\ pc.X = "running" /\ leg["xe"].fin = "no" /\ Accepts("xe")
    /\ \/ owes # <<>> /\ leg' = Push("xe", Raw(Head(owes))) /\ owes' = Tail(owes)
          /\ said' = [said EXCEPT !.out = Append(@, Head(owes))]
       \/ /\ ~Serves /\ Len(said.out) < MaxMsgs /\ UNCHANGED owes
          /\ leg' = Push("xe", Raw(Len(said.out) + 1)) /\ said' = [said EXCEPT !.out = Append(@, Len(said.out) + 1)]
    /\ UNCHANGED <<session, hand, have, pc, todo, heard, got, result, blob, faults, torn>>

XComplains ==
    /\ Child /\ pc.X = "running" /\ said.err = <<>>
    /\ leg' = Push("xr", Raw(1)) /\ said' = [said EXCEPT !.err = <<1>>]
    /\ UNCHANGED <<session, hand, have, pc, todo, heard, owes, got, result, blob, faults, torn>>

\* A command ends when it likes, a server when its input does, a target ends its half and then reads
\* to the end; a stubborn command only closes its pipes.
XEnds ==
    /\ pc.X = "running"
    /\ \/ /\ kind = "exec" /\ leg' = Closed("X", "fin")
          /\ pc' = [pc EXCEPT !.X = IF stubborn THEN "closed" ELSE "exited"]
       \/ /\ kind = "mcp" /\ ~stubborn /\ Ended("ex") /\ owes = <<>>
          /\ leg' = Closed("X", "fin") /\ pc' = [pc EXCEPT !.X = "exited"]
       \/ kind = "tcp" /\ Len(said.out) = MaxMsgs /\ leg["xe"].fin = "no" /\ leg' = Fin("xe") /\ UNCHANGED pc
       \/ /\ kind = "tcp" /\ leg["xe"].fin # "no" /\ Ended("ex")
          /\ leg' = Closed("X", "fin") /\ pc' = [pc EXCEPT !.X = "exited"]
    /\ UNCHANGED <<session, hand, have, ends, blob, faults, torn>>

XCrashes ==
    /\ pc.X = "running" /\ kind # "udp" /\ Fault /\ pc' = [pc EXCEPT !.X = "crashed"] /\ owes' = <<>>
    /\ leg' = Closed("X", IF kind = "tcp" THEN "reset" ELSE "fin")
    /\ UNCHANGED <<session, hand, have, todo, heard, said, got, result, blob, torn>>

\* Datagrams get lost outside the tunnel.
Lose(l) ==
    /\ kind = "udp" /\ Avail(l) /\ leg' = Pop(l)
    /\ UNCHANGED <<session, hand, have, pc, ends, blob, faults, torn>>

-----------------------------------------------------------------------------

C == (\/ CStdin \/ CResult \/ CPrint \/ CEnd \/ CWriteFails \/ CSocket \/ Flush("C", "up")
      \/ CPolls /\ (ReadHead("C", "dc") \/ Misread("C", "dc")))
D == (\/ DOpen \/ DOpenFails \/ DResult \/ DTransfer \/ DTunnel \/ DReply
      \/ DUp \/ DDatagram \/ DDown \/ DDeliver \/ DClientGone \/ DWriteFails
      \/ \E l \in {"cd", "ed"} : DPolls(l) /\ (ReadHead("D", l) \/ Misread("D", l))
      \/ Fetch("D") \/ FetchFails("D") \/ Install("D")
      \/ CopyEnds("D") \/ \E w \in {"up", "dn"} : Flush("D", w) \/ Copy("D", w))
E == (\/ EStart \/ EConnect \/ EStage \/ EReceive \/ EStartFails \/ EReply \/ ERelease
      \/ EUp \/ EDatagram \/ EPost \/ EOut("xe") \/ EOut("xr") \/ EPipesDone \/ EExit \/ EClientGone
      \/ EEvent \/ EJoin \/ EWriteFails
      \/ EPolls /\ (ReadHead("E", "de") \/ Misread("E", "de"))
      \/ Fetch("E") \/ FetchFails("E") \/ Install("E")
      \/ CopyEnds("E") \/ \E w \in {"up", "dn"} : Flush("E", w) \/ Copy("E", w))
X == XRead \/ XSay \/ XComplains \/ XEnds

Next == C \/ D \/ E \/ X \/ CKill \/ DKill \/ XCrashes \/ ENoStream \/ ESendFails \/ \E l \in {"cd", "ex", "xe", "dc"} : Lose(l)

\* The processes run and the user's input ends; what exec runs need not.
Spec == Init /\ [][Next]_vars /\ WF_vars(C) /\ WF_vars(D) /\ WF_vars(E) /\ WF_vars(kind # "exec" /\ X)

-----------------------------------------------------------------------------
(* Safety.                                                                 *)

Asked == [i \in 1 .. MaxMsgs - todo |-> i]
Transparent ==
    /\ IsPrefix(got.out, said.out)
    /\ Pipe \/ kind = "tcp" => IsPrefix(heard, Asked)
    /\ pc.C = "failed" => faults > 0

\* mcp_run, exec and the TCP proxy are transparent pipes: each side reads what the other wrote, in order
\* and without gaps, and no command fails unprovoked.  Only a read of a frame that select! cancelled
\* halfway can damage a stream.
OnlyTornFramesDamage == torn \/ kind = "udp" \/ Transparent

\* What an end reads is what the other sent unless read_frame was cancelled inside a frame, and queues,
\* buffers and the destination of a transfer stay within what they can hold.
StreamsAreSound == TypeOK /\ OnlyTornFramesDamage

\* exec reports the end of a remote command only after all of its output, of both streams, whatever
\* order the pipes ended in (run_exec, relay_exec).
ExitMeansComplete == kind = "exec" /\ pc.C = "done" /\ pc.X # "none" => got = said

\* When nothing failed and no frame was torn, the command ends with everything the server wrote, after
\* the end of its input included, and the server with everything the command sent (the half-closes).
CleanEndLosesNothing ==
    (kind \in {"mcp", "tcp"} /\ faults = 0 /\ ~torn)
        => /\ pc.C = "done" => todo = 0 /\ got.out = said.out /\ Len(said.out) = MaxMsgs
           /\ pc.X = "exited" => heard = Asked /\ todo = 0

\* Together: a session that ends well has lost nothing, of exec's two output streams, of MCP or of TCP.
EndsAreComplete == ExitMeansComplete /\ CleanEndLosesNothing

\* A transfer that reports success has replaced the destination, and the blob stays in the sender's
\* store as long as the receiver fetches it: a transfer fails only by a fault.
TransfersTellTheTruth ==
    kind \in {"download", "upload"} => (result = "ok" => dest = "new") /\ (result = "error" => faults > 0)

-----------------------------------------------------------------------------
(* Liveness.                                                               *)

Blocked(p, w) == hand[p][w] # <<>> /\ ~leg[Out[p][w]].dead /\ ~Accepts(Out[p][w])

\* Two neighbours that write to each other and read neither.
Jammed ==
    \/ Blocked("D", "up") /\ Blocked("E", "dn")
    \/ Blocked("E", "up") /\ owes # <<>> /\ ~Accepts("xe")

\* A child the Edge waits for without watching the Client, or whose input it has only closed.
Unwatched == stubborn /\ ((kind = "exec" /\ pc.X = "closed") \/ (kind = "mcp" /\ leg["ex"].fin # "no"))

Left == pc.C \in Finals /\ ~Jammed /\ ~Unwatched

\* When the command is gone, however it went, its remote child ends too, unless the child outlives its
\* closed pipes or input, or a jam holds the session.
ChildrenDie == Left /\ Child ~> (pc.X \notin {"running", "closed"} \/ Jammed \/ Unwatched)

\* A bridge that waits for a writer which its own sender keeps alive.
HeldOpen == Bridge /\ pc.E = "join" /\ leg["ed"].fin = "no" /\ hand.E.dn = <<>>

\* When the command is gone the handlers on both sides end, with the same exceptions and that of an
\* HTTP bridge that waits for its writer.
SessionsEnd ==
    Left ~> ((pc.D = "ended" /\ pc.E \in {"none", "ended"}) \/ Jammed \/ Unwatched \/ HeldOpen)

=============================================================================
