------------------------------ MODULE Control ------------------------------
(***************************************************************************)
(* The topology that as-control keeps: Clients, Edges and Relays, the      *)
(* invitations through which they enrol, the provisioners that manage some *)
(* of them, the credential tombstones, and the two revisions.              *)
(*                                                                         *)
(* Every mutation holds the state lock from its checks to the end of       *)
(* commit_delta, so it is one action here.  What is read before the lock   *)
(* is taken is kept in `waiting': the clock of a claim or of a renewal,    *)
(* and the owner that the local `edge invite' command looked up under an   *)
(* earlier lock.  A request that is refused (a name in use, an             *)
(* expected_revision that is no longer current, a constraint of the        *)
(* database) changes nothing, and is not an action unless it was waiting.  *)
(* Memory and database move together; module ControlCommit separates them. *)
(***************************************************************************)
EXTENDS Integers, FiniteSets

CONSTANTS
    ClientKeys, EdgeKeys, RelayKeys,   \* endpoint ids that may claim each kind
    ClientNames, EdgeNames, RelayNames, Urls, QadPorts,
    Provisioners, ProvisionerNames,
    RequestIds, Ttls,
    Lifetime, RenewBefore, Retention,
    MaxInvites, MaxWaiting, MaxRevision, MaxTime,   \* bounds
    None

VARIABLES
    now,
    clients, edges, relays,       \* endpoint id -> record or None
    invites,                      \* invite id -> record or None
    drawn,                        \* invite ids drawn so far: they are never reused
    provisioners,                 \* endpoint id -> name or None
    revocations, revision, relayRevision,
    waiting,                      \* requests between their first reads and their turn
    dead                          \* history: credentials of removed nodes

topology == <<clients, edges, relays, provisioners>>
vars == <<now, topology, invites, drawn, revocations, revision, relayRevision, waiting, dead>>

Keys == ClientKeys \cup EdgeKeys
InviteIds == 1..MaxInvites

\* InviteKind with the name: what an invitation promises to its holder.
Slot == [tag : {"client"}, scope : {None}, name : ClientNames]
          \cup [tag : {"edge"}, scope : ClientKeys, name : EdgeNames]
          \cup [tag : {"relay"}, scope : Urls, name : RelayNames]

\* What a provisioner's request is recognised by when it comes again.
Hash == {None} \cup ({"client"} \X ClientNames \X Ttls)
          \cup ({"edge"} \X ClientNames \X EdgeNames \X Ttls)

Invite == [slot : Slot, exp : Int, state : {"pending", "claimed", "revoked"},
           claimedBy : Keys \cup RelayKeys \cup {None}, requestId : RequestIds \cup {None},
           managedBy : Provisioners \cup {None}, hash : Hash, terminalAt : Int \cup {None}]

Client == [name : ClientNames, managedBy : Provisioners \cup {None}, gen : Nat, exp : Int]
Edge == [name : EdgeNames, owner : ClientKeys, gen : Nat, exp : Int]
Relay == [name : RelayNames, url : Urls, qad : QadPorts \cup {None}]
Revocation == [through : Nat, exp : Int, rev : Nat]

\* What has been read of a request that waits for its turn.
Request ==
    [op : {"inviteEdge"}, ttl : Ttls, managedBy : Provisioners \cup {None},
     slot : [tag : {"edge"}, scope : ClientKeys, name : EdgeNames]]
    \cup [op : {"claim"}, invite : InviteIds, key : Keys \cup RelayKeys,
          qad : QadPorts \cup {None}, at : Int]
    \cup [op : {"renew"}, key : Keys, at : Int]

ASSUME BoundAssumption == MaxInvites \in Nat /\ MaxRevision \in Nat \ {0} /\ MaxTime \in Nat
ASSUME DurationAssumption ==
    /\ Lifetime \in Nat /\ RenewBefore \in Nat /\ RenewBefore < Lifetime
    /\ Retention \in Nat /\ Ttls \subseteq Nat
ASSUME NoneAssumption ==
    /\ None \notin Client \cup Edge \cup Relay \cup Invite \cup Revocation \cup [gen : Nat, exp : Int]
    /\ None \notin Int /\ None \notin Keys \cup RelayKeys

-----------------------------------------------------------------------------
ActivePending(i) ==
    invites[i] # None /\ invites[i].state = "pending" /\ invites[i].exp >= now

\* Two slots that cannot both be held: a Client name, an Edge name of an owner,
\* a Relay name or URL.
Clash(a, b) ==
    /\ a.tag = b.tag
    /\ IF a.tag = "relay" THEN a.name = b.name \/ a.scope = b.scope
                          ELSE a.name = b.name /\ a.scope = b.scope

RegisteredSlots ==
    {[tag |-> "client", scope |-> None, name |-> clients[k].name] :
        k \in {j \in ClientKeys : clients[j] # None}}
    \cup {[tag |-> "edge", scope |-> edges[k].owner, name |-> edges[k].name] :
        k \in {j \in EdgeKeys : edges[j] # None}}
    \cup {[tag |-> "relay", scope |-> relays[k].url, name |-> relays[k].name] :
        k \in {j \in RelayKeys : relays[j] # None}}

PendingSlots == {invites[i].slot : i \in {j \in InviteIds : ActivePending(j)}}

ValidateInviteName(slot) ==
    \A s \in RegisteredSlots \cup PendingSlots : ~Clash(s, slot)

\* The constraints the database puts on an invitation row: the owner of an Edge
\* invitation is a registered Client, and request ids are unique.
Storable(i, rec) ==
    /\ rec.slot.tag = "edge" => clients[rec.slot.scope] # None
    /\ rec.requestId # None =>
         \A j \in InviteIds \ {i} : invites[j] # None => invites[j].requestId # rec.requestId

-----------------------------------------------------------------------------
\* The three forms of commit_delta.
Quiet == UNCHANGED <<revision, relayRevision>>
PublishNodes ==
    /\ revision < MaxRevision
    /\ revision' = revision + 1
    /\ UNCHANGED relayRevision
PublishNodesAndRelays ==
    /\ revision < MaxRevision /\ relayRevision < MaxRevision
    /\ revision' = revision + 1
    /\ relayRevision' = relayRevision + 1

BuildInvite(slot, ttl, requestId, managedBy, hash) ==
    [slot |-> slot, exp |-> now + ttl, state |-> "pending", claimedBy |-> None,
     requestId |-> requestId, managedBy |-> managedBy, hash |-> hash, terminalAt |-> None]

InsertInvite(rec) ==
    /\ drawn < MaxInvites
    /\ Storable(drawn + 1, rec)
    /\ PublishNodes
    /\ drawn' = drawn + 1
    /\ invites' = [invites EXCEPT ![drawn + 1] = rec]
    /\ UNCHANGED <<now, topology, revocations, dead>>

LocalCreateInvite(slot, ttl, managedBy) ==
    /\ ValidateInviteName(slot)
    /\ InsertInvite(BuildInvite(slot, ttl, None, managedBy, None))

AdminInviteClient(n, ttl) ==
    /\ LocalCreateInvite([tag |-> "client", scope |-> None, name |-> n], ttl, None)
    /\ UNCHANGED waiting

AdminInviteRelay(n, u, ttl) ==
    /\ LocalCreateInvite([tag |-> "relay", scope |-> u, name |-> n], ttl, None)
    /\ UNCHANGED waiting

\* `edge invite' looks its owner up under one lock ...
AdminInviteEdgeLookup(k, n, ttl) ==
    /\ clients[k] # None
    /\ Cardinality(waiting) < MaxWaiting
    /\ waiting' = waiting \cup
         {[op |-> "inviteEdge", ttl |-> ttl, managedBy |-> clients[k].managedBy,
           slot |-> [tag |-> "edge", scope |-> k, name |-> n]]}
    /\ UNCHANGED <<now, topology, invites, drawn, revocations, revision, relayRevision, dead>>

\* ... and creates the invitation under another, without looking again.
AdminInviteEdgeCreate(w) ==
    /\ w.op = "inviteEdge"
    /\ LocalCreateInvite(w.slot, w.ttl, w.managedBy)
    /\ waiting' = waiting \ {w}

ClientEdgeInvite(k, n, ttl, rid) ==
    LET slot == [tag |-> "edge", scope |-> k, name |-> n] IN
    /\ clients[k] # None
    /\ \A i \in InviteIds : invites[i] # None => invites[i].requestId # rid
    /\ ValidateInviteName(slot)
    /\ InsertInvite(BuildInvite(slot, ttl, rid, clients[k].managedBy, None))
    /\ UNCHANGED waiting

\* A retry of the same request is answered with the invitation it made and a
\* request id used for another action is refused; neither changes anything.
ProvisionerInvite(p, slot, ttl, rid, hash) ==
    /\ provisioners[p] # None
    /\ \A i \in InviteIds : invites[i] # None =>
         ~(invites[i].managedBy = p /\ invites[i].requestId = rid)
    /\ ValidateInviteName(slot)
    /\ InsertInvite(BuildInvite(slot, ttl, rid, p, hash))
    /\ UNCHANGED waiting

ProvisionerInviteClient(p, n, ttl, rid) ==
    ProvisionerInvite(p, [tag |-> "client", scope |-> None, name |-> n], ttl, rid,
                      <<"client", n, ttl>>)

ProvisionerInviteEdge(p, k, n, ttl, rid) ==
    /\ clients[k] # None /\ clients[k].managedBy = p
    /\ ProvisionerInvite(p, [tag |-> "edge", scope |-> k, name |-> n], ttl, rid,
                         <<"edge", clients[k].name, n, ttl>>)

\* Only a pending invitation can be revoked, expired or not.
RevokeInvite(i) ==
    /\ invites[i] # None /\ invites[i].state = "pending"
    /\ Storable(i, invites[i])
    /\ PublishNodes
    /\ invites' = [invites EXCEPT ![i] = [@ EXCEPT !.state = "revoked", !.terminalAt = now]]
    /\ UNCHANGED <<now, topology, drawn, revocations, waiting, dead>>

AdminRevokeInvite(i) == RevokeInvite(i)

ProvisionerRevokeInvite(p, i) ==
    /\ provisioners[p] # None
    /\ invites[i] # None /\ invites[i].managedBy = p
    /\ RevokeInvite(i)

-----------------------------------------------------------------------------
\* A claim reads the clock when it arrives, then waits for its turn.
ClaimArrive(i, k, q) ==
    /\ Cardinality(waiting) < MaxWaiting
    /\ invites[i] # None
    /\ CASE invites[i].slot.tag = "client" -> k \in ClientKeys /\ q = None
         [] invites[i].slot.tag = "edge" -> k \in EdgeKeys /\ q = None
         [] invites[i].slot.tag = "relay" -> k \in RelayKeys
    /\ waiting' = waiting \cup {[op |-> "claim", invite |-> i, key |-> k, qad |-> q, at |-> now]}
    /\ UNCHANGED <<now, topology, invites, drawn, revocations, revision, relayRevision, dead>>

ClaimedNodeChange(inv, w) ==
    \/ /\ inv.slot.tag = "client"
       /\ clients[w.key] = None
       /\ \A s \in RegisteredSlots : ~Clash(s, inv.slot)
       /\ clients' = [clients EXCEPT ![w.key] =
            [name |-> inv.slot.name, managedBy |-> inv.managedBy,
             gen |-> revision + 1, exp |-> w.at + Lifetime]]
       /\ UNCHANGED <<edges, relays>>
    \/ /\ inv.slot.tag = "edge"
       /\ clients[inv.slot.scope] # None
       /\ edges[w.key] = None
       /\ \A s \in RegisteredSlots : ~Clash(s, inv.slot)
       /\ edges' = [edges EXCEPT ![w.key] =
            [name |-> inv.slot.name, owner |-> inv.slot.scope,
             gen |-> revision + 1, exp |-> w.at + Lifetime]]
       /\ UNCHANGED <<clients, relays>>
    \/ /\ inv.slot.tag = "relay"
       /\ relays[w.key] = None
       /\ \A s \in RegisteredSlots : ~Clash(s, inv.slot)
       /\ relays' = [relays EXCEPT ![w.key] =
            [name |-> inv.slot.name, url |-> inv.slot.scope, qad |-> w.qad]]
       /\ UNCHANGED <<clients, edges>>

\* Faulty form: the node is registered and the invitation stays open.
ClaimCommit_Reusable(w) ==
    /\ w.op = "claim"
    /\ invites[w.invite] # None
    /\ invites[w.invite].exp >= w.at
    /\ invites[w.invite].state = "pending"
    /\ ClaimedNodeChange(invites[w.invite], w)
    /\ PublishNodes
    /\ waiting' = waiting \ {w}
    /\ UNCHANGED <<now, provisioners, invites, drawn, revocations, dead>>

\* The expiry is compared with the clock read at arrival.  A second claim by the
\* endpoint that holds the invitation is answered with its map and changes nothing.
ClaimCommit(w) ==
    /\ w.op = "claim"
    /\ invites[w.invite] # None
    /\ invites[w.invite].exp >= w.at
    /\ invites[w.invite].state = "pending"
    /\ ClaimedNodeChange(invites[w.invite], w)
    /\ PublishNodes
    /\ invites' = [invites EXCEPT ![w.invite] =
         [@ EXCEPT !.state = "claimed", !.claimedBy = w.key, !.terminalAt = w.at]]
    /\ waiting' = waiting \ {w}
    /\ UNCHANGED <<now, provisioners, drawn, revocations, dead>>

\* A node's watch asks for a new expiry when the credential is about to expire.
\* A registration as Client comes before one as Edge.
ExpiringAt(k, at) ==
    IF k \in ClientKeys /\ clients[k] # None THEN clients[k].exp <= at + RenewBefore
    ELSE k \in EdgeKeys /\ edges[k] # None /\ edges[k].exp <= at + RenewBefore

RenewArrive(k) ==
    /\ ExpiringAt(k, now)
    /\ Cardinality(waiting) < MaxWaiting
    /\ waiting' = waiting \cup {[op |-> "renew", key |-> k, at |-> now]}
    /\ UNCHANGED <<now, topology, invites, drawn, revocations, revision, relayRevision, dead>>

RenewCommit(w) ==
    /\ w.op = "renew"
    /\ ExpiringAt(w.key, w.at)
    /\ IF w.key \in ClientKeys /\ clients[w.key] # None
       THEN /\ clients' = [clients EXCEPT ![w.key].exp = w.at + Lifetime]
            /\ UNCHANGED edges
       ELSE /\ edges' = [edges EXCEPT ![w.key].exp = w.at + Lifetime]
            /\ UNCHANGED clients
    /\ Quiet
    /\ waiting' = waiting \ {w}
    /\ UNCHANGED <<now, relays, provisioners, invites, drawn, revocations, dead>>

\* A waiting request whose turn never comes (the queue is full or times out) or
\* whose checks fail.  The local command has no queue: only its checks can fail.
Refuse(w) ==
    /\ w.op = "inviteEdge" => ~(ValidateInviteName(w.slot) /\ clients[w.slot.scope] # None)
    /\ waiting' = waiting \ {w}
    /\ UNCHANGED <<now, topology, invites, drawn, revocations, revision, relayRevision, dead>>

-----------------------------------------------------------------------------
\* Faulty form: a second tombstone forgets the first.
RevocationChange_Replaces(k, cred) ==
    [through |-> cred.gen, exp |-> cred.exp, rev |-> relayRevision + 1]

RevocationChange(k, cred) ==
    LET old == revocations[k] IN
    [through |-> IF old # None /\ old.through > cred.gen THEN old.through ELSE cred.gen,
     exp |-> IF old # None /\ old.exp > cred.exp THEN old.exp ELSE cred.exp,
     rev |-> relayRevision + 1]

Bury(kind, k, cred) ==
    /\ PublishNodesAndRelays
    /\ revocations' = [revocations EXCEPT ![k] = RevocationChange(k, cred)]
    /\ dead' = dead \cup {[subject |-> <<kind, k>>, gen |-> cred.gen, exp |-> cred.exp,
                           at |-> relayRevision + 1]}

\* Faulty form: only invitations keep a Client, not the Edges it owns.
RemoveClient_OwnsEdges(k) ==
    /\ clients[k] # None
    /\ \A i \in InviteIds : ActivePending(i) =>
         ~(invites[i].slot.tag = "edge" /\ invites[i].slot.scope = k)
    /\ Bury("client", k, clients[k])
    /\ clients' = [clients EXCEPT ![k] = None]
    /\ UNCHANGED <<now, edges, relays, provisioners, invites, drawn, waiting>>

\* A Client that owns Edges, or that has invited one, stays.
RemoveClient(k) ==
    /\ clients[k] # None
    /\ \A e \in EdgeKeys : edges[e] # None => edges[e].owner # k
    /\ \A i \in InviteIds : ActivePending(i) =>
         ~(invites[i].slot.tag = "edge" /\ invites[i].slot.scope = k)
    /\ Bury("client", k, clients[k])
    /\ clients' = [clients EXCEPT ![k] = None]
    /\ UNCHANGED <<now, edges, relays, provisioners, invites, drawn, waiting>>

RemoveEdge(e) ==
    /\ edges[e] # None
    /\ Bury("edge", e, edges[e])
    /\ edges' = [edges EXCEPT ![e] = None]
    /\ UNCHANGED <<now, clients, relays, provisioners, invites, drawn, waiting>>

\* Faulty forms: the new owner need not be registered any more; nobody is told.
TransferEdge_AnyOwner(e, k) ==
    /\ edges[e] # None
    /\ \A f \in EdgeKeys : edges[f] # None => ~(edges[f].owner = k /\ edges[f].name = edges[e].name)
    /\ PublishNodes
    /\ edges' = [edges EXCEPT ![e].owner = k]
    /\ UNCHANGED <<now, clients, relays, provisioners, invites, drawn, revocations, waiting, dead>>
TransferEdge_Quiet(e, k) ==
    /\ edges[e] # None /\ clients[k] # None
    /\ \A f \in EdgeKeys : edges[f] # None => ~(edges[f].owner = k /\ edges[f].name = edges[e].name)
    /\ Quiet
    /\ edges' = [edges EXCEPT ![e].owner = k]
    /\ UNCHANGED <<now, clients, relays, provisioners, invites, drawn, revocations, waiting, dead>>

TransferEdge(e, k) ==
    /\ edges[e] # None /\ clients[k] # None
    /\ \A f \in EdgeKeys : edges[f] # None => ~(edges[f].owner = k /\ edges[f].name = edges[e].name)
    /\ PublishNodes
    /\ edges' = [edges EXCEPT ![e].owner = k]
    /\ UNCHANGED <<now, clients, relays, provisioners, invites, drawn, revocations, waiting, dead>>

AdminRemoveClient(k) == RemoveClient(k)
AdminRemoveEdge(e) == RemoveEdge(e)
AdminTransferEdge(e, k) == TransferEdge(e, k)
ClientEdgeRemove(k, e) == clients[k] # None /\ edges[e] # None /\ edges[e].owner = k /\ RemoveEdge(e)

Manages(p, k) == provisioners[p] # None /\ clients[k] # None /\ clients[k].managedBy = p
ProvisionerRemoveClient(p, k) == Manages(p, k) /\ RemoveClient(k)
ProvisionerRemoveEdge(p, e) == edges[e] # None /\ Manages(p, edges[e].owner) /\ RemoveEdge(e)
ProvisionerTransferEdge(p, e, k) ==
    edges[e] # None /\ Manages(p, edges[e].owner) /\ Manages(p, k) /\ TransferEdge(e, k)

AdminRemoveRelay(r) ==
    /\ relays[r] # None
    /\ PublishNodesAndRelays
    /\ relays' = [relays EXCEPT ![r] = None]
    /\ UNCHANGED <<now, clients, edges, provisioners, invites, drawn, revocations, waiting, dead>>

\* A Relay's watch reports the QAD port it listens on.
UpdateRelayQadPort(r, q) ==
    /\ relays[r] # None /\ relays[r].qad # q
    /\ PublishNodes
    /\ relays' = [relays EXCEPT ![r].qad = q]
    /\ UNCHANGED <<now, clients, edges, provisioners, invites, drawn, revocations, waiting, dead>>

AddProvisioner(p, n) ==
    /\ provisioners[p] = None /\ \A q \in Provisioners : provisioners[q] # n
    /\ PublishNodes
    /\ provisioners' = [provisioners EXCEPT ![p] = n]
    /\ UNCHANGED <<now, clients, edges, relays, invites, drawn, revocations, waiting, dead>>

RemoveProvisioner(p) ==
    /\ provisioners[p] # None
    /\ \A k \in ClientKeys : clients[k] # None => clients[k].managedBy # p
    /\ \A i \in InviteIds : ActivePending(i) => invites[i].managedBy # p
    /\ PublishNodes
    /\ provisioners' = [provisioners EXCEPT ![p] = None]
    /\ UNCHANGED <<now, clients, edges, relays, invites, drawn, revocations, waiting, dead>>

-----------------------------------------------------------------------------
Terminal(inv) == IF inv.state = "pending" THEN inv.exp ELSE inv.terminalAt

\* Old invitations and expired tombstones go, at start-up and every hour.
DropExpired ==
    /\ invites' = [i \in InviteIds |->
         IF invites[i] # None /\ now >= Terminal(invites[i]) + Retention THEN None ELSE invites[i]]
    /\ revocations' = [k \in Keys |->
         IF revocations[k] # None /\ revocations[k].exp <= now THEN None ELSE revocations[k]]
    /\ Quiet
    /\ UNCHANGED <<now, topology, drawn, dead>>

CleanupLoop == DropExpired /\ UNCHANGED waiting

\* Control stops, losing the requests it had not served, and starts again.
Restart == DropExpired /\ waiting' = {}

Tick ==
    /\ now < MaxTime
    /\ now' = now + 1
    /\ UNCHANGED <<topology, invites, drawn, revocations, revision, relayRevision, waiting, dead>>

Init ==
    /\ now = 0
    /\ clients = [k \in ClientKeys |-> None]
    /\ edges = [k \in EdgeKeys |-> None]
    /\ relays = [k \in RelayKeys |-> None]
    /\ invites = [i \in InviteIds |-> None]
    /\ drawn = 0
    /\ provisioners = [p \in Provisioners |-> None]
    /\ revocations = [k \in Keys |-> None]
    /\ revision = 0 /\ relayRevision = 1
    /\ waiting = {} /\ dead = {}

AdminNext ==
    \/ \E n \in ClientNames, ttl \in Ttls : AdminInviteClient(n, ttl)
    \/ \E n \in RelayNames, u \in Urls, ttl \in Ttls : AdminInviteRelay(n, u, ttl)
    \/ \E k \in ClientKeys, n \in EdgeNames, ttl \in Ttls : AdminInviteEdgeLookup(k, n, ttl)
    \/ \E i \in InviteIds : AdminRevokeInvite(i)
    \/ \E k \in ClientKeys : AdminRemoveClient(k)
    \/ \E e \in EdgeKeys : AdminRemoveEdge(e)
    \/ \E e \in EdgeKeys, k \in ClientKeys : AdminTransferEdge(e, k)
    \/ \E r \in RelayKeys : AdminRemoveRelay(r)
    \/ \E p \in Provisioners : RemoveProvisioner(p) \/ \E n \in ProvisionerNames : AddProvisioner(p, n)

ProvisionerNext == \E p \in Provisioners :
    \/ \E n \in ClientNames, ttl \in Ttls, rid \in RequestIds : ProvisionerInviteClient(p, n, ttl, rid)
    \/ \E k \in ClientKeys, n \in EdgeNames, ttl \in Ttls, rid \in RequestIds :
         ProvisionerInviteEdge(p, k, n, ttl, rid)
    \/ \E i \in InviteIds : ProvisionerRevokeInvite(p, i)
    \/ \E k \in ClientKeys : ProvisionerRemoveClient(p, k)
    \/ \E e \in EdgeKeys : ProvisionerRemoveEdge(p, e)
    \/ \E e \in EdgeKeys, k \in ClientKeys : ProvisionerTransferEdge(p, e, k)

NodeNext ==
    \/ \E i \in InviteIds, k \in Keys \cup RelayKeys, q \in QadPorts \cup {None} : ClaimArrive(i, k, q)
    \/ \E k \in ClientKeys, n \in EdgeNames, ttl \in Ttls, rid \in RequestIds : ClientEdgeInvite(k, n, ttl, rid)
    \/ \E k \in ClientKeys, e \in EdgeKeys : ClientEdgeRemove(k, e)
    \/ \E k \in Keys : RenewArrive(k)
    \/ \E r \in RelayKeys, q \in QadPorts \cup {None} : UpdateRelayQadPort(r, q)

TurnNext == \E w \in waiting :
    AdminInviteEdgeCreate(w) \/ ClaimCommit(w) \/ RenewCommit(w) \/ Refuse(w)

Next == AdminNext \/ ProvisionerNext \/ NodeNext \/ TurnNext \/ CleanupLoop \/ Restart \/ Tick

Spec == Init /\ [][Next]_vars

-----------------------------------------------------------------------------
TypeOK ==
    /\ now \in 0..MaxTime
    /\ clients \in [ClientKeys -> Client \cup {None}]
    /\ edges \in [EdgeKeys -> Edge \cup {None}]
    /\ relays \in [RelayKeys -> Relay \cup {None}]
    /\ invites \in [InviteIds -> Invite \cup {None}]
    /\ \A i \in InviteIds : invites[i] # None =>
         /\ (invites[i].state = "pending") = (invites[i].terminalAt = None)
         /\ (invites[i].state = "claimed") = (invites[i].claimedBy # None)
    /\ drawn \in 0..MaxInvites
    /\ provisioners \in [Provisioners -> ProvisionerNames \cup {None}]
    /\ revision \in 0..MaxRevision /\ relayRevision \in 1..MaxRevision
    /\ revocations \in [Keys -> Revocation \cup {None}]
    /\ waiting \subseteq Request

Live == [s \in {"client", "edge"} \X Keys |->
    IF s[1] = "client"
    THEN IF s[2] \in ClientKeys /\ clients[s[2]] # None
         THEN [gen |-> clients[s[2]].gen, exp |-> clients[s[2]].exp] ELSE None
    ELSE IF s[2] \in EdgeKeys /\ edges[s[2]] # None
         THEN [gen |-> edges[s[2]].gen, exp |-> edges[s[2]].exp] ELSE None]

Authority == INSTANCE Credentials WITH Kinds <- {"client", "edge"}, live <- Live

\* What every handler, cleanup and restart does to credentials and tombstones is
\* one of the steps of the credential authority of module Credentials: so what is
\* proved there holds of as-control's own bookkeeping.
ImplementsCredentials == Authority!Spec

\* The owner of an Edge is a registered Client, although Edges are claimed and
\* transferred while Clients are removed (claimed_node_change, RemoveClient,
\* TransferEdge): an Edge always has somebody whom its node map lets in.
OwnersAreRegistered ==
    \A e \in EdgeKeys : edges[e] # None => clients[edges[e].owner] # None

\* Names resolve to one node: no two Clients, no two Edges of one owner and no two
\* Relays (or Relay URLs) share a name, whatever invitations, transfers and
\* delayed claims interleave; the UNIQUE constraints of the database never fire.
NamesAreUnique ==
    /\ \A k, l \in ClientKeys : k # l /\ clients[k] # None /\ clients[l] # None =>
         clients[k].name # clients[l].name
    /\ \A e, f \in EdgeKeys : e # f /\ edges[e] # None /\ edges[f] # None =>
         <<edges[e].owner, edges[e].name>> # <<edges[f].owner, edges[f].name>>
    /\ \A r, s \in RelayKeys : r # s /\ relays[r] # None /\ relays[s] # None =>
         relays[r].name # relays[s].name /\ relays[r].url # relays[s].url

\* What signed_map and provisioner_topology show, without credential expiries and
\* without the records of invitations that are over.
View == [clients |-> [k \in ClientKeys |->
                        IF clients[k] = None THEN None ELSE <<clients[k].name, clients[k].managedBy, clients[k].gen>>],
         edges |-> [e \in EdgeKeys |->
                        IF edges[e] = None THEN None ELSE <<edges[e].name, edges[e].owner, edges[e].gen>>],
         relays |-> relays,
         provisioners |-> provisioners,
         open |-> {i \in InviteIds : ActivePending(i)}]

\* A revision identifies what the nodes and the provisioners may see: no step that
\* leaves the revision alone, a restart included, changes a node map or a
\* provisioner's topology, except that time expires invitations.  Long polls by
\* revision and expected_revision rest on it.
RevisionIdentifiesView ==
    [][revision' = revision => View' = [View EXCEPT !.open = {i \in @ : ActivePending(i)'}]]_vars

Spends(i, slot, k) ==
    /\ invites[i] # None /\ invites[i].state = "pending" /\ invites[i].slot = slot
    /\ invites'[i].state = "claimed" /\ invites'[i].claimedBy = k

\* An invitation lets one node in, once: whoever becomes registered spends a
\* pending invitation for that very kind, owner or URL and name, and an invitation
\* that was claimed or revoked never changes again until the cleanup drops it.
InvitesAreSpentOnce ==
    [][/\ \A i \in InviteIds : invites[i] # None /\ invites[i].state # "pending" =>
            invites'[i] \in {None, invites[i]}
       /\ \A k \in ClientKeys : clients[k] = None /\ clients'[k] # None =>
            \E i \in InviteIds :
                Spends(i, [tag |-> "client", scope |-> None, name |-> clients'[k].name], k)
       /\ \A k \in EdgeKeys : edges[k] = None /\ edges'[k] # None =>
            \E i \in InviteIds :
                Spends(i, [tag |-> "edge", scope |-> edges'[k].owner, name |-> edges'[k].name], k)
       /\ \A k \in RelayKeys : relays[k] = None /\ relays'[k] # None =>
            \E i \in InviteIds :
                Spends(i, [tag |-> "relay", scope |-> relays'[k].url, name |-> relays'[k].name], k)]_vars

\* Together: records are well formed (an invitation has its end recorded when it is over, and whom it
\* let in when it was claimed), names resolve and owners exist, whatever commands interleave.
TopologyIsSound == TypeOK /\ NamesAreUnique /\ OwnersAreRegistered
=============================================================================
