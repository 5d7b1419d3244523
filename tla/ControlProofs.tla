--------------------------- MODULE ControlProofs ---------------------------
(***************************************************************************)
(* Proofs about module Control, for any number of endpoint ids, names,     *)
(* invitations and requests: the topology is sound, a revision identifies  *)
(* what is shown, invitations are spent once, and the bookkeeping of       *)
(* credentials implements module Credentials, whose theorems then hold of  *)
(* as-control.                                                             *)
(*                                                                         *)
(* What a request read before its turn is all that can be stale.  So the   *)
(* invariant says what remains true of it: its clock is not ahead, and the *)
(* invitation that a claim names, if it is still there, is of the kind     *)
(* that was checked when the claim arrived, since ids are not drawn twice. *)
(***************************************************************************)
EXTENDS Control, TLAPS

\* Invitation ids are drawn in order and never again.
InvitesWereDrawn == \A i \in InviteIds : invites[i] # None => i <= drawn

\* The endpoint id of a claim may hold what its invitation is for.
KeyFits(slot, k) ==
    /\ slot.tag = "client" => k \in ClientKeys
    /\ slot.tag = "edge" => k \in EdgeKeys
    /\ slot.tag = "relay" => k \in RelayKeys

\* What a waiting request has read is old, and still good for something.
WaitingIsPast ==
    \A w \in waiting :
        /\ w.op \in {"claim", "renew"} => w.at \in 0..now
        /\ w.op = "claim" =>
             /\ w.invite <= drawn
             /\ invites[w.invite] # None => KeyFits(invites[w.invite].slot, w.key)

Inv ==
    /\ TypeOK
    /\ InvitesWereDrawn
    /\ WaitingIsPast
    /\ OwnersAreRegistered
    /\ NamesAreUnique

-----------------------------------------------------------------------------
(* The steps of Control, by what they do to the state.                     *)

\* A new invitation: nobody has claimed it.
NewInvite == {r \in Invite : r.state = "pending" /\ r.claimedBy = None /\ r.terminalAt = None}

\* Requests come, or go without effect; nothing else changes.
Wait ==
    /\ UNCHANGED <<now, topology, invites, drawn, revocations, revision, relayRevision, dead>>
    /\ waiting' \subseteq Request /\ WaitingIsPast'

Step ==
    \/ \E r \in NewInvite : InsertInvite(r) /\ waiting' \subseteq waiting
    \/ \E i \in InviteIds : RevokeInvite(i)
    \/ Wait
    \/ \E w \in waiting : ClaimCommit(w) \/ RenewCommit(w)
    \/ \E k \in ClientKeys : RemoveClient(k)
    \/ \E e \in EdgeKeys : RemoveEdge(e) \/ \E k \in ClientKeys : TransferEdge(e, k)
    \/ \E r \in RelayKeys : AdminRemoveRelay(r) \/ \E q \in QadPorts \cup {None} : UpdateRelayQadPort(r, q)
    \/ \E p \in Provisioners : RemoveProvisioner(p) \/ \E n \in ProvisionerNames : AddProvisioner(p, n)
    \/ DropExpired /\ waiting' \subseteq waiting
    \/ Tick

\* build_invite makes a well-formed pending invitation.
LEMMA BuildInviteType ==
    ASSUME TypeOK, NEW slot \in Slot, NEW ttl \in Ttls, NEW rid \in RequestIds \cup {None},
           NEW by \in Provisioners \cup {None}, NEW hash \in Hash
    PROVE  BuildInvite(slot, ttl, rid, by, hash) \in NewInvite
<1>1. now + ttl \in Int
  BY DurationAssumption DEF TypeOK
<1>. QED
  BY Zenon, <1>1 DEF BuildInvite, NewInvite, Invite

\* Every command, request and loop of as-control is one of these steps.
LEMMA NextIsStep ==
    ASSUME Inv, Next
    PROVE  Step
<1> TypeOK /\ InvitesWereDrawn /\ WaitingIsPast /\ OwnersAreRegistered /\ NamesAreUnique
  BY Zenon DEF Inv
<1>1. CASE AdminNext
  <2>1. ASSUME NEW n \in ClientNames, NEW ttl \in Ttls, AdminInviteClient(n, ttl) PROVE Step
    <3>1. [tag |-> "client", scope |-> None, name |-> n] \in Slot /\ None \in Hash
      BY Zenon DEF Slot, Hash
    <3>. QED
      BY Zenon, <2>1, <3>1, BuildInviteType DEF AdminInviteClient, LocalCreateInvite, Step
  <2>2. ASSUME NEW n \in RelayNames, NEW u \in Urls, NEW ttl \in Ttls, AdminInviteRelay(n, u, ttl)
        PROVE  Step
    <3>1. [tag |-> "relay", scope |-> u, name |-> n] \in Slot /\ None \in Hash
      BY Zenon DEF Slot, Hash
    <3>. QED
      BY Zenon, <2>2, <3>1, BuildInviteType DEF AdminInviteRelay, LocalCreateInvite, Step
  <2>3. ASSUME NEW k \in ClientKeys, NEW n \in EdgeNames, NEW ttl \in Ttls,
               AdminInviteEdgeLookup(k, n, ttl)
        PROVE  Step
    <3> DEFINE w == [op |-> "inviteEdge", ttl |-> ttl, managedBy |-> clients[k].managedBy,
                     slot |-> [tag |-> "edge", scope |-> k, name |-> n]]
    <3>1. clients[k].managedBy \in Provisioners \cup {None}
      BY Zenon, <2>3 DEF AdminInviteEdgeLookup, TypeOK, Client
    <3>2. w \in Request /\ w.op = "inviteEdge"
      BY Zenon, <3>1 DEF Request
    <3>3. /\ UNCHANGED <<now, topology, invites, drawn, revocations, revision, relayRevision, dead>>
          /\ waiting' = waiting \cup {w}
      BY Zenon, <2>3 DEF AdminInviteEdgeLookup
    <3> HIDE DEF w
    <3>4. Wait
      BY Zenon, <3>2, <3>3 DEF Wait, WaitingIsPast, TypeOK
    <3>. QED
      BY Zenon, <3>4 DEF Step
  <2>. QED
    BY Zenon, <1>1, <2>1, <2>2, <2>3
       DEF AdminNext, AdminRevokeInvite, AdminRemoveClient, AdminRemoveEdge, AdminTransferEdge, Step
<1>2. CASE ProvisionerNext
  <2>1. ASSUME NEW p \in Provisioners, NEW slot \in Slot, NEW ttl \in Ttls, NEW rid \in RequestIds,
               NEW hash \in Hash, ProvisionerInvite(p, slot, ttl, rid, hash)
        PROVE  Step
    BY Zenon, <2>1, BuildInviteType DEF ProvisionerInvite, Step
  <2>2. ASSUME NEW p \in Provisioners, NEW n \in ClientNames, NEW ttl \in Ttls, NEW rid \in RequestIds,
               ProvisionerInviteClient(p, n, ttl, rid)
        PROVE  Step
    <3>1. [tag |-> "client", scope |-> None, name |-> n] \in Slot /\ <<"client", n, ttl>> \in Hash
      BY Zenon DEF Slot, Hash
    <3>. QED
      BY Zenon, <2>1, <2>2, <3>1 DEF ProvisionerInviteClient
  <2>3. ASSUME NEW p \in Provisioners, NEW k \in ClientKeys, NEW n \in EdgeNames, NEW ttl \in Ttls,
               NEW rid \in RequestIds, ProvisionerInviteEdge(p, k, n, ttl, rid)
        PROVE  Step
    <3>1. clients[k].name \in ClientNames
      BY Zenon, <2>3 DEF ProvisionerInviteEdge, TypeOK, Client
    <3>2. /\ [tag |-> "edge", scope |-> k, name |-> n] \in Slot
          /\ <<"edge", clients[k].name, n, ttl>> \in Hash
      BY Zenon, <3>1 DEF Slot, Hash
    <3>. QED
      BY Zenon, <2>1, <2>3, <3>2 DEF ProvisionerInviteEdge
  <2>4. ASSUME NEW p \in Provisioners,
               \/ \E i \in InviteIds : ProvisionerRevokeInvite(p, i)
               \/ \E k \in ClientKeys : ProvisionerRemoveClient(p, k)
               \/ \E e \in EdgeKeys : ProvisionerRemoveEdge(p, e)
               \/ \E e \in EdgeKeys, k \in ClientKeys : ProvisionerTransferEdge(p, e, k)
        PROVE  Step
    BY Zenon, <2>4 DEF ProvisionerRevokeInvite, ProvisionerRemoveClient, ProvisionerRemoveEdge,
                ProvisionerTransferEdge, Step
  <2>. QED
    BY Zenon, <1>2, <2>2, <2>3, <2>4 DEF ProvisionerNext
<1>3. CASE NodeNext
  <2>1. ASSUME NEW i \in InviteIds, NEW k \in Keys \cup RelayKeys, NEW q \in QadPorts \cup {None},
               ClaimArrive(i, k, q)
        PROVE  Step
    <3> DEFINE w == [op |-> "claim", invite |-> i, key |-> k, qad |-> q, at |-> now]
    <3>1. invites[i].slot \in Slot /\ invites[i] # None /\ now \in 0..now
      BY <2>1 DEF ClaimArrive, TypeOK, Invite
    <3>2. KeyFits(invites[i].slot, k)
      BY Zenon, <2>1 DEF ClaimArrive, KeyFits
    <3>3. w \in Request /\ w.op = "claim" /\ w.invite = i /\ w.key = k /\ w.at = now
      BY DEF Request, TypeOK
    <3>4. /\ UNCHANGED <<now, topology, invites, drawn, revocations, revision, relayRevision, dead>>
          /\ waiting' = waiting \cup {w}
      BY Zenon, <2>1 DEF ClaimArrive
    <3>5. i <= drawn
      BY Zenon, <3>1 DEF InvitesWereDrawn
    <3> HIDE DEF w
    <3>6. Wait
      BY Zenon, <3>1, <3>2, <3>3, <3>4, <3>5 DEF Wait, WaitingIsPast, TypeOK
    <3>. QED
      BY Zenon, <3>6 DEF Step
  <2>2. ASSUME NEW k \in ClientKeys, NEW n \in EdgeNames, NEW ttl \in Ttls, NEW rid \in RequestIds,
               ClientEdgeInvite(k, n, ttl, rid)
        PROVE  Step
    <3>1. clients[k].managedBy \in Provisioners \cup {None}
      BY Zenon, <2>2 DEF ClientEdgeInvite, TypeOK, Client
    <3>2. [tag |-> "edge", scope |-> k, name |-> n] \in Slot /\ None \in Hash
      BY Zenon DEF Slot, Hash
    <3>. QED
      BY Zenon, <2>2, <3>1, <3>2, BuildInviteType DEF ClientEdgeInvite, Step
  <2>3. ASSUME NEW k \in Keys, RenewArrive(k) PROVE Step
    <3> DEFINE w == [op |-> "renew", key |-> k, at |-> now]
    <3>1. w \in Request /\ w.op = "renew" /\ w.at = now /\ now \in 0..now
      BY DEF Request, TypeOK
    <3>2. /\ UNCHANGED <<now, topology, invites, drawn, revocations, revision, relayRevision, dead>>
          /\ waiting' = waiting \cup {w}
      BY Zenon, <2>3 DEF RenewArrive
    <3> HIDE DEF w
    <3>3. Wait
      BY Zenon, <3>1, <3>2 DEF Wait, WaitingIsPast, TypeOK
    <3>. QED
      BY Zenon, <3>3 DEF Step
  <2>. QED
    BY Zenon, <1>3, <2>1, <2>2, <2>3 DEF NodeNext, ClientEdgeRemove, Step
<1>4. CASE TurnNext
  <2>1. ASSUME NEW w \in waiting, AdminInviteEdgeCreate(w) PROVE Step
    <3>1. w.slot \in Slot /\ w.ttl \in Ttls /\ w.managedBy \in Provisioners \cup {None}
          /\ None \in Hash
      BY Zenon, <2>1 DEF AdminInviteEdgeCreate, TypeOK, Request, Slot, Hash
    <3>. QED
      BY Zenon, <2>1, <3>1, BuildInviteType DEF AdminInviteEdgeCreate, LocalCreateInvite, Step
  <2>2. ASSUME NEW w \in waiting, Refuse(w) PROVE Step
    <3>1. Wait
      BY Zenon, <2>2 DEF Refuse, Wait, WaitingIsPast, TypeOK
    <3>. QED
      BY Zenon, <3>1 DEF Step
  <2>. QED
    BY Zenon, <1>4, <2>1, <2>2 DEF TurnNext, Step
<1>. QED
  BY Zenon, <1>1, <1>2, <1>3, <1>4 DEF Next, CleanupLoop, Restart, Step

-----------------------------------------------------------------------------
(* Each of them preserves the invariant.                                   *)

\* as-control starts with an empty topology.
LEMMA InitInv == Init => Inv
<1> SUFFICES ASSUME Init PROVE Inv
  BY Zenon
<1>1. TypeOK
  BY BoundAssumption DEF Init, TypeOK
<1>. QED
  BY Zenon, <1>1 DEF Init, Inv, InvitesWereDrawn, WaitingIsPast, OwnersAreRegistered, NamesAreUnique

\* A waiting request keeps what it read as long as its invitation keeps its slot.
LEMMA WaitingStaysPast ==
    ASSUME TypeOK, WaitingIsPast, waiting' \subseteq waiting, now' \in Nat, now' >= now,
           drawn' \in Nat, drawn' >= drawn,
           \A i \in InviteIds : i <= drawn /\ invites'[i] # None =>
               invites[i] # None /\ invites'[i].slot = invites[i].slot
    PROVE  WaitingIsPast'
<1> SUFFICES ASSUME NEW w \in waiting,
                    w.op \in {"claim", "renew"}
             PROVE  /\ w.at \in 0..now'
                    /\ w.op = "claim" =>
                         /\ w.invite <= drawn'
                         /\ invites'[w.invite] # None => KeyFits(invites'[w.invite].slot, w.key)
  BY Zenon DEF WaitingIsPast, KeyFits
<1>1. w \in Request /\ drawn \in Nat /\ now \in Nat
  BY BoundAssumption DEF TypeOK
<1>2. w.at \in 0..now'
  BY <1>1 DEF WaitingIsPast
<1>3. CASE w.op = "claim"
  <2>1. w.invite \in InviteIds
    BY Zenon, <1>1, <1>3 DEF Request
  <2>2. w.invite <= drawn /\ (invites[w.invite] # None => KeyFits(invites[w.invite].slot, w.key))
    BY Zenon, <1>3 DEF WaitingIsPast
  <2>3. w.invite <= drawn'
    BY <1>1, <2>1, <2>2, BoundAssumption DEF InviteIds
  <2>. QED
    BY Zenon, <1>2, <2>1, <2>2, <2>3
<1>. QED
  BY Zenon, <1>2, <1>3

\* Inserting an invitation.
LEMMA InsertInviteInv ==
    ASSUME Inv, NEW r \in NewInvite, InsertInvite(r), waiting' \subseteq waiting
    PROVE  Inv'
<1> TypeOK /\ InvitesWereDrawn /\ WaitingIsPast /\ OwnersAreRegistered /\ NamesAreUnique
  BY Zenon DEF Inv
<1>1. /\ drawn \in Nat /\ drawn + 1 \in InviteIds /\ drawn' = drawn + 1 /\ drawn' \in 0..MaxInvites
      /\ revision' \in 0..MaxRevision
  BY BoundAssumption DEF InsertInvite, PublishNodes, TypeOK, InviteIds
<1>2. UNCHANGED <<now, clients, edges, relays, provisioners, revocations, relayRevision>>
  BY Zenon DEF InsertInvite, PublishNodes, topology
<1>3. /\ r \in Invite /\ r.state = "pending" /\ r.claimedBy = None /\ r.terminalAt = None
      /\ invites' = [invites EXCEPT ![drawn + 1] = r]
  BY Zenon DEF InsertInvite, NewInvite
<1>4. TypeOK'
  <2>1. invites' \in [InviteIds -> Invite \cup {None}] /\ waiting' \subseteq Request
    BY Zenon, <1>1, <1>3 DEF TypeOK
  <2>2. ASSUME NEW i \in InviteIds, invites'[i] # None
        PROVE  /\ (invites'[i].state = "pending") = (invites'[i].terminalAt = None)
               /\ (invites'[i].state = "claimed") = (invites'[i].claimedBy # None)
    BY Zenon, <1>1, <1>3, <2>2 DEF TypeOK
  <2>. QED
    BY Zenon, <1>1, <1>2, <2>1, <2>2 DEF TypeOK
<1>5. InvitesWereDrawn'
  BY <1>1, <1>3, BoundAssumption DEF InvitesWereDrawn, InviteIds, TypeOK
<1>6. \A i \in InviteIds : i <= drawn => invites'[i] = invites[i]
  BY <1>1, <1>3, BoundAssumption DEF TypeOK, InviteIds
<1>7. now \in Nat
  BY BoundAssumption DEF TypeOK
<1>8. WaitingIsPast'
  BY <1>1, <1>2, <1>6, <1>7, WaitingStaysPast
<1>. QED
  BY Zenon, <1>2, <1>4, <1>5, <1>8 DEF Inv, OwnersAreRegistered, NamesAreUnique

\* An invitation that ends keeps its slot.
LEMMA EndInviteInv ==
    ASSUME Inv, NEW i \in InviteIds, invites[i] # None,
           NEW state \in {"claimed", "revoked"}, NEW by \in Keys \cup RelayKeys \cup {None},
           (state = "claimed") = (by # None), NEW at \in Int,
           invites' = [invites EXCEPT ![i] =
               [@ EXCEPT !.state = state, !.claimedBy = by, !.terminalAt = at]],
           UNCHANGED <<now, drawn>>, waiting' \subseteq waiting
    PROVE  /\ invites' \in [InviteIds -> Invite \cup {None}]
           /\ \A j \in InviteIds : invites'[j] # None =>
                /\ (invites'[j].state = "pending") = (invites'[j].terminalAt = None)
                /\ (invites'[j].state = "claimed") = (invites'[j].claimedBy # None)
           /\ InvitesWereDrawn' /\ WaitingIsPast'
<1> TypeOK /\ InvitesWereDrawn /\ WaitingIsPast /\ OwnersAreRegistered /\ NamesAreUnique
  BY Zenon DEF Inv
<1> DEFINE r == [invites[i] EXCEPT !.state = state, !.claimedBy = by, !.terminalAt = at]
<1>1. invites[i] \in Invite /\ at # None
  BY Zenon, NoneAssumption DEF TypeOK
<1>2. /\ r \in Invite /\ r.slot = invites[i].slot /\ r.state = state /\ r.claimedBy = by
      /\ r.terminalAt = at
  BY Zenon, <1>1 DEF Invite
<1>3. invites' = [invites EXCEPT ![i] = r]
  BY Zenon
<1> HIDE DEF r
<1>4. invites' \in [InviteIds -> Invite \cup {None}]
  BY Zenon, <1>2, <1>3 DEF TypeOK
<1>5. ASSUME NEW j \in InviteIds, invites'[j] # None
      PROVE  /\ invites[j] # None /\ invites'[j].slot = invites[j].slot
             /\ (invites'[j].state = "pending") = (invites'[j].terminalAt = None)
             /\ (invites'[j].state = "claimed") = (invites'[j].claimedBy # None)
  BY <1>1, <1>2, <1>3, <1>5 DEF TypeOK
<1>6. now \in Nat /\ drawn \in Nat /\ now' = now /\ drawn' = drawn
  BY BoundAssumption DEF TypeOK
<1>7. WaitingIsPast'
  BY <1>5, <1>6, WaitingStaysPast
<1>8. InvitesWereDrawn'
  BY Zenon, <1>5 DEF InvitesWereDrawn
<1>. QED
  BY Zenon, <1>4, <1>5, <1>7, <1>8

\* Revoking an invitation.
LEMMA RevokeInviteInv ==
    ASSUME Inv, NEW i \in InviteIds, RevokeInvite(i)
    PROVE  Inv'
<1> TypeOK /\ InvitesWereDrawn /\ WaitingIsPast /\ OwnersAreRegistered /\ NamesAreUnique
  BY Zenon DEF Inv
<1>1. /\ UNCHANGED <<now, clients, edges, relays, provisioners, drawn, revocations, relayRevision, waiting>>
      /\ revision' \in 0..MaxRevision
  BY BoundAssumption DEF RevokeInvite, PublishNodes, TypeOK, topology
<1>2. invites[i] \in Invite /\ invites[i] # None /\ invites[i].claimedBy = None /\ now \in Int
  BY DEF RevokeInvite, TypeOK
<1>3. invites' = [invites EXCEPT ![i] =
        [@ EXCEPT !.state = "revoked", !.claimedBy = None, !.terminalAt = now]]
  <2>1. [invites[i] EXCEPT !.state = "revoked", !.terminalAt = now]
          = [invites[i] EXCEPT !.state = "revoked", !.claimedBy = None, !.terminalAt = now]
    BY Zenon, <1>2 DEF Invite
  <2>. QED
    BY Zenon, <2>1 DEF RevokeInvite
<1>4. /\ invites' \in [InviteIds -> Invite \cup {None}]
      /\ \A j \in InviteIds : invites'[j] # None =>
           /\ (invites'[j].state = "pending") = (invites'[j].terminalAt = None)
           /\ (invites'[j].state = "claimed") = (invites'[j].claimedBy # None)
      /\ InvitesWereDrawn' /\ WaitingIsPast'
  BY Zenon, <1>1, <1>2, <1>3, EndInviteInv
<1>5. TypeOK'
  BY Zenon, <1>1, <1>4 DEF TypeOK
<1>. QED
  BY Zenon, <1>1, <1>4, <1>5 DEF Inv, OwnersAreRegistered, NamesAreUnique

\* A name that clashes with no registered node is nobody's.
LEMMA FreeNames ==
    ASSUME Inv, NEW slot \in Slot, \A s \in RegisteredSlots : ~Clash(s, slot)
    PROVE  /\ slot.tag = "client" =>
                \A k \in ClientKeys : clients[k] # None => clients[k].name # slot.name
           /\ slot.tag = "edge" =>
                \A e \in EdgeKeys : edges[e] # None =>
                    ~(edges[e].owner = slot.scope /\ edges[e].name = slot.name)
           /\ slot.tag = "relay" =>
                \A r \in RelayKeys : relays[r] # None =>
                    relays[r].name # slot.name /\ relays[r].url # slot.scope
<1>1. ASSUME slot.tag = "client", NEW k \in ClientKeys, clients[k] # None
      PROVE  clients[k].name # slot.name
  <2>1. [tag |-> "client", scope |-> None, name |-> clients[k].name] \in RegisteredSlots
    BY Zenon, <1>1 DEF RegisteredSlots
  <2>2. slot.scope = None
    BY Zenon, <1>1 DEF Slot
  <2>. QED
    BY Zenon, <1>1, <2>1, <2>2 DEF Clash
<1>2. ASSUME slot.tag = "edge", NEW e \in EdgeKeys, edges[e] # None
      PROVE  ~(edges[e].owner = slot.scope /\ edges[e].name = slot.name)
  <2>1. [tag |-> "edge", scope |-> edges[e].owner, name |-> edges[e].name] \in RegisteredSlots
    BY Zenon, <1>2 DEF RegisteredSlots
  <2>. QED
    BY Zenon, <1>2, <2>1 DEF Clash
<1>3. ASSUME slot.tag = "relay", NEW r \in RelayKeys, relays[r] # None
      PROVE  relays[r].name # slot.name /\ relays[r].url # slot.scope
  <2>1. [tag |-> "relay", scope |-> relays[r].url, name |-> relays[r].name] \in RegisteredSlots
    BY Zenon, <1>3 DEF RegisteredSlots
  <2>. QED
    BY Zenon, <1>3, <2>1 DEF Clash
<1>. QED
  BY Zenon, <1>1, <1>2, <1>3

\* claimed_node_change registers the node under its own name and owner.
LEMMA ClaimedNode ==
    ASSUME Inv, NEW w \in waiting, ClaimCommit(w)
    PROVE  /\ clients' \in [ClientKeys -> Client \cup {None}]
           /\ edges' \in [EdgeKeys -> Edge \cup {None}]
           /\ relays' \in [RelayKeys -> Relay \cup {None}]
           /\ OwnersAreRegistered' /\ NamesAreUnique'
<1> TypeOK /\ InvitesWereDrawn /\ WaitingIsPast /\ OwnersAreRegistered /\ NamesAreUnique
  BY Zenon DEF Inv
<1> DEFINE inv == invites[w.invite]
<1>1. w \in Request /\ w.op = "claim" /\ w.invite \in InviteIds /\ w.at \in Int
  BY Zenon DEF ClaimCommit, Request, TypeOK
<1>2. /\ inv \in Invite /\ inv.slot \in Slot /\ inv.managedBy \in Provisioners \cup {None}
      /\ KeyFits(inv.slot, w.key)
  BY <1>1 DEF ClaimCommit, TypeOK, Invite, WaitingIsPast
<1>3. revision + 1 \in Nat /\ w.at + Lifetime \in Int
  BY <1>1, BoundAssumption, DurationAssumption DEF TypeOK
<1>4. ClaimedNodeChange(inv, w) /\ w.qad \in QadPorts \cup {None}
  BY Zenon, <1>1 DEF ClaimCommit, Request
<1> HIDE DEF inv
<1>5. CASE inv.slot.tag = "client"
  <2> DEFINE c == [name |-> inv.slot.name, managedBy |-> inv.managedBy,
                   gen |-> revision + 1, exp |-> w.at + Lifetime]
  <2>1. w.key \in ClientKeys /\ inv.slot.name \in ClientNames
    BY Zenon, <1>2, <1>5 DEF KeyFits, Slot
  <2>2. /\ clients' = [clients EXCEPT ![w.key] = c] /\ edges' = edges /\ relays' = relays
        /\ clients[w.key] = None /\ \A s \in RegisteredSlots : ~Clash(s, inv.slot)
    BY Zenon, <1>4, <1>5 DEF ClaimedNodeChange
  <2>3. c \in Client /\ c # None /\ c.name = inv.slot.name
    BY <1>2, <1>3, <2>1, NoneAssumption DEF Client
  <2> HIDE DEF c
  <2>4. \A k \in ClientKeys : clients[k] # None => clients[k].name # c.name
    BY Zenon, <1>2, <1>5, <2>2, <2>3, FreeNames
  <2>5. clients' \in [ClientKeys -> Client \cup {None}]
    BY Zenon, <2>1, <2>2, <2>3 DEF TypeOK
  <2>6. OwnersAreRegistered'
    BY Zenon, <2>1, <2>2, <2>3 DEF OwnersAreRegistered, TypeOK, Edge
  <2>7. NamesAreUnique'
    BY ZenonT(60), <2>1, <2>2, <2>3, <2>4 DEF NamesAreUnique, TypeOK
  <2>. QED
    BY Zenon, <2>2, <2>5, <2>6, <2>7 DEF TypeOK
<1>6. CASE inv.slot.tag = "edge"
  <2> DEFINE c == [name |-> inv.slot.name, owner |-> inv.slot.scope,
                   gen |-> revision + 1, exp |-> w.at + Lifetime]
  <2>1. w.key \in EdgeKeys /\ inv.slot.name \in EdgeNames /\ inv.slot.scope \in ClientKeys
    BY Zenon, <1>2, <1>6 DEF KeyFits, Slot
  <2>2. /\ edges' = [edges EXCEPT ![w.key] = c] /\ clients' = clients /\ relays' = relays
        /\ clients[inv.slot.scope] # None
        /\ edges[w.key] = None /\ \A s \in RegisteredSlots : ~Clash(s, inv.slot)
    BY Zenon, <1>4, <1>6 DEF ClaimedNodeChange
  <2>3. c \in Edge /\ c # None /\ c.name = inv.slot.name /\ c.owner = inv.slot.scope
    BY <1>2, <1>3, <2>1, NoneAssumption DEF Edge
  <2> HIDE DEF c
  <2>4. \A e \in EdgeKeys : edges[e] # None => ~(edges[e].owner = c.owner /\ edges[e].name = c.name)
    BY <1>2, <1>6, <2>2, <2>3, FreeNames
  <2>5. edges' \in [EdgeKeys -> Edge \cup {None}]
    BY Zenon, <2>1, <2>2, <2>3 DEF TypeOK
  <2>6. OwnersAreRegistered'
    BY Zenon, <2>1, <2>2, <2>3 DEF OwnersAreRegistered, TypeOK
  <2>7. NamesAreUnique'
    BY <2>1, <2>2, <2>3, <2>4 DEF NamesAreUnique, TypeOK
  <2>. QED
    BY Zenon, <2>2, <2>5, <2>6, <2>7 DEF TypeOK
<1>7. CASE inv.slot.tag = "relay"
  <2> DEFINE c == [name |-> inv.slot.name, url |-> inv.slot.scope, qad |-> w.qad]
  <2>1. w.key \in RelayKeys /\ inv.slot.name \in RelayNames /\ inv.slot.scope \in Urls
    BY Zenon, <1>2, <1>7 DEF KeyFits, Slot
  <2>2. /\ relays' = [relays EXCEPT ![w.key] = c] /\ clients' = clients /\ edges' = edges
        /\ relays[w.key] = None /\ \A s \in RegisteredSlots : ~Clash(s, inv.slot)
    BY Zenon, <1>4, <1>7 DEF ClaimedNodeChange
  <2>3. c \in Relay /\ c # None /\ c.name = inv.slot.name /\ c.url = inv.slot.scope
    BY <1>4, <2>1, NoneAssumption DEF Relay
  <2> HIDE DEF c
  <2>4. \A r \in RelayKeys : relays[r] # None => relays[r].name # c.name /\ relays[r].url # c.url
    BY Zenon, <1>2, <1>7, <2>2, <2>3, FreeNames
  <2>5. relays' \in [RelayKeys -> Relay \cup {None}]
    BY Zenon, <2>1, <2>2, <2>3 DEF TypeOK
  <2>6. OwnersAreRegistered'
    BY Zenon, <2>2 DEF OwnersAreRegistered
  <2>7. NamesAreUnique'
    BY <2>1, <2>2, <2>3, <2>4 DEF NamesAreUnique, TypeOK
  <2>. QED
    BY Zenon, <2>2, <2>5, <2>6, <2>7 DEF TypeOK
<1>. QED
  BY Zenon, <1>2, <1>5, <1>6, <1>7 DEF Slot

\* Claiming an invitation.
LEMMA ClaimCommitInv ==
    ASSUME Inv, NEW w \in waiting, ClaimCommit(w)
    PROVE  Inv'
<1> TypeOK /\ InvitesWereDrawn /\ WaitingIsPast /\ OwnersAreRegistered /\ NamesAreUnique
  BY Zenon DEF Inv
<1>1. /\ UNCHANGED <<now, provisioners, drawn, revocations, relayRevision>>
      /\ waiting' \subseteq waiting
      /\ revision' \in 0..MaxRevision
  BY BoundAssumption DEF ClaimCommit, PublishNodes, TypeOK
<1>2. w \in Request /\ w.op = "claim"
  BY Zenon DEF ClaimCommit, TypeOK
<1>3. /\ w.invite \in InviteIds /\ w.key \in Keys \cup RelayKeys /\ w.at \in Int /\ w.key # None
      /\ invites[w.invite] # None
  BY Zenon, <1>2, NoneAssumption DEF Request, ClaimCommit
<1>4. invites' = [invites EXCEPT ![w.invite] =
        [@ EXCEPT !.state = "claimed", !.claimedBy = w.key, !.terminalAt = w.at]]
  BY Zenon DEF ClaimCommit
<1>5. /\ invites' \in [InviteIds -> Invite \cup {None}]
      /\ \A j \in InviteIds : invites'[j] # None =>
           /\ (invites'[j].state = "pending") = (invites'[j].terminalAt = None)
           /\ (invites'[j].state = "claimed") = (invites'[j].claimedBy # None)
      /\ InvitesWereDrawn' /\ WaitingIsPast'
  BY Zenon, <1>1, <1>3, <1>4, EndInviteInv
<1>6. /\ clients' \in [ClientKeys -> Client \cup {None}]
      /\ edges' \in [EdgeKeys -> Edge \cup {None}]
      /\ relays' \in [RelayKeys -> Relay \cup {None}] /\ OwnersAreRegistered' /\ NamesAreUnique'
  BY Zenon, ClaimedNode
<1>7. TypeOK'
  BY Zenon, <1>1, <1>5, <1>6 DEF TypeOK
<1>. QED
  BY Zenon, <1>5, <1>6, <1>7 DEF Inv

\* What changes only the registered nodes, the provisioners, the tombstones and the revisions.
LEMMA RegistryInv ==
    ASSUME Inv, UNCHANGED <<now, invites, drawn>>, waiting' \subseteq waiting,
           clients' \in [ClientKeys -> Client \cup {None}], edges' \in [EdgeKeys -> Edge \cup {None}],
           relays' \in [RelayKeys -> Relay \cup {None}],
           provisioners' \in [Provisioners -> ProvisionerNames \cup {None}],
           revocations' \in [Keys -> Revocation \cup {None}],
           revision' \in 0..MaxRevision, relayRevision' \in 1..MaxRevision,
           OwnersAreRegistered', NamesAreUnique'
    PROVE  Inv'
<1> TypeOK /\ InvitesWereDrawn /\ WaitingIsPast /\ OwnersAreRegistered /\ NamesAreUnique
  BY Zenon DEF Inv
<1>1. now \in Nat /\ drawn \in Nat /\ now' = now /\ drawn' = drawn /\ invites' = invites
  BY BoundAssumption DEF TypeOK
<1>2. WaitingIsPast'
  BY <1>1, WaitingStaysPast
<1>3. TypeOK'
  BY <1>1 DEF TypeOK
<1>. QED
  BY Zenon, <1>1, <1>2, <1>3 DEF Inv, InvitesWereDrawn

\* A renewal moves an expiry, nothing else.
LEMMA RenewCommitInv ==
    ASSUME Inv, NEW w \in waiting, RenewCommit(w)
    PROVE  Inv'
<1> TypeOK /\ InvitesWereDrawn /\ WaitingIsPast /\ OwnersAreRegistered /\ NamesAreUnique
  BY Zenon DEF Inv
<1>1. UNCHANGED <<now, relays, provisioners, invites, drawn, revocations, revision, relayRevision>>
  BY Zenon DEF RenewCommit, Quiet
<1>2. w \in Request /\ w.op = "renew" /\ waiting' \subseteq waiting
  BY Zenon DEF RenewCommit, TypeOK
<1>3. w.key \in Keys /\ w.at + Lifetime \in Int
  BY <1>2, DurationAssumption DEF Request
<1>4. CASE w.key \in ClientKeys /\ clients[w.key] # None
  <2> DEFINE c == [clients[w.key] EXCEPT !.exp = w.at + Lifetime]
  <2>1. clients' = [clients EXCEPT ![w.key] = c] /\ edges' = edges
    BY Zenon, <1>4 DEF RenewCommit
  <2>2. clients[w.key] \in Client
    BY Zenon, <1>4 DEF TypeOK
  <2>3. c \in Client /\ c # None /\ c.name = clients[w.key].name
    BY Zenon, <1>3, <2>2, NoneAssumption DEF Client
  <2> HIDE DEF c
  <2>4. clients' \in [ClientKeys -> Client \cup {None}]
    BY Zenon, <1>4, <2>1, <2>3 DEF TypeOK
  <2>5. OwnersAreRegistered'
    BY Zenon, <1>4, <2>1, <2>3 DEF OwnersAreRegistered, TypeOK, Edge
  <2>6. NamesAreUnique'
    BY <1>1, <1>4, <2>1, <2>3 DEF NamesAreUnique, TypeOK
  <2>. QED
    BY Zenon, <1>1, <1>2, <2>1, <2>4, <2>5, <2>6, RegistryInv DEF TypeOK
<1>5. CASE ~(w.key \in ClientKeys /\ clients[w.key] # None)
  <2> DEFINE c == [edges[w.key] EXCEPT !.exp = w.at + Lifetime]
  <2>1. /\ edges' = [edges EXCEPT ![w.key] = c] /\ clients' = clients
        /\ w.key \in EdgeKeys /\ edges[w.key] # None
    BY Zenon, <1>5 DEF RenewCommit, ExpiringAt
  <2>2. edges[w.key] \in Edge
    BY Zenon, <2>1 DEF TypeOK
  <2>3. c \in Edge /\ c # None /\ c.name = edges[w.key].name /\ c.owner = edges[w.key].owner
    BY Zenon, <1>3, <2>2, NoneAssumption DEF Edge
  <2> HIDE DEF c
  <2>4. edges' \in [EdgeKeys -> Edge \cup {None}]
    BY Zenon, <2>1, <2>3 DEF TypeOK
  <2>5. OwnersAreRegistered'
    BY Zenon, <2>1, <2>3 DEF OwnersAreRegistered, TypeOK
  <2>6. NamesAreUnique'
    BY <1>1, <2>1, <2>3 DEF NamesAreUnique, TypeOK
  <2>. QED
    BY Zenon, <1>1, <1>2, <2>1, <2>4, <2>5, <2>6, RegistryInv DEF TypeOK
<1>. QED
  BY Zenon, <1>4, <1>5

\* A tombstone is well formed.
LEMMA BuryType ==
    ASSUME Inv, NEW kind, NEW k \in Keys, NEW cred, cred.gen \in Nat, cred.exp \in Int,
           Bury(kind, k, cred)
    PROVE  /\ revision' \in 0..MaxRevision /\ relayRevision' \in 1..MaxRevision
           /\ revocations' \in [Keys -> Revocation \cup {None}]
<1> TypeOK /\ InvitesWereDrawn /\ WaitingIsPast /\ OwnersAreRegistered /\ NamesAreUnique
  BY Zenon DEF Inv
<1>1. /\ revision' \in 0..MaxRevision /\ relayRevision' \in 1..MaxRevision
      /\ relayRevision + 1 \in Nat
      /\ revocations' = [revocations EXCEPT ![k] = RevocationChange(k, cred)]
  BY BoundAssumption DEF Bury, PublishNodesAndRelays, TypeOK
<1>2. revocations[k] # None => revocations[k].through \in Nat /\ revocations[k].exp \in Int
  BY Zenon DEF TypeOK, Revocation
<1>3. RevocationChange(k, cred) \in Revocation
  BY Zenon, <1>1, <1>2 DEF RevocationChange, Revocation
<1>. QED
  BY Zenon, <1>1, <1>3 DEF TypeOK

\* Removing a Client that owns no Edge, or an Edge.
LEMMA RemoveInv ==
    ASSUME Inv, \/ \E k \in ClientKeys : RemoveClient(k)
                \/ \E e \in EdgeKeys : RemoveEdge(e)
    PROVE  Inv'
<1> TypeOK /\ InvitesWereDrawn /\ WaitingIsPast /\ OwnersAreRegistered /\ NamesAreUnique
  BY Zenon DEF Inv
<1>1. ASSUME NEW k \in ClientKeys, RemoveClient(k) PROVE Inv'
  <2>1. /\ UNCHANGED <<now, edges, relays, provisioners, invites, drawn, waiting>>
        /\ clients' = [clients EXCEPT ![k] = None] /\ Bury("client", k, clients[k]) /\ k \in Keys
        /\ \A e \in EdgeKeys : edges[e] # None => edges[e].owner # k
    BY Zenon, <1>1 DEF RemoveClient, Keys
  <2>2. clients[k].gen \in Nat /\ clients[k].exp \in Int
    BY Zenon, <1>1 DEF RemoveClient, TypeOK, Client
  <2>3. /\ revision' \in 0..MaxRevision /\ relayRevision' \in 1..MaxRevision
        /\ revocations' \in [Keys -> Revocation \cup {None}]
    BY Zenon, <2>1, <2>2, BuryType
  <2>4. OwnersAreRegistered'
    BY Zenon, <2>1 DEF OwnersAreRegistered, TypeOK, Edge
  <2>5. NamesAreUnique'
    BY Zenon, <2>1 DEF NamesAreUnique, TypeOK
  <2>6. clients' \in [ClientKeys -> Client \cup {None}]
    BY Zenon, <2>1 DEF TypeOK
  <2>. QED
    BY Zenon, <2>1, <2>3, <2>4, <2>5, <2>6, RegistryInv DEF TypeOK
<1>2. ASSUME NEW e \in EdgeKeys, RemoveEdge(e) PROVE Inv'
  <2>1. /\ UNCHANGED <<now, clients, relays, provisioners, invites, drawn, waiting>>
        /\ edges' = [edges EXCEPT ![e] = None] /\ Bury("edge", e, edges[e]) /\ e \in Keys
    BY Zenon, <1>2 DEF RemoveEdge, Keys
  <2>2. edges[e].gen \in Nat /\ edges[e].exp \in Int
    BY Zenon, <1>2 DEF RemoveEdge, TypeOK, Edge
  <2>3. /\ revision' \in 0..MaxRevision /\ relayRevision' \in 1..MaxRevision
        /\ revocations' \in [Keys -> Revocation \cup {None}]
    BY Zenon, <2>1, <2>2, BuryType
  <2>4. OwnersAreRegistered'
    BY Zenon, <2>1 DEF OwnersAreRegistered, TypeOK
  <2>5. NamesAreUnique'
    BY Zenon, <2>1 DEF NamesAreUnique, TypeOK
  <2>6. edges' \in [EdgeKeys -> Edge \cup {None}]
    BY Zenon, <2>1 DEF TypeOK
  <2>. QED
    BY Zenon, <2>1, <2>3, <2>4, <2>5, <2>6, RegistryInv DEF TypeOK
<1>. QED
  BY Zenon, <1>1, <1>2

\* Handing an Edge to another Client, which is registered and has no Edge of that name.
LEMMA TransferEdgeInv ==
    ASSUME Inv, NEW e \in EdgeKeys, NEW k \in ClientKeys, TransferEdge(e, k)
    PROVE  Inv'
<1> TypeOK /\ InvitesWereDrawn /\ WaitingIsPast /\ OwnersAreRegistered /\ NamesAreUnique
  BY Zenon DEF Inv
<1> DEFINE c == [edges[e] EXCEPT !.owner = k]
<1>1. /\ UNCHANGED <<now, clients, relays, provisioners, invites, drawn, revocations, waiting, relayRevision>>
      /\ edges' = [edges EXCEPT ![e] = c] /\ edges[e] # None /\ clients[k] # None
      /\ \A f \in EdgeKeys : edges[f] # None => ~(edges[f].owner = k /\ edges[f].name = edges[e].name)
  BY Zenon DEF TransferEdge, PublishNodes
<1>2. revision' \in 0..MaxRevision
  BY BoundAssumption DEF TransferEdge, PublishNodes, TypeOK
<1>3. edges[e] \in Edge
  BY Zenon, <1>1 DEF TypeOK
<1>4. c \in Edge /\ c # None /\ c.owner = k /\ c.name = edges[e].name
  BY Zenon, <1>3, NoneAssumption DEF Edge
<1> HIDE DEF c
<1>5. edges' \in [EdgeKeys -> Edge \cup {None}]
  BY Zenon, <1>1, <1>4 DEF TypeOK
<1>6. OwnersAreRegistered'
  BY Zenon, <1>1, <1>4 DEF OwnersAreRegistered, TypeOK
<1>7. NamesAreUnique'
  BY <1>1, <1>4 DEF NamesAreUnique, TypeOK
<1>. QED
  BY Zenon, <1>1, <1>2, <1>5, <1>6, <1>7, RegistryInv DEF TypeOK

\* Relays go, or report another port; provisioners come and go.
LEMMA RelayAndProvisionerInv ==
    ASSUME Inv,
           \/ \E r \in RelayKeys :
                AdminRemoveRelay(r) \/ \E q \in QadPorts \cup {None} : UpdateRelayQadPort(r, q)
           \/ \E p \in Provisioners :
                RemoveProvisioner(p) \/ \E n \in ProvisionerNames : AddProvisioner(p, n)
    PROVE  Inv'
<1> TypeOK /\ InvitesWereDrawn /\ WaitingIsPast /\ OwnersAreRegistered /\ NamesAreUnique
  BY Zenon DEF Inv
<1>1. ASSUME NEW r \in RelayKeys, AdminRemoveRelay(r) PROVE Inv'
  <2>1. /\ UNCHANGED <<now, clients, edges, provisioners, invites, drawn, revocations, waiting>>
        /\ relays' = [relays EXCEPT ![r] = None]
    BY Zenon, <1>1 DEF AdminRemoveRelay
  <2>2. revision' \in 0..MaxRevision /\ relayRevision' \in 1..MaxRevision
    BY <1>1, BoundAssumption DEF AdminRemoveRelay, PublishNodesAndRelays, TypeOK
  <2>3. OwnersAreRegistered' /\ NamesAreUnique' /\ relays' \in [RelayKeys -> Relay \cup {None}]
    BY Zenon, <2>1 DEF OwnersAreRegistered, NamesAreUnique, TypeOK
  <2>. QED
    BY Zenon, <2>1, <2>2, <2>3, RegistryInv DEF TypeOK
<1>2. ASSUME NEW r \in RelayKeys, NEW q \in QadPorts \cup {None}, UpdateRelayQadPort(r, q) PROVE Inv'
  <2> DEFINE c == [relays[r] EXCEPT !.qad = q]
  <2>1. /\ UNCHANGED <<now, clients, edges, provisioners, invites, drawn, revocations, waiting, relayRevision>>
        /\ relays' = [relays EXCEPT ![r] = c] /\ relays[r] # None
    BY Zenon, <1>2 DEF UpdateRelayQadPort, PublishNodes
  <2>2. revision' \in 0..MaxRevision
    BY <1>2, BoundAssumption DEF UpdateRelayQadPort, PublishNodes, TypeOK
  <2>3. relays[r] \in Relay
    BY Zenon, <2>1 DEF TypeOK
  <2>4. c \in Relay /\ c # None /\ c.name = relays[r].name /\ c.url = relays[r].url
    BY Zenon, <2>3, NoneAssumption DEF Relay
  <2> HIDE DEF c
  <2>5. relays' \in [RelayKeys -> Relay \cup {None}] /\ OwnersAreRegistered'
    BY Zenon, <2>1, <2>4 DEF TypeOK, OwnersAreRegistered
  <2>6. NamesAreUnique'
    BY <2>1, <2>4 DEF NamesAreUnique, TypeOK
  <2>. QED
    BY Zenon, <2>1, <2>2, <2>5, <2>6, RegistryInv DEF TypeOK
<1>3. ASSUME NEW p \in Provisioners, RemoveProvisioner(p) \/ \E n \in ProvisionerNames : AddProvisioner(p, n)
      PROVE  Inv'
  <2>1. /\ UNCHANGED <<now, clients, edges, relays, invites, drawn, revocations, waiting, relayRevision>>
        /\ provisioners' \in [Provisioners -> ProvisionerNames \cup {None}]
    BY <1>3 DEF RemoveProvisioner, AddProvisioner, PublishNodes, TypeOK
  <2>2. revision' \in 0..MaxRevision
    BY <1>3, BoundAssumption DEF RemoveProvisioner, AddProvisioner, PublishNodes, TypeOK
  <2>3. OwnersAreRegistered' /\ NamesAreUnique'
    BY Zenon, <2>1 DEF OwnersAreRegistered, NamesAreUnique
  <2>. QED
    BY ZenonT(60), <2>1, <2>2, <2>3, RegistryInv DEF TypeOK
<1>. QED
  BY Zenon, <1>1, <1>2, <1>3

\* The cleanup and the clock.
LEMMA TimeInv ==
    ASSUME Inv, Tick \/ (DropExpired /\ waiting' \subseteq waiting)
    PROVE  Inv'
<1> TypeOK /\ InvitesWereDrawn /\ WaitingIsPast /\ OwnersAreRegistered /\ NamesAreUnique
  BY Zenon DEF Inv
<1>1. /\ UNCHANGED <<clients, edges, relays, provisioners, drawn, revision, relayRevision>>
      /\ waiting' \subseteq waiting
  BY Zenon DEF Tick, DropExpired, Quiet, topology
<1>2. now \in Nat /\ now' \in 0..MaxTime /\ now' \in Nat /\ now' >= now /\ drawn \in Nat
  BY BoundAssumption DEF Tick, DropExpired, TypeOK
<1>3. /\ invites' \in [InviteIds -> Invite \cup {None}]
      /\ revocations' \in [Keys -> Revocation \cup {None}]
  BY Zenon DEF Tick, DropExpired, TypeOK
<1>4. \A i \in InviteIds : invites'[i] \in {None, invites[i]}
  BY Zenon DEF Tick, DropExpired
<1>5. WaitingIsPast'
  BY <1>1, <1>2, <1>4, WaitingStaysPast
<1>6. TypeOK'
  BY <1>1, <1>2, <1>3, <1>4 DEF TypeOK
<1>. QED
  BY Zenon, <1>1, <1>4, <1>5, <1>6 DEF Inv, InvitesWereDrawn, OwnersAreRegistered, NamesAreUnique

\* The invariant is inductive.
LEMMA NextInv == Inv /\ [Next]_vars => Inv'
<1> SUFFICES ASSUME Inv, [Next]_vars PROVE Inv'
  BY Zenon
<1>1. CASE Next
  <2>1. Step
    BY Zenon, <1>1, NextIsStep
  <2>2. CASE Wait
    BY Zenon, <2>2 DEF Wait, topology, Inv, TypeOK, InvitesWereDrawn, OwnersAreRegistered, NamesAreUnique
  <2>. QED
    BY Zenon, <2>1, <2>2, InsertInviteInv, RevokeInviteInv, ClaimCommitInv, RenewCommitInv, RemoveInv,
       TransferEdgeInv, RelayAndProvisionerInv, TimeInv
       DEF Step
<1>2. CASE UNCHANGED vars
  BY Zenon, <1>2
     DEF vars, topology, Inv, TypeOK, ActivePending, InvitesWereDrawn, WaitingIsPast,
         OwnersAreRegistered,
              NamesAreUnique
<1>. QED
  BY Zenon, <1>1, <1>2

\* So it holds throughout.
THEOREM InvHolds == Spec => []Inv
  BY InitInv, NextInv, PTL DEF Spec

\* Whatever commands, claims, removals and transfers interleave, records stay well formed, names
\* resolve to one node and the owner of an Edge stays registered.
THEOREM TopologyStaysSound == Spec => []TopologyIsSound
<1>1. Inv => TopologyIsSound
  BY Zenon DEF Inv, TopologyIsSound
<1>. QED
  BY <1>1, InvHolds, PTL

-----------------------------------------------------------------------------
(* What a step may never do.                                               *)

\* Only claims register, and they spend the invitation they are for.
LEMMA ClaimSpends ==
    ASSUME Inv, NEW w \in waiting, ClaimCommit(w)
    PROVE  /\ \A k \in ClientKeys : clients[k] = None /\ clients'[k] # None =>
                \E i \in InviteIds :
                    Spends(i, [tag |-> "client", scope |-> None, name |-> clients'[k].name], k)
           /\ \A k \in EdgeKeys : edges[k] = None /\ edges'[k] # None =>
                \E i \in InviteIds :
                    Spends(i, [tag |-> "edge", scope |-> edges'[k].owner, name |-> edges'[k].name], k)
           /\ \A k \in RelayKeys : relays[k] = None /\ relays'[k] # None =>
                \E i \in InviteIds :
                    Spends(i, [tag |-> "relay", scope |-> relays'[k].url, name |-> relays'[k].name], k)
<1> TypeOK
  BY Zenon DEF Inv
<1> DEFINE inv == invites[w.invite]
<1>1. w.invite \in InviteIds
  BY Zenon DEF ClaimCommit, Request, TypeOK
<1>2. inv \in Invite /\ inv.slot \in Slot /\ inv.state = "pending"
  BY <1>1 DEF ClaimCommit, TypeOK, Invite
<1>3. invites'[w.invite].state = "claimed" /\ invites'[w.invite].claimedBy = w.key
  BY Zenon, <1>1, <1>2 DEF ClaimCommit, TypeOK, Invite
<1>4. \A slot : inv.slot = slot => Spends(w.invite, slot, w.key)
  BY Zenon, <1>2, <1>3 DEF Spends, ClaimCommit
<1>5. ClaimedNodeChange(inv, w)
  BY Zenon DEF ClaimCommit
<1> HIDE DEF inv
<1>6. CASE inv.slot.tag = "client"
  <2>1. /\ clients' = [clients EXCEPT ![w.key] = [name |-> inv.slot.name, managedBy |-> inv.managedBy,
                                                  gen |-> revision + 1, exp |-> w.at + Lifetime]]
        /\ UNCHANGED <<edges, relays>>
    BY Zenon, <1>5, <1>6 DEF ClaimedNodeChange
  <2>2. inv.slot = [tag |-> "client", scope |-> None, name |-> inv.slot.name]
    BY Zenon, <1>2, <1>6 DEF Slot
  <2>. QED
    BY Zenon, <1>1, <1>4, <2>1, <2>2 DEF TypeOK
<1>7. CASE inv.slot.tag = "edge"
  <2>1. /\ edges' = [edges EXCEPT ![w.key] = [name |-> inv.slot.name, owner |-> inv.slot.scope,
                                              gen |-> revision + 1, exp |-> w.at + Lifetime]]
        /\ UNCHANGED <<clients, relays>>
    BY Zenon, <1>5, <1>7 DEF ClaimedNodeChange
  <2>2. inv.slot = [tag |-> "edge", scope |-> inv.slot.scope, name |-> inv.slot.name]
    BY Zenon, <1>2, <1>7 DEF Slot
  <2>. QED
    BY Zenon, <1>1, <1>4, <2>1, <2>2 DEF TypeOK
<1>8. CASE inv.slot.tag = "relay"
  <2>1. /\ relays' = [relays EXCEPT ![w.key] =
                        [name |-> inv.slot.name, url |-> inv.slot.scope, qad |-> w.qad]]
        /\ UNCHANGED <<clients, edges>>
    BY Zenon, <1>5, <1>8 DEF ClaimedNodeChange
  <2>2. inv.slot = [tag |-> "relay", scope |-> inv.slot.scope, name |-> inv.slot.name]
    BY Zenon, <1>2, <1>8 DEF Slot
  <2>. QED
    BY Zenon, <1>1, <1>4, <2>1, <2>2 DEF TypeOK
<1>. QED
  BY Zenon, <1>2, <1>6, <1>7, <1>8 DEF Slot

\* Every other step registers nobody.
LEMMA OthersRegisterNobody ==
    ASSUME Inv, Step, ~\E w \in waiting : ClaimCommit(w)
    PROVE  /\ \A k \in ClientKeys : clients[k] = None => clients'[k] = None
           /\ \A k \in EdgeKeys : edges[k] = None => edges'[k] = None
           /\ \A k \in RelayKeys : relays[k] = None => relays'[k] = None
<1> TypeOK
  BY Zenon DEF Inv
<1>1. CASE UNCHANGED <<clients, edges, relays>>
  BY Zenon, <1>1
<1>2. ASSUME NEW w \in waiting, RenewCommit(w)
      PROVE  /\ UNCHANGED relays
             /\ \A k \in ClientKeys : clients[k] = None => clients'[k] = None
             /\ \A k \in EdgeKeys : edges[k] = None => edges'[k] = None
  BY Zenon, <1>2 DEF RenewCommit, ExpiringAt, TypeOK
<1>3. ASSUME NEW k \in ClientKeys, RemoveClient(k)
      PROVE  UNCHANGED <<edges, relays>> /\ \A l \in ClientKeys : clients[l] = None => clients'[l] = None
  BY Zenon, <1>3 DEF RemoveClient, TypeOK
<1>4. ASSUME NEW e \in EdgeKeys, RemoveEdge(e) \/ \E k \in ClientKeys : TransferEdge(e, k)
      PROVE  UNCHANGED <<clients, relays>> /\ \A f \in EdgeKeys : edges[f] = None => edges'[f] = None
  BY Zenon, <1>4 DEF RemoveEdge, TransferEdge, TypeOK
<1>5. ASSUME NEW r \in RelayKeys,
             AdminRemoveRelay(r) \/ \E q \in QadPorts \cup {None} : UpdateRelayQadPort(r, q)
      PROVE  UNCHANGED <<clients, edges>> /\ \A s \in RelayKeys : relays[s] = None => relays'[s] = None
  BY Zenon, <1>5 DEF AdminRemoveRelay, UpdateRelayQadPort, TypeOK
<1>6. ASSUME \/ \E r \in NewInvite : InsertInvite(r)
             \/ \E i \in InviteIds : RevokeInvite(i)
             \/ Wait
             \/ \E p \in Provisioners : RemoveProvisioner(p) \/ \E n \in ProvisionerNames : AddProvisioner(p, n)
             \/ DropExpired
             \/ Tick
      PROVE  UNCHANGED <<clients, edges, relays>>
  BY Zenon, <1>6
     DEF InsertInvite, RevokeInvite, Wait, RemoveProvisioner, AddProvisioner, DropExpired, Tick,
         topology
<1>. QED
  BY Zenon, <1>1, <1>2, <1>3, <1>4, <1>5, <1>6 DEF Step

\* An invitation that is over stays as it is, or goes.
LEMMA OverIsOver ==
    ASSUME Inv, Step, NEW i \in InviteIds, invites[i] # None, invites[i].state # "pending"
    PROVE  invites'[i] \in {None, invites[i]}
<1> TypeOK /\ InvitesWereDrawn
  BY Zenon DEF Inv
<1>1. ASSUME NEW r \in NewInvite, InsertInvite(r) PROVE invites'[i] = invites[i]
  <2>1. i <= drawn /\ drawn \in Nat /\ i \in Int
    BY BoundAssumption DEF InvitesWereDrawn, TypeOK, InviteIds
  <2>2. i # drawn + 1
    BY <2>1
  <2>. QED
    BY Zenon, <1>1, <2>2 DEF InsertInvite, TypeOK
<1>2. ASSUME NEW j \in InviteIds, RevokeInvite(j) PROVE invites'[i] = invites[i]
  BY Zenon, <1>2 DEF RevokeInvite, TypeOK
<1>3. ASSUME NEW w \in waiting, ClaimCommit(w) PROVE invites'[i] = invites[i]
  BY Zenon, <1>3 DEF ClaimCommit, TypeOK
<1>4. ASSUME DropExpired \/ Tick PROVE invites'[i] \in {None, invites[i]}
  BY Zenon, <1>4 DEF DropExpired, Tick
<1>. QED
  BY Zenon, <1>1, <1>2, <1>3, <1>4
     DEF Step, Wait, RenewCommit, RemoveClient, RemoveEdge, TransferEdge, AdminRemoveRelay,
         UpdateRelayQadPort, RemoveProvisioner, AddProvisioner

\* An invitation lets in one node, the one it was for, once, in every behaviour of as-control.
THEOREM InvitesStaySpent == Spec => InvitesAreSpentOnce
<1> DEFINE A == /\ \A i \in InviteIds : invites[i] # None /\ invites[i].state # "pending" =>
                     invites'[i] \in {None, invites[i]}
                /\ \A k \in ClientKeys : clients[k] = None /\ clients'[k] # None =>
                     \E i \in InviteIds :
                         Spends(i, [tag |-> "client", scope |-> None, name |-> clients'[k].name], k)
                /\ \A k \in EdgeKeys : edges[k] = None /\ edges'[k] # None =>
                     \E i \in InviteIds :
                         Spends(i, [tag |-> "edge", scope |-> edges'[k].owner, name |-> edges'[k].name], k)
                /\ \A k \in RelayKeys : relays[k] = None /\ relays'[k] # None =>
                     \E i \in InviteIds :
                         Spends(i, [tag |-> "relay", scope |-> relays'[k].url, name |-> relays'[k].name], k)
<1>1. Inv /\ [Next]_vars => [A]_vars
  <2> SUFFICES ASSUME Inv, Next PROVE A
    BY Zenon
  <2>1. Step
    BY Zenon, NextIsStep
  <2>2. CASE \E w \in waiting : ClaimCommit(w)
    BY Zenon, <2>1, <2>2, OverIsOver, ClaimSpends
  <2>3. CASE ~\E w \in waiting : ClaimCommit(w)
    BY Zenon, <2>1, <2>3, OverIsOver, OthersRegisterNobody
  <2>. QED
    BY Zenon, <2>2, <2>3
<1>. QED
  BY <1>1, InvHolds, PTL DEF Spec, InvitesAreSpentOnce

\* The steps that leave the revision alone.
LEMMA QuietSteps ==
    ASSUME Inv, Step, revision' = revision
    PROVE  \/ Wait
           \/ \E w \in waiting : RenewCommit(w)
           \/ DropExpired
           \/ Tick
<1> TypeOK
  BY Zenon DEF Inv
<1>1. revision + 1 # revision
  BY BoundAssumption DEF TypeOK
<1>. QED
  BY Zenon, <1>1
     DEF Step, InsertInvite, RevokeInvite, ClaimCommit, RemoveClient, RemoveEdge, Bury,
         TransferEdge,
              AdminRemoveRelay, UpdateRelayQadPort, AddProvisioner, RemoveProvisioner,
              PublishNodes, PublishNodesAndRelays

\* A revision identifies what nodes and provisioners are shown, in every behaviour of as-control.
THEOREM RevisionsIdentifyViews == Spec => RevisionIdentifiesView
<1> DEFINE A == revision' = revision => View' = [View EXCEPT !.open = {i \in @ : ActivePending(i)'}]
<1>1. Inv /\ [Next]_vars => [A]_vars
  <2> SUFFICES ASSUME Inv, Next, revision' = revision
               PROVE  View' = [View EXCEPT !.open = {i \in @ : ActivePending(i)'}]
    BY Zenon
  <2> USE DEF Inv
  <2>1. \/ Wait
        \/ \E w \in waiting : RenewCommit(w)
        \/ DropExpired
        \/ Tick
    BY Zenon, NextIsStep, QuietSteps
  <2>2. relays' = relays /\ provisioners' = provisioners
    BY Zenon, <2>1 DEF Wait, RenewCommit, DropExpired, Tick, topology
  <2>3. /\ \A k \in ClientKeys :
             /\ (clients'[k] = None) = (clients[k] = None)
             /\ clients[k] # None => /\ clients'[k].name = clients[k].name
                                     /\ clients'[k].managedBy = clients[k].managedBy
                                     /\ clients'[k].gen = clients[k].gen
        /\ \A e \in EdgeKeys :
             /\ (edges'[e] = None) = (edges[e] = None)
             /\ edges[e] # None => /\ edges'[e].name = edges[e].name
                                   /\ edges'[e].owner = edges[e].owner
                                   /\ edges'[e].gen = edges[e].gen
    <3>1. CASE UNCHANGED <<clients, edges>>
      BY Zenon, <3>1
    <3>2. ASSUME NEW w \in waiting, RenewCommit(w), w.key \in ClientKeys /\ clients[w.key] # None
          PROVE  <2>3!1 /\ <2>3!2
      <4> DEFINE c == [clients[w.key] EXCEPT !.exp = w.at + Lifetime]
      <4>1. clients' = [clients EXCEPT ![w.key] = c] /\ edges' = edges /\ clients[w.key] \in Client
        BY Zenon, <3>2 DEF RenewCommit, TypeOK
      <4>2. w \in Request /\ w.op = "renew"
        BY Zenon, <3>2 DEF RenewCommit, TypeOK
      <4>3. w.at + Lifetime \in Int
        BY <4>2, DurationAssumption DEF Request
      <4>4. /\ c \in Client /\ c # None /\ c.name = clients[w.key].name
            /\ c.managedBy = clients[w.key].managedBy /\ c.gen = clients[w.key].gen
        BY Zenon, <4>1, <4>3, NoneAssumption DEF Client
      <4> HIDE DEF c
      <4>. QED
        BY Zenon, <3>2, <4>1, <4>4 DEF TypeOK
    <3>3. ASSUME NEW w \in waiting, RenewCommit(w), ~(w.key \in ClientKeys /\ clients[w.key] # None)
          PROVE  <2>3!1 /\ <2>3!2
      <4> DEFINE c == [edges[w.key] EXCEPT !.exp = w.at + Lifetime]
      <4>1. /\ edges' = [edges EXCEPT ![w.key] = c] /\ clients' = clients
            /\ w.key \in EdgeKeys /\ edges[w.key] # None
        BY Zenon, <3>3 DEF RenewCommit, ExpiringAt
      <4>2. edges[w.key] \in Edge /\ w \in Request /\ w.op = "renew"
        BY Zenon, <3>3, <4>1 DEF RenewCommit, TypeOK
      <4>3. w.at + Lifetime \in Int
        BY <4>2, DurationAssumption DEF Request
      <4>4. /\ c \in Edge /\ c # None /\ c.name = edges[w.key].name
            /\ c.owner = edges[w.key].owner /\ c.gen = edges[w.key].gen
        BY Zenon, <4>2, <4>3, NoneAssumption DEF Edge
      <4> HIDE DEF c
      <4>. QED
        BY Zenon, <4>1, <4>4 DEF TypeOK
    <3>. QED
      BY Zenon, <2>1, <3>1, <3>2, <3>3 DEF Wait, DropExpired, Tick, topology
  <2>4. ASSUME NEW i \in InviteIds, ActivePending(i)' PROVE ActivePending(i)
    <3>1. now' \in Nat /\ now \in Nat /\ now <= now'
      <4>1. now' = now \/ now' = now + 1
        BY Zenon, <2>1 DEF Wait, RenewCommit, DropExpired, Tick
      <4>. QED
        BY <4>1, BoundAssumption DEF TypeOK
    <3>2. invites'[i] = invites[i]
      BY Zenon, <2>1, <2>4 DEF Wait, RenewCommit, DropExpired, Tick, ActivePending
    <3>3. invites[i] # None /\ invites[i].exp \in Int /\ invites[i].exp >= now'
      BY Zenon, <2>4, <3>2 DEF ActivePending, TypeOK, Invite
    <3>. QED
      BY <2>4, <3>1, <3>2, <3>3 DEF ActivePending
  <2>5. {i \in InviteIds : ActivePending(i)}'
          = {i \in {j \in InviteIds : ActivePending(j)} : ActivePending(i)'}
    BY Zenon, <2>4 DEF InviteIds
  <2>6. [k \in ClientKeys |-> IF clients[k] = None THEN None
                              ELSE <<clients[k].name, clients[k].managedBy, clients[k].gen>>]'
          = [k \in ClientKeys |-> IF clients[k] = None THEN None
                                  ELSE <<clients[k].name, clients[k].managedBy, clients[k].gen>>]
    BY Zenon, <2>3
  <2>7. [e \in EdgeKeys |-> IF edges[e] = None THEN None
                            ELSE <<edges[e].name, edges[e].owner, edges[e].gen>>]'
          = [e \in EdgeKeys |-> IF edges[e] = None THEN None
                                ELSE <<edges[e].name, edges[e].owner, edges[e].gen>>]
    BY Zenon, <2>3
  <2>. QED
    <3>1. PICK c, e, o, p :
            /\ View = [clients |-> c, edges |-> e, relays |-> relays, provisioners |-> provisioners, open |-> o]
            /\ View' = [clients |-> c, edges |-> e, relays |-> relays, provisioners |-> provisioners, open |-> p]
            /\ p = {i \in o : ActivePending(i)'}
      BY Zenon, <2>2, <2>5, <2>6, <2>7 DEF View
    <3>2. View.open = o
      BY Zenon, <3>1
    <3>. QED
      BY <3>1, <3>2
<1>. QED
  BY <1>1, InvHolds, PTL DEF Spec, RevisionIdentifiesView

-----------------------------------------------------------------------------
(* Control implements the credential authority.                            *)

\* The credential of a Client, before a step and after it.
LEMMA LiveClient ==
    ASSUME NEW k \in Keys
    PROVE  /\ Live[<<"client", k>>] = IF k \in ClientKeys /\ clients[k] # None
                                      THEN [gen |-> clients[k].gen, exp |-> clients[k].exp] ELSE None
           /\ Live'[<<"client", k>>] = IF k \in ClientKeys /\ clients'[k] # None
                                       THEN [gen |-> clients'[k].gen, exp |-> clients'[k].exp] ELSE None
  BY Zenon DEF Live

\* The credential of an Edge.
LEMMA LiveEdge ==
    ASSUME NEW k \in Keys
    PROVE  /\ Live[<<"edge", k>>] = IF k \in EdgeKeys /\ edges[k] # None
                                    THEN [gen |-> edges[k].gen, exp |-> edges[k].exp] ELSE None
           /\ Live'[<<"edge", k>>] = IF k \in EdgeKeys /\ edges'[k] # None
                                     THEN [gen |-> edges'[k].gen, exp |-> edges'[k].exp] ELSE None
  BY Zenon DEF Live

\* Both are functions of the subjects.
LEMMA LiveDomain ==
    /\ Live = [s \in {"client", "edge"} \X Keys |-> Live[s]]
    /\ Live' = [s \in {"client", "edge"} \X Keys |-> Live'[s]]
  BY Zenon DEF Live

\* Subjects are compared one by one.
LEMMA LiveIs ==
    ASSUME NEW f, f = [s \in {"client", "edge"} \X Keys |-> f[s]],
           \A k \in Keys : Live'[<<"client", k>>] = f[<<"client", k>>],
           \A k \in Keys : Live'[<<"edge", k>>] = f[<<"edge", k>>]
    PROVE  Live' = f
<1>1. \A s \in {"client", "edge"} \X Keys : Live'[s] = f[s]
  OBVIOUS
<1>2. Live' = [s \in {"client", "edge"} \X Keys |-> Live'[s]]
  BY Zenon, LiveDomain
<1> QED
  BY Zenon, <1>1, <1>2

\* Credentials stay when generations and expiries do.
LEMMA LiveStays ==
    ASSUME \A k \in ClientKeys : /\ clients'[k] = None <=> clients[k] = None
                                 /\ clients[k] # None => /\ clients'[k].gen = clients[k].gen
                                                         /\ clients'[k].exp = clients[k].exp,
           \A e \in EdgeKeys : /\ edges'[e] = None <=> edges[e] = None
                               /\ edges[e] # None => /\ edges'[e].gen = edges[e].gen
                                                     /\ edges'[e].exp = edges[e].exp
    PROVE  Live' = Live
<1>1. ASSUME NEW k \in Keys PROVE Live'[<<"client", k>>] = Live[<<"client", k>>]
  <2>1. CASE k \in ClientKeys /\ clients[k] # None
    BY ZenonT(60), <2>1, LiveClient
  <2>2. CASE ~(k \in ClientKeys /\ clients[k] # None)
    BY Zenon, <2>2, LiveClient
  <2>. QED
    BY Zenon, <2>1, <2>2
<1>2. ASSUME NEW k \in Keys PROVE Live'[<<"edge", k>>] = Live[<<"edge", k>>]
  <2>1. CASE k \in EdgeKeys /\ edges[k] # None
    BY ZenonT(60), <2>1, LiveEdge
  <2>2. CASE ~(k \in EdgeKeys /\ edges[k] # None)
    BY Zenon, <2>2, LiveEdge
  <2>. QED
    BY Zenon, <2>1, <2>2
<1>. QED
  BY Zenon, <1>1, <1>2, LiveDomain, LiveIs

\* A change of one Client, or of one Edge, changes one subject.
LEMMA LiveChanges ==
    ASSUME Inv
    PROVE  /\ \A k \in ClientKeys, c \in Client \cup {None} :
                clients' = [clients EXCEPT ![k] = c] /\ edges' = edges =>
                    Live' = [Live EXCEPT ![<<"client", k>>] =
                               IF c = None THEN None ELSE [gen |-> c.gen, exp |-> c.exp]]
           /\ \A k \in EdgeKeys, c \in Edge \cup {None} :
                edges' = [edges EXCEPT ![k] = c] /\ clients' = clients =>
                    Live' = [Live EXCEPT ![<<"edge", k>>] =
                               IF c = None THEN None ELSE [gen |-> c.gen, exp |-> c.exp]]
<1> TypeOK
  BY Zenon DEF Inv
<1>1. ASSUME NEW k \in ClientKeys, NEW c \in Client \cup {None},
             clients' = [clients EXCEPT ![k] = c], edges' = edges
      PROVE  Live' = [Live EXCEPT ![<<"client", k>>] =
                        IF c = None THEN None ELSE [gen |-> c.gen, exp |-> c.exp]]
  <2> DEFINE x == IF c = None THEN None ELSE [gen |-> c.gen, exp |-> c.exp]
             f == [Live EXCEPT ![<<"client", k>>] = x]
  <2>1. k \in Keys /\ f = [s \in {"client", "edge"} \X Keys |-> f[s]]
    BY Zenon, LiveDomain DEF Keys
  <2>2. \A l \in Keys : f[<<"client", l>>] = IF l = k THEN x ELSE Live[<<"client", l>>]
    BY Zenon, <2>1, LiveDomain
  <2>3. \A l \in Keys : f[<<"edge", l>>] = Live[<<"edge", l>>]
    BY Zenon, <2>1, LiveDomain
  <2>4. \A l \in Keys : Live'[<<"client", l>>] = IF l = k THEN x ELSE Live[<<"client", l>>]
    BY Zenon, <1>1, LiveClient DEF TypeOK
  <2>5. \A l \in Keys : Live'[<<"edge", l>>] = Live[<<"edge", l>>]
    BY Zenon, <1>1, LiveEdge
  <2> HIDE DEF f, x
  <2>6. Live' = f
    BY ZenonT(30), <2>1, <2>2, <2>3, <2>4, <2>5, LiveIs
  <2>. QED
    BY Zenon, <2>6 DEF f, x
<1>2. ASSUME NEW k \in EdgeKeys, NEW c \in Edge \cup {None},
             edges' = [edges EXCEPT ![k] = c], clients' = clients
      PROVE  Live' = [Live EXCEPT ![<<"edge", k>>] =
                        IF c = None THEN None ELSE [gen |-> c.gen, exp |-> c.exp]]
  <2> DEFINE x == IF c = None THEN None ELSE [gen |-> c.gen, exp |-> c.exp]
             f == [Live EXCEPT ![<<"edge", k>>] = x]
  <2>1. k \in Keys /\ f = [s \in {"client", "edge"} \X Keys |-> f[s]]
    BY Zenon, LiveDomain DEF Keys
  <2>2. \A l \in Keys : f[<<"edge", l>>] = IF l = k THEN x ELSE Live[<<"edge", l>>]
    BY Zenon, <2>1, LiveDomain
  <2>3. \A l \in Keys : f[<<"client", l>>] = Live[<<"client", l>>]
    BY Zenon, <2>1, LiveDomain
  <2>4. \A l \in Keys : Live'[<<"edge", l>>] = IF l = k THEN x ELSE Live[<<"edge", l>>]
    BY Zenon, <1>2, LiveEdge DEF TypeOK
  <2>5. \A l \in Keys : Live'[<<"client", l>>] = Live[<<"client", l>>]
    BY Zenon, <1>2, LiveClient
  <2> HIDE DEF f, x
  <2>6. Live' = f
    BY ZenonT(30), <2>1, <2>2, <2>3, <2>4, <2>5, LiveIs
  <2>. QED
    BY Zenon, <2>6 DEF f, x
<1>. QED
  BY Zenon, <1>1, <1>2

\* A claim enrols, and one for a Relay changes no credential.
LEMMA ClaimImplements ==
    ASSUME Inv, NEW w \in waiting, ClaimCommit(w)
    PROVE  Authority!Next
<1> TypeOK /\ WaitingIsPast
  BY Zenon DEF Inv
<1> DEFINE inv == invites[w.invite]
           cred == [gen |-> revision + 1, exp |-> w.at + Lifetime]
<1>1. w.op = "claim" /\ w \in Request
  BY Zenon DEF ClaimCommit, TypeOK
<1>2. w.invite \in InviteIds /\ w.at \in Int /\ w.at \in 0..now
  BY Zenon, <1>1 DEF Request, WaitingIsPast
<1>3. /\ inv \in Invite /\ inv.slot \in Slot /\ inv.managedBy \in Provisioners \cup {None}
      /\ KeyFits(inv.slot, w.key)
  BY <1>1, <1>2 DEF ClaimCommit, TypeOK, Invite, WaitingIsPast
<1>4. revision + 1 \in Nat /\ w.at + Lifetime \in Int
  BY <1>2, BoundAssumption, DurationAssumption DEF TypeOK
<1>5. ClaimedNodeChange(inv, w) /\ PublishNodes /\ UNCHANGED <<now, revocations, dead>>
  BY Zenon DEF ClaimCommit
<1> HIDE DEF inv
<1>6. CASE inv.slot.tag = "client"
  <2> DEFINE c == [name |-> inv.slot.name, managedBy |-> inv.managedBy,
                   gen |-> revision + 1, exp |-> w.at + Lifetime]
             s == <<"client", w.key>>
  <2>1. w.key \in ClientKeys /\ w.key \in Keys /\ inv.slot.name \in ClientNames
    BY Zenon, <1>3, <1>6 DEF KeyFits, Slot, Keys
  <2>2. clients' = [clients EXCEPT ![w.key] = c] /\ edges' = edges /\ clients[w.key] = None
    BY Zenon, <1>5, <1>6 DEF ClaimedNodeChange
  <2>3. c \in Client /\ c # None /\ c.gen = revision + 1 /\ c.exp = w.at + Lifetime
    BY <1>3, <1>4, <2>1, NoneAssumption DEF Client
  <2> HIDE DEF c
  <2>4. Live' = [Live EXCEPT ![s] = IF c = None THEN None ELSE [gen |-> c.gen, exp |-> c.exp]]
    BY Zenon, <2>1, <2>2, <2>3, LiveChanges
  <2>5. Live[s] = None /\ s \in Authority!Subject
    BY Zenon, <2>1, <2>2, LiveClient DEF Authority!Subject
  <2> HIDE DEF s
  <2>6. Live' = [Live EXCEPT ![s] = cred]
    BY Zenon, <2>3, <2>4
  <2>7. Authority!Enroll(s, w.at)
    BY Zenon, <1>5, <2>5, <2>6 DEF Authority!Enroll, Authority!PublishNodes, PublishNodes
  <2>. QED
    BY Zenon, <1>2, <2>5, <2>7 DEF Authority!Next
<1>7. CASE inv.slot.tag = "edge"
  <2> DEFINE c == [name |-> inv.slot.name, owner |-> inv.slot.scope,
                   gen |-> revision + 1, exp |-> w.at + Lifetime]
             s == <<"edge", w.key>>
  <2>1. /\ w.key \in EdgeKeys /\ w.key \in Keys /\ inv.slot.name \in EdgeNames
        /\ inv.slot.scope \in ClientKeys
    BY Zenon, <1>3, <1>7 DEF KeyFits, Slot, Keys
  <2>2. edges' = [edges EXCEPT ![w.key] = c] /\ clients' = clients /\ edges[w.key] = None
    BY Zenon, <1>5, <1>7 DEF ClaimedNodeChange
  <2>3. c \in Edge /\ c # None /\ c.gen = revision + 1 /\ c.exp = w.at + Lifetime
    BY <1>3, <1>4, <2>1, NoneAssumption DEF Edge
  <2> HIDE DEF c
  <2>4. Live' = [Live EXCEPT ![s] = IF c = None THEN None ELSE [gen |-> c.gen, exp |-> c.exp]]
    BY Zenon, <2>1, <2>2, <2>3, LiveChanges
  <2>5. Live[s] = None /\ s \in Authority!Subject
    BY Zenon, <2>1, <2>2, LiveEdge DEF Authority!Subject
  <2> HIDE DEF s
  <2>6. Live' = [Live EXCEPT ![s] = cred]
    BY Zenon, <2>3, <2>4
  <2>7. Authority!Enroll(s, w.at)
    BY Zenon, <1>5, <2>5, <2>6 DEF Authority!Enroll, Authority!PublishNodes, PublishNodes
  <2>. QED
    BY Zenon, <1>2, <2>5, <2>7 DEF Authority!Next
<1>8. CASE inv.slot.tag = "relay"
  <2>1. clients' = clients /\ edges' = edges
    BY Zenon, <1>5, <1>8 DEF ClaimedNodeChange
  <2>2. Live' = Live
    BY Zenon, <2>1, LiveStays
  <2>. QED
    BY Zenon, <1>5, <2>2 DEF Authority!Next, Authority!OtherChange, Authority!PublishNodes, PublishNodes
<1>. QED
  BY Zenon, <1>3, <1>6, <1>7, <1>8 DEF Slot

\* A renewal renews.
LEMMA RenewImplements ==
    ASSUME Inv, NEW w \in waiting, RenewCommit(w)
    PROVE  Authority!Next
<1> TypeOK /\ WaitingIsPast
  BY Zenon DEF Inv
<1>1. w.op = "renew" /\ w \in Request /\ ExpiringAt(w.key, w.at)
  BY Zenon DEF RenewCommit, TypeOK
<1>2. w.key \in Keys /\ w.at \in 0..now /\ w.at + Lifetime \in Int
  BY <1>1, DurationAssumption DEF Request, WaitingIsPast
<1>3. UNCHANGED <<now, revocations, dead, revision, relayRevision>>
  BY Zenon DEF RenewCommit, Quiet
<1>4. CASE w.key \in ClientKeys /\ clients[w.key] # None
  <2> DEFINE c == [clients[w.key] EXCEPT !.exp = w.at + Lifetime]
             s == <<"client", w.key>>
  <2>1. clients' = [clients EXCEPT ![w.key] = c] /\ edges' = edges /\ clients[w.key] \in Client
    BY Zenon, <1>4 DEF RenewCommit, TypeOK
  <2>2. c \in Client /\ c # None /\ c.gen = clients[w.key].gen /\ c.exp = w.at + Lifetime
    BY Zenon, <1>2, <2>1, NoneAssumption DEF Client
  <2> HIDE DEF c
  <2>3. Live' = [Live EXCEPT ![s] = IF c = None THEN None ELSE [gen |-> c.gen, exp |-> c.exp]]
    BY Zenon, <1>4, <2>1, <2>2, LiveChanges
  <2>4. Live[s] = [gen |-> clients[w.key].gen, exp |-> clients[w.key].exp]
        /\ s \in Authority!Subject
    BY Zenon, <1>2, <1>4, LiveClient DEF Authority!Subject
  <2>5. clients[w.key].gen \in Nat /\ clients[w.key].exp \in Int
    BY Zenon, <2>1 DEF Client
  <2>6. Live[s] # None
    BY <2>4, <2>5, NoneAssumption
  <2>7. Live[s].gen = clients[w.key].gen /\ Live[s].exp = clients[w.key].exp
    BY <2>4
  <2> HIDE DEF s
  <2>8. Live' = [Live EXCEPT ![s] = [gen |-> Live[s].gen, exp |-> w.at + Lifetime]]
    BY Zenon, <2>2, <2>3, <2>7
  <2>9. Live[s].exp <= w.at + RenewBefore
    BY Zenon, <1>1, <1>4, <2>7 DEF ExpiringAt
  <2>10. Authority!Renew(s, w.at)
    BY Zenon, <1>3, <2>6, <2>8, <2>9 DEF Authority!Renew
  <2>. QED
    BY Zenon, <1>2, <2>4, <2>10 DEF Authority!Next
<1>5. CASE ~(w.key \in ClientKeys /\ clients[w.key] # None)
  <2> DEFINE c == [edges[w.key] EXCEPT !.exp = w.at + Lifetime]
             s == <<"edge", w.key>>
  <2>1. /\ edges' = [edges EXCEPT ![w.key] = c] /\ clients' = clients
        /\ w.key \in EdgeKeys /\ edges[w.key] # None /\ edges[w.key] \in Edge
    BY Zenon, <1>5 DEF RenewCommit, ExpiringAt, TypeOK
  <2>2. c \in Edge /\ c # None /\ c.gen = edges[w.key].gen /\ c.exp = w.at + Lifetime
    BY Zenon, <1>2, <2>1, NoneAssumption DEF Edge
  <2> HIDE DEF c
  <2>3. Live' = [Live EXCEPT ![s] = IF c = None THEN None ELSE [gen |-> c.gen, exp |-> c.exp]]
    BY Zenon, <2>1, <2>2, LiveChanges
  <2>4. Live[s] = [gen |-> edges[w.key].gen, exp |-> edges[w.key].exp] /\ s \in Authority!Subject
    BY Zenon, <1>2, <2>1, LiveEdge DEF Authority!Subject
  <2>5. edges[w.key].gen \in Nat /\ edges[w.key].exp \in Int
    BY Zenon, <2>1 DEF Edge
  <2>6. Live[s] # None
    BY <2>4, <2>5, NoneAssumption
  <2>7. Live[s].gen = edges[w.key].gen /\ Live[s].exp = edges[w.key].exp
    BY <2>4
  <2> HIDE DEF s
  <2>8. Live' = [Live EXCEPT ![s] = [gen |-> Live[s].gen, exp |-> w.at + Lifetime]]
    BY Zenon, <2>2, <2>3, <2>7
  <2>9. Live[s].exp <= w.at + RenewBefore
    BY Zenon, <1>1, <1>5, <2>7 DEF ExpiringAt
  <2>10. Authority!Renew(s, w.at)
    BY Zenon, <1>3, <2>6, <2>8, <2>9 DEF Authority!Renew
  <2>. QED
    BY Zenon, <1>2, <2>4, <2>10 DEF Authority!Next
<1>. QED
  BY Zenon, <1>4, <1>5

\* A removal leaves the tombstone that the authority asks for.
LEMMA RemoveImplements ==
    ASSUME Inv, \/ \E k \in ClientKeys : RemoveClient(k)
                \/ \E e \in EdgeKeys : RemoveEdge(e)
    PROVE  Authority!Next
<1> TypeOK
  BY Zenon DEF Inv
<1>1. ASSUME NEW k \in Keys, NEW kind, NEW node, node.gen \in Nat, node.exp \in Int,
             Bury(kind, k, node), <<kind, k>> \in Authority!Subject,
             Live[<<kind, k>>] = [gen |-> node.gen, exp |-> node.exp],
             Live' = [Live EXCEPT ![<<kind, k>>] = None], now' = now
      PROVE  Authority!Next
  <2> DEFINE s == <<kind, k>>
  <2>1. Live[s] # None /\ Live[s].gen = node.gen /\ Live[s].exp = node.exp /\ Authority!KeyOf(s) = k
    BY <1>1, NoneAssumption DEF Authority!KeyOf
  <2>2. revocations[k] # None => revocations[k].through \in Nat /\ revocations[k].exp \in Int
    BY Zenon DEF TypeOK, Revocation
  <2>3. RevocationChange(k, node) = Authority!RevocationChange(k, node.gen, node.exp)
    BY <1>1, <2>2 DEF RevocationChange, Authority!RevocationChange, Authority!Max2
  <2>4. /\ Authority!PublishNodesAndRelays
        /\ revocations' = [revocations EXCEPT ![k] = RevocationChange(k, node)]
        /\ dead' = dead \cup {[subject |-> s, gen |-> node.gen, exp |-> node.exp, at |-> relayRevision + 1]}
    BY Zenon, <1>1 DEF Bury, PublishNodesAndRelays, Authority!PublishNodesAndRelays
  <2>5. Authority!Remove(s)
    BY Zenon, <1>1, <2>1, <2>3, <2>4 DEF Authority!Remove
  <2>. QED
    BY Zenon, <1>1, <2>5 DEF Authority!Next
<1>2. ASSUME NEW k \in ClientKeys, RemoveClient(k) PROVE Authority!Next
  <2>1. /\ k \in Keys /\ Bury("client", k, clients[k]) /\ now' = now /\ clients[k] # None
        /\ clients' = [clients EXCEPT ![k] = None] /\ edges' = edges
    BY Zenon, <1>2 DEF RemoveClient, Keys
  <2>2. clients[k].gen \in Nat /\ clients[k].exp \in Int
    BY Zenon, <2>1 DEF TypeOK, Client
  <2>3. /\ Live[<<"client", k>>] = [gen |-> clients[k].gen, exp |-> clients[k].exp]
        /\ <<"client", k>> \in Authority!Subject
    BY Zenon, <2>1, LiveClient DEF Authority!Subject
  <2>4. Live' = [Live EXCEPT ![<<"client", k>>] = None]
    BY Zenon, <2>1, LiveChanges
  <2>. QED
    BY Zenon, <1>1, <2>1, <2>2, <2>3, <2>4
<1>3. ASSUME NEW e \in EdgeKeys, RemoveEdge(e) PROVE Authority!Next
  <2>1. /\ e \in Keys /\ Bury("edge", e, edges[e]) /\ now' = now /\ edges[e] # None
        /\ edges' = [edges EXCEPT ![e] = None] /\ clients' = clients
    BY Zenon, <1>3 DEF RemoveEdge, Keys
  <2>2. edges[e].gen \in Nat /\ edges[e].exp \in Int
    BY Zenon, <2>1 DEF TypeOK, Edge
  <2>3. /\ Live[<<"edge", e>>] = [gen |-> edges[e].gen, exp |-> edges[e].exp]
        /\ <<"edge", e>> \in Authority!Subject
    BY Zenon, <2>1, LiveEdge DEF Authority!Subject
  <2>4. Live' = [Live EXCEPT ![<<"edge", e>>] = None]
    BY Zenon, <2>1, LiveChanges
  <2>. QED
    BY Zenon, <1>1, <2>1, <2>2, <2>3, <2>4
<1>. QED
  BY Zenon, <1>2, <1>3

\* Everything else: a change the authority does not look into, a cleanup, time, or nothing.
LEMMA OthersImplement ==
    ASSUME Inv, Step,
           ~\E w \in waiting : ClaimCommit(w) \/ RenewCommit(w),
           ~\E k \in ClientKeys : RemoveClient(k),
           ~\E e \in EdgeKeys : RemoveEdge(e)
    PROVE  Authority!Next \/ UNCHANGED Authority!vars
<1> TypeOK
  BY Zenon DEF Inv
<1>1. CASE DropExpired \/ Tick \/ Wait
  <2>1. Live' = Live
    BY Zenon, <1>1, LiveStays DEF DropExpired, Tick, Wait, topology
  <2>. QED
    BY Zenon, <1>1, <2>1
       DEF DropExpired, Quiet, Tick, Wait, Authority!Next, Authority!Cleanup, Authority!Tick,
                      Authority!vars
<1>2. ASSUME NEW e \in EdgeKeys, NEW k \in ClientKeys, TransferEdge(e, k) PROVE Authority!OtherChange
  <2> DEFINE c == [edges[e] EXCEPT !.owner = k]
  <2>1. edges' = [edges EXCEPT ![e] = c] /\ clients' = clients /\ edges[e] # None
        /\ edges[e] \in Edge
    BY Zenon, <1>2 DEF TransferEdge, TypeOK
  <2>2. c \in Edge /\ c # None /\ c.gen = edges[e].gen /\ c.exp = edges[e].exp
    BY Zenon, <2>1, NoneAssumption DEF Edge
  <2> HIDE DEF c
  <2>3. ASSUME NEW f \in EdgeKeys
        PROVE  /\ edges'[f] = None <=> edges[f] = None
               /\ edges[f] # None => edges'[f].gen = edges[f].gen /\ edges'[f].exp = edges[f].exp
    BY Zenon, <2>1, <2>2 DEF TypeOK
  <2>4. Live' = Live
    BY Zenon, <2>1, <2>3, LiveStays
  <2>. QED
    BY Zenon, <1>2, <2>4 DEF TransferEdge, PublishNodes, Authority!OtherChange, Authority!PublishNodes
<1>3. ASSUME \/ \E r \in NewInvite : InsertInvite(r)
             \/ \E i \in InviteIds : RevokeInvite(i)
             \/ \E r \in RelayKeys :
                  AdminRemoveRelay(r) \/ \E q \in QadPorts \cup {None} : UpdateRelayQadPort(r, q)
             \/ \E p \in Provisioners :
                  RemoveProvisioner(p) \/ \E n \in ProvisionerNames : AddProvisioner(p, n)
      PROVE  Authority!OtherChange
  <2>1. UNCHANGED <<clients, edges, now, revocations, dead>>
    BY Zenon, <1>3 DEF InsertInvite, RevokeInvite, AdminRemoveRelay, UpdateRelayQadPort, RemoveProvisioner,
                AddProvisioner, topology
  <2>2. PublishNodes \/ PublishNodesAndRelays
    BY Zenon, <1>3 DEF InsertInvite, RevokeInvite, AdminRemoveRelay, UpdateRelayQadPort, RemoveProvisioner,
                AddProvisioner
  <2>3. Live' = Live
    BY Zenon, <2>1, LiveStays
  <2>. QED
    BY Zenon, <2>1, <2>2, <2>3 DEF PublishNodes, PublishNodesAndRelays, Authority!OtherChange,
                            Authority!PublishNodes, Authority!PublishNodesAndRelays
<1>. QED
  BY Zenon, <1>1, <1>2, <1>3 DEF Step, Authority!Next

\* Every behaviour of as-control, seen through its credentials, is one of module Credentials.
THEOREM ControlImplementsCredentials == Spec => ImplementsCredentials
<1>1. Init => Authority!Init
  <2> SUFFICES ASSUME Init PROVE Authority!Init
    BY Zenon
  <2>1. Live = [s \in Authority!Subject |-> None]
    BY Zenon DEF Init, Live, Authority!Subject
  <2>. QED
    BY Zenon, <2>1 DEF Init, Authority!Init
<1>2. Inv /\ [Next]_vars => [Authority!Next]_(Authority!vars)
  <2> SUFFICES ASSUME Inv, [Next]_vars PROVE Authority!Next \/ UNCHANGED Authority!vars
    BY Zenon
  <2>1. CASE Next
    BY Zenon, <2>1, NextIsStep, ClaimImplements, RenewImplements, RemoveImplements, OthersImplement
  <2>2. CASE UNCHANGED vars
    BY Zenon, <2>2 DEF vars, topology, Live, Authority!vars
  <2>. QED
    BY Zenon, <2>1, <2>2
<1>. QED
  BY <1>1, <1>2, InvHolds, PTL DEF Spec, ImplementsCredentials, Authority!Spec

\* What module CredentialsProofs proves, of the credentials of as-control.
Proved == INSTANCE CredentialsProofs WITH Kinds <- {"client", "edge"}, live <- Live

\* So as-control's tombstones revoke every credential that was removed and none of a node that came
\* back, through all of its handlers, cleanups and restarts.
THEOREM ControlTombstonesStayExact == Spec => []Authority!TombstonesAreExact
<1>1. Proved!Spec => []Proved!TombstonesAreExact
  <2>1. None \notin Proved!Credential /\ None \notin Proved!Revocation
    BY Zenon, NoneAssumption DEF Revocation, Proved!Credential, Proved!Revocation
  <2>2. MaxRevision \in Nat /\ MaxTime \in Nat
    BY Zenon, BoundAssumption
  <2>3. Lifetime \in Nat /\ RenewBefore \in Nat /\ RenewBefore < Lifetime
    BY Zenon, DurationAssumption
  <2>. QED
    BY Zenon, <2>1, <2>2, <2>3, Proved!TombstonesStayExact
<1>2. Authority!Init => Proved!Init
  BY Zenon DEF Authority!Init, Proved!Init, Authority!Subject, Proved!Subject
<1>3. [Authority!Next]_(Authority!vars) => [Proved!Next]_(Proved!vars)
  <2>1. Authority!Next => Proved!Next
    BY Zenon DEF Authority!Next, Proved!Next, Authority!Tick, Proved!Tick, Authority!OtherChange,
           Proved!OtherChange,
           Authority!Cleanup, Proved!Cleanup, Authority!Remove, Proved!Remove, Authority!Enroll, Proved!Enroll,
           Authority!Renew, Proved!Renew, Authority!Subject, Proved!Subject, Authority!KeyOf, Proved!KeyOf,
           Authority!PublishNodes, Proved!PublishNodes, Authority!PublishNodesAndRelays,
           Proved!PublishNodesAndRelays, Authority!RevocationChange, Proved!RevocationChange,
           Authority!Max2, Proved!Max2
  <2>. QED
    BY Zenon, <2>1 DEF Authority!vars, Proved!vars
<1>4. Proved!TombstonesAreExact => Authority!TombstonesAreExact
  BY Zenon DEF Authority!TombstonesAreExact, Proved!TombstonesAreExact,
         Authority!RemovedCredentialsAreCovered, Proved!RemovedCredentialsAreCovered,
         Authority!ReenrolledNodesAreNotRevoked, Proved!ReenrolledNodesAreNotRevoked,
         Authority!Subject, Proved!Subject, Authority!KeyOf, Proved!KeyOf, Authority!Covers, Proved!Covers
<1>. QED
  BY <1>1, <1>2, <1>3, <1>4, ControlImplementsCredentials, PTL
     DEF ImplementsCredentials, Authority!Spec, Proved!Spec
=============================================================================
