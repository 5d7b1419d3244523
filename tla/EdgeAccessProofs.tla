-------------------------- MODULE EdgeAccessProofs --------------------------
(***************************************************************************)
(* Proofs about module EdgeAccess, for every number of Clients,            *)
(* connections, permits and map revisions.                                 *)
(*                                                                         *)
(* That only the admitted are served is not inductive: replace_managed     *)
(* closes registered connections, so every served one must be registered;  *)
(* trust on first use replaces nobody only because a pinned id is None     *)
(* while nobody was served; and a watch must not replace the set of an     *)
(* Edge that is not managed.                                               *)
(***************************************************************************)
EXTENDS EdgeAccess, TLAPS, FiniteSetTheorems

\* The states of the watch task.
Watch == [at : {"idle", "applied", "refused", "stopped"}]
           \cup [at : {"sent"}, known : 1..MaxRevision]
           \cup [at : {"map"}, map : Map]

\* Whoever is connecting or connected is some Client.
PeersAreClients ==
    \A c \in Conns : conn[c].at \in {"handshake", "serving"} => conn[c].who \in Clients

\* A registered connection has been admitted: its handshake is over.
RegisteredWereAdmitted ==
    \A c \in registered : conn[c].at \in {"serving", "closed"}

\* A process that is down has no connections and no watch.
DownIsEmpty ==
    ~up => registered = {} /\ conn = [c \in Conns |-> Free] /\ watch = Idle

\* Only a managed Edge watches, one that runs.
WatchesAreManaged == watch \in Watch /\ (mode # "managed" => watch = Idle)

\* A strict Edge has served its pin only, one that trusts on first use only whom
\* the file names; while it runs its pin is what the file names.
PinHistory ==
    /\ mode = "strict" => pinned \in Clients /\ served \subseteq {pinned}
    /\ mode = "tofu" => (up => pinned = trusted) /\ served \subseteq {trusted}

Inv ==
    /\ TypeOK
    /\ WatchesAreManaged
    /\ PeersAreClients
    /\ RegisteredWereAdmitted
    /\ DownIsEmpty
    /\ ServedAreRegistered
    /\ ServedAreAuthorized
    /\ PinHistory
    /\ PermitsAreReturned

-----------------------------------------------------------------------------
\* The connections that hold a permit.
Handshaking == {c \in Conns : conn[c].at = "handshake"}

\* A connection that starts its handshake takes one permit, one that ends it gives
\* one back, and then the count is right again (the guard of the semaphore permit
\* in serve and handle_connection).
LEMMA PermitsFollow ==
    ASSUME TypeOK, PermitsAreReturned,
           \/ Handshaking' = Handshaking /\ permits' = permits
           \/ /\ permits > 0 /\ permits' = permits - 1
              /\ \E c \in Conns \ Handshaking : Handshaking' = Handshaking \cup {c}
           \/ /\ permits' = permits + 1
              /\ \E c \in Handshaking : Handshaking' = Handshaking \ {c}
    PROVE  PermitsAreReturned' /\ permits' \in 0..MaxHandshakes
<1>1. IsFiniteSet(Handshaking) /\ Cardinality(Handshaking) \in Nat
  BY Zenon, ConnsAssumption, FS_Subset, FS_CardinalityType DEF Handshaking
<1>2. IsFiniteSet(Handshaking') /\ Cardinality(Handshaking') \in Nat
  BY Zenon, ConnsAssumption, FS_Subset, FS_CardinalityType DEF Handshaking
<1>3. permits \in Nat /\ permits + Cardinality(Handshaking) = MaxHandshakes
  BY HandshakeAssumption DEF PermitsAreReturned, TypeOK, Handshaking
<1>4. permits' \in Nat /\ permits' + Cardinality(Handshaking') = MaxHandshakes
  <2>1. CASE Handshaking' = Handshaking /\ permits' = permits
    BY Zenon, <1>3, <2>1
  <2>2. ASSUME NEW c \in Conns \ Handshaking, permits > 0, permits' = permits - 1,
               Handshaking' = Handshaking \cup {c}
        PROVE  permits' \in Nat /\ permits' + Cardinality(Handshaking') = MaxHandshakes
    BY <1>1, <1>3, <2>2, FS_AddElement
  <2>3. ASSUME NEW c \in Handshaking, permits' = permits + 1, Handshaking' = Handshaking \ {c}
        PROVE  permits' \in Nat /\ permits' + Cardinality(Handshaking') = MaxHandshakes
    BY <1>1, <1>3, <2>3, FS_RemoveElement
  <2>. QED
    BY Zenon, <2>1, <2>2, <2>3
<1>. QED
  BY <1>2, <1>4, HandshakeAssumption DEF PermitsAreReturned, Handshaking

-----------------------------------------------------------------------------
\* An Edge that has not started yet serves nobody.
LEMMA InitInv == Init => Inv
<1> SUFFICES ASSUME Init PROVE Inv
  BY Zenon
<1>1. TypeOK
  <2>1. 1 \in 1..MaxRevision /\ permits \in 0..MaxHandshakes
    BY RevisionAssumption, HandshakeAssumption DEF Init
  <2>2. conn \in [Conns -> [at : {"free", "handshake", "serving", "closed"},
                            who : Clients \cup {None}]]
    BY DEF Init, Free
  <2>3. control \in [rev : 1..MaxRevision, allowed : SUBSET Clients, member : BOOLEAN]
    BY <2>1 DEF Init
  <2>4. saved \in Map /\ profile \in Map
    BY <2>1 DEF Init, Map
  <2>5. pinned \in Clients \cup {None} /\ trusted \in Clients \cup {None}
    BY Zenon DEF Init
  <2>. QED
    BY Zenon, <2>1, <2>2, <2>3, <2>4, <2>5 DEF Init, TypeOK
<1>2. Handshaking = {}
  BY DEF Init, Handshaking, Free
<1>3. PermitsAreReturned
  BY <1>2, FS_EmptySet, HandshakeAssumption DEF Init, PermitsAreReturned, Handshaking
<1>. QED
  BY <1>1, <1>3, ModeAssumption
     DEF Init, Inv, WatchesAreManaged, PeersAreClients, DownIsEmpty, RegisteredWereAdmitted,
         ServedAreRegistered,
         ServedAreAuthorized, PinHistory, Watch, Idle, Free

\* A new connection is not served yet.
LEMMA IncomingInv ==
    ASSUME Inv, NEW c \in Conns, NEW k \in Clients, Incoming(c, k)
    PROVE  Inv'
<1> USE DEF Inv
<1>1. Handshaking' = Handshaking \cup {c} /\ c \notin Handshaking
  BY DEF Incoming, Handshaking, Free, TypeOK
<1>2. PermitsAreReturned' /\ permits' \in 0..MaxHandshakes
  BY Zenon, <1>1, PermitsFollow DEF Incoming
<1>3. TypeOK'
  BY Zenon, <1>2 DEF Incoming, TypeOK
<1>4. PeersAreClients' /\ DownIsEmpty'
  BY Zenon DEF Incoming, TypeOK, PeersAreClients, DownIsEmpty
<1>5. RegisteredWereAdmitted' /\ ServedAreRegistered' /\ ServedAreAuthorized' /\ PinHistory'
      /\ WatchesAreManaged'
  BY DEF Incoming, TypeOK, RegisteredWereAdmitted, ServedAreRegistered, ServedAreAuthorized,
         Authorized, PinHistory,
         WatchesAreManaged, Free
<1>. QED
  BY Zenon, <1>2, <1>3, <1>4, <1>5

\* A handshake that fails gives its permit back and nobody is served.
LEMMA HandshakeFailsInv ==
    ASSUME Inv, NEW c \in Conns, HandshakeFails(c)
    PROVE  Inv'
<1> USE DEF Inv
<1>1. Handshaking' = Handshaking \ {c} /\ c \in Handshaking
  BY Zenon DEF HandshakeFails, Handshaking, Free, TypeOK
<1>2. PermitsAreReturned' /\ permits' \in 0..MaxHandshakes
  BY Zenon, <1>1, PermitsFollow DEF HandshakeFails
<1>3. TypeOK'
  BY Zenon, <1>2 DEF HandshakeFails, TypeOK, Free
<1>4. PeersAreClients' /\ DownIsEmpty'
  BY Zenon DEF HandshakeFails, TypeOK, PeersAreClients, DownIsEmpty, Free
<1>5. RegisteredWereAdmitted' /\ ServedAreRegistered' /\ ServedAreAuthorized' /\ PinHistory'
      /\ WatchesAreManaged'
  BY Zenon DEF HandshakeFails, TypeOK, RegisteredWereAdmitted, ServedAreRegistered, ServedAreAuthorized,
         Authorized, PinHistory,
         WatchesAreManaged, Free
<1>. QED
  BY Zenon, <1>2, <1>3, <1>4, <1>5

\* The first Client to be trusted is the only one: nobody was served before it.
LEMMA AuthorizeFirstInv ==
    ASSUME Inv, NEW c \in Conns, AuthorizeFirst(c)
    PROVE  Inv'
<1> USE DEF Inv
<1>1. up /\ conn[c].who \in Clients
  BY DEF AuthorizeFirst, DownIsEmpty, Free, PeersAreClients
<1>2. served = {} /\ \A d \in Conns : conn[d].at # "serving"
  BY <1>1, NoneAssumption
     DEF AuthorizeFirst, PinHistory, TypeOK, ServedAreAuthorized, Authorized, PeersAreClients
<1>3. Handshaking' = Handshaking \ {c} /\ c \in Handshaking
  BY DEF AuthorizeFirst, Admit, Handshaking, Free, TypeOK
<1>4. PermitsAreReturned' /\ permits' \in 0..MaxHandshakes
  BY Zenon, <1>3, PermitsFollow DEF AuthorizeFirst
<1>5. TypeOK'
  BY <1>1, <1>4 DEF AuthorizeFirst, Admit, TypeOK, Free
<1>6. PeersAreClients' /\ DownIsEmpty' /\ WatchesAreManaged'
  BY <1>1 DEF AuthorizeFirst, Admit, TypeOK, PeersAreClients, DownIsEmpty, WatchesAreManaged, Free
<1>7. RegisteredWereAdmitted' /\ ServedAreRegistered' /\ ServedAreAuthorized'
  BY <1>2
     DEF AuthorizeFirst, Admit, TypeOK, RegisteredWereAdmitted, ServedAreRegistered,
         ServedAreAuthorized, Authorized, Free
<1>8. PinHistory'
  BY Zenon, <1>1, <1>2 DEF AuthorizeFirst, Admit, PinHistory
<1>. QED
  BY Zenon, <1>4, <1>5, <1>6, <1>7, <1>8

\* Checking and registering are one step, so whoever is admitted is registered and
\* is one of those the pin admits.
LEMMA AuthorizeInv ==
    ASSUME Inv, NEW c \in Conns, Authorize(c)
    PROVE  Inv'
<1> USE DEF Inv
<1>1. up /\ conn[c].who \in Clients
  BY DEF Authorize, DownIsEmpty, Free, PeersAreClients
<1>2. Handshaking' = Handshaking \ {c} /\ c \in Handshaking
  BY DEF Authorize, Admit, Handshaking, Free, TypeOK
<1>3. PermitsAreReturned' /\ permits' \in 0..MaxHandshakes
  BY Zenon, <1>2, PermitsFollow DEF Authorize
<1>4. TypeOK'
  BY <1>1, <1>3 DEF Authorize, Admit, TypeOK, Free
<1>5. PeersAreClients' /\ DownIsEmpty' /\ WatchesAreManaged'
  BY <1>1 DEF Authorize, Admit, TypeOK, PeersAreClients, DownIsEmpty, WatchesAreManaged, Free
<1>6. RegisteredWereAdmitted' /\ ServedAreRegistered' /\ ServedAreAuthorized'
  BY DEF Authorize, Admit, TypeOK, RegisteredWereAdmitted, ServedAreRegistered,
         ServedAreAuthorized, Authorized, Free
<1>7. PinHistory'
  BY Zenon, <1>1 DEF Authorize, Admit, PinHistory, Authorized
<1>. QED
  BY Zenon, <1>3, <1>4, <1>5, <1>6, <1>7

\* A connection that ends is forgotten alone, without a permit.
LEMMA CloseInv ==
    ASSUME Inv, NEW c \in Conns, PeerCloses(c) \/ Unregister(c)
    PROVE  Inv'
<1> USE DEF Inv
<1>1. Handshaking' = Handshaking /\ permits' = permits
  BY DEF PeerCloses, Unregister, Handshaking, Free, TypeOK
<1>2. PermitsAreReturned'
  BY Zenon, <1>1, PermitsFollow
<1>3. TypeOK'
  BY DEF PeerCloses, Unregister, TypeOK, Free
<1>4. PeersAreClients' /\ DownIsEmpty' /\ WatchesAreManaged' /\ PinHistory'
  BY DEF PeerCloses, Unregister, TypeOK, PeersAreClients, DownIsEmpty, WatchesAreManaged,
         PinHistory, Free
<1>5. RegisteredWereAdmitted' /\ ServedAreRegistered' /\ ServedAreAuthorized'
  BY DEF PeerCloses, Unregister, TypeOK, RegisteredWereAdmitted, ServedAreRegistered,
         ServedAreAuthorized, Authorized, Free
<1>. QED
  BY Zenon, <1>2, <1>3, <1>4, <1>5

\* A new managed set closes whoever lost access: they are found because they are
\* registered, and nobody else is touched.
LEMMA ReplaceManagedInv ==
    ASSUME Inv, mode = "managed", UNCHANGED <<mode, pinned>>, up,
           NEW next \in SUBSET Clients, ReplaceManaged(next)
    PROVE  /\ allowed' \in SUBSET Clients /\ registered' \in SUBSET Conns
           /\ conn' \in [Conns -> [at : {"free", "handshake", "serving", "closed"},
                                   who : Clients \cup {None}]]
           /\ Handshaking' = Handshaking
           /\ PeersAreClients' /\ RegisteredWereAdmitted' /\ ServedAreRegistered' /\ ServedAreAuthorized'
<1> USE DEF Inv
<1> DEFINE gone == {c \in registered : conn[c].who \in allowed \ next}
<1>0. /\ allowed' = next
      /\ registered' = registered \ gone
      /\ conn' = [c \in Conns |-> IF c \in gone THEN [conn[c] EXCEPT !.at = "closed"] ELSE conn[c]]
  BY Zenon DEF ReplaceManaged
<1>1. \A c \in Conns : /\ conn'[c].who = conn[c].who
                       /\ c \in gone => conn'[c].at = "closed"
                       /\ c \notin gone => conn'[c] = conn[c]
  BY ZenonT(60), <1>0 DEF TypeOK
<1>2. /\ allowed' \in SUBSET Clients /\ registered' \in SUBSET Conns
      /\ conn' \in [Conns -> [at : {"free", "handshake", "serving", "closed"},
                              who : Clients \cup {None}]]
  BY <1>0 DEF TypeOK
<1>3. Handshaking' = Handshaking
  <2>1. \A c \in gone : conn[c].at # "handshake"
    BY Zenon DEF RegisteredWereAdmitted
  <2>. QED
    BY Zenon, <1>1, <2>1 DEF Handshaking
<1>. QED
  BY Zenon, <1>0, <1>1, <1>2, <1>3
     DEF PeersAreClients, RegisteredWereAdmitted, ServedAreRegistered, ServedAreAuthorized,
         Authorized, TypeOK

\* The watch of a managed Edge, from its request to the saved map.
LEMMA WatchInv ==
    ASSUME Inv, WatchNext
    PROVE  Inv'
<1> USE DEF Inv
<1>1. CASE WatchSend \/ WatchAnswer \/ WatchFail \/ WatchPersist
  <2>1. UNCHANGED <<mode, control, trusted, up, pinned, allowed, registered, conn, permits, profile, served>>
    BY Zenon, <1>1 DEF WatchSend, WatchAnswer, WatchFail, WatchPersist
  <2>2. saved' \in Map /\ watch' \in Watch
    BY <1>1 DEF WatchSend, WatchAnswer, WatchFail, WatchPersist, TypeOK, WatchesAreManaged, Watch,
                Map, Idle
  <2>3. mode = "managed" /\ up
    BY <1>1
       DEF WatchSend, WatchAnswer, WatchFail, WatchPersist, WatchesAreManaged, DownIsEmpty, Idle
  <2>. QED
    BY Zenon, <2>1, <2>2, <2>3
       DEF TypeOK, WatchesAreManaged, PeersAreClients, DownIsEmpty, RegisteredWereAdmitted,
           ServedAreRegistered,
           ServedAreAuthorized, Authorized, PinHistory, PermitsAreReturned
<1>2. ASSUME NEW next \in SUBSET Clients, NEW p \in Map, NEW w \in Watch,
             watch.at \in {"map", "refused"}, ReplaceManaged(next), profile' = p, watch' = w,
             UNCHANGED <<mode, control, saved, trusted, up, pinned, permits, served>>
      PROVE  Inv'
  <2>1. mode = "managed" /\ up
    BY <1>2 DEF WatchesAreManaged, DownIsEmpty, Idle
  <2>2. /\ allowed' \in SUBSET Clients /\ registered' \in SUBSET Conns
        /\ conn' \in [Conns -> [at : {"free", "handshake", "serving", "closed"},
                                who : Clients \cup {None}]]
        /\ Handshaking' = Handshaking
        /\ PeersAreClients' /\ RegisteredWereAdmitted' /\ ServedAreRegistered' /\ ServedAreAuthorized'
    BY Zenon, <1>2, <2>1, ReplaceManagedInv
  <2>3. PermitsAreReturned'
    BY Zenon, <1>2, <2>2, PermitsFollow
  <2>. QED
    BY Zenon, <1>2, <2>1, <2>2, <2>3 DEF TypeOK, WatchesAreManaged, DownIsEmpty, PinHistory
<1>3. CASE WatchApply
  <2>1. watch.map \in Map /\ watch.map.allowed \in SUBSET Clients /\ [at |-> "applied"] \in Watch
    BY Zenon, <1>3 DEF WatchApply, WatchesAreManaged, Watch, Map
  <2>. QED
    BY Zenon, <1>2, <1>3, <2>1 DEF WatchApply
<1>4. CASE WatchRefused
  <2>1. {} \in SUBSET Clients /\ [at |-> "stopped"] \in Watch /\ profile' \in Map
    BY Zenon, <1>4 DEF WatchRefused, Watch, TypeOK
  <2>. QED
    BY Zenon, <1>2, <1>4, <2>1 DEF WatchRefused
<1>. QED
  BY Zenon, <1>1, <1>3, <1>4 DEF WatchNext

\* A crash forgets all connections; a start takes the pin from where it was saved.
LEMMA RestartInv ==
    ASSUME Inv, Crash \/ Start
    PROVE  Inv'
<1> USE DEF Inv
<1>1. CASE Crash
  <2>1. Handshaking' = {}
    BY Zenon, <1>1 DEF Crash, Handshaking, Free
  <2>2. PermitsAreReturned'
    BY <1>1, <2>1, FS_EmptySet, HandshakeAssumption DEF Crash, PermitsAreReturned, Handshaking
  <2>3. conn' \in [Conns -> [at : {"free", "handshake", "serving", "closed"},
                             who : Clients \cup {None}]]
    BY Zenon, <1>1 DEF Crash, Free
  <2>4. permits' \in 0..MaxHandshakes
    BY <1>1, HandshakeAssumption DEF Crash
  <2>5. TypeOK'
    BY Zenon, <1>1, <2>3, <2>4 DEF Crash, TypeOK
  <2>. QED
    BY Zenon, <1>1, <2>2, <2>5
       DEF Crash, WatchesAreManaged, PeersAreClients, DownIsEmpty, RegisteredWereAdmitted,
           ServedAreRegistered,
           ServedAreAuthorized, PinHistory, Watch, Idle, Free
<1>2. CASE Start
  <2>1. TypeOK'
    BY Zenon, <1>2 DEF Start, TypeOK, Map
  <2>2. PermitsAreReturned'
    BY Zenon, <1>2 DEF Start, PermitsAreReturned
  <2>. QED
    BY Zenon, <1>2, <2>1, <2>2
       DEF Start, WatchesAreManaged, PeersAreClients, DownIsEmpty, RegisteredWereAdmitted,
           ServedAreRegistered,
           ServedAreAuthorized, PinHistory, Free
<1>. QED
  BY Zenon, <1>1, <1>2

\* What Control does reaches the Edge only through its watch.
LEMMA ControlInv ==
    ASSUME Inv, Remove \/ \E k \in Clients : Transfer(k)
    PROVE  Inv'
<1>1. UNCHANGED <<mode, saved, trusted, up, pinned, allowed, registered, conn, permits, profile, watch, served>>
  BY Zenon DEF Remove, Transfer
<1>2. control' \in [rev : 1..MaxRevision, allowed : SUBSET Clients, member : BOOLEAN]
  <2>1. ASSUME NEW k \in Clients, Transfer(k)
        PROVE  control' = [rev |-> control.rev + 1, allowed |-> {k}, member |-> control.member]
    BY Zenon, <2>1 DEF Inv, TypeOK, Transfer
  <2>2. control.rev \in 1..MaxRevision /\ control.member \in BOOLEAN
    BY Zenon DEF Inv, TypeOK
  <2>3. ASSUME NEW k \in Clients, Transfer(k)
        PROVE  control.rev + 1 \in 1..MaxRevision
    <3>1. control.rev < MaxRevision
      BY Zenon, <2>3 DEF Transfer
    <3>. QED
      BY <2>2, <3>1, RevisionAssumption
  <2>4. CASE Remove
    BY Zenon, <2>4 DEF Inv, TypeOK, Remove
  <2>. QED
    BY <2>1, <2>2, <2>3, <2>4
<1>3. TypeOK'
  BY Zenon, <1>1, <1>2 DEF Inv, TypeOK
<1>. QED
  BY Zenon, <1>1, <1>3
     DEF Inv, WatchesAreManaged, PeersAreClients, DownIsEmpty, RegisteredWereAdmitted,
         ServedAreRegistered,
         ServedAreAuthorized, Authorized, PinHistory, PermitsAreReturned

\* The invariant is inductive.
LEMMA NextInv == Inv /\ [Next]_vars => Inv'
<1> SUFFICES ASSUME Inv, [Next]_vars PROVE Inv'
  BY Zenon
<1>1. CASE ConnNext
  BY Zenon, <1>1, IncomingInv, HandshakeFailsInv, AuthorizeFirstInv, AuthorizeInv, CloseInv DEF ConnNext
<1>2. CASE UNCHANGED vars
  BY Zenon, <1>2 DEF vars, Inv, TypeOK, WatchesAreManaged, PeersAreClients, DownIsEmpty,
              RegisteredWereAdmitted, ServedAreRegistered, ServedAreAuthorized, Authorized,
              PinHistory, PermitsAreReturned
<1>. QED
  BY Zenon, <1>1, <1>2, WatchInv, RestartInv, ControlInv DEF Next

\* So it holds in every state the Edge can be in.
LEMMA InvHolds == Spec => []Inv
BY InitInv, NextInv, PTL DEF Spec

-----------------------------------------------------------------------------
\* The connections the Edge serves are registered with the pin, and the permits of
\* the handshake semaphore all come back, for any number of either.
THEOREM ConnectionsStayTracked == Spec => []ConnectionsAreTracked
BY InvHolds, PTL DEF Inv, ConnectionsAreTracked

\* Nobody is served whom the pin does not admit now: a new node map closes every
\* connection of a Client that lost access (ClientPin::replace_managed).
THEOREM OnlyAuthorizedAreServed == Spec => []ServedAreAuthorized
BY InvHolds, PTL DEF Inv

\* An Edge that is not managed serves one Client over its whole life: a strict one
\* by its command line, the other by the file trusted_client (authorize_and_register).
THEOREM StandaloneServesOneClient == Spec => []OneClientForever
<1>1. Inv => OneClientForever
  BY Zenon, ModeAssumption DEF Inv, TypeOK, PinHistory, OneClientForever
<1>. QED
  BY <1>1, InvHolds, PTL
=============================================================================
