---------------------------- MODULE Credentials ----------------------------
(***************************************************************************)
(* What Control promises about Relay credentials, without the topology,    *)
(* the invitations and the names that decide when a node comes or goes.    *)
(*                                                                         *)
(* A node (a Client or an Edge) has a credential while it is registered:   *)
(* a generation, fixed when it enrolled, and an expiry, moved forward by   *)
(* renewals.  Removing the node leaves a revocation for its endpoint id    *)
(* ("revoked through generation g until time t") that Relays fetch by the  *)
(* relay revision it carries.  Expired revocations are cleaned up.         *)
(*                                                                         *)
(* A credential is a signed value that its holder keeps: only the largest  *)
(* expiry signed for a generation matters, and `live' holds it.  `dead' is *)
(* a history variable: the credentials of the nodes removed so far, with   *)
(* the relay revision of the removal.                                      *)
(*                                                                         *)
(* Module Control implements this specification; module RevocationSync     *)
(* adds the Relays to it.                                                  *)
(***************************************************************************)
EXTENDS Integers, FiniteSets

CONSTANTS
    Kinds,         \* the kinds of node that hold credentials
    Keys,          \* endpoint ids
    Lifetime,      \* RELAY_CREDENTIAL_LIFETIME_SECS
    RenewBefore,   \* RELAY_CREDENTIAL_RENEW_BEFORE_SECS
    MaxRevision,   \* bound: `checked_add' on a revision fails beyond it
    MaxTime,       \* bound: the last instant
    None           \* Option::None

ASSUME RenewalAssumption ==
    /\ Lifetime \in Nat
    /\ RenewBefore \in Nat
    /\ RenewBefore < Lifetime

ASSUME RevisionBoundAssumption == MaxRevision \in Nat /\ MaxTime \in Nat

\* A subject is one kind of registration of one endpoint id.
Subject == Kinds \X Keys
KeyOf(s) == s[2]

Credential == [gen : Nat, exp : Int]
Revocation == [through : Nat, exp : Int, rev : Nat]
DeadCredential == [subject : Subject, gen : Nat, exp : Int, at : Nat]

ASSUME NoneAssumption == None \notin Credential /\ None \notin Revocation

VARIABLES
    now,            \* Control's clock
    live,           \* live[s]: the credential of a registered node, or None
    dead,           \* history: credentials of removed nodes
    revocations,    \* revocations[k]: the tombstone of an endpoint id, or None
    revision,       \* revision of the node maps
    relayRevision   \* revision of the revocation list

vars == <<now, live, dead, revocations, revision, relayRevision>>

Max2(a, b) == IF a >= b THEN a ELSE b

\* Faulty form: a second removal brings its generation and keeps the expiry of the first.
RevocationChange_KeepsExpiry(k, gen, exp) ==
    [through |-> gen, rev |-> relayRevision + 1,
     exp |-> IF revocations[k] = None THEN exp ELSE revocations[k].exp]

\* The tombstone written for endpoint id k when a credential goes away.
RevocationChange(k, gen, exp) ==
    IF revocations[k] = None
    THEN [through |-> gen, exp |-> exp, rev |-> relayRevision + 1]
    ELSE [through |-> Max2(revocations[k].through, gen),
          exp |-> Max2(revocations[k].exp, exp),
          rev |-> relayRevision + 1]

-----------------------------------------------------------------------------
\* A topology change that Relays need not see.
PublishNodes ==
    /\ revision < MaxRevision
    /\ revision' = revision + 1
    /\ UNCHANGED relayRevision

\* A topology change that Relays must fetch.
PublishNodesAndRelays ==
    /\ revision < MaxRevision
    /\ relayRevision < MaxRevision
    /\ revision' = revision + 1
    /\ relayRevision' = relayRevision + 1

\* A claim registers the node.  `at' is the time at which the handler read the
\* clock, before it waited for its turn.
Enroll(s, at) ==
    /\ live[s] = None
    /\ PublishNodes
    /\ live' = [live EXCEPT ![s] = [gen |-> revision + 1, exp |-> at + Lifetime]]
    /\ UNCHANGED <<now, dead, revocations>>

\* A watch renews a credential that is about to expire: same generation, later
\* expiry, and no new revision.
Renew(s, at) ==
    /\ live[s] # None
    /\ live[s].exp <= at + RenewBefore
    /\ live' = [live EXCEPT ![s] = [gen |-> live[s].gen, exp |-> at + Lifetime]]
    /\ UNCHANGED <<now, dead, revocations, revision, relayRevision>>

\* Removing a node publishes the tombstone of its credential.
Remove(s) ==
    /\ live[s] # None
    /\ PublishNodesAndRelays
    /\ live' = [live EXCEPT ![s] = None]
    /\ revocations' = [revocations EXCEPT ![KeyOf(s)] =
                         RevocationChange(KeyOf(s), live[s].gen, live[s].exp)]
    /\ dead' = dead \cup {[subject |-> s, gen |-> live[s].gen,
                           exp |-> live[s].exp, at |-> relayRevision + 1]}
    /\ UNCHANGED now

\* Every other topology change: invitations, transfers, Relays, provisioners.
OtherChange ==
    /\ PublishNodes \/ PublishNodesAndRelays
    /\ UNCHANGED <<now, live, dead, revocations>>

\* The hourly cleanup, and the one at start-up, drop expired tombstones.
Cleanup ==
    /\ revocations' = [k \in Keys |->
         IF revocations[k] # None /\ revocations[k].exp <= now THEN None ELSE revocations[k]]
    /\ UNCHANGED <<now, live, dead, revision, relayRevision>>

Tick ==
    /\ now < MaxTime
    /\ now' = now + 1
    /\ UNCHANGED <<live, dead, revocations, revision, relayRevision>>

Init ==
    /\ now = 0
    /\ live = [s \in Subject |-> None]
    /\ dead = {}
    /\ revocations = [k \in Keys |-> None]
    /\ revision = 0
    /\ relayRevision = 1

Next ==
    \/ Tick
    \/ OtherChange
    \/ Cleanup
    \/ \E s \in Subject : Remove(s) \/ (\E at \in 0..now : Enroll(s, at) \/ Renew(s, at))

Spec == Init /\ [][Next]_vars

-----------------------------------------------------------------------------
TypeOK ==
    /\ now \in Nat
    /\ live \in [Subject -> Credential \cup {None}]
    /\ dead \in SUBSET DeadCredential
    /\ revocations \in [Keys -> Revocation \cup {None}]
    /\ revision \in Nat
    /\ relayRevision \in Nat

Covers(r, d) ==
    /\ r # None
    /\ r.through >= d.gen
    /\ r.exp >= d.exp
    /\ r.rev >= d.at

\* No credential of a removed node outlives its tombstone: while it has not
\* expired, Control keeps a revocation of its endpoint id that revokes its
\* generation, lasts as long as the credential does and carries a relay revision
\* no older than the removal (revocation_change, renew_relay_credential_if_needed
\* and the cleanups together).
RemovedCredentialsAreCovered ==
    \A d \in dead : d.exp > now => Covers(revocations[KeyOf(d.subject)], d)

\* A tombstone never revokes the credential of a node that enrolled again with
\* the same identity: the generation that claim draws from the revision is newer
\* than every revoked one.  (An identity registered as Client and as Edge at the
\* same time shares one tombstone; the property is about the others.)
ReenrolledNodesAreNotRevoked ==
    \A s \in Subject :
        /\ live[s] # None
        /\ revocations[KeyOf(s)] # None
        /\ \A d \in dead : KeyOf(d.subject) = KeyOf(s) => d.subject = s
        => live[s].gen > revocations[KeyOf(s)].through

\* Together: Control's tombstones revoke every credential that was removed, and none of a node that
\* came back.
TombstonesAreExact == RemovedCredentialsAreCovered /\ ReenrolledNodesAreNotRevoked

\* Tombstones only get stronger until they expire: Relays refuse an update whose
\* generation moves backwards.
TombstonesNeverWeaken ==
    [][\A k \in Keys : revocations[k] # None /\ revocations[k].exp > now =>
          /\ revocations'[k] # None
          /\ revocations'[k].through >= revocations[k].through
          /\ revocations'[k].exp >= revocations[k].exp
          /\ revocations'[k].rev >= revocations[k].rev]_vars
=============================================================================
