------------------------- MODULE CredentialsProofs -------------------------
(***************************************************************************)
(* Proofs about module Credentials, for every number of endpoint ids and   *)
(* every lifetime: types, and the two facts that make revocation correct.  *)
(*                                                                         *)
(* Neither fact is inductive alone.  A tombstone is built from a live      *)
(* record, so the proof needs to know that live and dead generations stay  *)
(* within the revision (a new one is then newer than all of them) and that *)
(* a tombstone's generation is always that of some removed node.           *)
(***************************************************************************)
EXTENDS Credentials, TLAPS

\* Every generation and relay revision in use has been handed out already.
WithinRevisions ==
    /\ \A s \in Subject : live[s] # None => live[s].gen <= revision
    /\ \A d \in dead : d.gen <= revision /\ d.at <= relayRevision
    /\ \A k \in Keys : revocations[k] # None => revocations[k].rev <= relayRevision

\* A registered node's generation is newer than those of its earlier lives.
NewerThanDead ==
    \A s \in Subject : live[s] # None => \A d \in dead : d.subject = s => d.gen < live[s].gen

\* A tombstone revokes exactly through the generation of some removed node.
TombstonesComeFromRemovals ==
    \A k \in Keys : revocations[k] # None =>
        \E d \in dead : KeyOf(d.subject) = k /\ d.gen = revocations[k].through

Inv ==
    /\ TypeOK
    /\ WithinRevisions
    /\ NewerThanDead
    /\ TombstonesComeFromRemovals
    /\ RemovedCredentialsAreCovered

-----------------------------------------------------------------------------
\* The larger of two numbers bounds both.
LEMMA Max2Bounds ==
    ASSUME NEW a \in Int, NEW b \in Int
    PROVE  Max2(a, b) \in {a, b} /\ Max2(a, b) >= a /\ Max2(a, b) >= b
BY DEF Max2

\* The tombstone revocation_change builds is a revocation at the next relay
\* revision, at least as strong as the credential it revokes and as the
\* tombstone it replaces, and through a generation of one of the two.
LEMMA RevocationChangeStrengthens ==
    ASSUME TypeOK, NEW k \in Keys, NEW gen \in Nat, NEW exp \in Int
    PROVE  LET r == RevocationChange(k, gen, exp)
           IN  /\ r \in Revocation
               /\ r.rev = relayRevision + 1
               /\ r.through >= gen /\ r.exp >= exp
               /\ revocations[k] = None => r.through = gen
               /\ revocations[k] # None =>
                     /\ r.through \in {gen, revocations[k].through}
                     /\ r.through >= revocations[k].through
                     /\ r.exp >= revocations[k].exp
<1>1. CASE revocations[k] = None
  BY <1>1, NoneAssumption DEF RevocationChange, TypeOK, Revocation
<1>2. CASE revocations[k] # None
  <2>1. revocations[k] \in Revocation
    BY Zenon, <1>2 DEF TypeOK
  <2>2. revocations[k].through \in Nat /\ revocations[k].exp \in Int
    BY Zenon, <2>1 DEF Revocation
  <2>. QED
    BY <1>2, <2>2, Max2Bounds DEF RevocationChange, TypeOK, Revocation
<1>. QED
  BY Zenon, <1>1, <1>2

-----------------------------------------------------------------------------
\* A fresh database (init, db.rs initialize_sync) has nothing to cover.
LEMMA InitInv == Init => Inv
BY RevisionBoundAssumption
   DEF Init, Inv, TypeOK, WithinRevisions, NewerThanDead, TombstonesComeFromRemovals,
       RemovedCredentialsAreCovered

\* A claim hands out a generation above everything that was ever revoked.
LEMMA EnrollInv ==
    ASSUME Inv, NEW s \in Subject, NEW at \in 0..now, Enroll(s, at)
    PROVE  Inv'
<1> USE DEF Inv
<1>1. at + Lifetime \in Int /\ revision + 1 \in Nat /\ UNCHANGED relayRevision
  BY RenewalAssumption DEF Enroll, PublishNodes, TypeOK
<1>2. /\ live' = [live EXCEPT ![s] = [gen |-> revision + 1, exp |-> at + Lifetime]]
      /\ revision' = revision + 1
      /\ UNCHANGED <<now, dead, revocations>>
  BY Zenon DEF Enroll, PublishNodes
<1>3. TypeOK'
  BY Zenon, <1>1, <1>2 DEF TypeOK, Credential
<1>4. WithinRevisions'
  BY <1>1, <1>2, NoneAssumption DEF TypeOK, WithinRevisions, Credential, DeadCredential
<1>5. NewerThanDead'
  BY <1>1, <1>2 DEF TypeOK, WithinRevisions, NewerThanDead, DeadCredential
<1>6. TombstonesComeFromRemovals' /\ RemovedCredentialsAreCovered'
  BY Zenon, <1>1, <1>2 DEF TombstonesComeFromRemovals, RemovedCredentialsAreCovered, Covers
<1>. QED
  BY Zenon, <1>3, <1>4, <1>5, <1>6

\* A renewal only moves the expiry and generation of a live credential forward.
LEMMA RenewInv ==
    ASSUME Inv, NEW s \in Subject, NEW at \in 0..now, Renew(s, at)
    PROVE  Inv'
<1> USE DEF Inv
<1>1. /\ live[s] \in Credential
      /\ live' = [live EXCEPT ![s] = [gen |-> live[s].gen, exp |-> at + Lifetime]]
      /\ UNCHANGED <<now, dead, revocations, revision, relayRevision>>
  BY Zenon DEF Renew, TypeOK, Credential
<1>2. at + Lifetime \in Int
  BY RenewalAssumption DEF TypeOK
<1>3. TypeOK'
  BY Zenon, <1>1, <1>2 DEF TypeOK, Credential
<1>4. WithinRevisions' /\ NewerThanDead'
  BY Zenon, <1>1, NoneAssumption DEF TypeOK, WithinRevisions, NewerThanDead, Credential
<1>5. TombstonesComeFromRemovals' /\ RemovedCredentialsAreCovered'
  BY Zenon, <1>1 DEF TombstonesComeFromRemovals, RemovedCredentialsAreCovered, Covers
<1>. QED
  BY Zenon, <1>3, <1>4, <1>5

\* A removal leaves a tombstone that covers what it removed, and unmakes none.
LEMMA RemoveInv ==
    ASSUME Inv, NEW s \in Subject, Remove(s)
    PROVE  Inv'
<1> USE DEF Inv
<1> DEFINE k == KeyOf(s)
           d == [subject |-> s, gen |-> live[s].gen, exp |-> live[s].exp, at |-> relayRevision + 1]
           r == RevocationChange(k, live[s].gen, live[s].exp)
<1>1. /\ live[s] # None /\ live[s] \in Credential
      /\ live' = [live EXCEPT ![s] = None]
      /\ revocations' = [revocations EXCEPT ![k] = r]
      /\ dead' = dead \cup {d}
      /\ revision' = revision + 1 /\ relayRevision' = relayRevision + 1
      /\ UNCHANGED now
  BY Zenon DEF Remove, PublishNodesAndRelays, TypeOK
<1>2. k \in Keys /\ live[s].gen \in Nat /\ live[s].exp \in Int
  BY Zenon, <1>1 DEF KeyOf, Subject, Credential
<1>3. /\ r \in Revocation
      /\ r.rev = relayRevision + 1
      /\ r.through >= live[s].gen /\ r.exp >= live[s].exp
      /\ revocations[k] = None => r.through = live[s].gen
      /\ revocations[k] # None => /\ r.through \in {live[s].gen, revocations[k].through}
                                 /\ r.through >= revocations[k].through
                                 /\ r.exp >= revocations[k].exp
  BY Zenon, <1>2, RevocationChangeStrengthens
<1>4. /\ d \in DeadCredential
      /\ d.subject = s /\ d.gen = live[s].gen /\ d.exp = live[s].exp
      /\ d.at = relayRevision + 1
  BY <1>2 DEF DeadCredential, TypeOK
<1> HIDE DEF r, d
<1>5. TypeOK'
  BY <1>1, <1>2, <1>3, <1>4 DEF TypeOK
<1>6. WithinRevisions'
  BY <1>1, <1>2, <1>3, <1>4 DEF TypeOK, WithinRevisions, Credential, Revocation, DeadCredential
<1>7. NewerThanDead'
  BY Zenon, <1>1, <1>2, <1>4 DEF TypeOK, NewerThanDead, Credential
<1>8. TombstonesComeFromRemovals'
  <2> SUFFICES ASSUME NEW j \in Keys, revocations'[j] # None
               PROVE  \E e \in dead' : KeyOf(e.subject) = j /\ e.gen = revocations'[j].through
    BY Zenon DEF TombstonesComeFromRemovals
  <2>1. CASE j = k /\ r.through = live[s].gen
    BY Zenon, <2>1, <1>1, <1>2, <1>4 DEF TypeOK
  <2>2. CASE j # k \/ r.through # live[s].gen
    <3>1. revocations[j] # None /\ revocations'[j].through = revocations[j].through
      BY Zenon, <2>2, <1>1, <1>2, <1>3 DEF TypeOK
    <3>. QED
      BY Zenon, <3>1, <1>1 DEF TombstonesComeFromRemovals
  <2>. QED
    BY Zenon, <2>1, <2>2
<1>9. RemovedCredentialsAreCovered'
  <2> SUFFICES ASSUME NEW e \in dead', e.exp > now'
               PROVE  Covers(revocations'[KeyOf(e.subject)], e)
    BY Zenon DEF RemovedCredentialsAreCovered, Covers
  <2>1. CASE e = d
    BY <2>1, <1>1, <1>2, <1>3, <1>4, NoneAssumption DEF Covers, TypeOK, Revocation
  <2>2. CASE e # d
    <3>1. e \in dead /\ e \in DeadCredential /\ Covers(revocations[KeyOf(e.subject)], e)
      BY Zenon, <2>2, <1>1 DEF RemovedCredentialsAreCovered, TypeOK
    <3>2. KeyOf(e.subject) \in Keys /\ e.at <= relayRevision
      BY Zenon, <3>1 DEF DeadCredential, Subject, KeyOf, WithinRevisions
    <3>3. CASE KeyOf(e.subject) # k
      BY Zenon, <3>1, <3>2, <3>3, <1>1 DEF TypeOK
    <3>4. CASE KeyOf(e.subject) = k
      <4>1. revocations[k] \in Revocation
        BY Zenon, <3>1, <3>4, <1>2 DEF Covers, TypeOK
      <4>. QED
        BY <3>1, <3>2, <3>4, <4>1, <1>1, <1>2, <1>3, NoneAssumption
           DEF Covers, TypeOK, Revocation, DeadCredential
    <3>. QED
      BY Zenon, <3>3, <3>4
  <2>. QED
    BY Zenon, <2>1, <2>2
<1>. QED
  BY Zenon, <1>5, <1>6, <1>7, <1>8, <1>9

\* A change of the topology that touches no credential moves the revision only.
LEMMA OtherChangeInv ==
    ASSUME Inv, OtherChange
    PROVE  Inv'
<1>1. /\ revision' \in Nat /\ revision' >= revision
      /\ relayRevision' \in Nat /\ relayRevision' >= relayRevision
      /\ UNCHANGED <<now, live, dead, revocations>>
  BY DEF Inv, TypeOK, OtherChange, PublishNodes, PublishNodesAndRelays
<1>2. TypeOK'
  BY Zenon, <1>1 DEF Inv, TypeOK
<1>3. WithinRevisions'
  BY <1>1 DEF Inv, TypeOK, WithinRevisions, Credential, Revocation, DeadCredential
<1>4. NewerThanDead' /\ TombstonesComeFromRemovals' /\ RemovedCredentialsAreCovered'
  BY Zenon, <1>1 DEF Inv, NewerThanDead, TombstonesComeFromRemovals, RemovedCredentialsAreCovered, Covers
<1>. QED
  BY Zenon, <1>2, <1>3, <1>4 DEF Inv

\* Cleanup drops only tombstones that cover nothing but expired credentials.
LEMMA CleanupInv ==
    ASSUME Inv, Cleanup
    PROVE  Inv'
<1>1. /\ \A k \in Keys : /\ revocations'[k] \in {None, revocations[k]}
                         /\ revocations[k] # None /\ revocations[k].exp > now
                              => revocations'[k] = revocations[k]
      /\ revocations' \in [Keys -> Revocation \cup {None}]
      /\ UNCHANGED <<now, live, dead, revision, relayRevision>>
  BY DEF Inv, TypeOK, Cleanup, Revocation
<1>2. TypeOK' /\ WithinRevisions' /\ NewerThanDead'
  BY Zenon, <1>1 DEF Inv, TypeOK, WithinRevisions, NewerThanDead
<1>3. TombstonesComeFromRemovals'
  BY Zenon, <1>1 DEF Inv, TombstonesComeFromRemovals
<1>4. RemovedCredentialsAreCovered'
  <2> SUFFICES ASSUME NEW d \in dead, d.exp > now
               PROVE  Covers(revocations'[KeyOf(d.subject)], d)
    BY Zenon, <1>1 DEF RemovedCredentialsAreCovered, Covers
  <2>1. d \in DeadCredential /\ KeyOf(d.subject) \in Keys
    BY Zenon DEF Inv, TypeOK, DeadCredential, Subject, KeyOf
  <2>2. Covers(revocations[KeyOf(d.subject)], d)
    BY Zenon DEF Inv, RemovedCredentialsAreCovered
  <2>. QED
    BY <1>1, <2>1, <2>2 DEF Covers, Inv, TypeOK, DeadCredential, Revocation
<1>. QED
  BY Zenon, <1>2, <1>3, <1>4 DEF Inv

\* Time passes: expired credentials need no cover.
LEMMA TickInv ==
    ASSUME Inv, Tick
    PROVE  Inv'
<1>1. now' = now + 1 /\ UNCHANGED <<live, dead, revocations, revision, relayRevision>>
  BY Zenon DEF Tick
<1>2. TypeOK' /\ WithinRevisions' /\ NewerThanDead' /\ TombstonesComeFromRemovals'
  BY <1>1 DEF Inv, TypeOK, WithinRevisions, NewerThanDead, TombstonesComeFromRemovals
<1>3. RemovedCredentialsAreCovered'
  BY <1>1 DEF Inv, TypeOK, RemovedCredentialsAreCovered, Covers, DeadCredential
<1>. QED
  BY Zenon, <1>2, <1>3 DEF Inv

\* The invariant is inductive: one case per kind of change Control commits.
LEMMA NextInv == Inv /\ [Next]_vars => Inv'
<1> SUFFICES ASSUME Inv, [Next]_vars PROVE Inv'
  BY Zenon
<1>1. ASSUME NEW s \in Subject, NEW at \in 0..now, Enroll(s, at) PROVE Inv'
  BY Zenon, <1>1, EnrollInv
<1>2. ASSUME NEW s \in Subject, NEW at \in 0..now, Renew(s, at) PROVE Inv'
  BY Zenon, <1>2, RenewInv
<1>3. ASSUME NEW s \in Subject, Remove(s) PROVE Inv'
  BY Zenon, <1>3, RemoveInv
<1>4. CASE UNCHANGED vars
  BY Zenon, <1>4 DEF vars, Inv, TypeOK, WithinRevisions, NewerThanDead, TombstonesComeFromRemovals,
              RemovedCredentialsAreCovered, Covers
<1>. QED
  BY Zenon, <1>1, <1>2, <1>3, <1>4, OtherChangeInv, CleanupInv, TickInv DEF Next

\* So it holds in every state Control can be in.
LEMMA InvHolds == Spec => []Inv
BY InitInv, NextInv, PTL DEF Spec

-----------------------------------------------------------------------------
\* The state of Control's credential bookkeeping is well typed.
THEOREM TypeCorrect == Spec => []TypeOK
BY InvHolds, PTL DEF Inv

\* An unexpired credential of a removed node is always covered by a tombstone:
\* revocation_change, the renewals and the cleanups never lose one.
THEOREM RemovedCredentialsStayCovered == Spec => []RemovedCredentialsAreCovered
BY InvHolds, PTL DEF Inv

\* A node that enrols again with an identity that was removed before is not hit
\* by the tombstone of its earlier life.
THEOREM ReenrolmentEscapesTombstones == Spec => []ReenrolledNodesAreNotRevoked
<1>1. Inv => ReenrolledNodesAreNotRevoked
  <2> SUFFICES ASSUME Inv, NEW s \in Subject, live[s] # None, revocations[KeyOf(s)] # None,
                      \A d \in dead : KeyOf(d.subject) = KeyOf(s) => d.subject = s
               PROVE  live[s].gen > revocations[KeyOf(s)].through
    BY Zenon DEF ReenrolledNodesAreNotRevoked
  <2>1. KeyOf(s) \in Keys
    BY Zenon DEF Subject, KeyOf
  <2>2. PICK d \in dead : KeyOf(d.subject) = KeyOf(s) /\ d.gen = revocations[KeyOf(s)].through
    BY Zenon, <2>1 DEF Inv, TombstonesComeFromRemovals
  <2>3. d.gen < live[s].gen
    BY Zenon, <2>2 DEF Inv, NewerThanDead
  <2>. QED
    BY Zenon, <2>2, <2>3 DEF Inv, TypeOK, Credential, DeadCredential
<1>. QED
  BY <1>1, InvHolds, PTL

\* The two together: tombstones cover what was removed and spare what came back,
\* however claims, renewals, removals and cleanups follow each other.
THEOREM TombstonesStayExact == Spec => []TombstonesAreExact
BY RemovedCredentialsStayCovered, ReenrolmentEscapesTombstones, PTL DEF TombstonesAreExact

\* Until it expires a tombstone only gets stronger, so the check with which a
\* Relay refuses a generation that moved backwards never stops an update.
THEOREM TombstonesStrengthen == Spec => TombstonesNeverWeaken
<1> DEFINE Step(k) == revocations[k] # None /\ revocations[k].exp > now =>
                         /\ revocations'[k] # None
                         /\ revocations'[k].through >= revocations[k].through
                         /\ revocations'[k].exp >= revocations[k].exp
                         /\ revocations'[k].rev >= revocations[k].rev
<1>1. Inv /\ [Next]_vars => [\A k \in Keys : Step(k)]_vars
  <2> SUFFICES ASSUME Inv, Next, NEW k \in Keys, revocations[k] # None, revocations[k].exp > now
               PROVE  /\ revocations'[k] # None
                      /\ revocations'[k].through >= revocations[k].through
                      /\ revocations'[k].exp >= revocations[k].exp
                      /\ revocations'[k].rev >= revocations[k].rev
    BY Zenon DEF vars
  <2>1. revocations[k] \in Revocation
    BY Zenon DEF Inv, TypeOK
  <2>2. CASE revocations'[k] = revocations[k]
    BY <2>1, <2>2 DEF Revocation
  <2>3. ASSUME NEW s \in Subject, Remove(s), revocations'[k] # revocations[k]
        PROVE  /\ revocations'[k] # None
               /\ revocations'[k].through >= revocations[k].through
               /\ revocations'[k].exp >= revocations[k].exp
               /\ revocations'[k].rev >= revocations[k].rev
    <3> DEFINE r == RevocationChange(k, live[s].gen, live[s].exp)
    <3>1. k = KeyOf(s) /\ revocations'[k] = r
      BY Zenon, <2>3 DEF Remove, Inv, TypeOK
    <3>2. live[s].gen \in Nat /\ live[s].exp \in Int
      BY Zenon, <2>3 DEF Remove, Inv, TypeOK, Credential
    <3>3. r \in Revocation /\ r.through >= revocations[k].through /\ r.exp >= revocations[k].exp
          /\ r.rev = relayRevision + 1
      BY Zenon, <3>2, RevocationChangeStrengthens DEF Inv
    <3>4. revocations[k].rev <= relayRevision
      BY Zenon DEF Inv, WithinRevisions
    <3> HIDE DEF r
    <3>. QED
      BY <3>1, <3>3, <3>4, <2>1, NoneAssumption DEF Inv, TypeOK, Revocation
  <2>4. revocations'[k] # revocations[k] => \E s \in Subject : Remove(s)
    BY <2>1 DEF Next, Enroll, Renew, OtherChange, Cleanup, Tick, Inv, TypeOK, Revocation
  <2>. QED
    BY Zenon, <2>2, <2>3, <2>4
<1>. QED
  BY <1>1, InvHolds, PTL DEF Spec, TombstonesNeverWeaken
=============================================================================
