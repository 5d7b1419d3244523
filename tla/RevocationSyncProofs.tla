------------------------ MODULE RevocationSyncProofs ------------------------
(***************************************************************************)
(* Proofs about module RevocationSync, for any number of Relays, endpoint  *)
(* ids, kinds and clock skews: updates can always be applied, and a Relay  *)
(* neither admits nor keeps whom it knows to be revoked.                   *)
(*                                                                         *)
(* None of this is inductive alone.  What a Relay holds was right when     *)
(* Control sent it, so the invariant says what stays right of an old list  *)
(* of tombstones while Control removes, cleans up and lets time pass: it   *)
(* covers the removals up to its version, it is never stronger than what   *)
(* Control has, and it revokes through generations of removed nodes only.  *)
(* This is said of the answer on its way, of the file, of the state in     *)
(* memory and of the update that is being applied.                         *)
(***************************************************************************)
EXTENDS RevocationSync, CredentialsProofs

Entries == [Keys -> Revocation \cup {None}]
Token == [key : Keys, gen : Nat, exp : Int]
Poll ==
    [at : {"idle", "forbidden", "closing", "marked", "stopped"}]
    \cup [at : {"sent"}, known : Nat]
    \cup [at : {"answered"}, version : Nat, issued : Nat, delta : Entries]
    \cup [at : {"persisted", "stored"}, next : File, kick : SUBSET Keys]

\* What the state is made of.
RelayTypeOK ==
    /\ SyncTypeOK
    /\ poll \in [Relays -> Poll]
    /\ conns \in [Relays -> SUBSET Token]

\* A generation is handed out once, and the lives of a node follow each other.
GenerationsAreUnique ==
    /\ \A s, t \in Subject : live[s] # None /\ live[t] # None /\ live[s].gen = live[t].gen => s = t
    /\ \A s \in Subject, d \in dead : live[s] # None => live[s].gen # d.gen
    /\ \A d, e \in dead : d.gen = e.gen => d = e
    /\ \A d, e \in dead : d.subject = e.subject /\ d.at < e.at => d.gen < e.gen

\* Tombstones `es' cover, at time t, the removals `gone' up to relay revision v.
CoverUpTo(es, v, t, gone) ==
    \A d \in gone : d.at <= v /\ d.exp > t =>
        /\ es[KeyOf(d.subject)] # None
        /\ es[KeyOf(d.subject)].through >= d.gen
        /\ es[KeyOf(d.subject)].exp >= d.exp

\* Those that have not expired are no stronger than Control's own, `theirs'.
BehindControl(es, t, theirs) ==
    \A k \in Keys : es[k] # None /\ es[k].exp > t =>
        /\ theirs[k] # None
        /\ theirs[k].through >= es[k].through
        /\ theirs[k].exp >= es[k].exp

\* They revoke through generations of nodes removed up to relay revision v.
FromRemovals(es, v, gone) ==
    \A k \in Keys : es[k] # None =>
        \E d \in gone : KeyOf(d.subject) = k /\ d.gen = es[k].through /\ d.at <= v

GoodFile(f, r) ==
    /\ f.version <= relayRevision
    /\ CoverUpTo(f.entries, f.version, Clock(r), dead)
    /\ BehindControl(f.entries, now, revocations)
    /\ FromRemovals(f.entries, f.version, dead)

(* The rest is about Relay r: its file d, its state in memory m, its index *)
(* i, its poll p and its connections c.                                    *)

Applying(p) == p.at \in {"persisted", "stored"}

FilesAreGood(r, d, m, p) ==
    /\ GoodFile(d, r) /\ GoodFile(m, r)
    /\ m.version <= d.version
    /\ Applying(p) => d = p.next /\ m.version < p.next.version

\* An answer brings what the Relay does not have, and moves nothing backwards.
GoodAnswer(r, m, p) ==
    /\ m.version < p.version /\ p.version <= relayRevision
    /\ CoverUpTo(p.delta, p.version, Clock(r),
                 {x \in dead : x.at > m.version \/ p.delta[KeyOf(x.subject)] # None})
    /\ BehindControl(p.delta, now, revocations)
    /\ FromRemovals(p.delta, p.version, dead)
    /\ \A k \in Keys : p.delta[k] # None =>
         /\ p.delta[k].rev > m.version
         /\ m.entries[k] # None /\ m.entries[k].exp > Clock(r) => p.delta[k].through >= m.entries[k].through

AnswersAreGood(r, m, p) ==
    /\ p.at = "sent" => p.known = m.version
    /\ p.at = "answered" => GoodAnswer(r, m, p)

\* on_connect reads the tombstones of the state in memory, or already the next ones.
IndexFollows(running, m, i, p, c) ==
    /\ ~running => c = {} /\ p = Idle
    /\ running => i = IF p.at = "stored" THEN p.next.entries ELSE m.entries

\* The update being applied disconnects those it newly revokes.
KicksAreComplete(r, m, p) ==
    Applying(p) =>
        \A x \in dead :
            m.version < x.at /\ x.at <= p.next.version /\ x.exp > Clock(r) /\ OneLife(x) =>
                KeyOf(x.subject) \in p.kick

\* A connection was made with a credential Control signed: what the node had, or less.
TokensWereSigned(c) ==
    \A y \in c :
        /\ y.gen <= revision
        /\ \A s \in Subject : live[s] # None /\ KeyOf(s) = y.key /\ live[s].gen = y.gen =>
             y.exp <= live[s].exp
        /\ \A x \in dead : KeyOf(x.subject) = y.key /\ x.gen = y.gen => y.exp <= x.exp

\* RevokedAreDisconnected, of this Relay.
Disconnected(r, m, c) ==
    \A x \in dead, y \in c :
        x.at <= m.version /\ OneLife(x) /\ y.key = KeyOf(x.subject) /\ y.gen = x.gen => y.exp <= Clock(r)

GoodRelay(r, running, d, m, i, p, c) ==
    /\ FilesAreGood(r, d, m, p) /\ AnswersAreGood(r, m, p)
    /\ IndexFollows(running, m, i, p, c) /\ KicksAreComplete(r, m, p)
    /\ TokensWereSigned(c) /\ Disconnected(r, m, c)

SyncInv ==
    /\ Inv /\ RelayTypeOK
    /\ GenerationsAreUnique
    /\ \A r \in Relays : GoodRelay(r, up[r], disk[r], mem[r], index[r], poll[r], conns[r])

-----------------------------------------------------------------------------
(* What a step of Control does to what Relays hold.                        *)

\* Control's clock and revisions move forward, and it forgets no removal.
LEMMA ControlMovesForward ==
    ASSUME Inv, [Next]_vars
    PROVE  /\ now' >= now /\ now' \in Nat
           /\ revision' >= revision /\ relayRevision' >= relayRevision
           /\ revision' \in Nat /\ relayRevision' \in Nat
           /\ dead \subseteq dead'
           /\ \A d \in dead' : d \notin dead => d.at = relayRevision + 1
<1> USE DEF Inv, TypeOK
<1>1. now' = now \/ now' = now + 1
  BY Zenon DEF Next, vars, Tick, OtherChange, Cleanup, Remove, Enroll, Renew
<1>2. revision' = revision \/ revision' = revision + 1
  BY Zenon DEF Next, vars, Tick, OtherChange, Cleanup, Remove, Enroll, Renew, PublishNodes,
         PublishNodesAndRelays
<1>3. relayRevision' = relayRevision \/ relayRevision' = relayRevision + 1
  BY Zenon DEF Next, vars, Tick, OtherChange, Cleanup, Remove, Enroll, Renew, PublishNodes,
         PublishNodesAndRelays
<1>4. dead' = dead \/ \E s \in Subject : Remove(s)
  BY Zenon DEF Next, vars, Tick, OtherChange, Cleanup, Enroll, Renew
<1>5. dead \subseteq dead' /\ \A d \in dead' : d \notin dead => d.at = relayRevision + 1
  BY <1>4 DEF Remove
<1>. QED
  BY <1>1, <1>2, <1>3, <1>5

\* A tombstone that has not expired stays, or is replaced by a stronger one.
LEMMA TombstoneStays ==
    ASSUME Inv, [Next]_vars, NEW k \in Keys, revocations[k] # None, revocations[k].exp > now
    PROVE  /\ revocations'[k] # None
           /\ revocations'[k].through >= revocations[k].through
           /\ revocations'[k].exp >= revocations[k].exp
<1>1. revocations[k] \in Revocation
  BY Zenon DEF Inv, TypeOK
<1>2. CASE revocations'[k] = revocations[k]
  BY <1>1, <1>2 DEF Revocation
<1>3. ASSUME NEW s \in Subject, Remove(s), revocations'[k] # revocations[k]
      PROVE  /\ revocations'[k] # None
             /\ revocations'[k].through >= revocations[k].through
             /\ revocations'[k].exp >= revocations[k].exp
  <2> DEFINE r == RevocationChange(k, live[s].gen, live[s].exp)
  <2>1. k = KeyOf(s) /\ revocations'[k] = r
    BY Zenon, <1>3 DEF Remove, Inv, TypeOK
  <2>2. live[s].gen \in Nat /\ live[s].exp \in Int
    BY Zenon, <1>3 DEF Remove, Inv, TypeOK, Credential
  <2>3. r \in Revocation /\ r.through >= revocations[k].through /\ r.exp >= revocations[k].exp
    BY Zenon, <2>2, RevocationChangeStrengthens DEF Inv
  <2> HIDE DEF r
  <2>. QED
    BY Zenon, <2>1, <2>3, NoneAssumption
<1>4. revocations'[k] # revocations[k] => \E s \in Subject : Remove(s)
  BY <1>1 DEF Next, vars, Enroll, Renew, OtherChange, Cleanup, Tick, Inv, TypeOK, Revocation
<1>. QED
  BY Zenon, <1>2, <1>3, <1>4

\* An old list of tombstones stays right.
LEMMA OldEntriesStayGood ==
    ASSUME Inv, [Next]_vars, NEW es \in Entries, NEW v \in Nat, v <= relayRevision,
           NEW t \in Int, NEW u \in Int, t <= u
    PROVE  /\ CoverUpTo(es, v, t, dead) => CoverUpTo(es, v, u, dead')
           /\ BehindControl(es, now, revocations) => BehindControl(es, now', revocations')
           /\ FromRemovals(es, v, dead) => FromRemovals(es, v, dead')
<1>1. /\ now \in Nat /\ now' \in Nat /\ now <= now' /\ dead \subseteq dead' /\ relayRevision \in Nat
      /\ \A d \in dead' : d \notin dead => d.at = relayRevision + 1
      /\ \A d \in dead : d \in DeadCredential
  BY Zenon, ControlMovesForward DEF Inv, TypeOK
<1>2. ASSUME CoverUpTo(es, v, t, dead) PROVE CoverUpTo(es, v, u, dead')
  <2> SUFFICES ASSUME NEW d \in dead', d.at <= v, d.exp > u
               PROVE  /\ es[KeyOf(d.subject)] # None
                      /\ es[KeyOf(d.subject)].through >= d.gen
                      /\ es[KeyOf(d.subject)].exp >= d.exp
    BY Zenon DEF CoverUpTo
  <2>1. d \in dead
    BY <1>1
  <2>2. d.exp \in Int
    BY Zenon, <1>1, <2>1 DEF DeadCredential
  <2>. QED
    BY <1>2, <2>1, <2>2 DEF CoverUpTo
<1>3. ASSUME BehindControl(es, now, revocations) PROVE BehindControl(es, now', revocations')
  <2> SUFFICES ASSUME NEW k \in Keys, es[k] # None, es[k].exp > now'
               PROVE  /\ revocations'[k] # None
                      /\ revocations'[k].through >= es[k].through
                      /\ revocations'[k].exp >= es[k].exp
    BY Zenon DEF BehindControl
  <2>1. es[k].through \in Nat /\ es[k].exp \in Int /\ es[k].exp > now
    BY <1>1 DEF Entries, Revocation
  <2>2. revocations[k] # None /\ revocations[k].through >= es[k].through
        /\ revocations[k].exp >= es[k].exp
    BY Zenon, <1>3, <2>1 DEF BehindControl
  <2>3. revocations[k].through \in Nat /\ revocations[k].exp \in Int /\ revocations[k].exp > now
    BY <1>1, <2>1, <2>2 DEF Inv, TypeOK, Revocation
  <2>4. /\ revocations'[k] # None
        /\ revocations'[k].through >= revocations[k].through
        /\ revocations'[k].exp >= revocations[k].exp
    BY Zenon, <2>2, <2>3, TombstoneStays
  <2>5. Inv'
    BY Zenon, NextInv
  <2>6. revocations'[k].through \in Nat /\ revocations'[k].exp \in Int
    BY Zenon, <2>4, <2>5 DEF Inv, TypeOK, Revocation
  <2>. QED
    BY <2>1, <2>2, <2>3, <2>4, <2>6
<1>4. ASSUME FromRemovals(es, v, dead) PROVE FromRemovals(es, v, dead')
  BY Zenon, <1>1, <1>4 DEF FromRemovals
<1>. QED
  BY Zenon, <1>2, <1>3, <1>4

\* Generations stay unique: a claim draws its own from the revision.
LEMMA GenerationsStayUnique ==
    ASSUME Inv, GenerationsAreUnique, [Next]_vars
    PROVE  GenerationsAreUnique'
<1> USE DEF Inv
<1>1. ASSUME NEW s \in Subject, NEW at \in 0..now, Enroll(s, at) PROVE GenerationsAreUnique'
  <2>1. /\ live' = [live EXCEPT ![s] = [gen |-> revision + 1, exp |-> at + Lifetime]]
        /\ dead' = dead
    BY Zenon, <1>1 DEF Enroll
  <2>2. ASSUME NEW t \in Subject
        PROVE  /\ t = s => live'[t].gen = revision + 1
               /\ t # s => live'[t] = live[t]
    BY Zenon, <2>1 DEF TypeOK
  <2>3. /\ \A t \in Subject : live[t] # None => live[t].gen \in Nat /\ live[t].gen <= revision
        /\ \A d \in dead : d.gen \in Nat /\ d.gen <= revision
        /\ revision \in Nat
    BY Zenon DEF WithinRevisions, TypeOK, Credential, DeadCredential
  <2>. QED
    BY <2>1, <2>2, <2>3 DEF GenerationsAreUnique
<1>2. ASSUME NEW s \in Subject, NEW at \in 0..now, Renew(s, at) PROVE GenerationsAreUnique'
  <2>1. /\ live' = [live EXCEPT ![s] = [gen |-> live[s].gen, exp |-> at + Lifetime]]
        /\ live[s] # None /\ dead' = dead
    BY Zenon, <1>2 DEF Renew
  <2>2. ASSUME NEW t \in Subject, live'[t] # None
        PROVE  live[t] # None /\ live'[t].gen = live[t].gen
    BY Zenon, <2>1, <2>2 DEF TypeOK
  <2>. QED
    BY <2>1, <2>2 DEF GenerationsAreUnique
<1>3. ASSUME NEW s \in Subject, Remove(s) PROVE GenerationsAreUnique'
  <2> DEFINE x == [subject |-> s, gen |-> live[s].gen, exp |-> live[s].exp, at |-> relayRevision + 1]
  <2>1. live' = [live EXCEPT ![s] = None] /\ live[s] # None /\ dead' = dead \cup {x}
    BY Zenon, <1>3 DEF Remove
  <2>2. x.subject = s /\ x.gen = live[s].gen /\ x.at = relayRevision + 1
    BY Zenon
  <2> HIDE DEF x
  <2>3. ASSUME NEW t \in Subject, live'[t] # None PROVE t # s /\ live'[t] = live[t]
    BY Zenon, <2>1, <2>3 DEF TypeOK
  <2>4. ASSUME NEW d \in dead
        PROVE  /\ d.at <= relayRevision /\ d.at \in Nat
               /\ d.gen # x.gen /\ d.subject = s => d.gen < x.gen
    BY Zenon, <2>1, <2>2 DEF WithinRevisions, NewerThanDead, GenerationsAreUnique, TypeOK, DeadCredential
  <2>5. relayRevision \in Nat
    BY Zenon DEF TypeOK
  <2>6. /\ \A t, v \in Subject :
               live'[t] # None /\ live'[v] # None /\ live'[t].gen = live'[v].gen => t = v
        /\ \A t \in Subject, d \in dead' : live'[t] # None => live'[t].gen # d.gen
    BY <2>1, <2>2, <2>3 DEF GenerationsAreUnique
  <2>7. \A d, e \in dead' : d.gen = e.gen => d = e
    <3>1. \A d \in dead : d.gen # x.gen
      BY Zenon, <2>1, <2>2 DEF GenerationsAreUnique
    <3>. QED
      BY Zenon, <2>1, <3>1 DEF GenerationsAreUnique
  <2>8. \A d, e \in dead' : d.subject = e.subject /\ d.at < e.at => d.gen < e.gen
    BY <2>1, <2>2, <2>4, <2>5 DEF GenerationsAreUnique
  <2>. QED
    BY Zenon, <2>6, <2>7, <2>8 DEF GenerationsAreUnique
<1>4. CASE UNCHANGED <<live, dead>>
  BY Zenon, <1>4 DEF GenerationsAreUnique
<1>. QED
  BY Zenon, <1>1, <1>2, <1>3, <1>4 DEF Next, vars, Tick, OtherChange, Cleanup

\* A connection's credential stays one that Control signed: renewals only move the expiry forward.
LEMMA TokensStaySigned ==
    ASSUME Inv, [Next]_vars, NEW c \in SUBSET Token, TokensWereSigned(c)
    PROVE  TokensWereSigned(c)'
<1> USE DEF Inv
<1> SUFFICES ASSUME NEW y \in c
             PROVE  /\ y.gen <= revision'
                    /\ \A s \in Subject : live'[s] # None /\ KeyOf(s) = y.key /\ live'[s].gen = y.gen =>
                         y.exp <= live'[s].exp
                    /\ \A x \in dead' : KeyOf(x.subject) = y.key /\ x.gen = y.gen => y.exp <= x.exp
  BY Zenon DEF TokensWereSigned
<1>1. y.gen \in Nat /\ y.exp \in Int /\ revision \in Nat /\ y.gen <= revision
  BY Zenon DEF Token, TypeOK, TokensWereSigned
<1>2. y.gen <= revision'
  BY <1>1, ControlMovesForward
<1>3. ASSUME NEW s \in Subject, live'[s] # None, KeyOf(s) = y.key, live'[s].gen = y.gen
      PROVE  y.exp <= live'[s].exp
  <2>1. CASE live'[s] = live[s]
    BY Zenon, <1>3, <2>1 DEF TokensWereSigned
  <2>2. ASSUME NEW at \in 0..now, Enroll(s, at) PROVE FALSE
    <3>1. live'[s].gen = revision + 1
      BY Zenon, <2>2 DEF Enroll, TypeOK
    <3>. QED
      BY <1>1, <1>3, <3>1
  <2>3. ASSUME NEW at \in 0..now, Renew(s, at) PROVE y.exp <= live'[s].exp
    <3>1. /\ live[s] # None /\ live[s].exp <= at + RenewBefore
          /\ live'[s].gen = live[s].gen /\ live'[s].exp = at + Lifetime
      BY Zenon, <2>3 DEF Renew, TypeOK
    <3>2. live[s].exp \in Int /\ y.exp <= live[s].exp
      BY Zenon, <1>3, <3>1 DEF TypeOK, Credential, TokensWereSigned
    <3>. QED
      BY <1>1, <3>1, <3>2, RenewalAssumption DEF TypeOK
  <2>4. live'[s] # live[s] => \E at \in 0..now : Enroll(s, at) \/ Renew(s, at)
    BY Zenon, <1>3 DEF Next, vars, Tick, OtherChange, Cleanup, Enroll, Renew, Remove, TypeOK
  <2>. QED
    BY Zenon, <2>1, <2>2, <2>3, <2>4
<1>4. ASSUME NEW x \in dead', KeyOf(x.subject) = y.key, x.gen = y.gen
      PROVE  y.exp <= x.exp
  <2>1. CASE x \in dead
    BY Zenon, <1>4, <2>1 DEF TokensWereSigned
  <2>2. CASE x \notin dead
    <3>1. PICK s \in Subject : Remove(s)
      BY Zenon, <2>2 DEF Next, vars, Tick, OtherChange, Cleanup, Enroll, Renew
    <3>2. live[s] # None /\ x.subject = s /\ x.gen = live[s].gen /\ x.exp = live[s].exp
      BY <2>2, <3>1 DEF Remove
    <3>. QED
      BY Zenon, <1>4, <3>2 DEF TokensWereSigned
  <2>. QED
    BY Zenon, <2>1, <2>2
<1>. QED
  BY Zenon, <1>2, <1>3, <1>4

\* Whatever Control does, what its Relays hold stays good.
LEMMA ControlStepInv ==
    ASSUME SyncInv, [Next]_vars, UNCHANGED <<skew, up, disk, mem, index, poll, conns, closed, marker>>,
           enrolled' \in [Relays -> BOOLEAN]
    PROVE  SyncInv'
<1>1. Inv' /\ GenerationsAreUnique'
  BY Zenon, NextInv, GenerationsStayUnique DEF SyncInv
<1>2. RelayTypeOK'
  BY Zenon, <1>1 DEF SyncInv, RelayTypeOK, SyncTypeOK, Inv
<1>3. ASSUME NEW r \in Relays
      PROVE  GoodRelay(r, up[r], disk[r], mem[r], index[r], poll[r], conns[r])'
  <2>1. /\ skew[r] \in Nat /\ disk[r] \in File /\ mem[r] \in File /\ poll[r] \in Poll
        /\ conns[r] \in SUBSET Token
    BY Zenon, SkewAssumption DEF SyncInv, RelayTypeOK, SyncTypeOK
  <2>2. Clock(r) \in Int /\ Clock(r)' \in Int /\ Clock(r) <= Clock(r)' /\ Clock(r)' = now' + skew[r]
    BY <2>1, ControlMovesForward DEF SyncInv, Inv, TypeOK, Clock
  <2>3. GoodRelay(r, up[r], disk[r], mem[r], index[r], poll[r], conns[r])
    BY Zenon DEF SyncInv
  <2>4. /\ relayRevision \in Nat /\ relayRevision' \in Nat /\ relayRevision <= relayRevision'
        /\ dead \subseteq dead' /\ \A d \in dead' : d \notin dead => d.at = relayRevision + 1
        /\ \A d \in dead : d \in DeadCredential
    BY Zenon, ControlMovesForward DEF SyncInv, Inv, TypeOK
  <2>5. ASSUME NEW f \in File, GoodFile(f, r)
        PROVE  /\ f.version <= relayRevision'
               /\ CoverUpTo(f.entries, f.version, Clock(r)', dead')
               /\ BehindControl(f.entries, now', revocations')
               /\ FromRemovals(f.entries, f.version, dead')
    <3>1. f.version \in Nat /\ f.entries \in Entries
      BY Zenon DEF File, Entries
    <3>. QED
      BY <2>2, <2>4, <2>5, <3>1, OldEntriesStayGood DEF GoodFile, SyncInv
  <2>6. FilesAreGood(r, disk[r], mem[r], poll[r])'
    BY Zenon, <2>1, <2>3, <2>5 DEF GoodRelay, FilesAreGood, GoodFile, Applying
  <2>7. AnswersAreGood(r, mem[r], poll[r])'
    <3>1. poll[r].at = "sent" => poll[r].known = mem[r].version
      BY Zenon, <2>3 DEF GoodRelay, AnswersAreGood
    <3>2. ASSUME poll[r].at = "answered" PROVE GoodAnswer(r, mem[r], poll[r])'
      <4>1. poll[r].version \in Nat /\ poll[r].delta \in Entries /\ mem[r].version \in Nat
        BY Zenon, <2>1, <3>2 DEF Poll, File
      <4>2. GoodAnswer(r, mem[r], poll[r])
        BY Zenon, <2>3, <3>2 DEF GoodRelay, AnswersAreGood
      <4>3. /\ BehindControl(poll[r].delta, now', revocations')
            /\ FromRemovals(poll[r].delta, poll[r].version, dead')
        BY Zenon, <2>2, <4>1, <4>2, OldEntriesStayGood DEF GoodAnswer, SyncInv
      <4>4. CoverUpTo(poll[r].delta, poll[r].version, Clock(r)',
              {x \in dead' : x.at > mem[r].version \/ poll[r].delta[KeyOf(x.subject)] # None})
        <5>1. ASSUME NEW x \in dead', x.at <= poll[r].version PROVE x \in dead /\ x.exp \in Int
          BY <2>4, <4>1, <4>2, <5>1 DEF GoodAnswer, DeadCredential
        <5>. QED
          BY <2>2, <4>2, <5>1 DEF GoodAnswer, CoverUpTo
      <4>5. ASSUME NEW k \in Keys, poll[r].delta[k] # None
            PROVE  /\ poll[r].delta[k].rev > mem[r].version
                   /\ mem[r].entries[k] # None /\ mem[r].entries[k].exp > Clock(r)' =>
                        poll[r].delta[k].through >= mem[r].entries[k].through
        <6>1. mem[r].entries[k] # None => mem[r].entries[k].exp \in Int
          BY Zenon, <2>1 DEF File, Revocation
        <6>. QED
          BY <2>2, <4>2, <4>5, <6>1 DEF GoodAnswer
      <4>6. mem[r].version < poll[r].version /\ poll[r].version <= relayRevision'
        BY <2>4, <4>1, <4>2 DEF GoodAnswer
      <4>. QED
        BY Zenon, <4>3, <4>4, <4>5, <4>6 DEF GoodAnswer
    <3>. QED
      BY Zenon, <3>1, <3>2 DEF AnswersAreGood
  <2>8. IndexFollows(up[r], mem[r], index[r], poll[r], conns[r])'
    BY Zenon, <2>3 DEF GoodRelay, IndexFollows
  <2>9. KicksAreComplete(r, mem[r], poll[r])'
    <3> SUFFICES ASSUME Applying(poll[r]), NEW x \in dead', mem[r].version < x.at,
                        x.at <= poll[r].next.version, x.exp > Clock(r)', OneLife(x)'
                 PROVE  KeyOf(x.subject) \in poll[r].kick
      BY Zenon DEF KicksAreComplete, Applying
    <3>1. poll[r].next \in File /\ poll[r].next.version \in Nat
          /\ poll[r].next.version <= relayRevision
      BY Zenon, <2>1, <2>3 DEF Poll, Applying, File, GoodRelay, FilesAreGood, GoodFile
    <3>2. x \in dead /\ x.exp \in Int /\ OneLife(x)
      BY <2>4, <3>1 DEF DeadCredential, OneLife
    <3>. QED
      BY <2>2, <2>3, <3>2 DEF GoodRelay, KicksAreComplete
  <2>10. TokensWereSigned(conns[r])'
    <3>1. TokensWereSigned(conns[r])
      BY Zenon, <2>3 DEF GoodRelay
    <3>. QED
      BY Zenon, <2>1, <3>1, TokensStaySigned DEF SyncInv, TokensWereSigned
  <2>11. Disconnected(r, mem[r], conns[r])'
    <3> SUFFICES ASSUME NEW x \in dead', NEW y \in conns[r], x.at <= mem[r].version, OneLife(x)',
                        y.key = KeyOf(x.subject), y.gen = x.gen
                 PROVE  y.exp <= Clock(r)'
      BY Zenon DEF Disconnected
    <3>1. mem[r].version \in Nat /\ mem[r].version <= relayRevision /\ y.exp \in Int
      BY Zenon, <2>1, <2>3 DEF File, GoodRelay, FilesAreGood, GoodFile, Token
    <3>2. x \in dead /\ OneLife(x)
      BY <2>4, <3>1 DEF OneLife
    <3>. QED
      BY <2>2, <2>3, <3>1, <3>2 DEF GoodRelay, Disconnected
  <2>. QED
    BY Zenon, <2>6, <2>7, <2>8, <2>9, <2>10, <2>11 DEF GoodRelay
<1>. QED
  BY Zenon, <1>1, <1>2, <1>3 DEF SyncInv

-----------------------------------------------------------------------------
(* The steps of a Relay.                                                   *)

\* The new state of the Relay has to be typed, and good for Control's state, which stays.
NewRelay(r) ==
    /\ UNCHANGED <<now, live, dead, revocations, revision, relayRevision, skew, enrolled>>
    /\ up' \in [Relays -> BOOLEAN] /\ disk' \in [Relays -> File] /\ mem' \in [Relays -> File]
    /\ index' \in [Relays -> Entries] /\ poll' \in [Relays -> Poll]
    /\ conns' \in [Relays -> SUBSET Token]
    /\ closed' \in [Relays -> BOOLEAN] /\ marker' \in [Relays -> BOOLEAN]
    /\ \A q \in Relays \ {r} :
         /\ up'[q] = up[q] /\ disk'[q] = disk[q] /\ mem'[q] = mem[q]
         /\ index'[q] = index[q] /\ poll'[q] = poll[q] /\ conns'[q] = conns[q]

\* Relays do not meet: it is enough to look at the one that takes the step.
LEMMA RelayFrame ==
    ASSUME SyncInv, NEW r \in Relays, NewRelay(r),
           GoodRelay(r, up'[r], disk'[r], mem'[r], index'[r], poll'[r], conns'[r])
    PROVE  SyncInv'
<1>1. UNCHANGED <<now, live, dead, revocations, revision, relayRevision, skew, enrolled>>
  BY Zenon DEF NewRelay
<1>2. Inv' /\ GenerationsAreUnique'
  <2>1. UNCHANGED vars
    BY Zenon, <1>1 DEF vars
  <2>. QED
    BY Zenon, <2>1, NextInv, GenerationsStayUnique DEF SyncInv
<1>3. RelayTypeOK'
  BY Zenon, <1>1, <1>2 DEF SyncInv, NewRelay, RelayTypeOK, SyncTypeOK, Inv, Entries
<1>4. ASSUME NEW q \in Relays
      PROVE  GoodRelay(q, up'[q], disk'[q], mem'[q], index'[q], poll'[q], conns'[q])
  <2>1. CASE q = r
    BY Zenon, <2>1
  <2>2. CASE q # r
    BY Zenon, <2>2 DEF NewRelay, SyncInv
  <2>. QED
    BY Zenon, <2>1, <2>2
<1>5. ASSUME NEW q \in Relays
      PROVE  GoodRelay(q, up[q], disk[q], mem[q], index[q], poll[q], conns[q])'
  <2>1. FilesAreGood(q, disk[q], mem[q], poll[q])'
    BY Zenon, <1>1, <1>4 DEF GoodRelay, FilesAreGood, GoodFile, Clock
  <2>2. AnswersAreGood(q, mem[q], poll[q])'
    BY Zenon, <1>1, <1>4 DEF GoodRelay, AnswersAreGood, GoodAnswer, Clock
  <2>3. IndexFollows(up[q], mem[q], index[q], poll[q], conns[q])'
    BY Zenon, <1>4 DEF GoodRelay, IndexFollows
  <2>4. KicksAreComplete(q, mem[q], poll[q])'
    BY Zenon, <1>1, <1>4 DEF GoodRelay, KicksAreComplete, OneLife, Clock
  <2>5. TokensWereSigned(conns[q])'
    BY Zenon, <1>1, <1>4 DEF GoodRelay, TokensWereSigned
  <2>6. Disconnected(q, mem[q], conns[q])'
    BY Zenon, <1>1, <1>4 DEF GoodRelay, Disconnected, OneLife, Clock
  <2>. QED
    BY Zenon, <2>1, <2>2, <2>3, <2>4, <2>5, <2>6 DEF GoodRelay
<1>. QED
  BY Zenon, <1>2, <1>3, <1>5 DEF SyncInv

\* What is known of a Relay before its step.
LEMMA RelayFacts ==
    ASSUME SyncInv, NEW r \in Relays
    PROVE  /\ disk[r] \in File /\ mem[r] \in File /\ index[r] \in Entries /\ poll[r] \in Poll
           /\ conns[r] \in SUBSET Token /\ up[r] \in BOOLEAN
           /\ mem[r].version \in Nat /\ mem[r].entries \in Entries
           /\ disk[r].version \in Nat /\ disk[r].entries \in Entries
           /\ skew[r] \in Nat /\ Clock(r) \in Int /\ Clock(r) >= now /\ now \in Nat /\ relayRevision \in Nat
           /\ GoodRelay(r, up[r], disk[r], mem[r], index[r], poll[r], conns[r])
<1>1. /\ disk[r] \in File /\ mem[r] \in File /\ index[r] \in Entries /\ poll[r] \in Poll
      /\ conns[r] \in SUBSET Token /\ up[r] \in BOOLEAN /\ skew[r] \in Nat
  BY Zenon, SkewAssumption DEF SyncInv, RelayTypeOK, SyncTypeOK, Entries
<1>2. now \in Nat /\ relayRevision \in Nat
  BY Zenon DEF SyncInv, Inv, TypeOK
<1>3. Clock(r) \in Int /\ Clock(r) >= now
  BY <1>1, <1>2 DEF Clock
<1>4. /\ mem[r].version \in Nat /\ mem[r].entries \in Entries
      /\ disk[r].version \in Nat /\ disk[r].entries \in Entries
  BY Zenon, <1>1 DEF File, Entries
<1>. QED
  BY Zenon, <1>1, <1>2, <1>3, <1>4 DEF SyncInv

\* Polls that only wait, fail or end leave everything else as it is.
LEMMA WaitingPollInv ==
    ASSUME SyncInv, NEW r \in Relays,
           UNCHANGED <<vars, skew, enrolled, up, disk, mem, index, conns>>,
           closed' \in [Relays -> BOOLEAN], marker' \in [Relays -> BOOLEAN],
           NEW p \in Poll, poll' = [poll EXCEPT ![r] = p],
           p.at \in {"idle", "sent", "forbidden", "closing", "marked"},
           p.at = "sent" => p.known = mem[r].version,
           poll[r].at # "stored", up[r] \/ p = Idle
    PROVE  SyncInv'
<1>1. poll'[r] = p /\ poll' \in [Relays -> Poll] /\ \A q \in Relays \ {r} : poll'[q] = poll[q]
  BY Zenon DEF SyncInv, RelayTypeOK
<1>2. NewRelay(r)
  BY Zenon, <1>1 DEF NewRelay, vars, SyncInv, RelayTypeOK, SyncTypeOK, Entries
<1>3. GoodRelay(r, up[r], disk[r], mem[r], index[r], poll[r], conns[r])
  BY Zenon DEF SyncInv
<1>4. GoodRelay(r, up[r], disk[r], mem[r], index[r], p, conns[r])
  BY Zenon, <1>3 DEF GoodRelay, FilesAreGood, AnswersAreGood, IndexFollows, KicksAreComplete, Applying
<1>. QED
  BY Zenon, <1>1, <1>2, <1>4, RelayFrame

\* The index of a running Relay covers every removal up to the version it counts as applied.
LEMMA IndexCovers ==
    ASSUME SyncInv, NEW r \in Relays, up[r]
    PROVE  CoverUpTo(index[r], mem[r].version, Clock(r), dead)
<1> USE RelayFacts
<1>1. CASE poll[r].at # "stored"
  BY Zenon, <1>1 DEF GoodRelay, IndexFollows, FilesAreGood, GoodFile
<1>2. CASE poll[r].at = "stored"
  <2>1. /\ index[r] = poll[r].next.entries /\ disk[r] = poll[r].next
        /\ mem[r].version < poll[r].next.version
    BY Zenon, <1>2 DEF GoodRelay, IndexFollows, FilesAreGood, Applying
  <2>2. CoverUpTo(disk[r].entries, disk[r].version, Clock(r), dead)
    BY Zenon DEF GoodRelay, FilesAreGood, GoodFile
  <2>3. \A d \in dead : d.at \in Nat
    BY Zenon DEF SyncInv, Inv, TypeOK, DeadCredential
  <2>. QED
    BY <2>1, <2>2, <2>3 DEF CoverUpTo
<1>. QED
  BY Zenon, <1>1, <1>2

\* validate_credential refuses a credential that the index covers.
LEMMA CoveredIsRefused ==
    ASSUME SyncInv, NEW r \in Relays, up[r], NEW d \in dead, d.at <= mem[r].version
    PROVE  ~OnConnectAllows(r, [key |-> KeyOf(d.subject), gen |-> d.gen, exp |-> d.exp])
<1> DEFINE c == [key |-> KeyOf(d.subject), gen |-> d.gen, exp |-> d.exp]
<1>1. d \in DeadCredential
  BY Zenon DEF SyncInv, Inv, TypeOK
<1>2. d.gen \in Nat /\ d.exp \in Int /\ KeyOf(d.subject) \in Keys
  BY Zenon, <1>1 DEF DeadCredential, Subject, KeyOf
<1>3. c.key = KeyOf(d.subject) /\ c.gen = d.gen /\ c.exp = d.exp
  BY Zenon
<1> HIDE DEF c
<1>4. CASE d.exp <= Clock(r)
  BY <1>2, <1>3, <1>4, RelayFacts DEF OnConnectAllows, ValidCredential, c
<1>5. CASE d.exp > Clock(r)
  <2>1. /\ index[r][c.key] # None
        /\ index[r][c.key].through >= d.gen /\ index[r][c.key].exp >= d.exp
    BY Zenon, <1>3, <1>5, IndexCovers DEF CoverUpTo
  <2>2. index[r][c.key].through \in Nat /\ index[r][c.key].exp \in Int
    BY <1>2, <1>3, <2>1, RelayFacts DEF Entries, Revocation
  <2>3. Clock(r) \in Int
    BY Zenon, RelayFacts
  <2>4. ~ValidCredential(r, c)
    BY <1>2, <1>3, <1>5, <2>1, <2>2, <2>3 DEF ValidCredential
  <2>. QED
    BY Zenon, <2>4 DEF OnConnectAllows, c
<1>. QED
  BY <1>2, <1>4, <1>5, RelayFacts

\* A node connects with a credential it holds or has kept.
LEMMA ConnectInv ==
    ASSUME SyncInv, NEW r \in Relays, NEW c \in Held, Connect(r, c)
    PROVE  SyncInv'
<1> USE DEF Inv
<1>1. /\ UNCHANGED <<vars, skew, enrolled, up, disk, mem, index, poll, closed, marker>>
      /\ up[r] /\ OnConnectAllows(r, c) /\ conns' = [conns EXCEPT ![r] = @ \cup {c}]
  BY Zenon DEF Connect
<1>2. /\ c \in Token /\ c.gen <= revision
      /\ \A s \in Subject : live[s] # None /\ KeyOf(s) = c.key /\ live[s].gen = c.gen => c.exp <= live[s].exp
      /\ \A x \in dead : KeyOf(x.subject) = c.key /\ x.gen = c.gen =>
           c = [key |-> KeyOf(x.subject), gen |-> x.gen, exp |-> x.exp]
  <2>1. ASSUME NEW t \in Subject, live[t] # None,
               c = [key |-> KeyOf(t), gen |-> live[t].gen, exp |-> live[t].exp]
        PROVE  <1>2
    <3>1. live[t].gen \in Nat /\ live[t].exp \in Int /\ KeyOf(t) \in Keys
      BY Zenon, <2>1 DEF SyncInv, TypeOK, Credential, Subject, KeyOf
    <3>2. c.key = KeyOf(t) /\ c.gen = live[t].gen /\ c.exp = live[t].exp /\ c \in Token
      BY Zenon, <2>1, <3>1 DEF Token
    <3>3. c.gen <= revision
      BY Zenon, <2>1, <3>2 DEF SyncInv, WithinRevisions
    <3>4. \A s \in Subject : live[s] # None /\ live[s].gen = c.gen => s = t
      BY Zenon, <2>1, <3>2 DEF SyncInv, GenerationsAreUnique
    <3>5. \A x \in dead : x.gen # c.gen
      BY Zenon, <2>1, <3>2 DEF SyncInv, GenerationsAreUnique
    <3>. QED
      BY <3>1, <3>2, <3>3, <3>4, <3>5
  <2>2. ASSUME NEW e \in dead, c = [key |-> KeyOf(e.subject), gen |-> e.gen, exp |-> e.exp]
        PROVE  <1>2
    <3>1. e.gen \in Nat /\ e.exp \in Int /\ KeyOf(e.subject) \in Keys
      BY Zenon DEF SyncInv, TypeOK, DeadCredential, Subject, KeyOf
    <3>2. c.key = KeyOf(e.subject) /\ c.gen = e.gen /\ c.exp = e.exp /\ c \in Token
      BY Zenon, <2>2, <3>1 DEF Token
    <3>3. c.gen <= revision
      BY Zenon, <3>2 DEF SyncInv, WithinRevisions
    <3>4. \A s \in Subject : live[s] # None => live[s].gen # c.gen
      BY Zenon, <3>2 DEF SyncInv, GenerationsAreUnique
    <3>5. \A x \in dead : x.gen = c.gen => x = e
      BY Zenon, <3>2 DEF SyncInv, GenerationsAreUnique
    <3>. QED
      BY Zenon, <2>2, <3>2, <3>3, <3>4, <3>5
  <2>. QED
    BY Zenon, <2>1, <2>2 DEF Held
<1>3. conns' \in [Relays -> SUBSET Token] /\ conns'[r] = conns[r] \cup {c}
  BY Zenon, <1>1, <1>2 DEF SyncInv, RelayTypeOK
<1>4. NewRelay(r)
  BY ZenonT(30), <1>1, <1>3 DEF NewRelay, vars, SyncInv, RelayTypeOK, SyncTypeOK, Entries
<1>5. GoodRelay(r, up[r], disk[r], mem[r], index[r], poll[r], conns[r])
  BY Zenon DEF SyncInv
<1>6. ASSUME NEW x \in dead, KeyOf(x.subject) = c.key, x.gen = c.gen PROVE c.exp <= x.exp
      /\ mem[r].version < x.at
  <2>1. c = [key |-> KeyOf(x.subject), gen |-> x.gen, exp |-> x.exp]
    BY Zenon, <1>2, <1>6
  <2>2. x.exp \in Int /\ x.at \in Nat /\ c.exp = x.exp
    BY Zenon, <2>1 DEF SyncInv, TypeOK, DeadCredential
  <2>3. ~(x.at <= mem[r].version)
    BY Zenon, <1>1, <2>1, CoveredIsRefused
  <2>. QED
    BY <2>2, <2>3, RelayFacts
<1>7. TokensWereSigned(conns[r] \cup {c})
  BY ZenonT(60), <1>2, <1>5, <1>6 DEF GoodRelay, TokensWereSigned
<1>8. Disconnected(r, mem[r], conns[r] \cup {c})
  <2>1. \A x \in dead : x.at \in Nat
    BY Zenon DEF SyncInv, TypeOK, DeadCredential
  <2>. QED
    BY <1>5, <1>6, <2>1, RelayFacts DEF GoodRelay, Disconnected
<1>9. IndexFollows(up[r], mem[r], index[r], poll[r], conns[r] \cup {c})
  BY Zenon, <1>1, <1>5 DEF GoodRelay, IndexFollows
<1>10. GoodRelay(r, up[r], disk[r], mem[r], index[r], poll[r], conns[r] \cup {c})
  BY Zenon, <1>5, <1>7, <1>8, <1>9 DEF GoodRelay
<1>. QED
  BY Zenon, <1>1, <1>3, <1>4, <1>10, RelayFrame

\* A Relay that polls is running.
LEMMA PollersRun ==
    ASSUME SyncInv, NEW r \in Relays, poll[r].at # "idle"
    PROVE  up[r]
<1>1. poll[r] # Idle
  BY SMTT(30) DEF Idle
<1>. QED
  BY Zenon, <1>1, RelayFacts DEF GoodRelay, IndexFollows

\* relay_watch answers with what Control has at that moment.
LEMMA AnswerIsGood ==
    ASSUME SyncInv, NEW r \in Relays, NEW p \in Poll, p.at = "answered",
           relayRevision > mem[r].version, p.version = relayRevision, p.delta = Delta(mem[r].version)
    PROVE  GoodAnswer(r, mem[r], p)
<1> USE DEF Inv
<1>1. ASSUME NEW k \in Keys
      PROVE  /\ p.delta[k] = IF revocations[k] # None /\ revocations[k].rev > mem[r].version
                             THEN revocations[k] ELSE None
             /\ revocations[k] # None => /\ revocations[k].rev \in Nat /\ revocations[k].through \in Nat
                                         /\ revocations[k].exp \in Int
  BY Zenon DEF Delta, SyncInv, TypeOK, Revocation
<1>2. ASSUME NEW x \in dead PROVE KeyOf(x.subject) \in Keys /\ x.at \in Nat /\ x.exp \in Int
      /\ x.at <= relayRevision
  BY Zenon DEF SyncInv, TypeOK, DeadCredential, Subject, KeyOf, WithinRevisions
<1>3. CoverUpTo(p.delta, p.version, Clock(r),
                {x \in dead : x.at > mem[r].version \/ p.delta[KeyOf(x.subject)] # None})
  <2> SUFFICES ASSUME NEW x \in dead, x.exp > Clock(r),
                      x.at > mem[r].version \/ p.delta[KeyOf(x.subject)] # None
               PROVE  /\ p.delta[KeyOf(x.subject)] # None
                      /\ p.delta[KeyOf(x.subject)].through >= x.gen
                      /\ p.delta[KeyOf(x.subject)].exp >= x.exp
    BY Zenon DEF CoverUpTo
  <2>1. Covers(revocations[KeyOf(x.subject)], x)
    BY <1>2, RelayFacts DEF SyncInv, RemovedCredentialsAreCovered
  <2>2. revocations[KeyOf(x.subject)].rev > mem[r].version
    BY <1>1, <1>2, <2>1, RelayFacts DEF Covers
  <2>. QED
    BY Zenon, <1>1, <1>2, <2>1, <2>2 DEF Covers
<1>4. BehindControl(p.delta, now, revocations)
  BY <1>1 DEF BehindControl
<1>5. FromRemovals(p.delta, p.version, dead)
  BY Zenon, <1>1, <1>2 DEF FromRemovals, SyncInv, TombstonesComeFromRemovals
<1>6. ASSUME NEW k \in Keys, p.delta[k] # None
      PROVE  /\ p.delta[k].rev > mem[r].version
             /\ mem[r].entries[k] # None /\ mem[r].entries[k].exp > Clock(r) =>
                  p.delta[k].through >= mem[r].entries[k].through
  <2>1. p.delta[k] = revocations[k] /\ revocations[k].rev > mem[r].version
    BY Zenon, <1>1, <1>6
  <2>2. BehindControl(mem[r].entries, now, revocations)
    BY Zenon, RelayFacts DEF GoodRelay, FilesAreGood, GoodFile
  <2>3. mem[r].entries[k] # None => mem[r].entries[k].exp \in Int
    BY Zenon, RelayFacts DEF Entries, Revocation
  <2>. QED
    BY <2>1, <2>2, <2>3, RelayFacts DEF BehindControl
<1>. QED
  BY <1>3, <1>4, <1>5, <1>6, RelayFacts DEF GoodAnswer

\* The answer to a poll.
LEMMA RelayWatchAnswerInv ==
    ASSUME SyncInv, NEW r \in Relays, RelayWatchAnswer(r)
    PROVE  SyncInv'
<1>1. /\ UNCHANGED <<vars, skew, enrolled, up, disk, mem, index, conns, closed, marker>>
      /\ poll[r].at = "sent" /\ up[r] /\ closed' \in [Relays -> BOOLEAN] /\ marker' \in [Relays -> BOOLEAN]
  BY Zenon, PollersRun DEF RelayWatchAnswer, SyncInv, RelayTypeOK, SyncTypeOK
<1>2. CASE poll' = [poll EXCEPT ![r] = [at |-> "forbidden"]]
  <2>1. [at |-> "forbidden"] \in Poll
    BY Zenon DEF Poll
  <2>. QED
    BY Zenon, <1>1, <1>2, <2>1, WaitingPollInv
<1>3. CASE /\ relayRevision > poll[r].known
           /\ poll' = [poll EXCEPT ![r] = [at |-> "answered", version |-> relayRevision, issued |-> now,
                                           delta |-> Delta(poll[r].known)]]
  <2> DEFINE p == [at |-> "answered", version |-> relayRevision, issued |-> now, delta |-> Delta(mem[r].version)]
  <2>1. poll[r].known = mem[r].version
    BY Zenon, <1>1, RelayFacts DEF GoodRelay, AnswersAreGood
  <2>2. Delta(mem[r].version) \in Entries
    BY Zenon DEF Delta, Entries, SyncInv, Inv, TypeOK
  <2>3. p \in Poll
    BY Zenon, <2>2, RelayFacts DEF Poll
  <2>4. /\ p.at = "answered" /\ p.version = relayRevision /\ p.delta = Delta(mem[r].version)
        /\ poll' = [poll EXCEPT ![r] = p]
    BY Zenon, <1>3, <2>1
  <2> HIDE DEF p
  <2>5. poll'[r] = p /\ poll' \in [Relays -> Poll]
    BY Zenon, <2>3, <2>4 DEF SyncInv, RelayTypeOK
  <2>6. NewRelay(r)
    BY Zenon, <1>1, <2>4, <2>5 DEF NewRelay, vars, SyncInv, RelayTypeOK, SyncTypeOK, Entries
  <2>7. GoodAnswer(r, mem[r], p)
    BY Zenon, <1>3, <2>1, <2>3, <2>4, AnswerIsGood
  <2>8. GoodRelay(r, up[r], disk[r], mem[r], index[r], p, conns[r])
    BY Zenon, <1>1, <2>4, <2>7, RelayFacts
       DEF GoodRelay, FilesAreGood, AnswersAreGood, IndexFollows, KicksAreComplete, Applying
  <2>. QED
    BY Zenon, <1>1, <2>5, <2>6, <2>8, RelayFrame
<1>. QED
  BY Zenon, <1>2, <1>3 DEF RelayWatchAnswer

\* An entry of the merged list is the update's, or an unexpired one of the Relay's own.
LEMMA MergedEntry ==
    ASSUME SyncInv, NEW r \in Relays, poll[r].at = "answered", NEW k \in Keys
    PROVE  /\ Merge(r, poll[r]).version = poll[r].version
           /\ Merge(r, poll[r]).entries \in Entries
           /\ poll[r].delta[k] # None => Merge(r, poll[r]).entries[k] = poll[r].delta[k]
           /\ poll[r].delta[k] = None =>
                Merge(r, poll[r]).entries[k] =
                    IF mem[r].entries[k] # None /\ mem[r].entries[k].exp > Clock(r)
                    THEN mem[r].entries[k] ELSE None
<1>1. poll[r].delta \in Entries /\ mem[r].entries \in Entries
  BY Zenon, RelayFacts DEF Poll
<1>. QED
  BY Zenon, <1>1 DEF Merge, Unexpired, Entries

\* Merging an update into the list keeps it good, and finds whom to disconnect.
LEMMA MergeIsGood ==
    ASSUME SyncInv, NEW r \in Relays, poll[r].at = "answered"
    PROVE  /\ Merge(r, poll[r]) \in File /\ GoodFile(Merge(r, poll[r]), r)
           /\ mem[r].version < Merge(r, poll[r]).version
           /\ \A x \in dead :
                mem[r].version < x.at /\ x.at <= poll[r].version /\ x.exp > Clock(r) /\ OneLife(x) =>
                    KeyOf(x.subject) \in Revoked(r, poll[r])
<1> USE DEF Inv
<1> DEFINE u == poll[r]
           f == Merge(r, u)
<1>1. GoodAnswer(r, mem[r], u) /\ GoodFile(mem[r], r) /\ index[r] = mem[r].entries
  BY Zenon, RelayFacts, PollersRun DEF GoodRelay, AnswersAreGood, FilesAreGood, IndexFollows
<1>2. u.version \in Nat /\ u.delta \in Entries
  BY Zenon, RelayFacts DEF Poll
<1>3. f.version = u.version /\ f.entries \in Entries
  BY <1>2 DEF Merge, Unexpired, Entries, SyncInv, RelayTypeOK, SyncTypeOK, File
<1>4. f \in File
  BY Zenon, <1>2, <1>3 DEF Merge, File, Entries
<1>5. ASSUME NEW k \in Keys
      PROVE  /\ u.delta[k] # None => f.entries[k] = u.delta[k]
             /\ u.delta[k] = None => f.entries[k] =
                  IF mem[r].entries[k] # None /\ mem[r].entries[k].exp > Clock(r)
                  THEN mem[r].entries[k] ELSE None
  BY Zenon, MergedEntry
<1>6. ASSUME NEW x \in dead
      PROVE  KeyOf(x.subject) \in Keys /\ x.gen \in Nat /\ x.at \in Nat /\ x.exp \in Int
  BY Zenon DEF SyncInv, TypeOK, DeadCredential, Subject, KeyOf
<1> HIDE DEF u, f
<1>7. CoverUpTo(f.entries, f.version, Clock(r), dead)
  <2> SUFFICES ASSUME NEW x \in dead, x.at <= f.version, x.exp > Clock(r)
               PROVE  /\ f.entries[KeyOf(x.subject)] # None
                      /\ f.entries[KeyOf(x.subject)].through >= x.gen
                      /\ f.entries[KeyOf(x.subject)].exp >= x.exp
    BY Zenon DEF CoverUpTo
  <2> DEFINE k == KeyOf(x.subject)
  <2>1. CASE x.at > mem[r].version \/ u.delta[k] # None
    BY Zenon, <1>1, <1>3, <1>5, <1>6, <2>1 DEF GoodAnswer, CoverUpTo
  <2>2. CASE x.at <= mem[r].version /\ u.delta[k] = None
    <3>1. mem[r].entries[k] # None /\ mem[r].entries[k].through >= x.gen
          /\ mem[r].entries[k].exp >= x.exp
      BY Zenon, <1>1, <2>2 DEF GoodFile, CoverUpTo
    <3>2. mem[r].entries[k].exp \in Int /\ Clock(r) \in Int
      BY <1>6, <3>1, RelayFacts DEF Entries, Revocation
    <3>3. mem[r].entries[k].exp > Clock(r)
      BY <1>6, <3>1, <3>2
    <3>. QED
      BY Zenon, <1>5, <1>6, <2>2, <3>1, <3>3
  <2>. QED
    BY <1>6, <2>1, <2>2, RelayFacts
<1>8. BehindControl(f.entries, now, revocations)
  BY Zenon, <1>1, <1>5 DEF GoodAnswer, GoodFile, BehindControl
<1>9. FromRemovals(f.entries, f.version, dead)
  <2> SUFFICES ASSUME NEW k \in Keys, f.entries[k] # None
               PROVE  \E x \in dead : KeyOf(x.subject) = k /\ x.gen = f.entries[k].through /\ x.at <= f.version
    BY Zenon DEF FromRemovals
  <2>1. CASE u.delta[k] # None
    BY Zenon, <1>1, <1>3, <1>5, <2>1 DEF GoodAnswer, FromRemovals
  <2>2. CASE u.delta[k] = None
    <3>1. f.entries[k] = mem[r].entries[k]
      BY Zenon, <1>5, <2>2
    <3>2. PICK x \in dead : KeyOf(x.subject) = k /\ x.gen = f.entries[k].through
          /\ x.at <= mem[r].version
      BY ZenonT(60), <1>1, <3>1 DEF GoodFile, FromRemovals
    <3>3. x.at <= f.version
      BY <1>1, <1>2, <1>3, <1>6, <3>2, RelayFacts DEF GoodAnswer
    <3>. QED
      BY Zenon, <3>2, <3>3
  <2>. QED
    BY Zenon, <2>1, <2>2
<1>10. ASSUME NEW x \in dead, mem[r].version < x.at, x.at <= u.version, x.exp > Clock(r), OneLife(x)
       PROVE  KeyOf(x.subject) \in Revoked(r, u)
  <2> DEFINE k == KeyOf(x.subject)
  <2>1. u.delta[k] # None /\ u.delta[k].through >= x.gen /\ u.delta[k].exp >= x.exp
    BY Zenon, <1>1, <1>6, <1>10, RelayFacts DEF GoodAnswer, CoverUpTo
  <2>2. u.delta[k].exp \in Int /\ u.delta[k].through \in Nat
    BY Zenon, <1>2, <1>6, <2>1 DEF Entries, Revocation
  <2>3. u.delta[k].exp > Clock(r)
    BY <1>6, <1>10, <2>1, <2>2, RelayFacts
  <2>4. ASSUME mem[r].entries[k] # None PROVE mem[r].entries[k].through < u.delta[k].through
    <3>1. PICK e \in dead : KeyOf(e.subject) = k /\ e.gen = mem[r].entries[k].through
          /\ e.at <= mem[r].version
      BY Zenon, <1>1, <1>6, <2>4 DEF GoodFile, FromRemovals
    <3>2. e.subject = x.subject /\ e.at < x.at
      BY <1>6, <1>10, <3>1, RelayFacts DEF OneLife
    <3>3. e.gen < x.gen
      BY Zenon, <3>2 DEF SyncInv, GenerationsAreUnique
    <3>. QED
      BY <1>6, <2>1, <2>2, <3>1, <3>3
  <2>. QED
    BY Zenon, <1>1, <1>6, <2>1, <2>3, <2>4 DEF Revoked, Unexpired
<1>11. f.version <= relayRevision /\ mem[r].version < f.version
  BY Zenon, <1>1, <1>3 DEF GoodAnswer
<1>. QED
  BY Zenon, <1>4, <1>7, <1>8, <1>9, <1>10, <1>11 DEF GoodFile, f, u

\* The update is merged into the file.
LEMMA ApplyPersistInv ==
    ASSUME SyncInv, NEW r \in Relays, ApplyPersist(r)
    PROVE  SyncInv'
<1> DEFINE f == Merge(r, poll[r])
           p == [at |-> "persisted", next |-> f, kick |-> Revoked(r, poll[r])]
<1>1. /\ UNCHANGED <<vars, skew, enrolled, up, mem, index, conns, closed, marker>>
      /\ poll[r].at = "answered" /\ up[r]
      /\ disk' = [disk EXCEPT ![r] = f] /\ poll' = [poll EXCEPT ![r] = p]
  BY Zenon, PollersRun DEF ApplyPersist
<1>2. /\ f \in File /\ GoodFile(f, r) /\ mem[r].version < f.version
      /\ \A x \in dead :
           mem[r].version < x.at /\ x.at <= f.version /\ x.exp > Clock(r) /\ OneLife(x) =>
               KeyOf(x.subject) \in Revoked(r, poll[r])
  BY Zenon, <1>1, MergeIsGood DEF Merge
<1>3. p \in Poll /\ p.at = "persisted" /\ p.next = f /\ p.kick = Revoked(r, poll[r])
  BY Zenon, <1>2 DEF Poll, Revoked
<1> HIDE DEF f, p
<1>4. /\ disk'[r] = f /\ disk' \in [Relays -> File] /\ poll'[r] = p /\ poll' \in [Relays -> Poll]
  BY Zenon, <1>1, <1>2, <1>3 DEF SyncInv, RelayTypeOK, SyncTypeOK
<1>5. NewRelay(r)
  BY Zenon, <1>1, <1>4 DEF NewRelay, vars, SyncInv, RelayTypeOK, SyncTypeOK, Entries
<1>6. f.version \in Nat
  BY ZenonT(60), <1>2 DEF File
<1>7. FilesAreGood(r, f, mem[r], p)
  BY <1>2, <1>3, <1>6, RelayFacts DEF GoodRelay, FilesAreGood, Applying
<1>8. KicksAreComplete(r, mem[r], p)
  BY Zenon, <1>2, <1>3 DEF KicksAreComplete
<1>9. GoodRelay(r, up[r], f, mem[r], index[r], p, conns[r])
  BY Zenon, <1>1, <1>3, <1>7, <1>8, RelayFacts DEF GoodRelay, AnswersAreGood, IndexFollows
<1>. QED
  BY Zenon, <1>1, <1>4, <1>5, <1>9, RelayFrame

\* on_connect sees the update.
LEMMA ApplyStoreInv ==
    ASSUME SyncInv, NEW r \in Relays, ApplyStore(r)
    PROVE  SyncInv'
<1> DEFINE p == [at |-> "stored", next |-> poll[r].next, kick |-> poll[r].kick]
<1>1. /\ UNCHANGED <<vars, skew, enrolled, up, disk, mem, conns, closed, marker>>
      /\ poll[r].at = "persisted" /\ up[r]
      /\ index' = [index EXCEPT ![r] = poll[r].next.entries] /\ poll' = [poll EXCEPT ![r] = p]
  BY Zenon, PollersRun DEF ApplyStore
<1>2. poll[r].next \in File /\ poll[r].kick \in SUBSET Keys
  BY Zenon, <1>1, RelayFacts DEF Poll
<1>3. /\ p \in Poll /\ p.at = "stored" /\ p.next = poll[r].next /\ p.kick = poll[r].kick
      /\ poll[r].next.entries \in Entries
  BY Zenon, <1>2 DEF Poll, File, Entries
<1> HIDE DEF p
<1>4. /\ index'[r] = p.next.entries /\ index' \in [Relays -> Entries]
      /\ poll'[r] = p /\ poll' \in [Relays -> Poll]
  BY Zenon, <1>1, <1>3 DEF SyncInv, RelayTypeOK, SyncTypeOK, Entries
<1>5. NewRelay(r)
  BY Zenon, <1>1, <1>4 DEF NewRelay, vars, SyncInv, RelayTypeOK, SyncTypeOK, Entries
<1>6. GoodRelay(r, up[r], disk[r], mem[r], index'[r], p, conns[r])
  BY Zenon, <1>1, <1>3, <1>4, RelayFacts
     DEF GoodRelay, FilesAreGood, AnswersAreGood, IndexFollows, KicksAreComplete, Applying
<1>. QED
  BY Zenon, <1>1, <1>4, <1>5, <1>6, RelayFrame

\* Whom the update revokes is disconnected, and its version counts as applied.
LEMMA ApplyDisconnectInv ==
    ASSUME SyncInv, NEW r \in Relays, ApplyDisconnect(r)
    PROVE  SyncInv'
<1> DEFINE c == {y \in conns[r] : y.key \notin poll[r].kick}
<1>1. /\ UNCHANGED <<vars, skew, enrolled, up, disk, index, closed, marker>>
      /\ poll[r].at = "stored" /\ up[r] /\ conns' = [conns EXCEPT ![r] = c]
      /\ mem' = [mem EXCEPT ![r] = poll[r].next] /\ poll' = [poll EXCEPT ![r] = Idle]
  BY Zenon, PollersRun DEF ApplyDisconnect
<1>2. /\ Idle \in Poll /\ Idle.at = "idle" /\ c \in SUBSET Token /\ c \subseteq conns[r]
      /\ \A y \in c : y.key \notin poll[r].kick
  BY Zenon, RelayFacts DEF Poll, Idle
<1>3. disk[r] = poll[r].next /\ mem[r].version < poll[r].next.version
      /\ index[r] = poll[r].next.entries
  BY Zenon, <1>1, RelayFacts DEF GoodRelay, FilesAreGood, IndexFollows, Applying
<1> HIDE DEF c
<1>4. /\ conns'[r] = c /\ conns' \in [Relays -> SUBSET Token]
      /\ poll'[r] = Idle /\ poll' \in [Relays -> Poll]
      /\ mem'[r] = disk[r] /\ mem' \in [Relays -> File]
  BY Zenon, <1>1, <1>2, <1>3 DEF SyncInv, RelayTypeOK, SyncTypeOK
<1>5. NewRelay(r)
  BY ZenonT(60), <1>1, <1>4 DEF NewRelay, vars, SyncInv, RelayTypeOK, SyncTypeOK, Entries
<1>6. /\ FilesAreGood(r, disk[r], disk[r], Idle) /\ AnswersAreGood(r, disk[r], Idle)
      /\ IndexFollows(up[r], disk[r], index[r], Idle, c) /\ KicksAreComplete(r, disk[r], Idle)
  BY <1>1, <1>2, <1>3, RelayFacts
     DEF GoodRelay, FilesAreGood, AnswersAreGood, IndexFollows, KicksAreComplete, Applying
<1>7. TokensWereSigned(c)
  BY ZenonT(60), <1>2, RelayFacts DEF GoodRelay, TokensWereSigned
<1>8. Disconnected(r, disk[r], c)
  <2> SUFFICES ASSUME NEW x \in dead, NEW y \in c, x.at <= disk[r].version, OneLife(x),
                      y.key = KeyOf(x.subject), y.gen = x.gen
               PROVE  y.exp <= Clock(r)
    BY Zenon DEF Disconnected
  <2>1. x.at \in Nat /\ x.exp \in Int /\ y.exp \in Int /\ y.exp <= x.exp
    BY Zenon, <1>2, <1>7 DEF SyncInv, Inv, TypeOK, DeadCredential, Token, TokensWereSigned
  <2>2. CASE x.at <= mem[r].version
    BY Zenon, <1>2, <2>2, RelayFacts DEF GoodRelay, Disconnected
  <2>3. CASE x.at > mem[r].version
    <3>1. ~(x.exp > Clock(r))
      BY Zenon, <1>1, <1>2, <1>3, <2>1, <2>3, RelayFacts DEF GoodRelay, KicksAreComplete, Applying
    <3>. QED
      BY <2>1, <3>1, RelayFacts
  <2>. QED
    BY <2>1, <2>2, <2>3, RelayFacts
<1>9. GoodRelay(r, up[r], disk[r], disk[r], index[r], Idle, c)
  BY Zenon, <1>6, <1>7, <1>8 DEF GoodRelay
<1>. QED
  BY Zenon, <1>1, <1>4, <1>5, <1>9, RelayFrame

\* The steps of the poll loop that change nothing else, and the closing of a removed Relay.
LEMMA PollLoopInv ==
    ASSUME SyncInv, NEW r \in Relays,
           PollSend(r) \/ PollFail(r) \/ ApplyRefuse(r) \/ RevokeAllClose(r) \/ RevokeAllMark(r)
    PROVE  SyncInv'
<1>1. /\ UNCHANGED <<vars, skew, enrolled, up, disk, mem, index, conns>>
      /\ closed' \in [Relays -> BOOLEAN] /\ marker' \in [Relays -> BOOLEAN]
  BY Zenon DEF PollSend, PollFail, ApplyRefuse, RevokeAllClose, RevokeAllMark, SyncInv, RelayTypeOK,
         SyncTypeOK
<1>2. CASE PollSend(r)
  <2> DEFINE p == [at |-> "sent", known |-> mem[r].version]
  <2>1. /\ p \in Poll /\ p.at = "sent" /\ p.known = mem[r].version /\ poll' = [poll EXCEPT ![r] = p]
        /\ up[r] /\ poll[r].at # "stored"
    BY <1>2, RelayFacts DEF PollSend, Poll, Idle
  <2> HIDE DEF p
  <2>. QED
    BY Zenon, <1>1, <2>1, WaitingPollInv
<1>3. CASE PollFail(r) \/ ApplyRefuse(r)
  <2>1. Idle \in Poll /\ Idle.at = "idle" /\ poll' = [poll EXCEPT ![r] = Idle]
        /\ poll[r].at # "stored"
    BY Zenon, <1>3 DEF PollFail, ApplyRefuse, Poll, Idle
  <2>. QED
    BY Zenon, <1>1, <2>1, WaitingPollInv
<1>4. CASE RevokeAllClose(r)
  <2>1. /\ [at |-> "closing"] \in Poll /\ poll' = [poll EXCEPT ![r] = [at |-> "closing"]]
        /\ up[r] /\ poll[r].at # "stored"
    BY Zenon, <1>4, PollersRun DEF RevokeAllClose, Poll
  <2>. QED
    BY Zenon, <1>1, <2>1, WaitingPollInv
<1>5. CASE RevokeAllMark(r)
  <2>1. /\ [at |-> "marked"] \in Poll /\ poll' = [poll EXCEPT ![r] = [at |-> "marked"]]
        /\ up[r] /\ poll[r].at # "stored"
    BY Zenon, <1>5, PollersRun DEF RevokeAllMark, Poll
  <2>. QED
    BY Zenon, <1>1, <2>1, WaitingPollInv
<1>. QED
  BY Zenon, <1>2, <1>3, <1>4, <1>5

\* Connections end: one of them, or all, with the process or without it.
LEMMA LeaveInv ==
    ASSUME SyncInv, NEW r \in Relays,
           (\E y \in conns[r] : Leave(r, y)) \/ RevokeAllShutdown(r) \/ Crash(r)
    PROVE  SyncInv'
<1>1. UNCHANGED <<vars, skew, enrolled, disk, mem, index, closed, marker>>
  BY Zenon DEF Leave, RevokeAllShutdown, Crash
<1>2. /\ conns' \in [Relays -> SUBSET Token] /\ conns'[r] \subseteq conns[r]
      /\ \A q \in Relays \ {r} : conns'[q] = conns[q]
  BY Zenon DEF Leave, RevokeAllShutdown, Crash, SyncInv, RelayTypeOK
<1>3. CASE UNCHANGED <<up, poll>>
  <2>1. NewRelay(r)
    BY Zenon, <1>1, <1>2, <1>3 DEF NewRelay, vars, SyncInv, RelayTypeOK, SyncTypeOK, Entries
  <2>2. GoodRelay(r, up[r], disk[r], mem[r], index[r], poll[r], conns'[r])
    BY Zenon, <1>2, RelayFacts DEF GoodRelay, IndexFollows, TokensWereSigned, Disconnected
  <2>. QED
    BY Zenon, <1>1, <1>3, <2>1, <2>2, RelayFrame
<1>4. CASE RevokeAllShutdown(r)
  <2> DEFINE p == [at |-> "stopped"]
  <2>1. /\ p \in Poll /\ p.at = "stopped" /\ poll' = [poll EXCEPT ![r] = p] /\ up[r] /\ up' = up
        /\ poll[r].at = "marked"
    BY Zenon, <1>4, PollersRun DEF RevokeAllShutdown, Poll
  <2> HIDE DEF p
  <2>2. poll' \in [Relays -> Poll] /\ poll'[r] = p
    BY Zenon, <2>1 DEF SyncInv, RelayTypeOK
  <2>3. NewRelay(r)
    BY Zenon, <1>1, <1>2, <2>1, <2>2 DEF NewRelay, vars, SyncInv, RelayTypeOK, SyncTypeOK, Entries
  <2>4. GoodRelay(r, up[r], disk[r], mem[r], index[r], p, conns'[r])
    BY Zenon, <1>2, <2>1, RelayFacts
       DEF GoodRelay, FilesAreGood, AnswersAreGood, IndexFollows, KicksAreComplete, Applying,
           TokensWereSigned, Disconnected
  <2>. QED
    BY Zenon, <1>1, <2>1, <2>2, <2>3, <2>4, RelayFrame
<1>5. CASE Crash(r)
  <2>1. /\ Idle \in Poll /\ Idle.at = "idle" /\ poll' = [poll EXCEPT ![r] = Idle]
        /\ up' = [up EXCEPT ![r] = FALSE] /\ conns'[r] = {}
    BY Zenon, <1>5 DEF Crash, Poll, Idle, SyncInv, RelayTypeOK
  <2>2. poll' \in [Relays -> Poll] /\ poll'[r] = Idle /\ up' \in [Relays -> BOOLEAN]
        /\ up'[r] = FALSE
    BY Zenon, <2>1 DEF SyncInv, RelayTypeOK, SyncTypeOK
  <2>3. NewRelay(r)
    BY Zenon, <1>1, <1>2, <2>1, <2>2 DEF NewRelay, vars, SyncInv, RelayTypeOK, SyncTypeOK, Entries
  <2>4. GoodRelay(r, FALSE, disk[r], mem[r], index[r], Idle, {})
    BY Zenon, <2>1, RelayFacts
       DEF GoodRelay, FilesAreGood, AnswersAreGood, IndexFollows, KicksAreComplete, Applying,
           TokensWereSigned, Disconnected
  <2>. QED
    BY Zenon, <1>1, <2>1, <2>2, <2>3, <2>4, RelayFrame
<1>. QED
  BY Zenon, <1>3, <1>4, <1>5 DEF Leave

\* A Relay that starts takes its file for what it has applied, and has no connections.
LEMMA StartInv ==
    ASSUME SyncInv, NEW r \in Relays, Start(r)
    PROVE  SyncInv'
<1>1. /\ UNCHANGED <<vars, skew, enrolled, disk, poll, conns, marker>>
      /\ up[r] = FALSE /\ up' = [up EXCEPT ![r] = TRUE] /\ mem' = [mem EXCEPT ![r] = disk[r]]
      /\ index' = [index EXCEPT ![r] = disk[r].entries] /\ closed' = [closed EXCEPT ![r] = FALSE]
  BY Zenon, RelayFacts DEF Start
<1>2. conns[r] = {} /\ poll[r] = Idle /\ Idle.at = "idle"
  BY Zenon, <1>1, RelayFacts DEF GoodRelay, IndexFollows, Idle
<1>3. /\ up' \in [Relays -> BOOLEAN] /\ up'[r] = TRUE
      /\ mem' \in [Relays -> File] /\ mem'[r] = disk[r]
      /\ index' \in [Relays -> Entries] /\ index'[r] = disk[r].entries
      /\ closed' \in [Relays -> BOOLEAN]
  BY Zenon, <1>1, RelayFacts DEF SyncInv, RelayTypeOK, SyncTypeOK, Entries
<1>4. NewRelay(r)
  BY ZenonT(30), <1>1, <1>3 DEF NewRelay, vars, SyncInv, RelayTypeOK, SyncTypeOK
<1>5. GoodRelay(r, TRUE, disk[r], disk[r], disk[r].entries, Idle, {})
  BY <1>1, <1>2, RelayFacts
     DEF GoodRelay, FilesAreGood, AnswersAreGood, IndexFollows, KicksAreComplete, Applying,
         TokensWereSigned, Disconnected
<1>. QED
  BY Zenon, <1>1, <1>2, <1>3, <1>4, <1>5, RelayFrame

-----------------------------------------------------------------------------
\* Control has removed nobody, and the Relays have seen nothing.
LEMMA SyncInitInv == SyncInit => SyncInv
<1> SUFFICES ASSUME SyncInit PROVE SyncInv
  BY Zenon
<1>1. Inv /\ Init
  BY Zenon, InitInv DEF SyncInit
<1>2. dead = {} /\ (\A s \in Subject : live[s] = None) /\ now \in Nat /\ relayRevision = 1
  BY Zenon, <1>1 DEF Init
<1>3. GenerationsAreUnique
  BY Zenon, <1>2 DEF GenerationsAreUnique
<1>4. NoEntries \in Entries /\ Idle \in Poll /\ Idle.at = "idle"
      /\ \A k \in Keys : NoEntries[k] = None
  BY Zenon DEF NoEntries, Entries, Poll, Idle
<1> DEFINE f == [version |-> 0, entries |-> NoEntries]
<1>5. f \in File /\ f.version = 0 /\ f.entries = NoEntries
  BY Zenon, <1>4 DEF File, Entries
<1>6. disk = [r \in Relays |-> f] /\ mem = [r \in Relays |-> f]
  BY Zenon DEF SyncInit
<1> HIDE DEF f
<1>7. RelayTypeOK
  BY Zenon, <1>1, <1>4, <1>5, <1>6 DEF SyncInit, RelayTypeOK, SyncTypeOK, Inv, Entries
<1>8. ASSUME NEW r \in Relays
      PROVE  GoodRelay(r, up[r], disk[r], mem[r], index[r], poll[r], conns[r])
  <2>1. /\ up[r] /\ disk[r] = f /\ mem[r] = f /\ index[r] = NoEntries /\ poll[r] = Idle
        /\ conns[r] = {}
    BY Zenon, <1>6 DEF SyncInit
  <2>2. GoodFile(f, r)
    BY <1>2, <1>4, <1>5 DEF GoodFile, CoverUpTo, BehindControl, FromRemovals
  <2>. QED
    BY <1>2, <1>4, <1>5, <2>1, <2>2
       DEF GoodRelay, FilesAreGood, AnswersAreGood, IndexFollows, KicksAreComplete, Applying,
           TokensWereSigned, Disconnected
<1>. QED
  BY Zenon, <1>1, <1>3, <1>7, <1>8 DEF SyncInv

\* Every step keeps the invariant.
LEMMA SyncNextInv == SyncInv /\ [SyncNext]_syncVars => SyncInv'
<1> SUFFICES ASSUME SyncInv, [SyncNext]_syncVars PROVE SyncInv'
  BY Zenon
<1>1. enrolled \in [Relays -> BOOLEAN]
  BY Zenon DEF SyncInv, RelayTypeOK, SyncTypeOK
<1>2. CASE ControlStep
  BY Zenon, <1>1, <1>2, ControlStepInv DEF ControlStep, relayVars
<1>3. CASE UNCHANGED syncVars
  BY Zenon, <1>1, <1>3, ControlStepInv DEF syncVars, relayVars
<1>4. ASSUME NEW r \in Relays, RelayStep(r) PROVE SyncInv'
  <2>1. CASE \E c \in Held : Connect(r, c)
    BY Zenon, <2>1, ConnectInv
  <2>2. CASE (\E c \in conns[r] : Leave(r, c)) \/ RevokeAllShutdown(r) \/ Crash(r)
    BY Zenon, <2>2, LeaveInv
  <2>3. CASE PollSend(r) \/ PollFail(r) \/ ApplyRefuse(r) \/ RevokeAllClose(r) \/ RevokeAllMark(r)
    BY Zenon, <2>3, PollLoopInv
  <2>4. CASE RelayWatchAnswer(r)
    BY Zenon, <2>4, RelayWatchAnswerInv
  <2>5. CASE ApplyPersist(r)
    BY Zenon, <2>5, ApplyPersistInv
  <2>6. CASE ApplyStore(r)
    BY Zenon, <2>6, ApplyStoreInv
  <2>7. CASE ApplyDisconnect(r)
    BY Zenon, <2>7, ApplyDisconnectInv
  <2>8. CASE Start(r)
    BY Zenon, <2>8, StartInv
  <2>9. CASE RemoveRelay(r)
    <3>1. OtherChange /\ enrolled' \in [Relays -> BOOLEAN]
      BY Zenon, <1>1, <2>9 DEF RemoveRelay, OtherChange
    <3>2. Next /\ UNCHANGED <<skew, up, disk, mem, index, poll, conns, closed, marker>>
      BY Zenon, <2>9, <3>1 DEF Next, RemoveRelay
    <3>. QED
      BY Zenon, <3>1, <3>2, ControlStepInv
  <2>. QED
    BY Zenon, <1>4, <2>1, <2>2, <2>3, <2>4, <2>5, <2>6, <2>7, <2>8, <2>9 DEF RelayStep
<1>. QED
  BY Zenon, <1>2, <1>3, <1>4 DEF SyncNext

\* The invariant holds in every state: what Control sends, what a Relay stores and
\* what it is about to apply stay right while both go on (apply_revocation_update).
THEOREM SyncInvHolds == SyncSpec => []SyncInv
BY SyncInitInv, SyncNextInv, PTL DEF SyncSpec

\* An update built by relay_watch is never in conflict with what the Relay has applied,
\* and the Relay is never ahead of its file, across crashes and restarts
\* (apply_revocation_update, persist).
THEOREM SyncStaysSound == SyncSpec => []SyncIsSound
<1>1. ASSUME SyncInv PROVE SyncIsSound
  <2>1. ASSUME NEW r \in Relays, poll[r].at = "answered" PROVE ~Conflict(r, poll[r])
    <3>1. GoodAnswer(r, mem[r], poll[r]) /\ mem[r].version \in Nat /\ mem[r].entries \in Entries
      BY Zenon, <1>1, <2>1, RelayFacts DEF GoodRelay, AnswersAreGood
    <3>2. poll[r].version \in Nat /\ poll[r].delta \in Entries
      BY Zenon, <1>1, <2>1, RelayFacts DEF Poll
    <3>3. ~(poll[r].version <= mem[r].version)
      BY <3>1, <3>2 DEF GoodAnswer
    <3>4. ASSUME NEW k \in Keys, poll[r].delta[k] # None
          PROVE  /\ ~(poll[r].delta[k].rev <= mem[r].version)
                 /\ Unexpired(r, mem[r].entries)[k] # None =>
                      ~(poll[r].delta[k].through < mem[r].entries[k].through)
      <4>1. poll[r].delta[k] \in Revocation /\ mem[r].entries[k] \in Revocation \cup {None}
        BY Zenon, <3>1, <3>2, <3>4 DEF Entries
      <4>2. /\ poll[r].delta[k].rev > mem[r].version
            /\ mem[r].entries[k] # None /\ mem[r].entries[k].exp > Clock(r) =>
                 poll[r].delta[k].through >= mem[r].entries[k].through
        BY Zenon, <3>1, <3>4 DEF GoodAnswer
      <4>3. Unexpired(r, mem[r].entries)[k] # None =>
              mem[r].entries[k] # None /\ mem[r].entries[k].exp > Clock(r)
        BY Zenon DEF Unexpired
      <4>. QED
        BY <3>1, <4>1, <4>2, <4>3 DEF Revocation
    <3>. QED
      BY Zenon, <3>3, <3>4 DEF Conflict
  <2>2. \A r \in Relays : mem[r].version <= disk[r].version
    BY Zenon, <1>1 DEF SyncInv, GoodRelay, FilesAreGood
  <2>. QED
    BY Zenon, <1>1, <2>1, <2>2 DEF SyncIsSound, UpdatesNeverConflict, SyncInv, RelayTypeOK
<1>. QED
  BY <1>1, SyncInvHolds, PTL

\* A Relay admits no credential of a removal whose revision it counts as applied
\* (on_connect, validate_credential), whatever crashed or was pruned in between.
THEOREM RevokedStayRefused == SyncSpec => []RevokedAreRefused
<1>1. ASSUME SyncInv PROVE RevokedAreRefused
  BY Zenon, <1>1, CoveredIsRefused DEF RevokedAreRefused
<1>. QED
  BY <1>1, SyncInvHolds, PTL

\* ... and keeps no connection of it (disconnect_endpoints), for an endpoint id that was
\* removed as one kind of node only.
THEOREM RevokedStayDisconnected == SyncSpec => []RevokedAreDisconnected
<1>1. ASSUME SyncInv PROVE RevokedAreDisconnected
  BY Zenon, <1>1 DEF RevokedAreDisconnected, SyncInv, GoodRelay, Disconnected
<1>. QED
  BY <1>1, SyncInvHolds, PTL
=============================================================================
