------------------------ MODULE ControlCommitProofs ------------------------
(***************************************************************************)
(* Proofs about module ControlCommit, for every number of nodes, requests  *)
(* and watches, and every limit.                                           *)
(*                                                                         *)
(* Memory equals the database only while nobody is between the two, so the *)
(* invariant says who holds the lock and how far that mutation is.  That a *)
(* sleeper has no news rests on its being armed from before its check      *)
(* until it is notified, and on every removal being published to the feed  *)
(* its node listens to.                                                    *)
(***************************************************************************)
EXTENDS ControlCommit, TLAPS, FiniteSetTheorems

Mutation == [at : {"new", "queued", "ready", "decided", "stored", "done"},
             public : BOOLEAN, change : Changes]
Watch == [at : {"new", "arming", "checking", "asleep", "news", "done"}, node : Nodes \cup {"none"},
          feed : Feeds, known : Nat, armed : BOOLEAN, woken : BOOLEAN]

RequestsOK == mutation \in [Mutations -> Mutation] /\ watch \in [Watches -> Watch]

\* The lock is held by the mutation that has decided or stored its change, and
\* tells how far memory is behind the database.
LockTellsProgress ==
    /\ \A m \in Mutations : lock = m <=> mutation[m].at \in {"decided", "stored"}
    /\ \A m \in Mutations : mutation[m].at = "decided" => mem = db
    /\ \A m \in Mutations : mutation[m].at = "stored" => db = After(mem, mutation[m].change)

\* A permit is held only by a request that was admitted to it.
PermitsAreEarned ==
    \A m \in Mutations : mutation[m].public => mutation[m].at \notin {"new", "queued"}

\* Nothing goes on while Control is down.
DownIsQuiet ==
    ~up => /\ \A m \in Mutations : mutation[m].at \in {"new", "done"}
           /\ \A w \in Watches : watch[w].at \in {"new", "done"}

\* A watch listens to the feed of its node, and is armed, or was notified, from
\* before its check to the end of its sleep.
WatchesListen ==
    \A w \in Watches :
        /\ watch[w].at # "new" =>
             /\ watch[w].node \in Nodes
             /\ watch[w].feed = IF watch[w].node \in RelayNodes THEN "relay" ELSE "node"
        /\ watch[w].at \in {"checking", "asleep"} => watch[w].armed \/ watch[w].woken

Inv ==
    /\ TypeOK /\ RequestsOK
    /\ LockTellsProgress /\ MemoryIsDurable /\ ToldIsDurable
    /\ DownIsQuiet
    /\ WatchesListen /\ SleepersHaveNoNews
    /\ PermitsAreEarned /\ SlotsAreReturned

-----------------------------------------------------------------------------
\* What a committed mutation makes of a state: revisions only grow, a feed it is
\* not published to stays, and a node disappears only with news for both feeds.
LEMMA AfterFacts ==
    ASSUME NEW s \in State, NEW ch \in Changes
    PROVE  /\ After(s, ch) \in State
           /\ \A f \in Feeds : /\ After(s, ch)[f] >= s[f]
                               /\ f \notin ch.publish => After(s, ch)[f] = s[f]
           /\ \A n \in s.members : n \notin After(s, ch).members => ch.publish = Feeds
<1>1. /\ ch.add \in SUBSET Nodes /\ ch.del \in SUBSET Nodes /\ ch.publish \in SUBSET Feeds
      /\ ch.del # {} => ch.publish = Feeds
  BY DEF Changes, Feeds
<1>2. s.members \in SUBSET Nodes /\ s.node \in Nat /\ s.relay \in Nat
  BY Zenon DEF State
<1>3. After(s, ch).members = (s.members \cup ch.add) \ ch.del
  BY Zenon DEF After
<1>4. /\ After(s, ch).node = Bump(s.node, "node", ch)
      /\ After(s, ch).relay = Bump(s.relay, "relay", ch)
  BY Zenon DEF After
<1>5. After(s, ch) \in State
  BY <1>1, <1>2 DEF After, State, Bump
<1>6. \A f \in Feeds : /\ After(s, ch)[f] >= s[f]
                       /\ f \notin ch.publish => After(s, ch)[f] = s[f]
  BY <1>2, <1>4 DEF Feeds, Bump
<1>. QED
  BY Zenon, <1>1, <1>3, <1>5, <1>6

\* Counting the members of a finite set that gains or loses one.
LEMMA Counting ==
    ASSUME NEW U, IsFiniteSet(U), NEW S \in SUBSET U, NEW T \in SUBSET U
    PROVE  /\ Cardinality(S) \in Nat /\ Cardinality(T) \in Nat
           /\ \A x : x \notin S /\ T = S \cup {x} => Cardinality(T) = Cardinality(S) + 1
           /\ \A x : x \in S /\ T = S \ {x} => Cardinality(T) = Cardinality(S) - 1
<1>1. IsFiniteSet(S) /\ IsFiniteSet(T)
  BY Zenon, FS_Subset
<1>. QED
  BY <1>1, FS_CardinalityType, FS_AddElement, FS_RemoveElement

-----------------------------------------------------------------------------
\* The requests that hold a place in the queue, the mutation permit, and a watch
\* slot of node n.
Queued == {m \in Mutations : mutation[m].at = "queued"}
Running ==
    {m \in Mutations : mutation[m].public /\ mutation[m].at \in {"ready", "decided", "stored"}}
Open(n) == {w \in Watches : watch[w].at \notin {"new", "done"} /\ watch[w].node = n}

\* The slots in use are those of the requests under way, counted.
LEMMA SlotsAreCounted ==
    /\ SlotsAreReturned <=> /\ waiting = Cardinality(Queued)
                            /\ active = Cardinality(Running)
                            /\ \A n \in Nodes : counts[n] = Cardinality(Open(n))
    /\ SlotsAreReturned' <=> /\ waiting' = Cardinality(Queued')
                             /\ active' = Cardinality(Running')
                             /\ \A n \in Nodes : counts'[n] = Cardinality(Open(n)')
BY Zenon DEF SlotsAreReturned, Queued, Running, Open

\* A fresh Control has no requests, and memory that was just loaded.
LEMMA InitInv == Init => Inv
<1> SUFFICES ASSUME Init PROVE Inv
  BY Zenon
<1>1. db \in State /\ mem = db /\ 0 \in 0..MutationWaiting /\ 0 \in 0..1
      /\ 0 \in 0..WatchesPerEndpoint
  BY RequestAssumption, LimitAssumption, FS_CardinalityType DEF Init, State
<1>2. RequestsOK
  BY Zenon DEF Init, RequestsOK, NewMutation, NewWatch, Mutation, Watch, Changes, Feeds
<1>3. TypeOK
  BY Zenon, <1>1 DEF Init, TypeOK
<1>4. Queued = {} /\ Running = {} /\ \A n \in Nodes : Open(n) = {}
  BY Zenon DEF Init, Queued, Running, Open, NewMutation, NewWatch
<1>5. SlotsAreReturned
  BY Zenon, <1>4, SlotsAreCounted, FS_EmptySet DEF Init
<1>6. LockTellsProgress /\ MemoryIsDurable /\ DownIsQuiet /\ PermitsAreEarned
  BY Zenon, RequestAssumption
     DEF Init, LockTellsProgress, MemoryIsDurable, DownIsQuiet, PermitsAreEarned, NewMutation
<1>7. ToldIsDurable
  BY <1>1 DEF Init, ToldIsDurable, State, Feeds
<1>8. WatchesListen /\ SleepersHaveNoNews
  BY Zenon DEF Init, WatchesListen, SleepersHaveNoNews, NewWatch
<1>. QED
  BY Zenon, <1>2, <1>3, <1>5, <1>6, <1>7, <1>8 DEF Inv

\* Before a request has the lock it moves between the queue and the permit.
LEMMA WaitingInv ==
    ASSUME Inv, NEW m \in Mutations, Queue(m) \/ GiveUp(m) \/ Admit(m) \/ Local(m)
    PROVE  Inv'
<1> USE DEF Inv
<1>1. UNCHANGED <<up, db, mem, lock, counts, watch, told>>
  BY Zenon DEF Queue, GiveUp, Admit, Local
<1>2. /\ mutation' \in [Mutations -> Mutation]
      /\ \A j \in Mutations \ {m} : mutation'[j] = mutation[j]
      /\ mutation[m].at \in {"new", "queued"} /\ ~mutation[m].public
      /\ mutation'[m].at \in {"queued", "ready", "done"}
      /\ up \/ mutation[m].at = "queued"
  BY DEF Queue, GiveUp, Admit, Local, RequestsOK, Mutation, PermitsAreEarned
<1>3. up
  BY Zenon, <1>2 DEF DownIsQuiet
<1>4. /\ waiting \in Nat /\ Queued \in SUBSET Mutations /\ Queued' \in SUBSET Mutations
      /\ Running \in SUBSET Mutations /\ Running' \in SUBSET Mutations
  BY DEF TypeOK, Queued, Running
<1>5. waiting' = Cardinality(Queued') /\ waiting' \in 0..MutationWaiting
  <2>1. CASE Queue(m)
    <3>1. Queued' = Queued \cup {m} /\ m \notin Queued
      BY Zenon, <2>1 DEF Queue, Queued, RequestsOK, Mutation
    <3>2. waiting' = waiting + 1 /\ waiting < MutationWaiting /\ waiting = Cardinality(Queued)
      BY Zenon, <2>1, SlotsAreCounted DEF Queue
    <3>. QED
      BY <3>1, <3>2, <1>4, Counting, RequestAssumption, LimitAssumption
  <2>2. CASE GiveUp(m) \/ Admit(m)
    <3>1. Queued' = Queued \ {m} /\ m \in Queued
      BY <2>2 DEF GiveUp, Admit, Queued, RequestsOK, Mutation
    <3>2. waiting' = waiting - 1 /\ waiting = Cardinality(Queued)
      BY Zenon, <2>2, SlotsAreCounted DEF GiveUp, Admit
    <3>3. Cardinality(Queued') = Cardinality(Queued) - 1 /\ Cardinality(Queued') \in Nat
      BY Zenon, <3>1, <1>4, Counting, RequestAssumption
    <3>4. waiting \in 0..MutationWaiting
      BY Zenon DEF TypeOK
    <3>. QED
      BY <3>2, <3>3, <3>4, LimitAssumption
  <2>3. CASE Local(m)
    <3>1. Queued' = Queued
      BY Zenon, <2>3 DEF Local, Queued, RequestsOK, Mutation
    <3>. QED
      BY Zenon, <2>3, <3>1, SlotsAreCounted DEF Local, TypeOK
  <2>. QED
    BY Zenon, <2>1, <2>2, <2>3
<1>6. active' = Cardinality(Running') /\ active' \in 0..1
  <2>1. CASE Admit(m)
    <3>1. Running' = Running \cup {m} /\ m \notin Running
      BY <2>1, <1>2 DEF Admit, Running, RequestsOK, Mutation
    <3>2. active' = 1 /\ 0 = Cardinality(Running)
      BY Zenon, <2>1, SlotsAreCounted DEF Admit
    <3>. QED
      BY <3>1, <3>2, <1>4, Counting, RequestAssumption
  <2>2. CASE Queue(m) \/ GiveUp(m) \/ Local(m)
    <3>1. Running' = Running /\ active' = active
      BY <2>2, <1>2 DEF Queue, GiveUp, Local, Running, RequestsOK, Mutation
    <3>. QED
      BY Zenon, <3>1, SlotsAreCounted DEF TypeOK
  <2>. QED
    BY Zenon, <2>1, <2>2
<1>7. \A n \in Nodes : Open(n)' = Open(n)
  BY Zenon, <1>1 DEF Open
<1>8. SlotsAreReturned'
  BY Zenon, <1>1, <1>5, <1>6, <1>7, SlotsAreCounted
<1>9. TypeOK' /\ RequestsOK'
  BY Zenon, <1>1, <1>2, <1>5, <1>6 DEF TypeOK, RequestsOK
<1>10. LockTellsProgress' /\ MemoryIsDurable' /\ DownIsQuiet' /\ ToldIsDurable'
  BY Zenon, <1>1, <1>2, <1>3 DEF LockTellsProgress, MemoryIsDurable, DownIsQuiet, ToldIsDurable
<1>11. PermitsAreEarned'
  BY <1>2 DEF PermitsAreEarned, Queue, GiveUp, Admit, Local, RequestsOK, Mutation
<1>12. WatchesListen' /\ SleepersHaveNoNews'
  BY Zenon, <1>1 DEF WatchesListen, SleepersHaveNoNews
<1>. QED
  BY Zenon, <1>8, <1>9, <1>10, <1>11, <1>12

\* A request that decides, stores or ends keeps or frees the permit it has.
LEMMA PermitFollows ==
    ASSUME Inv, NEW m \in Mutations, mutation[m].at \in {"ready", "decided", "stored"},
           mutation' \in [Mutations -> Mutation],
           \A j \in Mutations \ {m} : mutation'[j] = mutation[j],
           mutation'[m].public = mutation[m].public,
           \/ mutation'[m].at \in {"ready", "decided", "stored"} /\ active' = active
           \/ mutation'[m].at = "done" /\ active' = IF mutation[m].public THEN 0 ELSE active,
           waiting' = waiting
    PROVE  /\ waiting' = Cardinality(Queued') /\ active' = Cardinality(Running')
           /\ active' \in 0..1 /\ PermitsAreEarned'
<1> USE DEF Inv
<1>1. Queued' = Queued
  BY Zenon DEF Queued
<1>2. Running \in SUBSET Mutations /\ Running' \in SUBSET Mutations
  BY Zenon DEF Running
<1>3. active = Cardinality(Running) /\ active \in 0..1 /\ waiting = Cardinality(Queued)
  BY Zenon, SlotsAreCounted DEF TypeOK
<1>4. active' = Cardinality(Running') /\ active' \in 0..1
  <2>1. CASE ~mutation[m].public \/ mutation'[m].at # "done"
    <3>1. Running' = Running
      BY Zenon, <2>1 DEF Running
    <3>. QED
      BY Zenon, <2>1, <3>1, <1>3
  <2>2. CASE mutation[m].public /\ mutation'[m].at = "done"
    <3>1. Running' = Running \ {m} /\ m \in Running
      BY Zenon, <2>2 DEF Running
    <3>. QED
      BY <2>2, <3>1, <1>2, <1>3, Counting, RequestAssumption
  <2>. QED
    BY Zenon, <2>1, <2>2
<1>. QED
  BY Zenon, <1>1, <1>3, <1>4 DEF PermitsAreEarned

\* The checks and the refusals of a handler, and a transaction that fails.
LEMMA DecideInv ==
    ASSUME Inv, NEW m \in Mutations,
           Refuse(m) \/ StoreFails(m) \/ \E ch \in Changes : Decide(m, ch)
    PROVE  Inv'
<1> USE DEF Inv
<1>1. UNCHANGED <<up, db, mem, waiting, counts, watch, told>>
  BY Zenon DEF Refuse, StoreFails, Decide
<1>2. /\ mutation' \in [Mutations -> Mutation]
      /\ \A j \in Mutations \ {m} : mutation'[j] = mutation[j]
      /\ mutation'[m].public = mutation[m].public
      /\ mutation[m].at \in {"ready", "decided"}
  BY DEF Refuse, StoreFails, Decide, Finished, RequestsOK, Mutation
<1>3. up
  BY Zenon, <1>2 DEF DownIsQuiet
<1>4. lock = "free" \/ lock = m
  BY Zenon DEF Refuse, StoreFails, Decide, LockTellsProgress
<1>5. mem = db
  BY Zenon, <1>3, <1>4 DEF Refuse, StoreFails, Decide, LockTellsProgress, MemoryIsDurable
<1>6. \/ mutation'[m].at = "decided" /\ lock' = m /\ active' = active
      \/ /\ mutation'[m].at = "done" /\ lock' = "free"
         /\ active' = IF mutation[m].public THEN 0 ELSE active
  BY DEF Refuse, StoreFails, Decide, Finished, RequestsOK, Mutation
<1>7. /\ waiting' = Cardinality(Queued') /\ active' = Cardinality(Running')
      /\ active' \in 0..1 /\ PermitsAreEarned'
  BY Zenon, <1>1, <1>2, <1>6, PermitFollows
<1>8. \A n \in Nodes : Open(n)' = Open(n)
  BY Zenon, <1>1 DEF Open
<1>9. SlotsAreReturned'
  BY Zenon, <1>1, <1>7, <1>8, SlotsAreCounted
<1>10. TypeOK' /\ RequestsOK'
  BY Zenon, <1>1, <1>2, <1>6, <1>7 DEF TypeOK, RequestsOK
<1>11. LockTellsProgress'
  BY ZenonT(60), <1>1, <1>2, <1>4, <1>5, <1>6, RequestAssumption DEF LockTellsProgress
<1>12. MemoryIsDurable' /\ DownIsQuiet' /\ ToldIsDurable'
  BY Zenon, <1>1, <1>2, <1>3, <1>5 DEF MemoryIsDurable, DownIsQuiet, ToldIsDurable
<1>13. WatchesListen' /\ SleepersHaveNoNews'
  BY Zenon, <1>1 DEF WatchesListen, SleepersHaveNoNews
<1>. QED
  BY Zenon, <1>7, <1>9, <1>10, <1>11, <1>12, <1>13

\* The transaction: database and memory part, and the lock says by how much.
LEMMA StoreInv ==
    ASSUME Inv, NEW m \in Mutations, Store(m)
    PROVE  Inv'
<1> USE DEF Inv
<1>1. UNCHANGED <<up, mem, lock, waiting, active, counts, watch, told>>
  BY Zenon DEF Store
<1>2. /\ mutation' \in [Mutations -> Mutation]
      /\ \A j \in Mutations \ {m} : mutation'[j] = mutation[j]
      /\ mutation[m].at = "decided" /\ mutation'[m].at = "stored"
      /\ mutation'[m].change = mutation[m].change /\ mutation'[m].public = mutation[m].public
      /\ mutation[m].change \in Changes
  BY Zenon DEF Store, RequestsOK, Mutation
<1>3. up /\ lock = m /\ mem = db /\ db' = After(mem, mutation'[m].change)
  BY Zenon, <1>2 DEF Store, LockTellsProgress, DownIsQuiet
<1>4. db' \in State /\ \A f \in Feeds : db'[f] >= db[f]
  BY Zenon, <1>2, <1>3, AfterFacts DEF TypeOK
<1>5. /\ waiting' = Cardinality(Queued') /\ active' = Cardinality(Running')
      /\ PermitsAreEarned'
  BY Zenon, <1>1, <1>2, PermitFollows
<1>6. \A n \in Nodes : Open(n)' = Open(n)
  BY Zenon, <1>1 DEF Open
<1>7. SlotsAreReturned'
  BY Zenon, <1>1, <1>5, <1>6, SlotsAreCounted
<1>8. TypeOK' /\ RequestsOK'
  BY Zenon, <1>1, <1>2, <1>4 DEF TypeOK, RequestsOK
<1>9. LockTellsProgress'
  BY Zenon, <1>1, <1>2, <1>3, RequestAssumption DEF LockTellsProgress
<1>10. MemoryIsDurable' /\ DownIsQuiet'
  BY Zenon, <1>1, <1>3, RequestAssumption DEF MemoryIsDurable, DownIsQuiet
<1>11. ToldIsDurable'
  <2> SUFFICES ASSUME NEW f \in Feeds PROVE told[f] <= db'[f]
    BY Zenon, <1>1 DEF ToldIsDurable
  <2>1. told[f] \in Nat /\ db[f] \in Nat /\ db'[f] \in Nat
    BY Zenon, <1>4 DEF TypeOK, State, Feeds
  <2>2. told[f] <= db[f] /\ db'[f] >= db[f]
    BY Zenon, <1>4 DEF ToldIsDurable
  <2>. QED
    BY <2>1, <2>2
<1>12. WatchesListen' /\ SleepersHaveNoNews'
  BY Zenon, <1>1 DEF WatchesListen, SleepersHaveNoNews
<1>. QED
  BY Zenon, <1>5, <1>7, <1>8, <1>9, <1>10, <1>11, <1>12

\* Memory catches up, and everybody is notified whom the change concerns: who stays
\* asleep listens to a feed that the change left alone, so its node is still there.
LEMMA ApplyInv ==
    ASSUME Inv, NEW m \in Mutations, Apply(m)
    PROVE  Inv'
<1> USE DEF Inv
<1> DEFINE ch == mutation[m].change
<1>1. /\ UNCHANGED <<up, db, waiting, counts, told>>
      /\ mem' = After(mem, ch) /\ watch' = Notified(ch.publish) /\ lock' = "free"
      /\ active' = IF mutation[m].public THEN 0 ELSE active
  BY Zenon DEF Apply, Finished
<1>2. /\ mutation' \in [Mutations -> Mutation]
      /\ \A j \in Mutations \ {m} : mutation'[j] = mutation[j]
      /\ mutation[m].at = "stored" /\ mutation'[m].at = "done"
      /\ mutation'[m].public = mutation[m].public
      /\ ch \in Changes
  BY Zenon DEF Apply, Finished, RequestsOK, Mutation
<1>3. up /\ lock = m /\ mem' = db
  BY Zenon, <1>1, <1>2 DEF LockTellsProgress, DownIsQuiet
<1>4. \A w \in Watches :
        /\ watch'[w] \in Watch
        /\ watch'[w].at = watch[w].at /\ watch'[w].node = watch[w].node
        /\ watch'[w].feed = watch[w].feed /\ watch'[w].known = watch[w].known
        /\ watch[w].armed /\ watch[w].feed \in ch.publish => watch'[w].woken
        /\ ~(watch[w].armed /\ watch[w].feed \in ch.publish) => watch'[w] = watch[w]
  BY ZenonT(60), <1>1 DEF Notified, RequestsOK, Watch
<1>5. watch' \in [Watches -> Watch]
  BY Zenon, <1>1, <1>4 DEF Notified
<1>6. /\ waiting' = Cardinality(Queued') /\ active' = Cardinality(Running')
      /\ active' \in 0..1 /\ PermitsAreEarned'
  BY Zenon, <1>1, <1>2, PermitFollows
<1>7. \A n \in Nodes : Open(n)' = Open(n)
  BY Zenon, <1>4 DEF Open
<1>8. SlotsAreReturned'
  BY Zenon, <1>1, <1>6, <1>7, SlotsAreCounted
<1>9. TypeOK' /\ RequestsOK'
  BY Zenon, <1>1, <1>2, <1>3, <1>5, <1>6 DEF TypeOK, RequestsOK
<1>10. LockTellsProgress' /\ MemoryIsDurable' /\ DownIsQuiet' /\ ToldIsDurable'
  BY Zenon, <1>1, <1>2, <1>3, RequestAssumption
     DEF LockTellsProgress, MemoryIsDurable, DownIsQuiet, ToldIsDurable
<1>11. WatchesListen'
  BY Zenon, <1>4 DEF WatchesListen
<1>12. SleepersHaveNoNews'
  <2> SUFFICES ASSUME NEW w \in Watches, watch'[w].at = "asleep", ~watch'[w].woken
               PROVE  mem'[watch'[w].feed] <= watch'[w].known /\ watch'[w].node \in mem'.members
    BY Zenon DEF SleepersHaveNoNews
  <2>1. watch[w].at = "asleep" /\ watch'[w] = watch[w] /\ watch[w].feed \in Feeds
    BY Zenon, <1>4 DEF RequestsOK, Watch
  <2>2. watch[w].feed \notin ch.publish
    BY Zenon, <1>4, <2>1 DEF WatchesListen
  <2>3. mem[watch[w].feed] <= watch[w].known /\ watch[w].node \in mem.members
    BY Zenon, <2>1 DEF SleepersHaveNoNews
  <2>4. mem'[watch[w].feed] = mem[watch[w].feed] /\ watch[w].node \in mem'.members
    BY Zenon, <1>1, <1>2, <2>1, <2>2, <2>3, AfterFacts DEF TypeOK
  <2>. QED
    BY Zenon, <2>1, <2>3, <2>4
<1>. QED
  BY Zenon, <1>6, <1>8, <1>9, <1>10, <1>11, <1>12

-----------------------------------------------------------------------------
\* A step of one watch that keeps its slot leaves the counts right.
LEMMA OpenStays ==
    ASSUME Inv, NEW w \in Watches, watch' \in [Watches -> Watch],
           \A v \in Watches \ {w} : watch'[v] = watch[v],
           watch[w].at \notin {"new", "done"}, watch'[w].at \notin {"new", "done"},
           watch'[w].node = watch[w].node,
           UNCHANGED <<mutation, counts, waiting, active>>
    PROVE  SlotsAreReturned'
<1>1. Queued' = Queued /\ Running' = Running /\ \A n \in Nodes : Open(n)' = Open(n)
  BY Zenon DEF Queued, Running, Open
<1>. QED
  BY Zenon, <1>1, SlotsAreCounted DEF Inv

\* The end of a watch gives its slot back (WatchSlot::drop).
LEMMA WatchEndSlots ==
    ASSUME Inv, NEW w \in Watches, watch[w].at \notin {"new", "done"}, WatchEnd(w),
           UNCHANGED <<mutation, waiting, active>>
    PROVE  /\ SlotsAreReturned' /\ counts' \in [Nodes -> 0..WatchesPerEndpoint]
           /\ watch' \in [Watches -> Watch] /\ WatchesListen'
           /\ \A v \in Watches \ {w} : watch'[v] = watch[v]
           /\ watch'[w].at = "done"
<1> USE DEF Inv
<1> DEFINE n == watch[w].node
<1>1. /\ watch' \in [Watches -> Watch]
      /\ \A v \in Watches \ {w} : watch'[v] = watch[v]
      /\ watch'[w].at = "done" /\ watch'[w].node = n /\ watch'[w].feed = watch[w].feed
      /\ n \in Nodes
  <2>1. watch[w] \in Watch /\ n \in Nodes
    BY Zenon DEF RequestsOK, WatchesListen
  <2>2. watch' = [watch EXCEPT ![w] = [watch[w] EXCEPT !.at = "done", !.armed = FALSE]]
    BY Zenon DEF WatchEnd, RequestsOK
  <2>3. /\ [watch[w] EXCEPT !.at = "done", !.armed = FALSE] \in Watch
        /\ [watch[w] EXCEPT !.at = "done", !.armed = FALSE].at = "done"
        /\ [watch[w] EXCEPT !.at = "done", !.armed = FALSE].node = n
        /\ [watch[w] EXCEPT !.at = "done", !.armed = FALSE].feed = watch[w].feed
    BY Zenon, <2>1 DEF Watch
  <2>. QED
    BY Zenon, <2>1, <2>2, <2>3 DEF RequestsOK
<1>2. counts' = [counts EXCEPT ![n] = counts[n] - 1]
  BY Zenon DEF WatchEnd
<1>3. Open(n)' = Open(n) \ {w} /\ w \in Open(n) /\ \A k \in Nodes \ {n} : Open(k)' = Open(k)
  BY Zenon, <1>1 DEF Open
<1>4. /\ Cardinality(Open(n)') = Cardinality(Open(n)) - 1
      /\ Cardinality(Open(n)) \in Nat /\ Cardinality(Open(n)') \in Nat
  <2>1. Open(n) \in SUBSET Watches /\ Open(n)' \in SUBSET Watches
    BY Zenon DEF Open
  <2>. QED
    BY <1>3, <2>1, Counting, RequestAssumption
<1>5. \A k \in Nodes : counts[k] = Cardinality(Open(k)) /\ counts[k] \in 0..WatchesPerEndpoint
  BY Zenon, SlotsAreCounted DEF TypeOK
<1>6. counts' \in [Nodes -> 0..WatchesPerEndpoint]
      /\ \A k \in Nodes : counts'[k] = Cardinality(Open(k)')
  <2>1. counts[n] - 1 = Cardinality(Open(n)') /\ counts[n] - 1 \in 0..WatchesPerEndpoint
    BY <1>1, <1>4, <1>5, LimitAssumption
  <2>. QED
    BY Zenon, <1>1, <1>2, <1>3, <1>5, <2>1 DEF TypeOK
<1>7. Queued' = Queued /\ Running' = Running
  BY Zenon DEF Queued, Running
<1>8. SlotsAreReturned'
  BY Zenon, <1>6, <1>7, SlotsAreCounted
<1>9. WatchesListen'
  BY Zenon, <1>1 DEF WatchesListen
<1>. QED
  BY Zenon, <1>1, <1>6, <1>8, <1>9

\* A watch starts with a free slot of its node.
LEMMA WatchStartInv ==
    ASSUME Inv, NEW w \in Watches, NEW n \in Nodes, NEW known \in Nat, WatchStart(w, n, known)
    PROVE  Inv'
<1> USE DEF Inv
<1>1. UNCHANGED <<up, db, mem, lock, waiting, active, mutation, told>> /\ up
  BY Zenon DEF WatchStart
<1>2. /\ watch' \in [Watches -> Watch]
      /\ \A v \in Watches \ {w} : watch'[v] = watch[v]
      /\ watch[w].at = "new" /\ watch'[w].at = "arming" /\ watch'[w].node = n
      /\ watch'[w].feed = IF n \in RelayNodes THEN "relay" ELSE "node"
  BY Zenon DEF WatchStart, RequestsOK, Watch, Feeds
<1>3. counts' = [counts EXCEPT ![n] = counts[n] + 1] /\ counts[n] < WatchesPerEndpoint
  BY Zenon DEF WatchStart
<1>4. Open(n)' = Open(n) \cup {w} /\ w \notin Open(n) /\ \A k \in Nodes \ {n} : Open(k)' = Open(k)
  BY Zenon, <1>2 DEF Open
<1>5. Cardinality(Open(n)') = Cardinality(Open(n)) + 1 /\ Cardinality(Open(n)) \in Nat
  <2>1. Open(n) \in SUBSET Watches /\ Open(n)' \in SUBSET Watches
    BY Zenon DEF Open
  <2>. QED
    BY <1>4, <2>1, Counting, RequestAssumption
<1>6. \A k \in Nodes : counts[k] = Cardinality(Open(k)) /\ counts[k] \in 0..WatchesPerEndpoint
  BY Zenon, SlotsAreCounted DEF TypeOK
<1>7. counts' \in [Nodes -> 0..WatchesPerEndpoint]
      /\ \A k \in Nodes : counts'[k] = Cardinality(Open(k)')
  <2>1. counts[n] + 1 = Cardinality(Open(n)') /\ counts[n] + 1 \in 0..WatchesPerEndpoint
    BY <1>3, <1>5, <1>6, LimitAssumption
  <2>. QED
    BY Zenon, <1>3, <1>4, <1>6, <2>1 DEF TypeOK
<1>8. Queued' = Queued /\ Running' = Running
  BY Zenon, <1>1 DEF Queued, Running
<1>9. SlotsAreReturned'
  BY Zenon, <1>1, <1>7, <1>8, SlotsAreCounted
<1>10. TypeOK' /\ RequestsOK'
  BY Zenon, <1>1, <1>2, <1>7 DEF TypeOK, RequestsOK
<1>11. LockTellsProgress' /\ MemoryIsDurable' /\ DownIsQuiet' /\ ToldIsDurable' /\ PermitsAreEarned'
  BY Zenon, <1>1, <1>2 DEF LockTellsProgress, MemoryIsDurable, DownIsQuiet, ToldIsDurable, PermitsAreEarned
<1>12. WatchesListen' /\ SleepersHaveNoNews'
  BY ZenonT(60), <1>1, <1>2 DEF WatchesListen, SleepersHaveNoNews
<1>. QED
  BY Zenon, <1>9, <1>10, <1>11, <1>12

\* A watch that arms, or that is woken and starts over, keeps its slot.
LEMMA WatchArmInv ==
    ASSUME Inv, NEW w \in Watches, WatchArm(w) \/ WatchWake(w)
    PROVE  Inv'
<1> USE DEF Inv
<1>1. UNCHANGED <<up, db, mem, lock, waiting, active, mutation, counts, told>>
  BY Zenon DEF WatchArm, WatchWake
<1>2. /\ watch' \in [Watches -> Watch]
      /\ \A v \in Watches \ {w} : watch'[v] = watch[v]
      /\ watch'[w].node = watch[w].node /\ watch'[w].feed = watch[w].feed
      /\ watch[w].at \in {"arming", "asleep"}
      /\ watch'[w].at = "arming" \/ (watch'[w].at = "checking" /\ watch'[w].armed)
  <2>1. watch[w] \in Watch
    BY Zenon DEF RequestsOK
  <2>2. CASE WatchArm(w)
    <3> DEFINE r == [watch[w] EXCEPT !.at = "checking", !.armed = TRUE, !.woken = FALSE]
    <3>1. watch' = [watch EXCEPT ![w] = r] /\ watch[w].at = "arming"
      BY Zenon, <2>2 DEF WatchArm, RequestsOK
    <3>2. /\ r \in Watch /\ r.at = "checking" /\ r.armed
          /\ r.node = watch[w].node /\ r.feed = watch[w].feed
      BY Zenon, <2>1 DEF Watch
    <3> HIDE DEF r
    <3>. QED
      BY Zenon, <3>1, <3>2 DEF RequestsOK
  <2>3. CASE WatchWake(w)
    <3> DEFINE r == [watch[w] EXCEPT !.at = "arming"]
    <3>1. watch' = [watch EXCEPT ![w] = r] /\ watch[w].at = "asleep"
      BY Zenon, <2>3 DEF WatchWake, RequestsOK
    <3>2. r \in Watch /\ r.at = "arming" /\ r.node = watch[w].node /\ r.feed = watch[w].feed
      BY Zenon, <2>1 DEF Watch
    <3> HIDE DEF r
    <3>. QED
      BY Zenon, <3>1, <3>2 DEF RequestsOK
  <2>. QED
    BY Zenon, <2>2, <2>3
<1>3. SlotsAreReturned'
  BY Zenon, <1>1, <1>2, OpenStays
<1>4. TypeOK' /\ RequestsOK'
  BY Zenon, <1>1, <1>2 DEF TypeOK, RequestsOK
<1>5. LockTellsProgress' /\ MemoryIsDurable' /\ DownIsQuiet' /\ ToldIsDurable' /\ PermitsAreEarned'
  BY Zenon, <1>1, <1>2 DEF LockTellsProgress, MemoryIsDurable, DownIsQuiet, ToldIsDurable, PermitsAreEarned
<1>6. WatchesListen' /\ SleepersHaveNoNews'
  BY <1>1, <1>2 DEF WatchesListen, SleepersHaveNoNews
<1>. QED
  BY Zenon, <1>3, <1>4, <1>5, <1>6

\* A watch that ends: refused, timed out, hung up, or answered with a revision that
\* is in the database because the lock was free.
LEMMA WatchEndInv ==
    ASSUME Inv, NEW w \in Watches, watch[w].at \notin {"new", "done"}, WatchEnd(w),
           UNCHANGED <<up, db, mem, lock, waiting, active, mutation>>,
           told' = told \/ (lock = "free" /\ \E f \in Feeds : told' = [told EXCEPT ![f] = mem[f]])
    PROVE  Inv'
<1> USE DEF Inv
<1>1. /\ SlotsAreReturned' /\ counts' \in [Nodes -> 0..WatchesPerEndpoint]
      /\ watch' \in [Watches -> Watch] /\ WatchesListen'
      /\ \A v \in Watches \ {w} : watch'[v] = watch[v]
      /\ watch'[w].at = "done"
  BY Zenon, WatchEndSlots
<1>2. told' \in [Feeds -> Nat] /\ ToldIsDurable'
  <2>1. up
    BY Zenon DEF DownIsQuiet
  <2>2. ASSUME NEW f \in Feeds, lock = "free", told' = [told EXCEPT ![f] = mem[f]]
        PROVE  told' \in [Feeds -> Nat] /\ ToldIsDurable'
    <3>1. mem = db
      BY Zenon, <2>1, <2>2 DEF MemoryIsDurable
    <3>2. \A g \in Feeds : db[g] \in Nat
      BY Zenon DEF TypeOK, State, Feeds
    <3>. QED
      BY <2>2, <3>1, <3>2 DEF ToldIsDurable, TypeOK
  <2>. QED
    BY Zenon, <2>2 DEF ToldIsDurable, TypeOK
<1>3. TypeOK' /\ RequestsOK'
  BY Zenon, <1>1, <1>2 DEF TypeOK, RequestsOK
<1>4. LockTellsProgress' /\ MemoryIsDurable' /\ DownIsQuiet' /\ PermitsAreEarned'
  BY Zenon, <1>1 DEF LockTellsProgress, MemoryIsDurable, DownIsQuiet, PermitsAreEarned
<1>5. SleepersHaveNoNews'
  BY Zenon, <1>1 DEF SleepersHaveNoNews
<1>. QED
  BY Zenon, <1>1, <1>2, <1>3, <1>4, <1>5

\* Only a node that is registered and has seen everything goes to sleep.
LEMMA WatchCheckInv ==
    ASSUME Inv, NEW w \in Watches, WatchCheck(w)
    PROVE  Inv'
<1> USE DEF Inv
<1>1. UNCHANGED <<up, db, mem, lock, waiting, active, mutation, told>> /\ watch[w].at = "checking"
  BY Zenon DEF WatchCheck
<1>2. CASE WatchEnd(w)
  BY Zenon, <1>1, <1>2, WatchEndInv
<1>3. ASSUME ~WatchEnd(w) PROVE Inv'
  <2>1. /\ watch' \in [Watches -> Watch]
        /\ \A v \in Watches \ {w} : watch'[v] = watch[v]
        /\ watch'[w].node = watch[w].node /\ watch'[w].feed = watch[w].feed
        /\ watch'[w].known = watch[w].known
        /\ \/ watch'[w].at = "news"
           \/ /\ watch'[w].at = "asleep" /\ watch'[w].armed = watch[w].armed
              /\ watch'[w].woken = watch[w].woken
              /\ watch[w].node \in mem.members /\ mem[watch[w].feed] <= watch[w].known
        /\ UNCHANGED counts
    BY <1>3 DEF WatchCheck, RequestsOK, Watch
  <2>2. SlotsAreReturned'
    BY Zenon, <1>1, <2>1, OpenStays
  <2>3. TypeOK' /\ RequestsOK'
    BY Zenon, <1>1, <2>1 DEF TypeOK, RequestsOK
  <2>4. LockTellsProgress' /\ MemoryIsDurable' /\ DownIsQuiet' /\ ToldIsDurable'
        /\ PermitsAreEarned'
    BY Zenon, <1>1, <2>1
       DEF LockTellsProgress, MemoryIsDurable, DownIsQuiet, ToldIsDurable, PermitsAreEarned
  <2>5. WatchesListen'
    BY <1>1, <2>1 DEF WatchesListen
  <2>6. SleepersHaveNoNews'
    BY Zenon, <1>1, <2>1 DEF SleepersHaveNoNews
  <2>. QED
    BY Zenon, <2>2, <2>3, <2>4, <2>5, <2>6
<1>. QED
  BY Zenon, <1>2, <1>3

\* All that a watch can do.
LEMMA WatchInv ==
    ASSUME Inv, WatchNext
    PROVE  Inv'
<1>1. ASSUME NEW w \in Watches, NEW n \in Nodes,
             NEW known \in {mem[f] : f \in IF n \in RelayNodes THEN {"relay"} ELSE {"node"}},
             WatchStart(w, n, known)
      PROVE  Inv'
  <2>1. known \in Nat
    BY Zenon DEF Inv, TypeOK, State
  <2>. QED
    BY Zenon, <1>1, <2>1, WatchStartInv
<1>2. ASSUME NEW w \in Watches, WatchTimeout(w) PROVE Inv'
  BY Zenon, <1>2, WatchEndInv DEF WatchTimeout
<1>3. ASSUME NEW w \in Watches, WatchAnswer(w) PROVE Inv'
  <2>1. watch[w].feed \in Feeds
    BY Zenon DEF Inv, RequestsOK, Watch
  <2>. QED
    BY Zenon, <1>3, <2>1, WatchEndInv DEF WatchAnswer
<1>. QED
  BY Zenon, <1>1, <1>2, <1>3, WatchArmInv, WatchCheckInv DEF WatchNext

-----------------------------------------------------------------------------
\* A crash ends every request and takes the rest from the database.
LEMMA CrashInv ==
    ASSUME Inv, Crash \/ Restart
    PROVE  Inv'
<1> USE DEF Inv
<1>1. CASE Crash
  <2>1. /\ mutation' \in [Mutations -> Mutation]
        /\ \A m \in Mutations : /\ mutation'[m].at \in {"new", "done"}
                                /\ mutation'[m].public => mutation'[m].at = "done"
    BY ZenonT(30), <1>1 DEF Crash, RequestsOK, Mutation, NewMutation, Changes, Feeds
  <2>2. /\ watch' \in [Watches -> Watch]
        /\ \A w \in Watches : /\ watch'[w].at \in {"new", "done"}
                              /\ watch'[w].at # "new" =>
                                   watch[w].at # "new" /\ watch'[w].node = watch[w].node
                                   /\ watch'[w].feed = watch[w].feed
    BY ZenonT(30), <1>1 DEF Crash, RequestsOK, Watch, NewWatch, Feeds
  <2>3. Queued' = {} /\ Running' = {} /\ \A n \in Nodes : Open(n)' = {}
    BY Zenon, <2>1, <2>2 DEF Queued, Running, Open
  <2>4. SlotsAreReturned'
    BY Zenon, <1>1, <2>3, SlotsAreCounted, FS_EmptySet DEF Crash
  <2>5. TypeOK' /\ RequestsOK'
    <3>1. 0 \in 0..MutationWaiting /\ 0 \in 0..1 /\ 0 \in 0..WatchesPerEndpoint
      BY LimitAssumption
    <3>. QED
      BY Zenon, <1>1, <2>1, <2>2, <3>1 DEF Crash, TypeOK, RequestsOK
  <2>6. LockTellsProgress' /\ MemoryIsDurable' /\ DownIsQuiet' /\ ToldIsDurable'
        /\ PermitsAreEarned'
    BY ZenonT(60), <1>1, <2>1, <2>2, RequestAssumption
       DEF Crash, LockTellsProgress, MemoryIsDurable, DownIsQuiet, ToldIsDurable, PermitsAreEarned
  <2>7. WatchesListen' /\ SleepersHaveNoNews'
    BY Zenon, <2>2 DEF WatchesListen, SleepersHaveNoNews
  <2>. QED
    BY Zenon, <2>4, <2>5, <2>6, <2>7
<1>2. CASE Restart
  <2>1. UNCHANGED <<db, lock, waiting, active, mutation, counts, watch, told>> /\ mem' = db
        /\ ~up /\ up'
    BY Zenon, <1>2 DEF Restart
  <2>2. Queued' = Queued /\ Running' = Running /\ \A n \in Nodes : Open(n)' = Open(n)
    BY Zenon, <2>1 DEF Queued, Running, Open
  <2>3. SlotsAreReturned'
    BY Zenon, <2>1, <2>2, SlotsAreCounted
  <2>4. TypeOK' /\ RequestsOK'
    BY Zenon, <1>2 DEF Restart, TypeOK, RequestsOK
  <2>. QED
    BY Zenon, <2>1, <2>3, <2>4
       DEF LockTellsProgress, MemoryIsDurable, DownIsQuiet, ToldIsDurable, PermitsAreEarned,
           WatchesListen, SleepersHaveNoNews
<1>. QED
  BY Zenon, <1>1, <1>2

\* The invariant is inductive.
LEMMA NextInv == Inv /\ [Next]_vars => Inv'
<1> SUFFICES ASSUME Inv, [Next]_vars PROVE Inv'
  BY Zenon
<1>1. CASE MutationNext
  BY Zenon, <1>1, WaitingInv, DecideInv, StoreInv, ApplyInv DEF MutationNext
<1>2. CASE UNCHANGED vars
  <2>1. UNCHANGED <<up, db, mem, lock, waiting, active, mutation, counts, watch, told>>
    BY Zenon, <1>2 DEF vars
  <2>. QED
    BY ZenonT(60), <2>1 DEF Inv, TypeOK, RequestsOK, LockTellsProgress, MemoryIsDurable, ToldIsDurable,
                DownIsQuiet, WatchesListen, SleepersHaveNoNews, PermitsAreEarned, SlotsAreReturned
<1>. QED
  BY Zenon, <1>1, <1>2, WatchInv, CrashInv DEF Next

\* So it holds in every state Control can be in.
LEMMA InvHolds == Spec => []Inv
BY InitInv, NextInv, PTL DEF Spec

-----------------------------------------------------------------------------
\* Whoever finds the lock free finds memory and database equal, and nobody was told
\* a revision that is not stored, through failed transactions, callers that hang up
\* and crashes (commit_delta, admitted).
THEOREM AnswersStayDurable == Spec => []AnswersAreDurable
BY InvHolds, PTL DEF Inv, AnswersAreDurable

\* No wakeup is lost: who sleeps without having been notified has seen the newest
\* revision of its feed and is still registered (wait_for_revision, commit_delta).
THEOREM NoWakeupIsLost == Spec => []SleepersHaveNoNews
BY InvHolds, PTL DEF Inv

\* Queue places, the mutation permit and watch slots are held by requests under way
\* and by nothing else (admitted, WatchSlot::drop), for any limits.
THEOREM SlotsStayCounted == Spec => []SlotsAreReturned
BY InvHolds, PTL DEF Inv
=============================================================================
